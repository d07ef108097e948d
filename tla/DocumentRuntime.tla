--------------------------- MODULE DocumentRuntime ---------------------------
(***************************************************************************)
(* documents/runtime.rs with the parts it drives: the reconcile gate, the  *)
(* file watcher, the sqlite document cache and the file system they all    *)
(* look at.                                                                *)
(*                                                                         *)
(* The runtime holds one generation at a time.  Every asynchronous task    *)
(* (a start in progress, the watcher listener, the reconcile worker)       *)
(* belongs to one owner, is named here by the owner's nonce, survives the  *)
(* generation it was started for, and compares owners each time it takes   *)
(* the state lock.  One action is one critical section of that lock, one   *)
(* file read, or one message of the watcher.                               *)
(***************************************************************************)
EXTENDS GenerationSlot, ReconcileGate, Sequences

CONSTANTS
  Paths,        \* repository paths of the documents
  NoPath,       \* no document is open
  Ids,          \* document ids in frontmatter
  NoId,         \* a document without an id
  MaxWrites,    \* bound of the model on the changes made to the files
  MaxFaults     \* bound of the model on the errors of the watcher backend

ASSUME RuntimeAssumption ==
  /\ NoPath \notin Paths
  /\ NoId \notin Ids
  /\ MaxWrites \in Nat
  /\ MaxFaults \in Nat

VARIABLES
  fs,           \* the document at each path of the repository
  writes,       \* changes made to the files so far; stamps the next version
  former,       \* history: the versions each path held before; only Fresh reads it
  faults,       \* watcher backend errors so far
  cache,        \* the sqlite file: identity, one row per path, the open path
  mutation,     \* nonce of the cache opener holding startup_mutations, or 0
  starter,      \* finish_reserved_session of each nonce
  gate,         \* ReconcileGate of the active session
  watch,        \* watcher fields of the active session
  snapshot,     \* DocumentSessionSnapshot of the active session
  notice,       \* last outcome of a reconcile sent to the subscribers
  marks,        \* degradation ids given out
  listener,     \* watch_changes, its channel and the native watcher per nonce
  worker,       \* run_reconcile_worker per nonce
  batch         \* workers at body_read_batches, first come first served; the head holds it

sessionVars == <<gate, watch, snapshot, notice, marks>>
fileVars == <<fs, writes, former>>
diskVars == <<fileVars, faults, cache>>
startVars == <<mutation, starter>>
workVars == <<worker, batch>>
vars == <<slotVars, diskVars, startVars, sessionVars, listener, workVars>>

-----------------------------------------------------------------------------
(***************************************************************************)
(* Data.  A document is the version its content and metadata carry (0 when *)
(* the file is absent) and the id in its frontmatter.  A cache row keeps   *)
(* the summary it was indexed under and the version of the indexed body.   *)
(***************************************************************************)

Versions == 0..(MaxWrites + 1)
Docs == [ver : Versions, id : Ids \cup {NoId}]
Absent == [ver |-> 0, id |-> NoId]
Present(d) == d.ver # 0

Rows == [doc : Docs, body : Versions]
NoRow == [doc |-> Absent, body |-> 0]
EmptyRows == [p \in Paths |-> NoRow]
RowDocs(rows) == [p \in Paths |-> rows[p].doc]

Listed(catalog, p) == p \in Paths /\ Present(catalog[p])
WithId(catalog, i) == {p \in Paths : Present(catalog[p]) /\ catalog[p].id = i}

\* The paths plan_reconcile asks to index: their stored summary differs.
ToIndex(rows, found) ==
  {p \in Paths : Present(found[p]) /\ rows[p].doc # found[p]}

Reindexed_SkipDeleted(rows, found, read, body) ==
  [p \in Paths |->
     IF ~Present(found[p]) THEN rows[p]
     ELSE [doc |-> found[p],
           body |-> IF p \in read THEN body[p] ELSE rows[p].body]]

\* The rows apply_reconcile commits in one transaction.
Reindexed(rows, found, read, body) ==
  [p \in Paths |->
     IF ~Present(found[p]) THEN NoRow
     ELSE [doc |-> found[p],
           body |-> IF p \in read THEN body[p] ELSE rows[p].body]]

\* The path a document moved to, when its id was unique before and is unique now.
Renames(open, old, new) ==
  {p \in Paths :
     /\ old[open].id # NoId
     /\ WithId(old, old[open].id) = {open}
     /\ WithId(new, old[open].id) = {p}}

OpenAfter_Kept(open, old, new) == open

OpenAfter(open, old, new) ==
  IF open = NoPath \/ Listed(new, open) THEN open
  ELSE IF Listed(old, open) /\ Renames(open, old, new) # {}
       THEN CHOOSE p \in Renames(open, old, new) : TRUE
       ELSE NoPath

EffectiveStatus(degradation, requested) ==
  IF degradation # 0 THEN "degraded" ELSE requested

-----------------------------------------------------------------------------
(***************************************************************************)
(* State.                                                                  *)
(***************************************************************************)

StarterPcs == {"none", "reserved", "opening", "opened", "activated", "watching",
               "installed", "returned", "completed", "over"}
ListenerPcs == {"off", "waiting", "coalescing", "done"}
WorkerPcs == {"idle", "spawned", "scanning", "waiting", "reading", "read",
              "failing", "finishing"}
Messages == {"changed", "error"}

IdleWorker ==
  [pc |-> "idle", claim |-> 0, left |-> {}, read |-> {}, failed |-> FALSE,
   found |-> [p \in Paths |-> Absent], body |-> [p \in Paths |-> 0]]
NoStarter ==
  [pc |-> "none", session |-> NoSession, left |-> {},
   catalog |-> [p \in Paths |-> Absent]]
NoListener == [pc |-> "off", attached |-> FALSE, raw |-> FALSE, queue |-> <<>>]
NoSnapshot ==
  [catalog |-> [p \in Paths |-> Absent], open |-> NoPath, status |-> "preparing"]
NewWatch == [installed |-> FALSE, degradation |-> 0, current |-> 0, pending |-> 0]

Catalogs == [Paths -> Docs]
MaybePath == Paths \cup {NoPath}
Caches == [valid : BOOLEAN, rows : [Paths -> Rows], open : MaybePath]
Starters == [pc : StarterPcs, session : Sessions \cup {NoSession},
             left : SUBSET Paths, catalog : Catalogs]
Watches == [installed : BOOLEAN, degradation : Nat, current : Nat, pending : Nat]
Snapshots == [catalog : Catalogs, open : MaybePath,
              status : {"preparing", "ready", "degraded"}]
Listeners == [pc : ListenerPcs, attached : BOOLEAN, raw : BOOLEAN, queue : Seq(Messages)]
Workers == [pc : WorkerPcs, claim : Nat, left : SUBSET Paths, read : SUBSET Paths,
            failed : BOOLEAN, found : Catalogs, body : [Paths -> Versions]]

DiskTypeOK ==
  /\ fs \in Catalogs
  /\ writes \in 0..MaxWrites
  /\ former \in [Paths -> SUBSET Versions]
  /\ faults \in 0..MaxFaults
  /\ cache \in Caches
StartTypeOK ==
  /\ mutation \in Nonces \cup {0}
  /\ starter \in [Nonces -> Starters]
SessionTypeOK ==
  /\ gate \in Gates
  /\ watch \in Watches
  /\ snapshot \in Snapshots
  /\ notice \in {"none", "ok", "failed"}
  /\ marks \in Nat
WorkTypeOK ==
  /\ worker \in [Nonces -> Workers]
  /\ batch \in Seq(Nonces)

TypeOK ==
  /\ SlotTypeOK
  /\ DiskTypeOK
  /\ StartTypeOK
  /\ SessionTypeOK
  /\ listener \in [Nonces -> Listeners]
  /\ WorkTypeOK

\* What an earlier run of the program may have left on disk.  A document it knew
\* has version 1; its row may be missing, or outlive the file.  A cache that is
\* absent, or of another identity, holds nothing a session will read.
Seeds == [ver : {1}, id : Ids \cup {NoId}]
EmptyCache == [valid |-> FALSE, rows |-> EmptyRows, open |-> NoPath]
Indexed(docs) == [p \in Paths |-> [doc |-> docs[p], body |-> docs[p].ver]]
InitialCaches(docs) ==
  {EmptyCache} \cup [valid : {TRUE}, rows : {Indexed(docs)}, open : Paths \cup {NoPath}]
Kept(seed, S) == [p \in Paths |-> IF p \in S THEN seed[p] ELSE Absent]

Init ==
  /\ SlotInit
  /\ \E seed \in [Paths -> Seeds], onDisk, known \in SUBSET Paths :
       /\ fs = Kept(seed, onDisk)
       /\ cache \in InitialCaches(Kept(seed, known))
  /\ writes = 0
  /\ former = [p \in Paths |-> {}]
  /\ faults = 0
  /\ mutation = 0
  /\ starter = [n \in Nonces |-> NoStarter]
  /\ gate = NewGate
  /\ watch = NewWatch
  /\ snapshot = NoSnapshot
  /\ notice = "none"
  /\ marks = 0
  /\ listener = [n \in Nonces |-> NoListener]
  /\ worker = [n \in Nonces |-> IdleWorker]
  /\ batch = <<>>

-----------------------------------------------------------------------------
(***************************************************************************)
(* Ownership.                                                              *)
(***************************************************************************)

OwnerOf(n) == [session |-> starter[n].session, nonce |-> n]

HoldsSlot_SessionOnly(n) ==
  generation.kind # "none" /\ generation.owner.session = starter[n].session

\* The comparison of owners every task makes under the state lock.
HoldsSlot(n) == generation.kind # "none" /\ generation.owner = OwnerOf(n)

Starting(n) == generation.kind = "starting" /\ HoldsSlot(n)
Owned(n) == generation.kind = "active" /\ HoldsSlot(n)

Unwatched(l) == [l EXCEPT !.attached = FALSE, !.raw = FALSE]
UnwatchedAfter(S) ==
  [n \in Nonces |-> IF n \in S THEN Unwatched(listener[n]) ELSE listener[n]]
InstalledWatchers == {n \in Nonces : Owned(n) /\ watch.installed}

\* Generation::close, and the drop of the session with its watcher.
CloseGeneration ==
  /\ gate' = IF generation.kind = "active" THEN AfterClose(gate) ELSE gate
  /\ watch' = NewWatch
  /\ snapshot' = NoSnapshot
  /\ notice' = "none"

\* startup_mutations: taken by every reservation, cache opening, activation and
\* stop_session; held across a suspension by the cache opener only.
StartupLockFree_Ignored == TRUE
StartupLockFree == mutation = 0

StartupUnlocked_Leaked == UNCHANGED mutation
StartupUnlocked == mutation' = 0

SameNonce(n) == n
NonceAfter(n) == n + 1

LeaveBatch_Leaked == UNCHANGED batch
LeaveBatch == batch' = Tail(batch)

Goto(n, pc) == starter' = [starter EXCEPT ![n].pc = pc]

\* The start is past preparing: its catalog is dropped, its owner is not.
Past(n, pc) ==
  starter' = [starter EXCEPT ![n] = [NoStarter EXCEPT !.pc = pc, !.session = starter[n].session]]

-----------------------------------------------------------------------------
(***************************************************************************)
(* Requests for a reconciliation, and the mark a watcher failure leaves.   *)
(***************************************************************************)

Spawned(n) == [worker EXCEPT ![n] = [IdleWorker EXCEPT !.pc = "spawned"]]

\* Claims of a request: `id` is the degradation a manual refresh would clear.
Claimed(id) ==
  IF RequestStarts(gate) THEN [watch EXCEPT !.current = id, !.pending = 0]
  ELSE IF id # 0 THEN [watch EXCEPT !.pending = id]
  ELSE watch

Request(n, id) ==
  /\ gate' = AfterRequest(gate)
  /\ watch' = Claimed(id)
  /\ worker' = IF RequestStarts(gate) THEN Spawned(n) ELSE worker

RequestReconcile_Dropped(n) == UNCHANGED <<gate, watch, worker>>

RequestReconcile(n) ==
  IF Owned(n) THEN Request(n, 0) ELSE UNCHANGED <<gate, watch, worker>>

Marked_KeepStatus(n) ==
  /\ marks' = marks + 1
  /\ watch' = [watch EXCEPT !.degradation = marks', !.current = 0, !.pending = 0]
  /\ UNCHANGED snapshot

Marked(n) ==
  /\ marks' = marks + 1
  /\ watch' = [watch EXCEPT !.degradation = marks', !.current = 0, !.pending = 0]
  /\ snapshot' = [snapshot EXCEPT !.status = EffectiveStatus(marks', @)]

MarkWatcherDegraded(n) ==
  IF Owned(n) THEN Marked(n) ELSE UNCHANGED <<marks, watch, snapshot>>

\* refresh: a command of the frontend, addressed by session id.
Refresh(s) ==
  /\ generation.kind = "active" /\ generation.owner.session = s
  /\ Request(generation.owner.nonce,
             IF watch.installed THEN watch.degradation ELSE 0)
  /\ UNCHANGED <<slotVars, diskVars, startVars, snapshot, notice, marks, listener, batch>>

-----------------------------------------------------------------------------
(***************************************************************************)
(* Starting and stopping a generation.                                     *)
(***************************************************************************)

ReserveSession(s) ==
  /\ StartupLockFree
  /\ nextNonce \in Nonces
  /\ ~(generation.kind # "none" /\ generation.owner.session = s)
  /\ CloseGeneration
  /\ listener' = UnwatchedAfter(InstalledWatchers)
  /\ generation' = [kind |-> "starting", owner |-> [session |-> s, nonce |-> nextNonce]]
  /\ nextNonce' = NonceAfter(nextNonce)
  /\ starter' = [starter EXCEPT ![nextNonce] =
                   [NoStarter EXCEPT !.pc = "reserved", !.session = s]]
  /\ UNCHANGED <<diskVars, mutation, marks, workVars>>

\* prepare_session takes startup_mutations and, still the starting owner, opens
\* the cache on a blocking thread that keeps the lock until it is done.
BeginCacheOpen(n) ==
  /\ starter[n].pc = "reserved"
  /\ IF Starting(n)
     THEN StartupLockFree /\ mutation' = n /\ Goto(n, "opening")
     ELSE UNCHANGED mutation /\ Past(n, "over")
  /\ UNCHANGED <<slotVars, diskVars, sessionVars, listener, workVars>>

\* An unknown or damaged file is moved away and replaced by an empty one.  A cache
\* with rows gives a warm start, an empty one makes the start scan the files.  When
\* the start was aborted meanwhile, only the blocking thread is left to finish.
CacheOpened(n) ==
  /\ mutation = n
  /\ StartupUnlocked
  /\ cache' = IF cache.valid THEN cache ELSE [EmptyCache EXCEPT !.valid = TRUE]
  /\ starter' =
       IF starter[n].pc = "opening"
       THEN [starter EXCEPT ![n] = [starter[n] EXCEPT
               !.pc = "opened", !.catalog = RowDocs(cache'.rows),
               !.left = IF cache'.rows = EmptyRows THEN Paths ELSE {}]]
       ELSE starter
  /\ UNCHANGED <<slotVars, fileVars, faults, sessionVars, listener, workVars>>

StartScan(n, p) ==
  /\ starter[n].pc = "opened"
  /\ p \in starter[n].left
  /\ starter' = [starter EXCEPT ![n] = [starter[n] EXCEPT !.catalog[p] = fs[p], !.left = @ \ {p}]]
  /\ UNCHANGED <<slotVars, diskVars, mutation, sessionVars, listener, workVars>>

ClearIfOwned_KeepsOwner(n) ==
  generation' = IF HoldsSlot(n) THEN [generation EXCEPT !.kind = "none"] ELSE generation

\* clear_if_owned, the error path of finish_reserved_session.
ClearIfOwned(n) ==
  generation' = IF HoldsSlot(n) THEN NoGeneration ELSE generation

CacheOpenFails(n) ==
  /\ mutation = n
  /\ StartupUnlocked
  /\ IF starter[n].pc = "opening"
     THEN ClearIfOwned(n) /\ Past(n, "over")
     ELSE UNCHANGED <<generation, starter>>
  /\ UNCHANGED <<nextNonce, diskVars, sessionVars, listener, workVars>>

\* The cache cannot be read or the documents cannot be discovered.
PrepareFails(n) ==
  /\ starter[n].pc = "opened"
  /\ ClearIfOwned(n)
  /\ Past(n, "over")
  /\ UNCHANGED <<nextNonce, diskVars, mutation, sessionVars, listener, workVars>>

RestoredOpen_Unchecked(catalog) == cache.open

\* The persisted selection survives when the catalog lists it and the file exists.
RestoredOpen(catalog) ==
  IF Listed(catalog, cache.open) /\ Present(fs[cache.open]) THEN cache.open ELSE NoPath

Activate(n) ==
  /\ starter[n].pc = "opened"
  /\ starter[n].left = {}
  /\ StartupLockFree
  /\ IF Starting(n)
     THEN /\ generation' = [generation EXCEPT !.kind = "active"]
          /\ snapshot' = [catalog |-> starter[n].catalog,
                          open |-> RestoredOpen(starter[n].catalog),
                          status |-> "preparing"]
          /\ cache' = [cache EXCEPT !.open = snapshot'.open]
          /\ gate' = NewGate
          /\ watch' = NewWatch
          /\ Past(n, "activated")
     ELSE /\ Past(n, "over")
          /\ UNCHANGED <<generation, snapshot, cache, gate, watch>>
  /\ UNCHANGED <<nextNonce, fileVars, faults, mutation, notice, marks, listener, workVars>>

\* start_watcher: the native watcher reports from the moment it exists, before the
\* session holds it.  A setup error degrades the session instead.
StartWatcher(n) ==
  /\ starter[n].pc = "activated"
  /\ \/ /\ Owned(n)
        /\ listener' = [listener EXCEPT ![n].attached = TRUE]
        /\ Goto(n, "watching")
        /\ UNCHANGED <<watch, marks, snapshot>>
     \/ /\ Owned(n)
        /\ MarkWatcherDegraded(n)
        /\ Goto(n, "installed")
        /\ UNCHANGED listener
     \/ /\ ~Owned(n)
        /\ Goto(n, "installed")
        /\ UNCHANGED <<listener, watch, marks, snapshot>>
  /\ UNCHANGED <<slotVars, diskVars, mutation, gate, notice, workVars>>

InstallWatcher(n) ==
  /\ starter[n].pc = "watching"
  /\ Goto(n, "installed")
  /\ IF Owned(n)
     THEN /\ watch' = [watch EXCEPT !.installed = TRUE]
          /\ listener' = [listener EXCEPT ![n].pc = "waiting"]
     ELSE /\ listener' = UnwatchedAfter({n})
          /\ UNCHANGED watch
  /\ UNCHANGED <<slotVars, diskVars, mutation, gate, snapshot, notice, marks, workVars>>

\* The last call of finish_reserved_session closes the gap between the scan or the
\* warm catalog and the watcher.
FirstRequest(n) ==
  /\ starter[n].pc = "installed"
  /\ RequestReconcile(n)
  /\ Goto(n, "returned")
  /\ UNCHANGED <<slotVars, diskVars, mutation, snapshot, notice, marks, listener, batch>>

\* DocumentRuntimeStart::complete: the caller now holds the generation.
CompleteStart(n) ==
  /\ starter[n].pc = "returned"
  /\ Goto(n, "completed")
  /\ UNCHANGED <<slotVars, diskVars, mutation, sessionVars, listener, workVars>>

\* cancel_owner: closes the generation of this owner and of no other.
CancelOwner(n) ==
  IF HoldsSlot(n)
  THEN /\ generation' = NoGeneration
       /\ CloseGeneration
       /\ listener' = UnwatchedAfter({n})
  ELSE /\ listener' = IF starter[n].pc = "watching" THEN UnwatchedAfter({n}) ELSE listener
       /\ UNCHANGED <<generation, gate, watch, snapshot, notice>>

\* The start future, or its handle, is dropped before complete.
AbortStart(n) ==
  /\ starter[n].pc \in StarterPcs \ {"none", "completed", "over"}
  /\ CancelOwner(n)
  /\ Past(n, "over")
  /\ UNCHANGED <<nextNonce, diskVars, mutation, marks, workVars>>

StopGeneration(n) ==
  /\ starter[n].pc = "completed"
  /\ CancelOwner(n)
  /\ Past(n, "over")
  /\ UNCHANGED <<nextNonce, diskVars, mutation, marks, workVars>>

\* stop_session closes whatever generation carries the session id.
StopSession(s) ==
  /\ StartupLockFree
  /\ generation.kind # "none" /\ generation.owner.session = s
  /\ generation' = NoGeneration
  /\ CloseGeneration
  /\ listener' = UnwatchedAfter(InstalledWatchers)
  /\ UNCHANGED <<nextNonce, diskVars, startVars, marks, workVars>>

\* set_open_document writes the cache before the snapshot.
SetOpenDocument(s, p) ==
  /\ generation.kind = "active" /\ generation.owner.session = s
  /\ Listed(snapshot.catalog, p)
  /\ cache' = [cache EXCEPT !.open = p]
  /\ snapshot' = [snapshot EXCEPT !.open = p]
  /\ UNCHANGED <<slotVars, fileVars, faults, startVars, gate, watch, notice, marks,
                 listener, workVars>>

-----------------------------------------------------------------------------
(***************************************************************************)
(* The files, the native watcher and the listener task.                    *)
(***************************************************************************)

\* Every native watcher will hear of a change, some time after it happened.
Changed(files) ==
  /\ writes < MaxWrites
  /\ writes' = writes + 1
  /\ fs' = files
  /\ former' = [p \in Paths |-> IF files[p] = fs[p] THEN former[p] ELSE former[p] \cup {fs[p].ver}]
  /\ listener' = [n \in Nonces |-> [listener[n] EXCEPT !.raw = @ \/ listener[n].attached]]
  /\ UNCHANGED <<slotVars, cache, faults, startVars, sessionVars, workVars>>

WriteFile(p, i) == Changed([fs EXCEPT ![p] = [ver |-> writes + 2, id |-> i]])
DeleteFile(p) == Present(fs[p]) /\ Changed([fs EXCEPT ![p] = Absent])
RenameFile(p, q) ==
  Present(fs[p]) /\ p # q /\ Changed([fs EXCEPT ![q] = fs[p], ![p] = Absent])

NotifyChange(n) ==
  /\ listener[n].raw
  /\ listener' = [listener EXCEPT ![n] = [listener[n] EXCEPT !.raw = FALSE, !.queue = Append(@, "changed")]]
  /\ UNCHANGED <<slotVars, diskVars, startVars, sessionVars, workVars>>

\* The backend fails and loses the changes it had not reported.
NotifyError(n) ==
  /\ listener[n].attached
  /\ faults < MaxFaults
  /\ faults' = faults + 1
  /\ listener' = [listener EXCEPT ![n] = [listener[n] EXCEPT !.raw = FALSE, !.queue = Append(@, "error")]]
  /\ UNCHANGED <<slotVars, fileVars, cache, startVars, sessionVars, workVars>>

\* One message: a change opens the coalescing window or falls into it, an error
\* marks the session and leaves the listener where it is.
ListenerReceives(n) ==
  /\ listener[n].pc \in {"waiting", "coalescing"}
  /\ listener[n].queue # <<>>
  /\ IF Head(listener[n].queue) = "changed"
     THEN /\ listener' = [listener EXCEPT ![n] = [listener[n] EXCEPT !.queue = Tail(@), !.pc = "coalescing"]]
          /\ UNCHANGED <<watch, marks, snapshot>>
     ELSE /\ listener' = [listener EXCEPT ![n].queue = Tail(@)]
          /\ MarkWatcherDegraded(n)
  /\ UNCHANGED <<slotVars, diskVars, startVars, gate, notice, workVars>>

\* timeout_at looks at the channel before the deadline.
WindowCloses(n) ==
  /\ listener[n].pc = "coalescing"
  /\ listener[n].queue = <<>>
  /\ RequestReconcile(n)
  /\ listener' = [listener EXCEPT ![n].pc = "waiting"]
  /\ UNCHANGED <<slotVars, diskVars, startVars, snapshot, notice, marks, batch>>

ListenerStops(n) ==
  /\ listener[n].pc \in {"waiting", "coalescing"}
  /\ ~Owned(n)
  /\ listener' = [listener EXCEPT ![n] = [NoListener EXCEPT !.pc = "done"]]
  /\ UNCHANGED <<slotVars, diskVars, startVars, sessionVars, workVars>>

-----------------------------------------------------------------------------
(***************************************************************************)
(* The reconcile worker.                                                   *)
(***************************************************************************)

WorkerGoto(n, pc) == worker' = [worker EXCEPT ![n].pc = pc]

\* The end of run_reconcile_once drops what it read.
RunEnds(n, pc) == worker' = [worker EXCEPT ![n] = [IdleWorker EXCEPT !.pc = pc]]

BeginRun(n) ==
  /\ worker[n].pc = "spawned"
  /\ IF Owned(n)
     THEN /\ worker' = [worker EXCEPT ![n] = [worker[n] EXCEPT
                        !.pc = "scanning", !.left = Paths, !.claim = watch.current]]
          /\ watch' = [watch EXCEPT !.current = 0]
     ELSE RunEnds(n, "finishing") /\ UNCHANGED watch
  /\ UNCHANGED <<slotVars, diskVars, startVars, gate, snapshot, notice, marks, listener, batch>>

\* discover walks the document roots; files may change while it does.
Scan(n, p) ==
  /\ worker[n].pc = "scanning"
  /\ p \in worker[n].left
  /\ worker' = [worker EXCEPT ![n] = [worker[n] EXCEPT !.found[p] = fs[p], !.left = @ \ {p}]]
  /\ UNCHANGED <<slotVars, diskVars, startVars, sessionVars, listener, batch>>

\* Discovery or the plan fails.
ScanFails(n) ==
  /\ worker[n].pc = "scanning"
  /\ RunEnds(n, "failing")
  /\ UNCHANGED <<slotVars, diskVars, startVars, sessionVars, listener, batch>>

Plan(n) ==
  /\ worker[n].pc = "scanning"
  /\ worker[n].left = {}
  /\ IF Owned(n)
     THEN LET todo == ToIndex(cache.rows, worker[n].found) IN
          /\ worker' = [worker EXCEPT ![n] = [worker[n] EXCEPT
                              !.pc = IF todo = {} THEN "read" ELSE "waiting",
                              !.left = todo, !.read = todo]]
          /\ batch' = IF todo = {} THEN batch ELSE Append(batch, n)
     ELSE RunEnds(n, "finishing") /\ UNCHANGED batch
  /\ UNCHANGED <<slotVars, diskVars, startVars, sessionVars, listener>>

\* One batch of body reads at a time over all generations; ownership is checked
\* again because the wait for another batch may be long.
BeginBatch(n) ==
  /\ worker[n].pc = "waiting"
  /\ Head(batch) = n
  /\ IF Owned(n)
     THEN UNCHANGED batch /\ WorkerGoto(n, "reading")
     ELSE LeaveBatch /\ RunEnds(n, "finishing")
  /\ UNCHANGED <<slotVars, diskVars, startVars, sessionVars, listener>>

\* A file that is gone, or cannot be read, fails the batch once all reads are in.
ReadBody(n, p) ==
  /\ worker[n].pc = "reading"
  /\ p \in worker[n].left
  /\ \E ok \in IF Present(fs[p]) THEN BOOLEAN ELSE {FALSE} :
       worker' = [worker EXCEPT ![n] = [worker[n] EXCEPT
                    !.left = @ \ {p}, !.failed = @ \/ ~ok,
                    !.body[p] = IF ok THEN fs[p].ver ELSE @]]
  /\ UNCHANGED <<slotVars, diskVars, startVars, sessionVars, listener, batch>>

EndBatch(n) ==
  /\ worker[n].pc = "reading"
  /\ worker[n].left = {}
  /\ LeaveBatch
  /\ IF worker[n].failed THEN RunEnds(n, "failing") ELSE WorkerGoto(n, "read")
  /\ UNCHANGED <<slotVars, diskVars, startVars, sessionVars, listener>>

BatchComplete(n) == ToIndex(cache.rows, worker[n].found) = worker[n].read

NewRows(n) == Reindexed(cache.rows, worker[n].found, worker[n].read, worker[n].body)
NewOpen(n) == OpenAfter(snapshot.open, snapshot.catalog, worker[n].found)

Cleared_AnyClaim(claim) ==
  IF claim # 0 THEN [watch EXCEPT !.degradation = 0] ELSE watch

\* A run clears the degradation its request claimed, never a later one.
Cleared(claim) ==
  IF claim # 0 /\ claim = watch.degradation
  THEN [watch EXCEPT !.degradation = 0] ELSE watch

Apply(n) ==
  /\ worker[n].pc = "read"
  /\ IF Owned(n)
     THEN /\ BatchComplete(n)
          /\ cache' = [cache EXCEPT !.rows = NewRows(n), !.open = NewOpen(n)]
          /\ watch' = Cleared(worker[n].claim)
          /\ snapshot' = [catalog |-> worker[n].found, open |-> NewOpen(n),
                          status |-> EffectiveStatus(watch'.degradation, "ready")]
          /\ notice' = "ok"
     ELSE UNCHANGED <<cache, watch, snapshot, notice>>
  /\ RunEnds(n, "finishing")
  /\ UNCHANGED <<slotVars, fileVars, faults, startVars, gate, marks, listener, batch>>

\* The cache rejects the batch, or accepts it and then fails to store the open path.
ApplyFails(n) ==
  /\ worker[n].pc = "read"
  /\ Owned(n)
  /\ \/ UNCHANGED cache
     \/ /\ BatchComplete(n)
        /\ NewOpen(n) # snapshot.open
        /\ cache' = [cache EXCEPT !.rows = NewRows(n)]
  /\ RunEnds(n, "failing")
  /\ UNCHANGED <<slotVars, fileVars, faults, startVars, sessionVars, listener, batch>>

PublishFailure(n) ==
  /\ worker[n].pc = "failing"
  /\ notice' = IF Owned(n) THEN "failed" ELSE notice
  /\ RunEnds(n, "finishing")
  /\ UNCHANGED <<slotVars, diskVars, startVars, gate, watch, snapshot, marks, listener, batch>>

\* finish_reconcile: a pending request makes the worker run again with its claim.
FinishRun(n) ==
  /\ worker[n].pc = "finishing"
  /\ IF Owned(n)
     THEN /\ gate' = AfterFinish(gate)
          /\ watch' = [watch EXCEPT
                !.current = IF FinishStarts(gate) THEN watch.pending ELSE 0, !.pending = 0]
          /\ worker' = IF FinishStarts(gate) THEN Spawned(n)
                       ELSE [worker EXCEPT ![n] = IdleWorker]
     ELSE /\ worker' = [worker EXCEPT ![n] = IdleWorker]
          /\ UNCHANGED <<gate, watch>>
  /\ UNCHANGED <<slotVars, diskVars, startVars, snapshot, notice, marks, listener, batch>>

-----------------------------------------------------------------------------
StarterStep(n) ==
  \/ BeginCacheOpen(n) \/ CacheOpened(n)
  \/ \E p \in Paths : StartScan(n, p)
  \/ Activate(n) \/ StartWatcher(n) \/ InstallWatcher(n)
  \/ FirstRequest(n) \/ CompleteStart(n)

ListenerStep(n) ==
  NotifyChange(n) \/ ListenerReceives(n) \/ WindowCloses(n) \/ ListenerStops(n)

WorkerStep(n) ==
  \/ BeginRun(n) \/ Plan(n) \/ BeginBatch(n) \/ EndBatch(n) \/ Apply(n)
  \/ \E p \in Paths : Scan(n, p) \/ ReadBody(n, p)
  \/ PublishFailure(n) \/ FinishRun(n)

FailureStep(n) ==
  CacheOpenFails(n) \/ PrepareFails(n) \/ NotifyError(n) \/ ScanFails(n) \/ ApplyFails(n)

UserStep ==
  \/ \E s \in Sessions : ReserveSession(s) \/ Refresh(s) \/ StopSession(s)
  \/ \E s \in Sessions, p \in Paths : SetOpenDocument(s, p)
  \/ \E n \in Nonces : AbortStart(n) \/ StopGeneration(n)

FileStep ==
  \/ \E p \in Paths, i \in Ids \cup {NoId} : WriteFile(p, i)
  \/ \E p \in Paths : DeleteFile(p)
  \/ \E p, q \in Paths : RenameFile(p, q)

Next ==
  \/ \E n \in Nonces : StarterStep(n) \/ ListenerStep(n) \/ WorkerStep(n) \/ FailureStep(n)
  \/ UserStep
  \/ FileStep

Spec == Init /\ [][Next]_vars

\* The executor runs every spawned task and the operating system reports changes;
\* nothing obliges the user to act, the files to change or an operation to fail.
Fairness ==
  \A n \in Nonces :
    /\ WF_vars(StarterStep(n))
    /\ WF_vars(ListenerStep(n))
    /\ WF_vars(WorkerStep(n))

FairSpec == Spec /\ Fairness

-----------------------------------------------------------------------------
(***************************************************************************)
(* Safety.                                                                 *)
(***************************************************************************)

\* While a blocking thread opens, or moves away, the cache file, no session but the
\* one being started for it exists: an aborted start whose thread is still running
\* keeps every later start out (prepare_session, startup_mutations).
CacheOpenExclusive ==
  mutation # 0 =>
    \/ generation.kind = "none"
    \/ generation.kind = "starting" /\ generation.owner.nonce = mutation

\* The active session's gate says a worker runs exactly when one does: two workers
\* of a session would interleave their plans and batches, and a gate left running
\* would swallow every later request (ReconcileGate, finish_reconcile).
GateMatchesWorker ==
  generation.kind = "active" =>
    (gate.running <=> worker[generation.owner.nonce].pc # "idle")

\* A start, listener or worker whose generation left the slot changes neither the
\* session nor the cache file, even when a later session took the same id; the one
\* exception is the cache opener, alone by CacheOpenExclusive (every is_owned check).
TaskMoves(n) ==
  \/ starter[n].pc # "none" /\ starter'[n] # starter[n]
  \/ worker'[n] # worker[n]
  \/ listener'[n].queue # listener[n].queue
SessionChanges == <<cache, gate, watch, snapshot, notice>>' # <<cache, gate, watch, snapshot, notice>>

OnlyTheOwnerWrites ==
  [][\A n \in Nonces :
       TaskMoves(n) /\ SessionChanges => generation.owner.nonce = n \/ mutation = n]_vars

\* The open document is one the tree lists, and the one the cache would restore.
OpenDocumentListed ==
  generation.kind = "active" =>
    /\ snapshot.open = NoPath \/ Listed(snapshot.catalog, snapshot.open)
    /\ cache.open = snapshot.open

\* The batch read for a plan still answers the plan when it is applied, so
\* apply_reconcile never has to reject it as incomplete.
BatchMatchesPlan ==
  \A n \in Nonces : Owned(n) /\ worker[n].pc = "read" => BatchComplete(n)

\* A document moved away from its path and back again has the summary it had before, so
\* that a body read in between stays in the index (plan_reconcile compares summaries).
CameBack(p) == Present(fs[p]) /\ fs[p].ver \in former[p]

\* What the active session shows and searches is what the files hold.
Fresh ==
  \A p \in Paths : /\ snapshot.catalog[p] = fs[p]
                   /\ cache.rows[p].doc = fs[p]
                   /\ CameBack(p) \/ cache.rows[p].body = fs[p].ver

\* Nothing is under way for the active session and nothing went wrong.
Quiet(n) ==
  /\ Owned(n)
  /\ starter[n].pc \in {"returned", "completed"}
  /\ watch.degradation = 0
  /\ notice # "failed"
  /\ worker[n].pc = "idle"
  /\ listener[n].pc = "waiting" /\ listener[n].queue = <<>> /\ ~listener[n].raw

\* A session that is neither degraded, nor told of a failure, nor about to look
\* again has not missed a change: not between the first scan and the watcher, not
\* during a run, not in the coalescing window, and not across a watcher failure
\* that a refresh recovered from.
QuietMeansFresh == \A n \in Nonces : Quiet(n) => Fresh

\* Search finds only documents of the tree and all of them, whenever the last run
\* did not fail half way.
IndexAgreesWithTree ==
  \A n \in Nonces :
    Owned(n) /\ notice = "ok" /\ worker[n].pc # "failing" =>
      RowDocs(cache.rows) = snapshot.catalog

\* The status says degraded exactly while the session's watcher failed and no run
\* requested after the failure has completed.
DegradedIsShown ==
  generation.kind = "active" => (snapshot.status = "degraded" <=> watch.degradation # 0)

-----------------------------------------------------------------------------
(***************************************************************************)
(* Liveness, under Fairness.                                               *)
(***************************************************************************)

\* A change reaches the tree and the index, unless the session ends, is degraded
\* or reports the failure of a run.
ChangesAreIndexed ==
  (generation.kind = "active" /\ ~Fresh)
    ~> (generation.kind # "active" \/ Fresh \/ watch.degradation # 0 \/ notice = "failed")

\* A start never waits for ever on the startup lock or a superseded start.
StartsSettle == generation.kind = "starting" ~> generation.kind # "starting"

\* The worker of a generation that was replaced or stopped ends, and lets go of the
\* batch lock the next generation's worker waits for.
WorkersEnd ==
  \A n \in Nonces : (worker[n].pc # "idle" /\ ~Owned(n)) ~> worker[n].pc = "idle"

\* A generation that follows another one is neither kept out nor held up for ever by what
\* the earlier one left behind (prepare_session, finish_reconcile).
GenerationsSettle == StartsSettle /\ WorkersEnd

=============================================================================
