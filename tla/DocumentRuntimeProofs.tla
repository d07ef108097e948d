------------------------ MODULE DocumentRuntimeProofs ------------------------
(***************************************************************************)
(* DocumentRuntime for every value of its constants: its types, together   *)
(* with the queue of the batch lock, which they need; who owns the session *)
(* slot and the cache file; that the slot implements GenerationSlot; what  *)
(* the active session promises while its tasks and those of former         *)
(* generations run; and that a session that rests shows what the files     *)
(* hold.                                                                   *)
(***************************************************************************)
EXTENDS DocumentRuntime, TLAPS

\* The records that stand for nothing, and those a start makes, are of their types.
LEMMA RecordsTyped ==
  /\ Absent \in Docs /\ NoRow \in Rows
  /\ IdleWorker \in Workers
  /\ NoStarter \in Starters
  /\ NoListener \in Listeners
  /\ NoSnapshot \in Snapshots
  /\ NewWatch \in Watches
  /\ NewGate \in Gates
  /\ EmptyCache \in Caches
  <1>1. Absent \in Docs /\ 0 \in Versions
    BY RuntimeAssumption DEF Absent, Docs, Versions
  <1>2. NoRow \in Rows
    BY <1>1 DEF NoRow, Rows
  <1>3. [p \in Paths |-> Absent] \in Catalogs
    BY <1>1 DEF Catalogs
  <1>4. IdleWorker \in Workers
    BY <1>1, <1>3 DEF IdleWorker, Workers, WorkerPcs
  <1>5. NoStarter \in Starters
    BY <1>3 DEF NoStarter, Starters, StarterPcs
  <1>6. NoListener \in Listeners
    BY DEF NoListener, Listeners, ListenerPcs
  <1>7. NoSnapshot \in Snapshots
    BY <1>3 DEF NoSnapshot, Snapshots, MaybePath
  <1>8. NewWatch \in Watches /\ NewGate \in Gates
    BY DEF NewWatch, Watches, NewGate, Gates
  <1>9. EmptyCache \in Caches
    BY <1>2 DEF EmptyCache, Caches, EmptyRows, MaybePath
  <1>. QED BY <1>1, <1>2, <1>4, <1>5, <1>6, <1>7, <1>8, <1>9

\* A start that moves on to another place keeps the type of the starts.
LEMMA GotoTyped ==
  ASSUME starter \in [Nonces -> Starters], NEW n \in Nonces, NEW pc \in StarterPcs,
         Goto(n, pc) \/ Past(n, pc)
  PROVE  starter' \in [Nonces -> Starters]
  <1>1. CASE Goto(n, pc)
    BY <1>1 DEF Goto, Starters
  <1>2. CASE Past(n, pc)
    <2>1. starter[n].session \in Sessions \cup {NoSession}
      BY DEF Starters
    <2>2. [NoStarter EXCEPT !.pc = pc, !.session = starter[n].session] \in Starters
      BY <2>1, RecordsTyped DEF Starters
    <2>. QED BY <1>2, <2>2 DEF Past
  <1>. QED BY <1>1, <1>2

\* A worker that moves on, or whose run ends, keeps the type of the workers.
LEMMA WorkerTyped ==
  ASSUME worker \in [Nonces -> Workers], NEW n \in Nonces, NEW pc \in WorkerPcs,
         WorkerGoto(n, pc) \/ RunEnds(n, pc)
  PROVE  worker' \in [Nonces -> Workers]
  <1>1. CASE WorkerGoto(n, pc)
    BY <1>1 DEF WorkerGoto, Workers
  <1>2. CASE RunEnds(n, pc)
    <2>1. [IdleWorker EXCEPT !.pc = pc] \in Workers
      BY RecordsTyped DEF Workers
    <2>. QED BY <1>2, <2>1 DEF RunEnds
  <1>. QED BY <1>1, <1>2

\* A request that spawns a worker keeps the type of the workers.
LEMMA SpawnedTyped ==
  ASSUME worker \in [Nonces -> Workers], NEW n \in Nonces
  PROVE  Spawned(n) \in [Nonces -> Workers]
  <1>1. [IdleWorker EXCEPT !.pc = "spawned"] \in Workers
    BY RecordsTyped DEF Workers, WorkerPcs
  <1>. QED BY <1>1 DEF Spawned

\* Dropping watchers keeps the type of the listeners.
LEMMA UnwatchedTyped ==
  ASSUME listener \in [Nonces -> Listeners], NEW S
  PROVE  UnwatchedAfter(S) \in [Nonces -> Listeners]
  BY DEF UnwatchedAfter, Unwatched, Listeners

\* Every operation of the gate yields a gate.
LEMMA GateTyped ==
  ASSUME NEW g \in Gates
  PROVE  AfterRequest(g) \in Gates /\ AfterFinish(g) \in Gates /\ AfterClose(g) \in Gates
  BY DEF Gates, AfterRequest, AfterFinish, AfterClose

\* Closing the session keeps its types.
LEMMA CloseTyped ==
  ASSUME SessionTypeOK, CloseGeneration, marks' = marks
  PROVE  SessionTypeOK'
  BY RecordsTyped, GateTyped DEF SessionTypeOK, CloseGeneration

\* A request keeps the types of the session and of the workers.
LEMMA RequestTyped ==
  ASSUME SessionTypeOK, worker \in [Nonces -> Workers], NEW n \in Nonces, NEW id \in Nat,
         Request(n, id) \/ UNCHANGED <<gate, watch, worker>>,
         UNCHANGED <<snapshot, notice, marks>>
  PROVE  SessionTypeOK' /\ worker' \in [Nonces -> Workers]
  <1>1. Claimed(id) \in Watches
    BY DEF SessionTypeOK, Claimed, Watches
  <1>. QED BY <1>1, GateTyped, SpawnedTyped DEF SessionTypeOK, Request

\* Marking the session as degraded keeps its types.
LEMMA MarkTyped ==
  ASSUME SessionTypeOK, NEW n \in Nonces, MarkWatcherDegraded(n), UNCHANGED <<gate, notice>>
  PROVE  SessionTypeOK'
  <1>1. CASE Marked(n)
    <2>1. marks' \in Nat
      BY <1>1 DEF Marked, SessionTypeOK
    <2>2. watch' \in Watches
      BY <1>1, <2>1 DEF Marked, SessionTypeOK, Watches
    <2>3. snapshot' \in Snapshots
      BY <1>1 DEF Marked, SessionTypeOK, Snapshots, EffectiveStatus
    <2>. QED BY <2>1, <2>2, <2>3 DEF SessionTypeOK
  <1>2. CASE UNCHANGED <<marks, watch, snapshot>>
    BY <1>2 DEF SessionTypeOK
  <1>. QED BY <1>1, <1>2 DEF MarkWatcherDegraded

\* Cancelling an owner keeps the types of everything it touches.
LEMMA CancelTyped ==
  ASSUME SlotTypeOK, SessionTypeOK, listener \in [Nonces -> Listeners], NEW n \in Nonces,
         CancelOwner(n), UNCHANGED <<nextNonce, marks>>
  PROVE  SlotTypeOK' /\ SessionTypeOK' /\ listener' \in [Nonces -> Listeners]
  <1>1. CASE HoldsSlot(n)
    <2>1. SlotTypeOK'
      BY <1>1 DEF CancelOwner, SlotTypeOK, NoGeneration, NoOwner, Kinds
    <2>. QED BY <1>1, <2>1, CloseTyped, UnwatchedTyped DEF CancelOwner
  <1>2. CASE ~HoldsSlot(n)
    BY <1>2, UnwatchedTyped DEF CancelOwner, SlotTypeOK, SessionTypeOK
  <1>. QED BY <1>1, <1>2

\* A step that changes nothing keeps the types.
LEMMA StutterTyped ==
  /\ SlotTypeOK /\ UNCHANGED slotVars => SlotTypeOK'
  /\ DiskTypeOK /\ UNCHANGED diskVars => DiskTypeOK'
  /\ StartTypeOK /\ UNCHANGED startVars => StartTypeOK'
  /\ SessionTypeOK /\ UNCHANGED sessionVars => SessionTypeOK'
  /\ WorkTypeOK /\ UNCHANGED workVars => WorkTypeOK'
  BY DEF SlotTypeOK, DiskTypeOK, StartTypeOK, SessionTypeOK, WorkTypeOK,
         slotVars, diskVars, fileVars, startVars, sessionVars, workVars

-----------------------------------------------------------------------------
(***************************************************************************)
(* The queue at body_read_batches: a worker that waits is in it, a worker  *)
(* that reads is at its head.  Without it Tail(batch) has no type.         *)
(***************************************************************************)

BatchLine ==
  \A n \in Nonces :
    /\ worker[n].pc \in {"waiting", "reading"} => \E i \in 1..Len(batch) : batch[i] = n
    /\ worker[n].pc = "reading" => Head(batch) = n

\* Leaving the batch lock keeps its queue a queue.
LEMMA LeaveTyped ==
  ASSUME batch \in Seq(Nonces), BatchLine, NEW n \in Nonces,
         worker[n].pc \in {"waiting", "reading"}, LeaveBatch
  PROVE  batch' \in Seq(Nonces)
  <1>1. batch # <<>>
    BY DEF BatchLine
  <1>. QED BY <1>1 DEF LeaveBatch

-----------------------------------------------------------------------------
(***************************************************************************)
(* Every step keeps the types.                                             *)
(***************************************************************************)

\* A step of a start keeps the types.
LEMMA StarterTypes ==
  ASSUME TypeOK, NEW n \in Nonces, StarterStep(n)
  PROVE  TypeOK'
  <1>. USE StutterTyped DEF TypeOK
  <1>1. CASE BeginCacheOpen(n)
    <2>1. StartTypeOK'
      BY <1>1, GotoTyped DEF BeginCacheOpen, StartTypeOK, StarterPcs
    <2>. QED BY <1>1, <2>1 DEF BeginCacheOpen
  <1>2. CASE CacheOpened(n)
    <2>1. cache' \in Caches
      BY <1>2, RecordsTyped DEF CacheOpened, DiskTypeOK, Caches
    <2>2. DiskTypeOK'
      BY <1>2, <2>1 DEF CacheOpened, DiskTypeOK, fileVars
    <2>3. RowDocs(cache'.rows) \in Catalogs
      BY <2>1 DEF Caches, RowDocs, Rows, Catalogs
    <2>4. mutation' \in Nonces \cup {0}
      BY <1>2 DEF CacheOpened, StartupUnlocked
    <2>5. starter' \in [Nonces -> Starters]
      <3>1. CASE starter[n].pc = "opening"
        <4>1. PICK left \in SUBSET Paths :
                starter' = [starter EXCEPT ![n] = [@ EXCEPT
                  !.pc = "opened", !.catalog = RowDocs(cache'.rows), !.left = left]]
          BY <1>2, <3>1 DEF CacheOpened
        <4>. QED BY <2>3, <4>1 DEF StartTypeOK, Starters, StarterPcs
      <3>2. CASE starter[n].pc # "opening"
        BY <1>2, <3>2 DEF CacheOpened, StartTypeOK
      <3>. QED BY <3>1, <3>2
    <2>. QED BY <1>2, <2>2, <2>4, <2>5 DEF CacheOpened, StartTypeOK
  <1>3. ASSUME NEW p \in Paths, StartScan(n, p) PROVE TypeOK'
    <2>. DEFINE new == [starter[n] EXCEPT !.catalog = [@ EXCEPT ![p] = fs[p]], !.left = @ \ {p}]
    <2>1. starter' = [starter EXCEPT ![n] = new]
      BY <1>3 DEF StartScan
    <2>2. [starter[n].catalog EXCEPT ![p] = fs[p]] \in Catalogs
      BY DEF StartTypeOK, Starters, DiskTypeOK, Catalogs
    <2>3. starter' \in [Nonces -> Starters]
      <3>1. new \in Starters
        BY <2>2 DEF StartTypeOK, Starters
      <3>. QED BY <2>1, <3>1 DEF StartTypeOK
    <2>. QED BY <1>3, <2>3 DEF StartScan, StartTypeOK
  <1>4. CASE Activate(n)
    <2>1. RestoredOpen(starter[n].catalog) \in MaybePath
      BY DEF RestoredOpen, Listed, MaybePath
    <2>2. snapshot' \in Snapshots /\ cache' \in Caches /\ gate' \in Gates /\ watch' \in Watches
      BY <1>4, <2>1, RecordsTyped
      DEF Activate, SessionTypeOK, DiskTypeOK, StartTypeOK, Starters, Snapshots, Caches
    <2>3. SessionTypeOK' /\ DiskTypeOK'
      BY <1>4, <2>2 DEF Activate, SessionTypeOK, DiskTypeOK, fileVars
    <2>4. SlotTypeOK'
      BY <1>4 DEF Activate, Starting, SlotTypeOK, Kinds
    <2>5. StartTypeOK'
      BY <1>4, GotoTyped DEF Activate, StartTypeOK, StarterPcs
    <2>. QED BY <1>4, <2>3, <2>4, <2>5 DEF Activate
  <1>5. CASE StartWatcher(n)
    <2>1. StartTypeOK'
      BY <1>5, GotoTyped DEF StartWatcher, StartTypeOK, StarterPcs
    <2>2. SessionTypeOK'
      <3>1. MarkWatcherDegraded(n) \/ UNCHANGED <<watch, marks, snapshot>>
        BY <1>5 DEF StartWatcher
      <3>. QED BY <1>5, <3>1, MarkTyped DEF StartWatcher, SessionTypeOK
    <2>3. listener' \in [Nonces -> Listeners]
      BY <1>5 DEF StartWatcher, Listeners
    <2>. QED BY <1>5, <2>1, <2>2, <2>3 DEF StartWatcher
  <1>6. CASE InstallWatcher(n)
    <2>1. StartTypeOK'
      BY <1>6, GotoTyped DEF InstallWatcher, StartTypeOK, StarterPcs
    <2>2. SessionTypeOK'
      BY <1>6 DEF InstallWatcher, SessionTypeOK, Watches
    <2>3. listener' \in [Nonces -> Listeners]
      <3>1. CASE Owned(n)
        <4>1. listener' = [listener EXCEPT ![n].pc = "waiting"]
          BY <1>6, <3>1 DEF InstallWatcher
        <4>. QED BY <4>1 DEF Listeners, ListenerPcs
      <3>2. CASE ~Owned(n)
        BY <1>6, <3>2, UnwatchedTyped DEF InstallWatcher
      <3>. QED BY <3>1, <3>2
    <2>. QED BY <1>6, <2>1, <2>2, <2>3 DEF InstallWatcher
  <1>7. CASE FirstRequest(n)
    <2>1. StartTypeOK'
      BY <1>7, GotoTyped DEF FirstRequest, StartTypeOK, StarterPcs
    <2>2. SessionTypeOK' /\ worker' \in [Nonces -> Workers]
      BY <1>7, RequestTyped DEF FirstRequest, RequestReconcile, WorkTypeOK
    <2>. QED BY <1>7, <2>1, <2>2 DEF FirstRequest, WorkTypeOK
  <1>8. CASE CompleteStart(n)
    BY <1>8, GotoTyped DEF CompleteStart, StartTypeOK, StarterPcs
  <1>. QED
    BY <1>1, <1>2, <1>3, <1>4, <1>5, <1>6, <1>7, <1>8 DEF StarterStep

\* A step of a watcher or its listener keeps the types.
LEMMA ListenerTypes ==
  ASSUME TypeOK, NEW n \in Nonces, ListenerStep(n)
  PROVE  TypeOK'
  <1>. USE StutterTyped DEF TypeOK
  <1>1. CASE NotifyChange(n)
    <2>1. listener' = [listener EXCEPT ![n] =
             [listener[n] EXCEPT !.raw = FALSE, !.queue = Append(@, "changed")]]
      BY <1>1 DEF NotifyChange
    <2>2. [listener[n] EXCEPT !.raw = FALSE, !.queue = Append(@, "changed")] \in Listeners
      <3>1. Append(listener[n].queue, "changed") \in Seq(Messages)
        BY DEF Listeners, Messages
      <3>. QED BY <3>1 DEF Listeners
    <2>3. listener' \in [Nonces -> Listeners]
      BY <2>1, <2>2
    <2>. QED BY <1>1, <2>3 DEF NotifyChange
  <1>2. CASE ListenerReceives(n)
    <2>1. SessionTypeOK'
      BY <1>2, MarkTyped DEF ListenerReceives, SessionTypeOK
    <2>2. listener' \in [Nonces -> Listeners]
      <3>1. Tail(listener[n].queue) \in Seq(Messages)
        BY <1>2 DEF ListenerReceives, Listeners
      <3>2. CASE Head(listener[n].queue) = "changed"
        <4>1. listener' = [listener EXCEPT ![n] =
                 [listener[n] EXCEPT !.queue = Tail(@), !.pc = "coalescing"]]
          BY <1>2, <3>2 DEF ListenerReceives
        <4>2. [listener[n] EXCEPT !.queue = Tail(@), !.pc = "coalescing"] \in Listeners
          BY <3>1 DEF Listeners, ListenerPcs
        <4>. QED BY <4>1, <4>2
      <3>3. CASE Head(listener[n].queue) # "changed"
        BY <1>2, <3>1, <3>3 DEF ListenerReceives, Listeners
      <3>. QED BY <3>2, <3>3
    <2>. QED BY <1>2, <2>1, <2>2 DEF ListenerReceives
  <1>3. CASE WindowCloses(n)
    <2>1. SessionTypeOK' /\ worker' \in [Nonces -> Workers]
      BY <1>3, RequestTyped DEF WindowCloses, RequestReconcile, WorkTypeOK
    <2>2. listener' \in [Nonces -> Listeners]
      BY <1>3 DEF WindowCloses, Listeners, ListenerPcs
    <2>. QED BY <1>3, <2>1, <2>2 DEF WindowCloses, WorkTypeOK
  <1>4. CASE ListenerStops(n)
    BY <1>4, RecordsTyped DEF ListenerStops, Listeners, ListenerPcs
  <1>. QED BY <1>1, <1>2, <1>3, <1>4 DEF ListenerStep

\* A step of a reconcile worker keeps the types; the next reader comes off the queue.
LEMMA WorkerTypes ==
  ASSUME TypeOK, BatchLine, NEW n \in Nonces, WorkerStep(n)
  PROVE  TypeOK'
  <1>. USE StutterTyped DEF TypeOK
  <1>1. CASE BeginRun(n)
    <2>1. SessionTypeOK'
      BY <1>1 DEF BeginRun, SessionTypeOK, Watches
    <2>2. worker' \in [Nonces -> Workers]
      <3>1. CASE Owned(n)
        <4>1. watch.current \in Nat
          BY DEF SessionTypeOK, Watches
        <4>2. worker' = [worker EXCEPT ![n] = [@ EXCEPT
                           !.pc = "scanning", !.left = Paths, !.claim = watch.current]]
          BY <1>1, <3>1 DEF BeginRun
        <4>. QED BY <4>1, <4>2 DEF WorkTypeOK, WorkerPcs, Workers
      <3>2. CASE ~Owned(n)
        BY <1>1, <3>2, WorkerTyped DEF BeginRun, WorkTypeOK, WorkerPcs
      <3>. QED BY <3>1, <3>2
    <2>. QED BY <1>1, <2>1, <2>2 DEF BeginRun, WorkTypeOK
  <1>2. ASSUME NEW p \in Paths, Scan(n, p) PROVE TypeOK'
    <2>1. [worker[n].found EXCEPT ![p] = fs[p]] \in Catalogs
      BY DEF WorkTypeOK, Workers, DiskTypeOK, Catalogs
    <2>. DEFINE new == [worker[n] EXCEPT !.found = [@ EXCEPT ![p] = fs[p]], !.left = @ \ {p}]
    <2>2. worker' = [worker EXCEPT ![n] = new]
      BY <1>2 DEF Scan
    <2>3. worker' \in [Nonces -> Workers]
      <3>1. new \in Workers
        BY <2>1 DEF WorkTypeOK, Workers
      <3>. QED BY <2>2, <3>1 DEF WorkTypeOK
    <2>. QED BY <1>2, <2>3 DEF Scan, WorkTypeOK
  <1>3. CASE Plan(n)
    <2>. DEFINE todo == ToIndex(cache.rows, worker[n].found)
    <2>1. todo \in SUBSET Paths
      BY DEF ToIndex
    <2>2. worker' \in [Nonces -> Workers]
      <3>1. CASE Owned(n)
        <4>. DEFINE new == [worker[n] EXCEPT !.pc = IF todo = {} THEN "read" ELSE "waiting",
                                             !.left = todo, !.read = todo]
        <4>1. worker' = [worker EXCEPT ![n] = new]
          BY <1>3, <3>1 DEF Plan
        <4>. HIDE DEF todo
        <4>2. new \in Workers
          BY <2>1 DEF WorkTypeOK, WorkerPcs, Workers
        <4>. QED BY <4>1, <4>2 DEF WorkTypeOK
      <3>2. CASE ~Owned(n)
        BY <1>3, <3>2, WorkerTyped DEF Plan, WorkTypeOK, WorkerPcs
      <3>. QED BY <3>1, <3>2
    <2>3. batch' \in Seq(Nonces)
      BY <1>3 DEF Plan, WorkTypeOK
    <2>. QED BY <1>3, <2>2, <2>3 DEF Plan, WorkTypeOK
  <1>4. CASE BeginBatch(n)
    <2>1. batch' \in Seq(Nonces)
      BY <1>4, LeaveTyped DEF BeginBatch, WorkTypeOK
    <2>2. WorkTypeOK'
      BY <1>4, <2>1, WorkerTyped DEF BeginBatch, WorkTypeOK, WorkerPcs
    <2>. QED BY <1>4, <2>2 DEF BeginBatch
  <1>5. ASSUME NEW p \in Paths, ReadBody(n, p) PROVE TypeOK'
    <2>1. PICK ok \in BOOLEAN :
            worker' = [worker EXCEPT ![n] = [worker[n] EXCEPT
                         !.left = @ \ {p}, !.failed = @ \/ ~ok,
                         !.body[p] = IF ok THEN fs[p].ver ELSE @]]
      BY <1>5 DEF ReadBody
    <2>. DEFINE read == [worker[n].body EXCEPT ![p] = IF ok THEN fs[p].ver ELSE @]
                new == [worker[n] EXCEPT !.left = @ \ {p}, !.failed = @ \/ ~ok, !.body = read]
    <2>2. fs[p].ver \in Versions
      BY DEF DiskTypeOK, Catalogs, Docs
    <2>3. read \in [Paths -> Versions]
      BY <2>2 DEF WorkTypeOK, Workers
    <2>4. worker' = [worker EXCEPT ![n] = new]
      BY <2>1
    <2>. HIDE DEF read
    <2>5. new \in Workers
      BY <2>3 DEF WorkTypeOK, Workers
    <2>6. worker' \in [Nonces -> Workers]
      BY <2>4, <2>5 DEF WorkTypeOK
    <2>. QED BY <1>5, <2>6 DEF ReadBody, WorkTypeOK
  <1>6. CASE EndBatch(n)
    <2>1. batch' \in Seq(Nonces)
      BY <1>6, LeaveTyped DEF EndBatch, WorkTypeOK
    <2>2. WorkTypeOK'
      BY <1>6, <2>1, WorkerTyped DEF EndBatch, WorkTypeOK, WorkerPcs
    <2>. QED BY <1>6, <2>2 DEF EndBatch
  <1>7. CASE Apply(n)
    <2>1. NewRows(n) \in [Paths -> Rows] /\ worker[n].found \in Catalogs
      BY RecordsTyped
      DEF NewRows, Reindexed, WorkTypeOK, Workers, DiskTypeOK, Caches, Rows, Catalogs
    <2>2. NewOpen(n) \in MaybePath
      BY DEF NewOpen, OpenAfter, Renames, SessionTypeOK, Snapshots, MaybePath
    <2>3. Cleared(worker[n].claim) \in Watches
      BY DEF Cleared, SessionTypeOK, Watches
    <2>4. DiskTypeOK'
      BY <1>7, <2>1, <2>2 DEF Apply, DiskTypeOK, fileVars, Caches
    <2>5. SessionTypeOK'
      BY <1>7, <2>1, <2>2, <2>3
      DEF Apply, SessionTypeOK, Snapshots, EffectiveStatus
    <2>6. WorkTypeOK'
      BY <1>7, WorkerTyped DEF Apply, WorkTypeOK, WorkerPcs
    <2>. QED BY <1>7, <2>4, <2>5, <2>6 DEF Apply
  <1>8. CASE PublishFailure(n)
    <2>1. SessionTypeOK'
      BY <1>8 DEF PublishFailure, SessionTypeOK
    <2>2. WorkTypeOK'
      BY <1>8, WorkerTyped DEF PublishFailure, WorkTypeOK, WorkerPcs
    <2>. QED BY <1>8, <2>1, <2>2 DEF PublishFailure
  <1>9. CASE FinishRun(n)
    <2>1. SessionTypeOK'
      <3>1. CASE Owned(n)
        <4>1. watch' = [watch EXCEPT
                !.current = IF FinishStarts(gate) THEN watch.pending ELSE 0, !.pending = 0]
          BY <1>9, <3>1 DEF FinishRun
        <4>2. watch' \in Watches
          BY <4>1 DEF FinishStarts, SessionTypeOK, Watches
        <4>. QED BY <1>9, <3>1, <4>2, GateTyped DEF FinishRun, SessionTypeOK
      <3>2. CASE ~Owned(n)
        BY <1>9, <3>2 DEF FinishRun, SessionTypeOK
      <3>. QED BY <3>1, <3>2
    <2>2. WorkTypeOK'
      BY <1>9, SpawnedTyped, RecordsTyped DEF FinishRun, WorkTypeOK
    <2>. QED BY <1>9, <2>1, <2>2 DEF FinishRun
  <1>. QED
    BY <1>1, <1>2, <1>3, <1>4, <1>5, <1>6, <1>7, <1>8, <1>9 DEF WorkerStep

\* A failing step keeps the types.
LEMMA FailureTypes ==
  ASSUME TypeOK, NEW n \in Nonces, FailureStep(n)
  PROVE  TypeOK'
  <1>. USE StutterTyped DEF TypeOK
  <1>1. ASSUME ClearIfOwned(n), UNCHANGED nextNonce PROVE SlotTypeOK'
    BY <1>1 DEF ClearIfOwned, SlotTypeOK, NoGeneration, NoOwner, Kinds
  <1>2. CASE CacheOpenFails(n)
    <2>1. SlotTypeOK'
      BY <1>1, <1>2 DEF CacheOpenFails, SlotTypeOK
    <2>2. StartTypeOK'
      BY <1>2, GotoTyped DEF CacheOpenFails, StartupUnlocked, StartTypeOK, StarterPcs
    <2>. QED BY <1>2, <2>1, <2>2 DEF CacheOpenFails
  <1>3. CASE PrepareFails(n)
    <2>1. SlotTypeOK'
      BY <1>1, <1>3 DEF PrepareFails
    <2>2. StartTypeOK'
      BY <1>3, GotoTyped DEF PrepareFails, StartTypeOK, StarterPcs
    <2>. QED BY <1>3, <2>1, <2>2 DEF PrepareFails
  <1>4. CASE NotifyError(n)
    <2>1. listener' = [listener EXCEPT ![n] =
             [listener[n] EXCEPT !.raw = FALSE, !.queue = Append(@, "error")]]
      BY <1>4 DEF NotifyError
    <2>2. [listener[n] EXCEPT !.raw = FALSE, !.queue = Append(@, "error")] \in Listeners
      <3>1. Append(listener[n].queue, "error") \in Seq(Messages)
        BY DEF Listeners, Messages
      <3>. QED BY <3>1 DEF Listeners
    <2>3. DiskTypeOK'
      BY <1>4, RuntimeAssumption DEF NotifyError, DiskTypeOK, fileVars
    <2>4. listener' \in [Nonces -> Listeners]
      BY <2>1, <2>2
    <2>. QED BY <1>4, <2>3, <2>4 DEF NotifyError
  <1>5. CASE ScanFails(n)
    <2>1. WorkTypeOK'
      BY <1>5, WorkerTyped DEF ScanFails, WorkTypeOK, WorkerPcs
    <2>. QED BY <1>5, <2>1 DEF ScanFails
  <1>6. CASE ApplyFails(n)
    <2>1. WorkTypeOK'
      BY <1>6, WorkerTyped DEF ApplyFails, WorkTypeOK, WorkerPcs
    <2>2. NewRows(n) \in [Paths -> Rows]
      BY RecordsTyped
      DEF NewRows, Reindexed, WorkTypeOK, Workers, DiskTypeOK, Caches, Rows, Catalogs
    <2>3. DiskTypeOK'
      BY <1>6, <2>2 DEF ApplyFails, DiskTypeOK, fileVars, Caches
    <2>. QED BY <1>6, <2>1, <2>3 DEF ApplyFails
  <1>. QED BY <1>2, <1>3, <1>4, <1>5, <1>6 DEF FailureStep

\* A call of the commands keeps the types.
LEMMA UserTypes ==
  ASSUME TypeOK, UserStep
  PROVE  TypeOK'
  <1>. USE StutterTyped DEF TypeOK
  <1>1. ASSUME NEW s \in Sessions, ReserveSession(s) PROVE TypeOK'
    <2>1. SlotTypeOK'
      BY <1>1, SlotAssumption
      DEF ReserveSession, SlotTypeOK, Kinds, Owners, NoOwner, Nonces, NonceAfter
    <2>2. [NoStarter EXCEPT !.pc = "reserved", !.session = s] \in Starters
      BY RecordsTyped DEF Starters, StarterPcs
    <2>3. StartTypeOK'
      BY <1>1, <2>2 DEF ReserveSession, StartTypeOK
    <2>. QED BY <1>1, <2>1, <2>3, CloseTyped, UnwatchedTyped DEF ReserveSession
  <1>2. ASSUME NEW s \in Sessions, Refresh(s) PROVE TypeOK'
    <2>1. generation.owner.nonce \in Nonces
      BY <1>2 DEF Refresh, SlotTypeOK, Owners
    <2>2. (IF watch.installed THEN watch.degradation ELSE 0) \in Nat
      BY DEF SessionTypeOK, Watches
    <2>3. SessionTypeOK' /\ worker' \in [Nonces -> Workers]
      BY <1>2, <2>1, <2>2, RequestTyped DEF Refresh, WorkTypeOK
    <2>. QED BY <1>2, <2>3 DEF Refresh, WorkTypeOK
  <1>3. ASSUME NEW s \in Sessions, StopSession(s) PROVE TypeOK'
    <2>1. SlotTypeOK'
      BY <1>3 DEF StopSession, SlotTypeOK, NoGeneration, NoOwner, Kinds
    <2>. QED BY <1>3, <2>1, CloseTyped, UnwatchedTyped DEF StopSession
  <1>4. ASSUME NEW s \in Sessions, NEW p \in Paths, SetOpenDocument(s, p) PROVE TypeOK'
    <2>1. DiskTypeOK'
      BY <1>4 DEF SetOpenDocument, DiskTypeOK, fileVars, Caches, MaybePath
    <2>2. SessionTypeOK'
      BY <1>4 DEF SetOpenDocument, SessionTypeOK, Snapshots, MaybePath
    <2>. QED BY <1>4, <2>1, <2>2 DEF SetOpenDocument
  <1>5. ASSUME NEW n \in Nonces, AbortStart(n) \/ StopGeneration(n) PROVE TypeOK'
    <2>1. SlotTypeOK' /\ SessionTypeOK' /\ listener' \in [Nonces -> Listeners]
      BY <1>5, CancelTyped DEF AbortStart, StopGeneration
    <2>2. StartTypeOK'
      BY <1>5, GotoTyped DEF AbortStart, StopGeneration, StartTypeOK, StarterPcs
    <2>. QED BY <1>5, <2>1, <2>2 DEF AbortStart, StopGeneration
  <1>. QED BY <1>1, <1>2, <1>3, <1>4, <1>5 DEF UserStep

\* A change of the files keeps the types.
LEMMA FileTypes ==
  ASSUME TypeOK, FileStep
  PROVE  TypeOK'
  <1>. USE StutterTyped DEF TypeOK
  <1>1. ASSUME NEW files \in Catalogs, Changed(files) PROVE TypeOK'
    <2>0. former' \in [Paths -> SUBSET Versions]
      BY <1>1 DEF Changed, DiskTypeOK, Catalogs, Docs
    <2>1. DiskTypeOK'
      BY <1>1, <2>0, RuntimeAssumption DEF Changed, DiskTypeOK
    <2>2. listener' \in [Nonces -> Listeners]
      BY <1>1 DEF Changed, Listeners
    <2>. QED BY <1>1, <2>1, <2>2 DEF Changed
  <1>2. ASSUME NEW p \in Paths, NEW i \in Ids \cup {NoId}, WriteFile(p, i) PROVE TypeOK'
    <2>1. [ver |-> writes + 2, id |-> i] \in Docs
      BY <1>2, RuntimeAssumption DEF WriteFile, Changed, Docs, Versions, DiskTypeOK
    <2>2. [fs EXCEPT ![p] = [ver |-> writes + 2, id |-> i]] \in Catalogs
      BY <2>1 DEF DiskTypeOK, Catalogs
    <2>. QED BY <1>1, <1>2, <2>2 DEF WriteFile
  <1>3. ASSUME NEW p \in Paths, DeleteFile(p) PROVE TypeOK'
    <2>1. [fs EXCEPT ![p] = Absent] \in Catalogs
      BY RecordsTyped DEF DiskTypeOK, Catalogs
    <2>. QED BY <1>1, <1>3, <2>1 DEF DeleteFile
  <1>4. ASSUME NEW p \in Paths, NEW q \in Paths, RenameFile(p, q) PROVE TypeOK'
    <2>1. [fs EXCEPT ![q] = fs[p], ![p] = Absent] \in Catalogs
      BY RecordsTyped DEF DiskTypeOK, Catalogs
    <2>. QED BY <1>1, <1>4, <2>1 DEF RenameFile
  <1>. QED BY <1>2, <1>3, <1>4 DEF FileStep

\* The types hold at the start, where nobody waits for the batch lock.
LEMMA InitTypes == Init => TypeOK /\ BatchLine
  <1>. SUFFICES ASSUME Init PROVE TypeOK /\ BatchLine
    OBVIOUS
  <1>1. SlotTypeOK
    BY SlotAssumption DEF Init, SlotInit, SlotTypeOK, NoGeneration, NoOwner, Kinds
  <1>2. PICK seed \in [Paths -> Seeds], onDisk \in SUBSET Paths, known \in SUBSET Paths :
          fs = Kept(seed, onDisk) /\ cache \in InitialCaches(Kept(seed, known))
    BY DEF Init
  <1>3. ASSUME NEW S \in SUBSET Paths PROVE Kept(seed, S) \in Catalogs
    BY RecordsTyped, RuntimeAssumption DEF Kept, Seeds, Catalogs, Docs, Versions
  <1>4. cache \in Caches
    <2>1. Indexed(Kept(seed, known)) \in [Paths -> Rows]
      BY <1>3 DEF Indexed, Rows, Catalogs, Docs
    <2>. QED BY <1>2, <2>1, RecordsTyped DEF InitialCaches, Caches, MaybePath
  <1>5. DiskTypeOK
    BY <1>2, <1>3, <1>4, RuntimeAssumption DEF Init, DiskTypeOK
  <1>6. StartTypeOK /\ SessionTypeOK /\ listener \in [Nonces -> Listeners] /\ WorkTypeOK
    BY RecordsTyped DEF Init, StartTypeOK, SessionTypeOK, WorkTypeOK
  <1>7. BatchLine
    BY DEF Init, BatchLine, IdleWorker
  <1>. QED BY <1>1, <1>5, <1>6, <1>7 DEF TypeOK

-----------------------------------------------------------------------------
(***************************************************************************)
(* The line at body_read_batches.                                          *)
(***************************************************************************)

Moves(n, pc) == /\ worker'[n].pc = pc
                /\ \A m \in Nonces \ {n} : worker'[m] = worker[m]

\* The worker's own steps move it to the place they name and move no other worker.
LEMMA WorkerMoves ==
  ASSUME worker \in [Nonces -> Workers], NEW n \in Nonces, NEW pc \in WorkerPcs,
         WorkerGoto(n, pc) \/ RunEnds(n, pc)
  PROVE  Moves(n, pc)
  BY DEF Moves, WorkerGoto, RunEnds, Workers, IdleWorker

\* So does a direct update of its record.
LEMMA UpdateMoves ==
  ASSUME worker \in [Nonces -> Workers], NEW n \in Nonces, NEW w,
         worker' = [worker EXCEPT ![n] = w]
  PROVE  Moves(n, w.pc)
  BY DEF Moves

\* A request moves no worker, or moves the requested one to its first place.
LEMMA RequestMoves ==
  ASSUME worker \in [Nonces -> Workers], NEW n \in Nonces, NEW id, Request(n, id)
  PROVE  worker' = worker \/ Moves(n, "spawned")
  BY DEF Request, Spawned, Moves, IdleWorker

\* The queue of the batch lock is right after a move that respects it.
LEMMA LineKept ==
  ASSUME BatchLine, NEW n \in Nonces, NEW pc, Moves(n, pc), UNCHANGED batch,
         pc \in {"waiting", "reading"} =>
           /\ worker[n].pc \in {"waiting", "reading"}
           /\ pc = "reading" => Head(batch) = n
  PROVE  BatchLine'
  BY DEF BatchLine, Moves

\* Whoever leaves the batch lock leaves the others in line.
LEMMA LineLeft ==
  ASSUME WorkTypeOK, BatchLine, NEW n \in Nonces, NEW pc, Moves(n, pc), LeaveBatch,
         worker[n].pc \in {"waiting", "reading"}, Head(batch) = n,
         pc \notin {"waiting", "reading"}
  PROVE  BatchLine'
  <1>1. batch # <<>> /\ batch \in Seq(Nonces)
    BY DEF BatchLine, WorkTypeOK
  <1>2. ASSUME NEW m \in Nonces, worker'[m].pc \in {"waiting", "reading"}
        PROVE  worker'[m].pc = "waiting" /\ \E i \in 1..Len(batch') : batch'[i] = m
    <2>1. m # n /\ worker'[m] = worker[m]
      BY <1>2 DEF Moves
    <2>2. PICK i \in 1..Len(batch) : batch[i] = m
      BY <1>2, <2>1 DEF BatchLine
    <2>3. i # 1 /\ worker[m].pc # "reading"
      BY <1>1, <2>1, <2>2 DEF BatchLine
    <2>4. i - 1 \in 1..Len(Tail(batch)) /\ Tail(batch)[i - 1] = m
      BY <1>1, <2>2, <2>3
    <2>. QED BY <1>2, <2>1, <2>3, <2>4 DEF LeaveBatch
  <1>. QED BY <1>2 DEF BatchLine

\* Every step keeps the queue of the batch lock in agreement with the workers.
LEMMA BatchLineKept ==
  ASSUME TypeOK, BatchLine, [Next]_vars
  PROVE  BatchLine'
  <1>. USE DEF TypeOK, WorkTypeOK
  <1>1. CASE UNCHANGED workVars
    BY <1>1 DEF BatchLine, workVars
  <1>2. ASSUME NEW n \in Nonces, NEW id, UNCHANGED batch, Request(n, id) PROVE BatchLine'
    BY <1>2, RequestMoves, LineKept DEF BatchLine
  <1>3. ASSUME NEW n \in Nonces, StarterStep(n) PROVE BatchLine'
    <2>1. CASE FirstRequest(n)
      BY <1>1, <1>2, <2>1 DEF FirstRequest, RequestReconcile, workVars
    <2>2. CASE ~FirstRequest(n)
      BY <1>1, <1>3, <2>2
      DEF StarterStep, BeginCacheOpen, CacheOpened, StartScan, Activate, StartWatcher,
          InstallWatcher, CompleteStart
    <2>. QED BY <2>1, <2>2
  <1>4. ASSUME NEW n \in Nonces, ListenerStep(n) PROVE BatchLine'
    <2>1. CASE WindowCloses(n)
      BY <1>1, <1>2, <2>1 DEF WindowCloses, RequestReconcile, workVars
    <2>2. CASE ~WindowCloses(n)
      BY <1>1, <1>4, <2>2 DEF ListenerStep, NotifyChange, ListenerReceives, ListenerStops
    <2>. QED BY <2>1, <2>2
  <1>5. ASSUME NEW n \in Nonces, WorkerStep(n) PROVE BatchLine'
    <2>1. CASE BeginRun(n)
      <3>1. Moves(n, "scanning") \/ Moves(n, "finishing")
        BY <2>1, WorkerMoves DEF BeginRun, WorkerPcs, Workers, Moves
      <3>. QED BY <2>1, <3>1, LineKept DEF BeginRun
    <2>2. ASSUME NEW p \in Paths, Scan(n, p) \/ ReadBody(n, p) PROVE BatchLine'
      <3>1. PICK found, body, left, failed :
              worker' = [worker EXCEPT ![n] = [worker[n] EXCEPT
                           !.found = found, !.body = body, !.left = left, !.failed = failed]]
        <4>1. CASE Scan(n, p)
          <5>. DEFINE found == [worker[n].found EXCEPT ![p] = fs[p]]
          <5>1. worker' = [worker EXCEPT ![n] = [worker[n] EXCEPT
                  !.found = found, !.body = worker[n].body, !.left = worker[n].left \ {p},
                  !.failed = worker[n].failed]]
            BY <4>1 DEF Scan, Workers
          <5>. QED BY <5>1
        <4>2. CASE ReadBody(n, p)
          <5>1. PICK ok \in BOOLEAN :
                  worker' = [worker EXCEPT ![n] = [worker[n] EXCEPT
                               !.left = @ \ {p}, !.failed = @ \/ ~ok,
                               !.body[p] = IF ok THEN fs[p].ver ELSE @]]
            BY <4>2 DEF ReadBody
          <5>. DEFINE body == [worker[n].body EXCEPT ![p] = IF ok THEN fs[p].ver ELSE @]
          <5>2. worker' = [worker EXCEPT ![n] = [worker[n] EXCEPT
                  !.found = worker[n].found, !.body = body, !.left = worker[n].left \ {p},
                  !.failed = worker[n].failed \/ ~ok]]
            BY <5>1 DEF Workers
          <5>. QED BY <5>2
        <4>. QED BY <2>2, <4>1, <4>2
      <3>2. Moves(n, worker[n].pc)
        <4>. DEFINE new == [worker[n] EXCEPT
                      !.found = found, !.body = body, !.left = left, !.failed = failed]
        <4>1. new.pc = worker[n].pc
          BY DEF Workers
        <4>2. worker' = [worker EXCEPT ![n] = new]
          BY <3>1
        <4>3. Moves(n, new.pc)
          <5>. HIDE DEF new
          <5>. QED BY <4>2, UpdateMoves
        <4>. QED BY <4>1, <4>3
      <3>. QED BY <2>2, <3>2, LineKept DEF Scan, ReadBody, BatchLine
    <2>3. CASE Plan(n)
      <3>. DEFINE todo == ToIndex(cache.rows, worker[n].found)
                  new == [worker[n] EXCEPT !.pc = IF todo = {} THEN "read" ELSE "waiting",
                                           !.left = todo, !.read = todo]
      <3>1. CASE Owned(n)
        <4>1. worker' = [worker EXCEPT ![n] = new]
          BY <2>3, <3>1 DEF Plan
        <4>2. batch' = IF todo = {} THEN batch ELSE Append(batch, n)
          BY <2>3, <3>1 DEF Plan
        <4>3. worker[n].pc = "scanning"
          BY <2>3 DEF Plan
        <4>. HIDE DEF todo
        <4>4. Moves(n, IF todo = {} THEN "read" ELSE "waiting")
          <5>1. new.pc = IF todo = {} THEN "read" ELSE "waiting"
            BY DEF Workers
          <5>2. Moves(n, new.pc)
            <6>. HIDE DEF new
            <6>. QED BY <4>1, UpdateMoves
          <5>. QED BY <5>1, <5>2
        <4>5. CASE todo = {}
          BY <4>2, <4>4, <4>5, LineKept
        <4>6. CASE todo # {}
          BY <4>2, <4>3, <4>4, <4>6 DEF BatchLine, Moves
        <4>. QED BY <4>5, <4>6
      <3>2. CASE ~Owned(n)
        BY <2>3, <3>2, WorkerMoves, LineKept DEF Plan, WorkerPcs
      <3>. QED BY <3>1, <3>2
    <2>4. CASE BeginBatch(n)
      <3>1. CASE Owned(n)
        BY <2>4, <3>1, WorkerMoves, LineKept DEF BeginBatch, WorkerPcs
      <3>2. CASE ~Owned(n)
        BY <2>4, <3>2, WorkerMoves, LineLeft DEF BeginBatch, WorkerPcs
      <3>. QED BY <3>1, <3>2
    <2>5. CASE EndBatch(n)
      <3>1. Moves(n, "failing") \/ Moves(n, "read")
        BY <2>5, WorkerMoves DEF EndBatch, WorkerPcs
      <3>. QED BY <2>5, <3>1, LineLeft DEF EndBatch, BatchLine
    <2>6. CASE Apply(n) \/ PublishFailure(n)
      BY <2>6, WorkerMoves, LineKept DEF Apply, PublishFailure, WorkerPcs
    <2>7. CASE FinishRun(n)
      <3>1. Moves(n, "spawned") \/ Moves(n, "idle")
        BY <2>7 DEF FinishRun, Spawned, Moves, IdleWorker
      <3>. QED BY <2>7, <3>1, LineKept DEF FinishRun
    <2>. QED BY <1>5, <2>1, <2>2, <2>3, <2>4, <2>5, <2>6, <2>7 DEF WorkerStep
  <1>6. ASSUME NEW n \in Nonces, FailureStep(n) PROVE BatchLine'
    <2>1. CASE ScanFails(n) \/ ApplyFails(n)
      BY <2>1, WorkerMoves, LineKept DEF ScanFails, ApplyFails, WorkerPcs
    <2>2. CASE CacheOpenFails(n) \/ PrepareFails(n) \/ NotifyError(n)
      BY <1>1, <2>2 DEF CacheOpenFails, PrepareFails, NotifyError
    <2>. QED BY <1>6, <2>1, <2>2 DEF FailureStep
  <1>7. CASE UserStep
    <2>1. ASSUME NEW s \in Sessions, Refresh(s) PROVE BatchLine'
      BY <1>2, <2>1 DEF Refresh, SlotTypeOK, Owners
    <2>2. CASE \/ \E s \in Sessions : ReserveSession(s) \/ StopSession(s)
               \/ \E s \in Sessions, p \in Paths : SetOpenDocument(s, p)
               \/ \E n \in Nonces : AbortStart(n) \/ StopGeneration(n)
      BY <1>1, <2>2
      DEF ReserveSession, StopSession, SetOpenDocument, AbortStart, StopGeneration
    <2>. QED BY <1>7, <2>1, <2>2 DEF UserStep
  <1>8. CASE FileStep
    BY <1>1, <1>8 DEF FileStep, WriteFile, DeleteFile, RenameFile, Changed
  <1>. QED
    BY <1>1, <1>3, <1>4, <1>5, <1>6, <1>7, <1>8 DEF Next, vars

-----------------------------------------------------------------------------
\* Types and queue together are inductive.
LEMMA StepTypes ==
  ASSUME TypeOK, BatchLine, [Next]_vars
  PROVE  TypeOK'
  <1>1. ASSUME UNCHANGED vars PROVE TypeOK'
    BY <1>1, StutterTyped DEF TypeOK, vars
  <1>2. ASSUME Next PROVE TypeOK'
    BY <1>2, StarterTypes, ListenerTypes, WorkerTypes, FailureTypes, UserTypes, FileTypes
    DEF Next
  <1>. QED BY <1>1, <1>2

\* Every variable keeps its type in every behaviour, for every number of sessions,
\* documents, generations, changes and faults (the state of documents/runtime.rs).
THEOREM TypeCorrect == Spec => []TypeOK
  <1>1. TypeOK /\ BatchLine /\ [Next]_vars => (TypeOK /\ BatchLine)'
    BY StepTypes, BatchLineKept
  <1>. QED BY InitTypes, <1>1, PTL DEF Spec

-----------------------------------------------------------------------------
(***************************************************************************)
(* Safety of DocumentRuntime for every number of sessions, documents and   *)
(* generations.  Everything rests on Ownership: what the holder of the     *)
(* slot, its start, its worker and its listener know of each other.        *)
(***************************************************************************)

Preparing == {"reserved", "opening", "opened"}
Serving == {"activated", "watching", "installed", "returned", "completed"}

\* The holder of the slot is the owner its start was given, in the phase the slot says.
HolderKnown ==
  generation.kind # "none" =>
    /\ generation.owner.nonce < nextNonce
    /\ starter[generation.owner.nonce].session = generation.owner.session
    /\ generation.kind = "starting" => starter[generation.owner.nonce].pc \in Preparing
    /\ generation.kind = "active" => starter[generation.owner.nonce].pc \in Serving

\* Nonces are given out in order, and nothing runs for one before its activation.
Early(n) == starter[n].pc \in Preparing \cup {"none"}
NothingEarly ==
  \A n \in Nonces :
    /\ starter[n].pc = "none" <=> nextNonce <= n
    /\ Early(n) => worker[n].pc = "idle" /\ listener[n].pc = "off"

Ownership == TypeOK /\ BatchLine /\ HolderKnown /\ NothingEarly /\ CacheOpenExclusive

-----------------------------------------------------------------------------
\* A task holds the slot exactly when the slot carries its nonce: the comparison of
\* session ids adds nothing once nonces are unique.
LEMMA HolderIsNonce ==
  ASSUME Ownership, NEW n \in Nonces
  PROVE  HoldsSlot(n) <=> generation.kind # "none" /\ generation.owner.nonce = n
  <1>1. generation.kind # "none" => generation.owner \in Owners
    BY DEF Ownership, TypeOK, SlotTypeOK
  <1>2. ASSUME generation.kind # "none", generation.owner.nonce = n
        PROVE  generation.owner = OwnerOf(n)
    BY <1>1, <1>2 DEF Ownership, HolderKnown, Owners, OwnerOf
  <1>. QED BY <1>2 DEF HoldsSlot, OwnerOf

\* The start of n turns to pc, and no other start does anything.
Turns(n, pc) ==
  /\ starter'[n].pc = pc
  /\ starter'[n].session = starter[n].session
  /\ \A m \in Nonces \ {n} : starter'[m] = starter[m]

\* A start that moves on turns to the place it goes to.
LEMMA StarterTurns ==
  ASSUME TypeOK, NEW n \in Nonces, NEW pc \in StarterPcs, Goto(n, pc) \/ Past(n, pc)
  PROVE  Turns(n, pc)
  BY DEF Turns, Goto, Past, TypeOK, StartTypeOK, Starters, NoStarter

\* What keeps Ownership when a start turns: the slot follows, and what runs, runs late.
LEMMA TurnKeeps ==
  ASSUME Ownership, NEW n \in Nonces, NEW pc \in StarterPcs \ {"none"}, Turns(n, pc),
         starter[n].pc # "none", UNCHANGED nextNonce,
         \/ generation' = NoGeneration
         \/ /\ generation' = generation
            /\ HoldsSlot(n) => pc \in IF generation.kind = "starting" THEN Preparing ELSE Serving
         \/ /\ Starting(n) /\ pc \in Serving
            /\ generation' = [generation EXCEPT !.kind = "active"],
         pc \in Preparing => starter[n].pc \in Preparing,
         \A m \in Nonces : Early(m)' => worker'[m].pc = worker[m].pc /\ listener'[m].pc = listener[m].pc
  PROVE  HolderKnown' /\ NothingEarly'
  <1>1. NothingEarly'
    BY DEF Ownership, NothingEarly, Early, Turns
  <1>2. HolderKnown'
    <2>1. CASE generation' = NoGeneration
      BY <2>1 DEF HolderKnown, NoGeneration
    <2>2. CASE /\ generation' = generation
               /\ HoldsSlot(n) => pc \in IF generation.kind = "starting" THEN Preparing ELSE Serving
      <3>1. CASE generation.kind # "none" /\ generation.owner.nonce = n
        BY <2>2, <3>1, HolderIsNonce DEF Ownership, HolderKnown, Turns
      <3>2. CASE generation.kind # "none" /\ generation.owner.nonce # n
        BY <2>2, <3>2 DEF Ownership, HolderKnown, Turns, TypeOK, SlotTypeOK, Owners, NoOwner
      <3>3. CASE generation.kind = "none"
        BY <2>2, <3>3 DEF HolderKnown
      <3>. QED BY <3>1, <3>2, <3>3
    <2>3. CASE /\ Starting(n) /\ pc \in Serving
               /\ generation' = [generation EXCEPT !.kind = "active"]
      <3>1. generation'.kind = "active" /\ generation'.owner = generation.owner
        BY <2>3 DEF Ownership, TypeOK, SlotTypeOK
      <3>2. generation.kind = "starting" /\ generation.owner.nonce = n
        BY <2>3, HolderIsNonce DEF Starting
      <3>. QED BY <2>3, <3>1, <3>2 DEF Ownership, HolderKnown, Turns
    <2>. QED BY <2>1, <2>2, <2>3
  <1>. QED BY <1>1, <1>2

\* What keeps Ownership when no start turns.
LEMMA StayKeeps ==
  ASSUME Ownership, UNCHANGED <<nextNonce, starter>>,
         generation' \in {generation, NoGeneration},
         \A m \in Nonces : Early(m) => worker'[m].pc = worker[m].pc /\ listener'[m].pc = listener[m].pc
  PROVE  HolderKnown' /\ NothingEarly'
  BY DEF Ownership, HolderKnown, NothingEarly, Early, NoGeneration

\* A watcher that is dropped leaves its listener where it is.
LEMMA UnwatchedStays ==
  ASSUME listener \in [Nonces -> Listeners], NEW S, NEW m \in Nonces
  PROVE  UnwatchedAfter(S)[m].pc = listener[m].pc /\ UnwatchedAfter(S)[m].queue = listener[m].queue
  BY DEF UnwatchedAfter, Unwatched, Listeners

\* A request of the holder wakes no worker before its activation.
LEMMA RequestIsLate ==
  ASSUME Ownership, NEW n \in Nonces, NEW id, Request(n, id), Owned(n), NEW m \in Nonces, Early(m)
  PROVE  worker'[m].pc = worker[m].pc
  <1>1. m # n
    BY HolderIsNonce DEF Owned, Ownership, HolderKnown, Early, Preparing, Serving
  <1>. QED BY <1>1, RequestMoves DEF Ownership, TypeOK, WorkTypeOK, Moves

-----------------------------------------------------------------------------
(***************************************************************************)
(* Ownership is inductive.                                                 *)
(***************************************************************************)

\* A step of a start keeps Ownership: it is the only one that fills the slot.
LEMMA StarterOwnership ==
  ASSUME Ownership, NEW n \in Nonces, StarterStep(n)
  PROVE  HolderKnown' /\ NothingEarly' /\ CacheOpenExclusive'
  <1>. USE DEF StarterPcs
  <1>0. TypeOK
    BY DEF Ownership
  <1>1. CASE BeginCacheOpen(n)
    <2>1. CASE Starting(n)
      <3>1. Turns(n, "opening")
        BY <1>0, <1>1, <2>1, StarterTurns DEF BeginCacheOpen
      <3>2. HolderKnown' /\ NothingEarly'
        BY <1>1, <3>1, <2>1, TurnKeeps DEF BeginCacheOpen, Preparing, Starting, slotVars, workVars
      <3>3. CacheOpenExclusive'
        BY <1>1, <2>1, HolderIsNonce DEF BeginCacheOpen, Starting, CacheOpenExclusive, slotVars
      <3>. QED BY <3>2, <3>3
    <2>2. CASE ~Starting(n)
      <3>1. Turns(n, "over")
        BY <1>0, <1>1, <2>2, StarterTurns DEF BeginCacheOpen
      <3>2. ~HoldsSlot(n)
        BY <1>1, <2>2, HolderIsNonce
        DEF BeginCacheOpen, Starting, Ownership, HolderKnown, Serving, TypeOK, SlotTypeOK, Kinds
      <3>3. HolderKnown' /\ NothingEarly'
        BY <1>1, <3>1, <3>2, TurnKeeps DEF BeginCacheOpen, Preparing, slotVars, workVars
      <3>4. CacheOpenExclusive'
        BY <1>1, <2>2 DEF BeginCacheOpen, Ownership, CacheOpenExclusive, slotVars
      <3>. QED BY <3>3, <3>4
    <2>. QED BY <2>1, <2>2
  <1>2. CASE CacheOpened(n)
    <2>1. CacheOpenExclusive'
      BY <1>2 DEF CacheOpened, StartupUnlocked, CacheOpenExclusive
    <2>2. CASE starter[n].pc = "opening"
      <3>1. Turns(n, "opened")
        BY <1>2, <2>2 DEF CacheOpened, Turns, Ownership, TypeOK, StartTypeOK, Starters
      <3>2. HoldsSlot(n) => generation.kind = "starting"
        BY <2>2, HolderIsNonce
        DEF Ownership, HolderKnown, Serving, TypeOK, SlotTypeOK, Kinds
      <3>3. HolderKnown' /\ NothingEarly'
        BY <1>2, <2>2, <3>1, <3>2, TurnKeeps DEF CacheOpened, Preparing, slotVars, workVars
      <3>. QED BY <2>1, <3>3
    <2>3. CASE starter[n].pc # "opening"
      BY <1>2, <2>1, <2>3, StayKeeps DEF CacheOpened, slotVars, workVars
    <2>. QED BY <2>2, <2>3
  <1>3. ASSUME NEW p \in Paths, StartScan(n, p)
        PROVE  HolderKnown' /\ NothingEarly' /\ CacheOpenExclusive'
    <2>1. Turns(n, "opened")
      BY <1>3 DEF StartScan, Turns, Ownership, TypeOK, StartTypeOK, Starters
    <2>2. HoldsSlot(n) => generation.kind = "starting"
      BY <1>3, HolderIsNonce
      DEF StartScan, Ownership, HolderKnown, Serving, TypeOK, SlotTypeOK, Kinds
    <2>3. HolderKnown' /\ NothingEarly'
      BY <1>3, <2>1, <2>2, TurnKeeps DEF StartScan, Preparing, slotVars, workVars
    <2>. QED BY <1>3, <2>3 DEF StartScan, Ownership, CacheOpenExclusive, slotVars
  <1>4. CASE Activate(n)
    <2>1. CASE Starting(n)
      <3>1. Turns(n, "activated")
        BY <1>0, <1>4, <2>1, StarterTurns DEF Activate
      <3>2. HolderKnown' /\ NothingEarly'
        BY <1>4, <2>1, <3>1, TurnKeeps DEF Activate, Preparing, Serving, workVars
      <3>. QED BY <1>4, <3>2 DEF Activate, StartupLockFree, CacheOpenExclusive
    <2>2. CASE ~Starting(n)
      <3>1. Turns(n, "over")
        BY <1>0, <1>4, <2>2, StarterTurns DEF Activate
      <3>2. ~HoldsSlot(n)
        BY <1>4, <2>2, HolderIsNonce
        DEF Activate, Starting, Ownership, HolderKnown, Serving, TypeOK, SlotTypeOK, Kinds
      <3>3. HolderKnown' /\ NothingEarly'
        BY <1>4, <2>2, <3>1, <3>2, TurnKeeps DEF Activate, Preparing, workVars
      <3>. QED BY <1>4, <3>3 DEF Activate, StartupLockFree, CacheOpenExclusive
    <2>. QED BY <2>1, <2>2
  <1>5. ASSUME NEW pc \in Serving, starter[n].pc \in Serving, Goto(n, pc),
               UNCHANGED <<slotVars, mutation>>,
               \A m \in Nonces : Early(m) =>
                 worker'[m].pc = worker[m].pc /\ listener'[m].pc = listener[m].pc
        PROVE  HolderKnown' /\ NothingEarly' /\ CacheOpenExclusive'
    <2>1. Turns(n, pc) /\ pc \in StarterPcs \ {"none"} /\ pc \notin Preparing
      BY <1>0, <1>5, StarterTurns DEF Serving, Preparing
    <2>2. HoldsSlot(n) => generation.kind = "active"
      BY <1>5, HolderIsNonce
      DEF Ownership, HolderKnown, Serving, Preparing, TypeOK, SlotTypeOK, Kinds
    <2>3. \A m \in Nonces : Early(m)' => Early(m)
      BY <2>1 DEF Early, Turns
    <2>4. HolderKnown' /\ NothingEarly'
      BY <1>5, <2>1, <2>2, <2>3, TurnKeeps DEF slotVars, Serving
    <2>. QED BY <1>5, <2>4 DEF Ownership, CacheOpenExclusive, slotVars
  <1>6. CASE StartWatcher(n)
    <2>1. \A m \in Nonces : listener'[m].pc = listener[m].pc
      BY <1>0, <1>6 DEF StartWatcher, TypeOK, Listeners
    <2>. QED BY <1>5, <1>6, <2>1 DEF StartWatcher, Serving, workVars
  <1>7. CASE InstallWatcher(n)
    <2>1. \A m \in Nonces \ {n} : listener'[m].pc = listener[m].pc
      BY <1>0, <1>7, UnwatchedStays DEF InstallWatcher, TypeOK
    <2>2. ~Early(n)
      BY <1>7 DEF InstallWatcher, Early, Preparing
    <2>. QED BY <1>5, <1>7, <2>1, <2>2 DEF InstallWatcher, Serving, workVars
  <1>8. CASE FirstRequest(n)
    <2>1. \A m \in Nonces : Early(m) => worker'[m].pc = worker[m].pc
      BY <1>8, RequestIsLate DEF FirstRequest, RequestReconcile
    <2>. QED BY <1>5, <1>8, <2>1 DEF FirstRequest, Serving
  <1>9. CASE CompleteStart(n)
    BY <1>5, <1>9 DEF CompleteStart, Serving, workVars
  <1>. QED
    BY <1>1, <1>2, <1>3, <1>4, <1>6, <1>7, <1>8, <1>9 DEF StarterStep

\* A step that only moves listeners or workers that are out.
LEMMA BystanderOwnership ==
  ASSUME Ownership, UNCHANGED <<slotVars, startVars>>,
         \A m \in Nonces : Early(m) => worker'[m].pc = worker[m].pc /\ listener'[m].pc = listener[m].pc
  PROVE  HolderKnown' /\ NothingEarly' /\ CacheOpenExclusive'
  BY StayKeeps DEF Ownership, CacheOpenExclusive, slotVars, startVars

\* A step of a watcher or its listener keeps Ownership.
LEMMA ListenerOwnership ==
  ASSUME Ownership, NEW n \in Nonces, ListenerStep(n)
  PROVE  HolderKnown' /\ NothingEarly' /\ CacheOpenExclusive'
  <1>0. TypeOK /\ NothingEarly
    BY DEF Ownership
  <1>1. CASE NotifyChange(n)
    <2>1. \A m \in Nonces : listener'[m].pc = listener[m].pc
      BY <1>0, <1>1 DEF NotifyChange, TypeOK, Listeners
    <2>. QED BY <1>1, <2>1, BystanderOwnership DEF NotifyChange, workVars
  <1>2. ASSUME listener[n].pc # "off", \A m \in Nonces \ {n} : listener'[m] = listener[m],
               UNCHANGED <<slotVars, startVars>>,
               \A m \in Nonces : Early(m) => worker'[m].pc = worker[m].pc
        PROVE  HolderKnown' /\ NothingEarly' /\ CacheOpenExclusive'
    BY <1>0, <1>2, BystanderOwnership DEF NothingEarly
  <1>3. CASE ListenerReceives(n)
    BY <1>0, <1>2, <1>3 DEF ListenerReceives, workVars, TypeOK
  <1>4. CASE WindowCloses(n)
    <2>1. \A m \in Nonces : Early(m) => worker'[m].pc = worker[m].pc
      BY <1>4, RequestIsLate DEF WindowCloses, RequestReconcile
    <2>. QED BY <1>0, <1>2, <1>4, <2>1 DEF WindowCloses, TypeOK
  <1>5. CASE ListenerStops(n)
    BY <1>0, <1>2, <1>5 DEF ListenerStops, workVars, TypeOK
  <1>. QED BY <1>1, <1>3, <1>4, <1>5 DEF ListenerStep

\* A step of a worker moves no other worker, and was out before.
LEMMA WorkerStepMoves ==
  ASSUME TypeOK, NEW n \in Nonces, WorkerStep(n) \/ ScanFails(n) \/ ApplyFails(n)
  PROVE  worker[n].pc # "idle" /\ \A m \in Nonces \ {n} : worker'[m] = worker[m]
  <1>. USE DEF TypeOK, WorkTypeOK, RunEnds, WorkerGoto, Spawned
  <1>1. CASE BeginRun(n) \/ (\E p \in Paths : Scan(n, p)) \/ ScanFails(n)
    BY <1>1 DEF BeginRun, Scan, ScanFails
  <1>2. CASE Plan(n)
    BY <1>2 DEF Plan
  <1>3. CASE BeginBatch(n) \/ (\E p \in Paths : ReadBody(n, p)) \/ EndBatch(n)
    BY <1>3 DEF BeginBatch, ReadBody, EndBatch
  <1>4. CASE Apply(n) \/ ApplyFails(n) \/ PublishFailure(n)
    BY <1>4 DEF Apply, ApplyFails, PublishFailure
  <1>5. CASE FinishRun(n)
    BY <1>5 DEF FinishRun
  <1>. QED BY <1>1, <1>2, <1>3, <1>4, <1>5 DEF WorkerStep

\* A worker changes neither the slot nor a start nor a listener.
LEMMA WorkerStepFrame ==
  ASSUME NEW n \in Nonces, WorkerStep(n) \/ ScanFails(n) \/ ApplyFails(n)
  PROVE  UNCHANGED <<slotVars, startVars, listener, marks, fileVars>>
  BY DEF WorkerStep, BeginRun, Scan, ScanFails, Plan, BeginBatch, ReadBody, EndBatch, Apply,
         ApplyFails, PublishFailure, FinishRun, diskVars, fileVars, sessionVars, startVars

\* A step of a worker keeps Ownership.
LEMMA WorkerOwnership ==
  ASSUME Ownership, NEW n \in Nonces, WorkerStep(n) \/ ScanFails(n) \/ ApplyFails(n)
  PROVE  HolderKnown' /\ NothingEarly' /\ CacheOpenExclusive'
  <1>1. \A m \in Nonces : Early(m) => worker'[m] = worker[m]
    BY WorkerStepMoves DEF Ownership, NothingEarly
  <1>. QED BY <1>1, WorkerStepFrame, BystanderOwnership

\* A failing step keeps Ownership.
LEMMA FailureOwnership ==
  ASSUME Ownership, NEW n \in Nonces, FailureStep(n)
  PROVE  HolderKnown' /\ NothingEarly' /\ CacheOpenExclusive'
  <1>0. TypeOK
    BY DEF Ownership
  <1>1. ASSUME ClearIfOwned(n), Past(n, "over"), starter[n].pc # "none",
               UNCHANGED <<nextNonce, listener, workVars>>
        PROVE  HolderKnown' /\ NothingEarly'
    <2>1. Turns(n, "over")
      BY <1>0, <1>1, StarterTurns DEF StarterPcs
    <2>. QED BY <1>1, <2>1, TurnKeeps DEF ClearIfOwned, StarterPcs, Preparing, workVars
  <1>2. CASE CacheOpenFails(n)
    <2>1. CacheOpenExclusive'
      BY <1>2 DEF CacheOpenFails, StartupUnlocked, CacheOpenExclusive
    <2>2. HolderKnown' /\ NothingEarly'
      BY <1>1, <1>2, StayKeeps DEF CacheOpenFails, workVars
    <2>. QED BY <2>1, <2>2
  <1>3. CASE PrepareFails(n)
    <2>1. CacheOpenExclusive'
      BY <1>3 DEF PrepareFails, ClearIfOwned, NoGeneration, Ownership, CacheOpenExclusive
    <2>. QED BY <1>1, <1>3, <2>1 DEF PrepareFails
  <1>4. CASE NotifyError(n)
    <2>1. \A m \in Nonces : listener'[m].pc = listener[m].pc
      BY <1>0, <1>4 DEF NotifyError, TypeOK, Listeners
    <2>. QED BY <1>4, <2>1, BystanderOwnership DEF NotifyError, workVars
  <1>5. CASE ScanFails(n) \/ ApplyFails(n)
    BY <1>5, WorkerOwnership
  <1>. QED BY <1>2, <1>3, <1>4, <1>5 DEF FailureStep

\* A call of the commands keeps Ownership.
LEMMA UserOwnership ==
  ASSUME Ownership, UserStep
  PROVE  HolderKnown' /\ NothingEarly' /\ CacheOpenExclusive'
  <1>0. TypeOK /\ NothingEarly
    BY DEF Ownership
  <1>1. ASSUME NEW s \in Sessions, ReserveSession(s)
        PROVE  HolderKnown' /\ NothingEarly' /\ CacheOpenExclusive'
    <2>1. /\ starter'[nextNonce].pc = "reserved" /\ starter'[nextNonce].session = s
          /\ \A m \in Nonces \ {nextNonce} : starter'[m] = starter[m]
      BY <1>0, <1>1 DEF ReserveSession, TypeOK, StartTypeOK, Starters, NoStarter
    <2>2. \A m \in Nonces : worker'[m] = worker[m] /\ listener'[m].pc = listener[m].pc
      BY <1>0, <1>1, UnwatchedStays DEF ReserveSession, workVars, TypeOK
    <2>3. HolderKnown'
      BY <1>1, <2>1, SlotAssumption DEF ReserveSession, HolderKnown, NonceAfter, Preparing, Nonces
    <2>4. NothingEarly'
      BY <1>0, <1>1, <2>1, <2>2, SlotAssumption
      DEF ReserveSession, NothingEarly, Early, NonceAfter, Preparing, Nonces
    <2>. QED BY <1>1, <2>3, <2>4 DEF ReserveSession, StartupLockFree, CacheOpenExclusive
  <1>2. ASSUME NEW s \in Sessions, Refresh(s)
        PROVE  HolderKnown' /\ NothingEarly' /\ CacheOpenExclusive'
    <2>1. generation.owner.nonce \in Nonces
      BY <1>0, <1>2 DEF Refresh, TypeOK, SlotTypeOK, Owners
    <2>2. Owned(generation.owner.nonce)
      BY <1>2, <2>1, HolderIsNonce DEF Refresh, Owned
    <2>. QED BY <1>2, <2>1, <2>2, RequestIsLate, BystanderOwnership DEF Refresh
  <1>3. ASSUME NEW s \in Sessions, StopSession(s)
        PROVE  HolderKnown' /\ NothingEarly' /\ CacheOpenExclusive'
    <2>1. \A m \in Nonces : listener'[m].pc = listener[m].pc
      BY <1>0, <1>3, UnwatchedStays DEF StopSession, TypeOK
    <2>. QED
      BY <1>3, <2>1, StayKeeps
      DEF StopSession, startVars, workVars, StartupLockFree, CacheOpenExclusive
  <1>4. ASSUME NEW s \in Sessions, NEW p \in Paths, SetOpenDocument(s, p)
        PROVE  HolderKnown' /\ NothingEarly' /\ CacheOpenExclusive'
    BY <1>4, BystanderOwnership DEF SetOpenDocument, workVars
  <1>5. ASSUME NEW n \in Nonces, AbortStart(n) \/ StopGeneration(n)
        PROVE  HolderKnown' /\ NothingEarly' /\ CacheOpenExclusive'
    <2>1. Turns(n, "over")
      BY <1>0, <1>5, StarterTurns DEF AbortStart, StopGeneration, StarterPcs
    <2>2. \A m \in Nonces : worker'[m] = worker[m] /\ listener'[m].pc = listener[m].pc
      BY <1>0, <1>5, UnwatchedStays DEF AbortStart, StopGeneration, CancelOwner, workVars, TypeOK
    <2>3. generation' = NoGeneration \/ (generation' = generation /\ ~HoldsSlot(n))
      BY <1>5 DEF AbortStart, StopGeneration, CancelOwner
    <2>4. HolderKnown' /\ NothingEarly'
      BY <1>5, <2>1, <2>2, <2>3, TurnKeeps DEF AbortStart, StopGeneration, StarterPcs, Preparing
    <2>. QED
      BY <1>5, <2>3, <2>4
      DEF AbortStart, StopGeneration, NoGeneration, Ownership, CacheOpenExclusive
  <1>. QED BY <1>1, <1>2, <1>3, <1>4, <1>5 DEF UserStep

\* A change of the files keeps Ownership.
LEMMA FileOwnership ==
  ASSUME Ownership, FileStep
  PROVE  HolderKnown' /\ NothingEarly' /\ CacheOpenExclusive'
  <1>1. PICK files : Changed(files)
    BY DEF FileStep, WriteFile, DeleteFile, RenameFile
  <1>2. \A m \in Nonces : listener'[m].pc = listener[m].pc
    BY <1>1 DEF Changed, Ownership, TypeOK, Listeners
  <1>. QED BY <1>1, <1>2, BystanderOwnership DEF Changed, workVars

\* Ownership holds at the start, where the slot is empty.
LEMMA InitOwnership == Init => Ownership
  <1>. SUFFICES ASSUME Init PROVE Ownership
    OBVIOUS
  <1>1. TypeOK /\ BatchLine
    BY InitTypes
  <1>2. HolderKnown /\ NothingEarly /\ CacheOpenExclusive
    BY SlotAssumption
    DEF Init, SlotInit, NoGeneration, HolderKnown, NothingEarly, Early, CacheOpenExclusive,
        NoStarter, IdleWorker, NoListener, Nonces
  <1>. QED BY <1>1, <1>2 DEF Ownership

\* Every step keeps Ownership.
LEMMA NextOwnership ==
  ASSUME Ownership, [Next]_vars
  PROVE  Ownership'
  <1>1. TypeOK' /\ BatchLine'
    BY StepTypes, BatchLineKept DEF Ownership
  <1>2. ASSUME UNCHANGED vars
        PROVE  HolderKnown' /\ NothingEarly' /\ CacheOpenExclusive'
    BY <1>2, BystanderOwnership DEF vars, workVars
  <1>3. ASSUME Next PROVE HolderKnown' /\ NothingEarly' /\ CacheOpenExclusive'
    BY <1>3, StarterOwnership, ListenerOwnership, WorkerOwnership, FailureOwnership,
       UserOwnership, FileOwnership DEF Next
  <1>. QED BY <1>1, <1>2, <1>3 DEF Ownership

\* The invariant everything rests on: the holder of the slot is the owner its start
\* was given, and nothing runs for a generation before its session is activated.
THEOREM OwnershipHolds == Spec => []Ownership
  <1>1. Ownership /\ [Next]_vars => Ownership'
    BY NextOwnership
  <1>. QED BY InitOwnership, <1>1, PTL DEF Spec

\* No session exists while a blocking thread opens or moves away the cache file, except
\* the one it is opened for (startup_mutations in prepare_session).
THEOREM CacheOpenIsExclusive == Spec => []CacheOpenExclusive
  <1>1. Ownership => CacheOpenExclusive
    BY DEF Ownership
  <1>. QED BY OwnershipHolds, <1>1, PTL

-----------------------------------------------------------------------------
(***************************************************************************)
(* The slot of the runtime implements GenerationSlot.                      *)
(***************************************************************************)

\* Emptying the slot is a step of the slot's specification.
LEMMA ReleaseIsSlotStep ==
  ASSUME Ownership, generation.kind # "none", generation' = NoGeneration, UNCHANGED nextNonce
  PROVE  SlotNext
  <1>1. generation.owner.nonce \in Nonces
    BY DEF Ownership, TypeOK, SlotTypeOK, Owners
  <1>. QED BY <1>1 DEF SlotNext, ReleaseSlot

\* Every step of the runtime is a step of the slot or leaves it alone.
LEMMA SlotSteps ==
  ASSUME Ownership, [Next]_vars
  PROVE  [SlotNext]_slotVars
  <1>1. ASSUME NEW n \in Nonces, StarterStep(n) PROVE [SlotNext]_slotVars
    <2>1. CASE Activate(n) /\ Starting(n)
      <3>1. ActivateSlot(n)
        BY <2>1, HolderIsNonce DEF Activate, ActivateSlot, Starting
      <3>. QED BY <3>1 DEF SlotNext
    <2>2. CASE Activate(n) /\ ~Starting(n)
      BY <2>2 DEF Activate, slotVars
    <2>3. CASE ~Activate(n)
      BY <1>1, <2>3
      DEF StarterStep, BeginCacheOpen, CacheOpened, StartScan, StartWatcher,
          InstallWatcher, FirstRequest, CompleteStart
    <2>. QED BY <2>1, <2>2, <2>3
  <1>2. ASSUME NEW n \in Nonces, ListenerStep(n) PROVE [SlotNext]_slotVars
    BY <1>2 DEF ListenerStep, NotifyChange, ListenerReceives, WindowCloses, ListenerStops
  <1>3. ASSUME NEW n \in Nonces, WorkerStep(n) PROVE [SlotNext]_slotVars
    BY <1>3, WorkerStepFrame
  <1>4. ASSUME NEW n \in Nonces, FailureStep(n) PROVE [SlotNext]_slotVars
    <2>1. CASE CacheOpenFails(n) \/ PrepareFails(n)
      <3>1. UNCHANGED nextNonce /\ (UNCHANGED generation \/ ClearIfOwned(n))
        BY <2>1 DEF CacheOpenFails, PrepareFails
      <3>. QED BY <3>1, ReleaseIsSlotStep DEF ClearIfOwned, HoldsSlot, slotVars
    <2>2. CASE NotifyError(n)
      BY <2>2 DEF NotifyError
    <2>3. CASE ScanFails(n) \/ ApplyFails(n)
      BY <2>3, WorkerStepFrame
    <2>. QED BY <1>4, <2>1, <2>2, <2>3 DEF FailureStep
  <1>5. ASSUME UserStep PROVE [SlotNext]_slotVars
    <2>1. ASSUME NEW s \in Sessions, ReserveSession(s) PROVE [SlotNext]_slotVars
      <3>1. generation.kind = "none" => generation.owner.session = NoSession
        BY DEF Ownership, TypeOK, SlotTypeOK, NoOwner
      <3>2. ReserveSlot(s)
        BY <2>1, <3>1, SlotAssumption DEF ReserveSession, ReserveSlot, NonceAfter
      <3>. QED BY <3>2 DEF SlotNext
    <2>2. ASSUME NEW s \in Sessions, StopSession(s) PROVE [SlotNext]_slotVars
      BY <2>2, ReleaseIsSlotStep DEF StopSession
    <2>3. ASSUME NEW n \in Nonces, AbortStart(n) \/ StopGeneration(n) PROVE [SlotNext]_slotVars
      BY <2>3, ReleaseIsSlotStep DEF AbortStart, StopGeneration, CancelOwner, HoldsSlot, slotVars
    <2>4. CASE \/ \E s \in Sessions : Refresh(s)
               \/ \E s \in Sessions, p \in Paths : SetOpenDocument(s, p)
      BY <2>4 DEF Refresh, SetOpenDocument
    <2>. QED BY <1>5, <2>1, <2>2, <2>3, <2>4 DEF UserStep
  <1>6. ASSUME FileStep PROVE [SlotNext]_slotVars
    BY <1>6 DEF FileStep, WriteFile, DeleteFile, RenameFile, Changed
  <1>7. CASE UNCHANGED vars
    BY <1>7 DEF vars
  <1>. QED BY <1>1, <1>2, <1>3, <1>4, <1>5, <1>6, <1>7 DEF Next

\* Whatever its tasks do, the runtime gives its slot to one owner at a time, activates
\* the starting owner only, and never gives a nonce out twice: it implements GenerationSlot.
THEOREM ImplementsSlot == Spec => SlotSpec
  <1>1. Init => SlotInit
    BY DEF Init
  <1>2. Ownership /\ [Next]_vars => [SlotNext]_slotVars
    BY SlotSteps
  <1>. QED BY OwnershipHolds, <1>1, <1>2, PTL DEF Spec, SlotSpec

-----------------------------------------------------------------------------
(***************************************************************************)
(* What the active session promises while its tasks and those of former    *)
(* generations run: one worker behind the gate, a status that tells of     *)
(* watcher failures, an open document that exists, no interference, and    *)
(* a batch that still answers its plan.                                    *)
(***************************************************************************)
SessionOK == GateMatchesWorker /\ DegradedIsShown /\ OpenDocumentListed

Active == generation.kind = "active"
Holder == generation.owner.nonce

\* An active session has a nonce that was given out, and is owned by its holder.
LEMMA ActiveHolder ==
  ASSUME Ownership, Active
  PROVE  Holder \in Nonces /\ Owned(Holder)
  <1>1. Holder \in Nonces
    BY DEF Ownership, TypeOK, SlotTypeOK, Owners, Active, Holder
  <1>. QED BY <1>1, HolderIsNonce DEF Active, Holder, Owned

\* A task owns the session exactly when it is active under the task's nonce.
LEMMA OwnedIsHolder ==
  ASSUME Ownership, NEW n \in Nonces
  PROVE  Owned(n) <=> Active /\ Holder = n
  BY HolderIsNonce DEF Owned, Active, Holder

\* A step that leaves the session alone and neither wakes nor ends its worker.
LEMMA SessionKept ==
  ASSUME SessionOK, UNCHANGED <<generation, gate, snapshot>>,
         watch'.degradation = watch.degradation, Active => cache'.open = cache.open,
         Active => (worker'[Holder].pc = "idle" <=> worker[Holder].pc = "idle")
  PROVE  SessionOK'
  BY DEF SessionOK, GateMatchesWorker, DegradedIsShown, OpenDocumentListed, Active, Holder

\* A request keeps the gate and the worker in step.
LEMMA RequestKeeps ==
  ASSUME Ownership, SessionOK, NEW n \in Nonces, Owned(n), NEW id, Request(n, id),
         UNCHANGED <<generation, snapshot, cache>>
  PROVE  SessionOK'
  <1>1. Active /\ Holder = n
    BY OwnedIsHolder
  <1>2. watch'.degradation = watch.degradation
    BY DEF Request, Claimed, Ownership, TypeOK, SessionTypeOK, Watches
  <1>3. gate'.running <=> worker'[n].pc # "idle"
    <2>1. gate \in Gates /\ worker \in [Nonces -> Workers]
      BY DEF Ownership, TypeOK, SessionTypeOK, WorkTypeOK
    <2>2. CASE RequestStarts(gate)
      BY <2>1, <2>2 DEF Request, RequestStarts, AfterRequest, Spawned, Gates
    <2>3. CASE ~RequestStarts(gate)
      <3>1. gate'.running = gate.running /\ worker' = worker
        BY <2>1, <2>3 DEF Request, RequestStarts, AfterRequest, Gates
      <3>. QED BY <1>1, <3>1 DEF SessionOK, GateMatchesWorker, Active, Holder
    <2>. QED BY <2>2, <2>3
  <1>. QED
    BY <1>1, <1>2, <1>3
    DEF SessionOK, GateMatchesWorker, DegradedIsShown, OpenDocumentListed, Active, Holder

\* A request that checks for ownership keeps the session right.
LEMMA RequestReconcileKeeps ==
  ASSUME Ownership, SessionOK, NEW n \in Nonces, RequestReconcile(n),
         UNCHANGED <<generation, snapshot, cache>>
  PROVE  SessionOK'
  <1>1. CASE Owned(n)
    BY <1>1, RequestKeeps DEF RequestReconcile
  <1>2. CASE ~Owned(n)
    BY <1>2, SessionKept DEF RequestReconcile
  <1>. QED BY <1>1, <1>2

\* Marking the session as degraded shows it.
LEMMA MarkKeeps ==
  ASSUME Ownership, SessionOK, NEW n \in Nonces, MarkWatcherDegraded(n),
         UNCHANGED <<generation, gate, cache, worker>>
  PROVE  SessionOK'
  <1>1. CASE Marked(n)
    <2>1. watch'.degradation # 0
      BY <1>1 DEF Marked, Ownership, TypeOK, SessionTypeOK, Watches
    <2>2. /\ snapshot'.status = "degraded" /\ snapshot'.open = snapshot.open
          /\ snapshot'.catalog = snapshot.catalog
      BY <1>1 DEF Marked, EffectiveStatus, Ownership, TypeOK, SessionTypeOK, Snapshots
    <2>. QED
      BY <2>1, <2>2
      DEF SessionOK, GateMatchesWorker, DegradedIsShown, OpenDocumentListed
  <1>2. CASE UNCHANGED <<marks, watch, snapshot>>
    BY <1>2, SessionKept
  <1>. QED BY <1>1, <1>2 DEF MarkWatcherDegraded

-----------------------------------------------------------------------------
\* A step of a start keeps the session right: the session it activates starts right.
LEMMA StarterSession ==
  ASSUME Ownership, SessionOK, NEW n \in Nonces, StarterStep(n)
  PROVE  SessionOK'
  <1>1. CASE BeginCacheOpen(n) \/ (\E p \in Paths : StartScan(n, p)) \/ CompleteStart(n)
    BY <1>1, SessionKept
    DEF BeginCacheOpen, StartScan, CompleteStart, slotVars, diskVars, sessionVars, workVars
  <1>2. CASE CacheOpened(n)
    <2>1. ~Active
      BY <1>2 DEF CacheOpened, Ownership, CacheOpenExclusive, Nonces, Active
    <2>2. generation' = generation
      BY <1>2 DEF CacheOpened, slotVars
    <2>. QED
      BY <2>1, <2>2
      DEF SessionOK, GateMatchesWorker, DegradedIsShown, OpenDocumentListed, Active
  <1>3. CASE Activate(n)
    <2>1. CASE Starting(n)
      <3>1. worker[n].pc = "idle" /\ worker' = worker
        BY <1>3 DEF Activate, Ownership, NothingEarly, Early, Preparing, workVars
      <3>2. generation'.owner.nonce = n
        BY <1>3, <2>1, HolderIsNonce DEF Activate, Starting, Ownership, TypeOK, SlotTypeOK
      <3>3. /\ ~gate'.running /\ watch'.degradation = 0
            /\ snapshot' = [catalog |-> starter[n].catalog,
                            open |-> RestoredOpen(starter[n].catalog),
                            status |-> "preparing"]
        BY <1>3, <2>1 DEF Activate, NewGate, NewWatch
      <3>4. cache'.open = snapshot'.open
        BY <1>3, <2>1 DEF Activate, Ownership, TypeOK, DiskTypeOK, Caches
      <3>5. snapshot'.open = NoPath \/ Listed(snapshot'.catalog, snapshot'.open)
        BY <3>3 DEF RestoredOpen
      <3>. QED
        BY <3>1, <3>2, <3>3, <3>4, <3>5
        DEF SessionOK, GateMatchesWorker, DegradedIsShown, OpenDocumentListed
    <2>2. CASE ~Starting(n)
      BY <1>3, <2>2, SessionKept DEF Activate, workVars
    <2>. QED BY <2>1, <2>2
  <1>4. CASE StartWatcher(n)
    <2>1. MarkWatcherDegraded(n) \/ UNCHANGED <<watch, marks, snapshot>>
      BY <1>4 DEF StartWatcher
    <2>. QED
      BY <1>4, <2>1, MarkKeeps, SessionKept DEF StartWatcher, slotVars, diskVars, workVars
  <1>5. CASE InstallWatcher(n)
    <2>1. watch'.degradation = watch.degradation
      BY <1>5 DEF InstallWatcher, Ownership, TypeOK, SessionTypeOK, Watches
    <2>. QED BY <1>5, <2>1, SessionKept DEF InstallWatcher, slotVars, diskVars, workVars
  <1>6. CASE FirstRequest(n)
    BY <1>6, RequestReconcileKeeps DEF FirstRequest, slotVars, diskVars
  <1>. QED BY <1>1, <1>2, <1>3, <1>4, <1>5, <1>6 DEF StarterStep

\* A step of a watcher or its listener keeps the session right.
LEMMA ListenerSession ==
  ASSUME Ownership, SessionOK, NEW n \in Nonces, ListenerStep(n)
  PROVE  SessionOK'
  <1>1. CASE NotifyChange(n) \/ ListenerStops(n)
    BY <1>1, SessionKept
    DEF NotifyChange, ListenerStops, slotVars, diskVars, sessionVars, workVars
  <1>2. CASE ListenerReceives(n)
    <2>1. MarkWatcherDegraded(n) \/ UNCHANGED <<watch, marks, snapshot>>
      BY <1>2 DEF ListenerReceives
    <2>. QED
      BY <1>2, <2>1, MarkKeeps, SessionKept DEF ListenerReceives, slotVars, diskVars, workVars
  <1>3. CASE WindowCloses(n)
    BY <1>3, RequestReconcileKeeps DEF WindowCloses, slotVars, diskVars
  <1>. QED BY <1>1, <1>2, <1>3 DEF ListenerStep

\* While worker n is out, it stays out of "idle" except when it finishes.
LEMMA WorkerStaysOut ==
  ASSUME Ownership, SessionOK, NEW n \in Nonces, worker[n].pc # "idle",
         worker'[n].pc # "idle", \A m \in Nonces \ {n} : worker'[m] = worker[m]
  PROVE  Active => (worker'[Holder].pc = "idle" <=> worker[Holder].pc = "idle")
  BY ActiveHolder

\* The document open after a reconciliation is listed in the new tree.
LEMMA RenamedIsListed ==
  ASSUME NEW open, NEW old, NEW new
  PROVE  OpenAfter(open, old, new) = NoPath \/ Listed(new, OpenAfter(open, old, new))
  <1>1. CASE open = NoPath \/ Listed(new, open)
    BY <1>1 DEF OpenAfter
  <1>2. CASE ~(open = NoPath \/ Listed(new, open)) /\ Renames(open, old, new) # {}
    <2>1. PICK p \in Renames(open, old, new) : p = CHOOSE q \in Renames(open, old, new) : TRUE
      BY <1>2
    <2>2. Listed(new, p)
      <3>1. p \in Paths /\ p \in WithId(new, old[open].id)
        BY <2>1 DEF Renames
      <3>. QED BY <3>1 DEF WithId, Listed
    <2>. QED BY <1>2, <2>1, <2>2 DEF OpenAfter
  <1>3. CASE ~(open = NoPath \/ Listed(new, open)) /\ Renames(open, old, new) = {}
    BY <1>3 DEF OpenAfter
  <1>. QED BY <1>1, <1>2, <1>3

\* A step of a worker keeps the session right.
LEMMA WorkerSession ==
  ASSUME Ownership, SessionOK, NEW n \in Nonces, WorkerStep(n) \/ ScanFails(n) \/ ApplyFails(n)
  PROVE  SessionOK'
  <1>0. TypeOK
    BY DEF Ownership
  <1>1. /\ worker[n].pc # "idle" /\ \A m \in Nonces \ {n} : worker'[m] = worker[m]
        /\ UNCHANGED <<generation, fs>>
    BY <1>0, WorkerStepMoves, WorkerStepFrame DEF slotVars, fileVars
  <1>2. ASSUME worker'[n].pc # "idle", UNCHANGED <<gate, snapshot>>, cache'.open = cache.open,
               watch'.degradation = watch.degradation
        PROVE  SessionOK'
    BY <1>1, <1>2, WorkerStaysOut, SessionKept
  <1>3. ASSUME ~FinishRun(n) PROVE worker'[n].pc # "idle"
    <2>1. CASE \E p \in Paths : Scan(n, p)
      BY <1>0, <2>1 DEF Scan, TypeOK, WorkTypeOK, Workers
    <2>6. CASE ScanFails(n)
      BY <1>0, <2>6, WorkerMoves DEF ScanFails, TypeOK, WorkTypeOK, WorkerPcs, Moves
    <2>7. CASE BeginRun(n)
      <3>1. CASE Owned(n)
        <4>1. worker' = [worker EXCEPT ![n] = [worker[n] EXCEPT
                           !.pc = "scanning", !.left = Paths, !.claim = watch.current]]
          BY <2>7, <3>1 DEF BeginRun
        <4>. QED BY <1>0, <4>1 DEF TypeOK, WorkTypeOK, Workers
      <3>2. CASE ~Owned(n)
        BY <1>0, <2>7, <3>2, WorkerMoves DEF BeginRun, TypeOK, WorkTypeOK, WorkerPcs, Moves
      <3>. QED BY <3>1, <3>2
    <2>2. CASE Plan(n)
      BY <1>0, <2>2 DEF Plan, RunEnds, TypeOK, WorkTypeOK, Workers, IdleWorker
    <2>3. CASE BeginBatch(n) \/ EndBatch(n)
      BY <1>0, <2>3, WorkerMoves DEF BeginBatch, EndBatch, TypeOK, WorkTypeOK, WorkerPcs, Moves
    <2>4. CASE \E p \in Paths : ReadBody(n, p)
      BY <1>0, <2>4 DEF ReadBody, TypeOK, WorkTypeOK, Workers
    <2>5. CASE Apply(n) \/ ApplyFails(n) \/ PublishFailure(n)
      BY <1>0, <2>5, WorkerMoves
      DEF Apply, ApplyFails, PublishFailure, TypeOK, WorkTypeOK, WorkerPcs, Moves
    <2>. QED BY <1>3, <2>1, <2>2, <2>3, <2>4, <2>5, <2>6, <2>7 DEF WorkerStep
  <1>4. CASE BeginRun(n)
    <2>1. UNCHANGED <<gate, snapshot, cache>> /\ watch'.degradation = watch.degradation
      BY <1>0, <1>4 DEF BeginRun, diskVars, TypeOK, SessionTypeOK, Watches
    <2>. QED BY <1>2, <1>3, <1>4, <2>1 DEF BeginRun, FinishRun
  <1>5. CASE \/ \E p \in Paths : Scan(n, p) \/ ReadBody(n, p)
             \/ ScanFails(n) \/ Plan(n) \/ BeginBatch(n) \/ EndBatch(n) \/ PublishFailure(n)
    <2>1. UNCHANGED <<gate, watch, snapshot, cache>> /\ worker[n].pc # "finishing"
      BY <1>5
      DEF Scan, ReadBody, ScanFails, Plan, BeginBatch, EndBatch, PublishFailure, diskVars, sessionVars
    <2>. QED BY <1>2, <1>3, <2>1 DEF FinishRun
  <1>6. CASE Apply(n)
    <2>1. worker'[n].pc # "idle"
      BY <1>3, <1>6 DEF Apply, FinishRun
    <2>2. CASE Owned(n)
      <3>1. Active /\ Holder = n
        BY <2>2, OwnedIsHolder
      <3>2. /\ gate' = gate /\ cache'.open = NewOpen(n)
            /\ snapshot' = [catalog |-> worker[n].found, open |-> NewOpen(n),
                            status |-> EffectiveStatus(watch'.degradation, "ready")]
        BY <1>0, <1>6, <2>2 DEF Apply, TypeOK, DiskTypeOK, Caches
      <3>3. GateMatchesWorker'
        BY <1>1, <2>1, <3>1, <3>2 DEF SessionOK, GateMatchesWorker, Active, Holder
      <3>4. DegradedIsShown'
        BY <3>2 DEF DegradedIsShown, EffectiveStatus
      <3>5. OpenDocumentListed'
        BY <3>2, RenamedIsListed DEF OpenDocumentListed, NewOpen
      <3>. QED BY <3>3, <3>4, <3>5 DEF SessionOK
    <2>3. CASE ~Owned(n)
      BY <1>2, <1>6, <2>1, <2>3 DEF Apply
    <2>. QED BY <2>2, <2>3
  <1>7. CASE ApplyFails(n)
    <2>1. UNCHANGED <<gate, watch, snapshot>> /\ cache'.open = cache.open
      BY <1>0, <1>7 DEF ApplyFails, sessionVars, TypeOK, DiskTypeOK, Caches
    <2>. QED BY <1>2, <1>3, <1>7, <2>1 DEF ApplyFails, FinishRun
  <1>8. CASE FinishRun(n)
    <2>1. CASE Owned(n)
      <3>1. Active /\ Holder = n
        BY <2>1, OwnedIsHolder
      <3>2. gate.running
        BY <1>1, <3>1 DEF SessionOK, GateMatchesWorker, Active, Holder
      <3>3. gate'.running <=> worker'[n].pc # "idle"
        <4>1. gate'.running = (IF FinishStarts(gate) THEN gate.running ELSE FALSE)
          BY <1>0, <1>8, <2>1 DEF FinishRun, AfterFinish, TypeOK, SessionTypeOK, Gates
        <4>2. worker'[n].pc = IF FinishStarts(gate) THEN "spawned" ELSE "idle"
          BY <1>0, <1>8, <2>1 DEF FinishRun, Spawned, IdleWorker, TypeOK, WorkTypeOK
        <4>. QED BY <3>2, <4>1, <4>2
      <3>4. UNCHANGED <<snapshot, cache>> /\ watch'.degradation = watch.degradation
        BY <1>0, <1>8, <2>1 DEF FinishRun, diskVars, TypeOK, SessionTypeOK, Watches
      <3>. QED
        BY <1>1, <3>1, <3>3, <3>4
        DEF SessionOK, GateMatchesWorker, DegradedIsShown, OpenDocumentListed, Active, Holder
    <2>2. CASE ~Owned(n)
      <3>1. Active => Holder # n /\ Holder \in Nonces
        BY <2>2, OwnedIsHolder, ActiveHolder
      <3>2. UNCHANGED <<gate, watch, snapshot, cache>>
        BY <1>8, <2>2 DEF FinishRun, diskVars
      <3>. QED BY <1>1, <3>1, <3>2, SessionKept
    <2>. QED BY <2>1, <2>2
  <1>. QED BY <1>4, <1>5, <1>6, <1>7, <1>8 DEF WorkerStep

\* Closing, cancelling and failing keep the session right.
LEMMA OtherSession ==
  ASSUME Ownership, SessionOK, NEW n \in Nonces,
         CacheOpenFails(n) \/ PrepareFails(n) \/ NotifyError(n) \/ AbortStart(n) \/ StopGeneration(n)
  PROVE  SessionOK'
  <1>1. CASE NotifyError(n)
    BY <1>1, SessionKept DEF NotifyError, slotVars, sessionVars, workVars
  <1>2. CASE CacheOpenFails(n) \/ PrepareFails(n)
    <2>1. UNCHANGED <<cache, gate, watch, snapshot, worker>>
      BY <1>2 DEF CacheOpenFails, PrepareFails, diskVars, sessionVars, workVars
    <2>2. generation' = generation \/ generation'.kind = "none"
      BY <1>2 DEF CacheOpenFails, PrepareFails, ClearIfOwned, NoGeneration
    <2>. QED
      BY <2>1, <2>2, SessionKept
      DEF SessionOK, GateMatchesWorker, DegradedIsShown, OpenDocumentListed
  <1>3. CASE AbortStart(n) \/ StopGeneration(n)
    <2>1. UNCHANGED <<cache, worker>>
      BY <1>3 DEF AbortStart, StopGeneration, diskVars, workVars
    <2>2. \/ generation'.kind = "none"
          \/ UNCHANGED <<generation, gate, watch, snapshot>>
      BY <1>3 DEF AbortStart, StopGeneration, CancelOwner, NoGeneration
    <2>. QED
      BY <2>1, <2>2, SessionKept
      DEF SessionOK, GateMatchesWorker, DegradedIsShown, OpenDocumentListed
  <1>. QED BY <1>1, <1>2, <1>3

\* A call of the commands keeps the session right.
LEMMA UserSession ==
  ASSUME Ownership, SessionOK, UserStep
  PROVE  SessionOK'
  <1>0. TypeOK
    BY DEF Ownership
  <1>1. ASSUME NEW s \in Sessions, ReserveSession(s) \/ StopSession(s) PROVE SessionOK'
    <2>1. generation'.kind # "active"
      BY <1>1 DEF ReserveSession, StopSession, NoGeneration
    <2>. QED
      BY <2>1 DEF SessionOK, GateMatchesWorker, DegradedIsShown, OpenDocumentListed
  <1>2. ASSUME NEW s \in Sessions, Refresh(s) PROVE SessionOK'
    BY <1>2, ActiveHolder, RequestKeeps DEF Refresh, Active, Holder, slotVars, diskVars
  <1>3. ASSUME NEW s \in Sessions, NEW p \in Paths, SetOpenDocument(s, p) PROVE SessionOK'
    <2>1. /\ Listed(snapshot.catalog, p)
          /\ cache'.open = p /\ snapshot'.open = p
          /\ snapshot'.catalog = snapshot.catalog /\ snapshot'.status = snapshot.status
      BY <1>0, <1>3
      DEF SetOpenDocument, TypeOK, DiskTypeOK, Caches, SessionTypeOK, Snapshots
    <2>2. UNCHANGED <<generation, gate, watch, worker>>
      BY <1>3 DEF SetOpenDocument, slotVars, workVars
    <2>. QED
      BY <2>1, <2>2 DEF SessionOK, GateMatchesWorker, DegradedIsShown, OpenDocumentListed
  <1>. QED BY <1>1, <1>2, <1>3, OtherSession DEF UserStep

\* Every step keeps the session right.
LEMMA NextSession ==
  ASSUME Ownership, SessionOK, [Next]_vars
  PROVE  SessionOK'
  <1>1. ASSUME NEW n \in Nonces, FailureStep(n) PROVE SessionOK'
    BY <1>1, OtherSession, WorkerSession DEF FailureStep
  <1>2. CASE FileStep
    BY <1>2, SessionKept
    DEF FileStep, WriteFile, DeleteFile, RenameFile, Changed, slotVars, sessionVars, workVars
  <1>3. CASE UNCHANGED vars
    BY <1>3, SessionKept DEF vars, slotVars, diskVars, sessionVars, workVars
  <1>. QED
    BY <1>1, <1>2, <1>3, StarterSession, ListenerSession, WorkerSession, UserSession DEF Next

\* The active session is right in all that is shown of it at once: its gate, its status
\* and its open document (ActiveSession of documents/runtime.rs).
THEOREM SessionHolds == Spec => []SessionOK
  <1>1. Init => SessionOK
    BY DEF Init, SlotInit, NoGeneration, SessionOK, GateMatchesWorker, DegradedIsShown,
           OpenDocumentListed
  <1>2. Ownership /\ SessionOK /\ [Next]_vars => SessionOK'
    BY NextSession
  <1>. QED BY OwnershipHolds, <1>1, <1>2, PTL DEF Spec

\* The gate of the active session says that a worker runs exactly when one does, whatever
\* workers of former generations are still out (ReconcileGate, finish_reconcile).
THEOREM GateIsRight == Spec => []GateMatchesWorker
  <1>1. SessionOK => GateMatchesWorker
    BY DEF SessionOK
  <1>. QED BY SessionHolds, <1>1, PTL

\* The session is shown as degraded exactly while a watcher failure has not been followed
\* by the run of a later refresh (effective_index_status, clear_watcher_degradation).
THEOREM DegradationIsShown == Spec => []DegradedIsShown
  <1>1. SessionOK => DegradedIsShown
    BY DEF SessionOK
  <1>. QED BY SessionHolds, <1>1, PTL

\* The open document is listed in the tree and is the one the cache would restore
\* (set_open_document, reconcile_open_document, last_opened_path).
THEOREM OpenIsListed == Spec => []OpenDocumentListed
  <1>1. SessionOK => OpenDocumentListed
    BY DEF SessionOK
  <1>. QED BY SessionHolds, <1>1, PTL

-----------------------------------------------------------------------------
(***************************************************************************)
(* Interference.  Tasks of former generations leave the session alone, and *)
(* the plan of a run stays the plan until its batch is applied.            *)
(***************************************************************************)

MovesOnly(n) == \A m \in Nonces \ {n} : ~TaskMoves(m)

\* A start that turns moves no task of another generation.
LEMMA TurnMovesOnly ==
  ASSUME NEW n \in Nonces, NEW pc, Turns(n, pc),
         \A m \in Nonces \ {n} : worker'[m] = worker[m] /\ listener'[m].queue = listener[m].queue
  PROVE  MovesOnly(n)
  BY DEF MovesOnly, TaskMoves, Turns

\* A step of a start writes to the session only for its own generation.
LEMMA StarterWrites ==
  ASSUME Ownership, NEW n \in Nonces, StarterStep(n)
  PROVE  MovesOnly(n) /\ (SessionChanges => generation.owner.nonce = n \/ mutation = n)
  <1>0. TypeOK
    BY DEF Ownership
  <1>1. \E pc : Turns(n, pc)
    <2>1. CASE CacheOpened(n) \/ (\E p \in Paths : StartScan(n, p))
      <3>1. Turns(n, "opened") \/ Turns(n, starter[n].pc)
        <4>1. CASE CacheOpened(n) /\ starter[n].pc # "opening"
          BY <4>1 DEF CacheOpened, Turns
        <4>2. CASE CacheOpened(n) /\ starter[n].pc = "opening"
          BY <1>0, <4>2 DEF CacheOpened, Turns, TypeOK, StartTypeOK, Starters
        <4>3. CASE \E p \in Paths : StartScan(n, p)
          BY <1>0, <4>3 DEF StartScan, Turns, TypeOK, StartTypeOK, Starters
        <4>. QED BY <2>1, <4>1, <4>2, <4>3
      <3>. QED BY <3>1
    <2>2. CASE BeginCacheOpen(n) \/ Activate(n) \/ CompleteStart(n)
      BY <1>0, <2>2, StarterTurns DEF BeginCacheOpen, Activate, CompleteStart, StarterPcs
    <2>3. CASE StartWatcher(n) \/ InstallWatcher(n) \/ FirstRequest(n)
      BY <1>0, <2>3, StarterTurns DEF StartWatcher, InstallWatcher, FirstRequest, StarterPcs
    <2>. QED BY <2>1, <2>2, <2>3 DEF StarterStep
  <1>2. \A m \in Nonces : listener'[m].queue = listener[m].queue
    <2>1. CASE StartWatcher(n)
      BY <1>0, <2>1 DEF StartWatcher, TypeOK, Listeners
    <2>2. CASE InstallWatcher(n)
      <3>1. listener' = [listener EXCEPT ![n].pc = "waiting"] \/ listener' = UnwatchedAfter({n})
        BY <2>2 DEF InstallWatcher
      <3>. QED BY <1>0, <3>1, UnwatchedStays DEF TypeOK, Listeners
    <2>3. CASE ~StartWatcher(n) /\ ~InstallWatcher(n)
      <3>1. UNCHANGED listener
        BY <2>3
        DEF StarterStep, BeginCacheOpen, CacheOpened, StartScan, Activate, FirstRequest, CompleteStart
      <3>. QED BY <3>1
    <2>. QED BY <2>1, <2>2, <2>3
  <1>3. \A m \in Nonces \ {n} : worker'[m] = worker[m]
    <2>1. CASE FirstRequest(n)
      BY <1>0, <2>1 DEF FirstRequest, RequestReconcile, Request, Spawned, TypeOK, WorkTypeOK
    <2>2. CASE ~FirstRequest(n)
      <3>1. UNCHANGED worker
        BY <2>2
        DEF StarterStep, BeginCacheOpen, CacheOpened, StartScan, Activate, StartWatcher,
            InstallWatcher, CompleteStart, workVars
      <3>. QED BY <3>1
    <2>. QED BY <2>1, <2>2
  <1>4. CASE mutation = n
    BY <1>1, <1>2, <1>3, <1>4, TurnMovesOnly
  <1>5. CASE HoldsSlot(n)
    BY <1>1, <1>2, <1>3, <1>5, TurnMovesOnly, HolderIsNonce
  <1>6. CASE mutation # n /\ ~HoldsSlot(n)
    <2>1. ~Starting(n) /\ ~Owned(n)
      BY <1>6 DEF Starting, Owned
    <2>2. ~SessionChanges
      BY <1>6, <2>1
      DEF StarterStep, SessionChanges, BeginCacheOpen, CacheOpened, StartScan, Activate,
          StartWatcher, InstallWatcher, FirstRequest, RequestReconcile, CompleteStart,
          sessionVars, diskVars
    <2>. QED BY <1>1, <1>2, <1>3, <2>2, TurnMovesOnly
  <1>. QED BY <1>4, <1>5, <1>6

\* A step of a listener writes to the session only for its own generation.
LEMMA ListenerWrites ==
  ASSUME Ownership, NEW n \in Nonces, ListenerStep(n) \/ NotifyError(n)
  PROVE  MovesOnly(n) /\ (SessionChanges => generation.owner.nonce = n)
  <1>0. TypeOK
    BY DEF Ownership
  <1>1. /\ UNCHANGED starter
        /\ \A m \in Nonces \ {n} : worker'[m] = worker[m] /\ listener'[m] = listener[m]
    <2>1. CASE WindowCloses(n)
      BY <1>0, <2>1
      DEF WindowCloses, RequestReconcile, Request, Spawned, TypeOK, WorkTypeOK, startVars
    <2>2. CASE NotifyChange(n) \/ ListenerReceives(n) \/ ListenerStops(n) \/ NotifyError(n)
      BY <1>0, <2>2
      DEF NotifyChange, ListenerReceives, ListenerStops, NotifyError, TypeOK, startVars, workVars
    <2>. QED BY <2>1, <2>2 DEF ListenerStep
  <1>2. MovesOnly(n)
    BY <1>1 DEF MovesOnly, TaskMoves
  <1>3. CASE Owned(n)
    BY <1>2, <1>3, OwnedIsHolder DEF Holder
  <1>4. CASE ~Owned(n)
    <2>1. ~SessionChanges
      BY <1>4
      DEF ListenerStep, NotifyChange, ListenerReceives, MarkWatcherDegraded, WindowCloses,
          RequestReconcile, ListenerStops, NotifyError, SessionChanges, diskVars, sessionVars
    <2>. QED BY <1>2, <2>1
  <1>. QED BY <1>3, <1>4

\* A step of a worker writes to the session only for its own generation.
LEMMA WorkerWrites ==
  ASSUME Ownership, NEW n \in Nonces, WorkerStep(n) \/ ScanFails(n) \/ ApplyFails(n)
  PROVE  MovesOnly(n) /\ (SessionChanges => generation.owner.nonce = n)
  <1>1. MovesOnly(n)
    BY WorkerStepMoves, WorkerStepFrame DEF Ownership, MovesOnly, TaskMoves, startVars
  <1>2. CASE Owned(n)
    BY <1>1, <1>2, OwnedIsHolder DEF Holder
  <1>3. CASE ~Owned(n)
    <2>1. ~SessionChanges
      BY <1>3
      DEF WorkerStep, BeginRun, Scan, ScanFails, Plan, BeginBatch, ReadBody, EndBatch, Apply,
          ApplyFails, PublishFailure, FinishRun, SessionChanges, diskVars, sessionVars
    <2>. QED BY <1>1, <2>1
  <1>. QED BY <1>2, <1>3

\* A start that fails, ends or is dropped writes to the session only for its own.
LEMMA HandleWrites ==
  ASSUME Ownership, NEW n \in Nonces,
         CacheOpenFails(n) \/ PrepareFails(n) \/ AbortStart(n) \/ StopGeneration(n)
  PROVE  MovesOnly(n) /\ (SessionChanges => generation.owner.nonce = n)
  <1>0. TypeOK
    BY DEF Ownership
  <1>1. MovesOnly(n)
    <2>1. Turns(n, "over") \/ UNCHANGED starter
      BY <1>0, StarterTurns DEF CacheOpenFails, PrepareFails, AbortStart, StopGeneration, StarterPcs
    <2>2. UNCHANGED worker
      BY DEF CacheOpenFails, PrepareFails, AbortStart, StopGeneration, workVars
    <2>3. \A m \in Nonces : listener'[m].queue = listener[m].queue
      BY <1>0, UnwatchedStays
      DEF CacheOpenFails, PrepareFails, AbortStart, StopGeneration, CancelOwner, TypeOK
    <2>. QED BY <2>1, <2>2, <2>3 DEF MovesOnly, TaskMoves, Turns
  <1>2. SessionChanges => HoldsSlot(n)
    BY DEF CacheOpenFails, PrepareFails, AbortStart, StopGeneration, CancelOwner,
           SessionChanges, diskVars, sessionVars
  <1>. QED BY <1>1, <1>2, HolderIsNonce

\* A call of the commands moves no task of another generation.
LEMMA UserWrites ==
  ASSUME Ownership, UserStep, NEW n \in Nonces, TaskMoves(n), SessionChanges
  PROVE  generation.owner.nonce = n
  <1>0. TypeOK
    BY DEF Ownership
  <1>1. ASSUME NEW s \in Sessions, ReserveSession(s) PROVE FALSE
    <2>1. starter'[n] = starter[n] \/ starter[n].pc = "none"
      BY <1>0, <1>1
      DEF ReserveSession, Ownership, NothingEarly, TypeOK, SlotTypeOK, StartTypeOK, Nonces
    <2>2. worker' = worker /\ listener'[n].queue = listener[n].queue
      BY <1>0, <1>1, UnwatchedStays DEF ReserveSession, workVars, TypeOK
    <2>. QED BY <2>1, <2>2 DEF TaskMoves
  <1>2. ASSUME NEW s \in Sessions, StopSession(s) PROVE FALSE
    BY <1>0, <1>2, UnwatchedStays DEF StopSession, startVars, workVars, TypeOK, TaskMoves
  <1>3. ASSUME NEW s \in Sessions, NEW p \in Paths, SetOpenDocument(s, p) PROVE FALSE
    BY <1>3 DEF SetOpenDocument, startVars, workVars, TaskMoves
  <1>4. ASSUME NEW s \in Sessions, Refresh(s) PROVE generation.owner.nonce = n
    BY <1>0, <1>4
    DEF Refresh, Request, Spawned, TypeOK, WorkTypeOK, startVars, TaskMoves
  <1>5. ASSUME NEW m \in Nonces, AbortStart(m) \/ StopGeneration(m)
        PROVE  generation.owner.nonce = n
    BY <1>5, HandleWrites DEF MovesOnly
  <1>. QED BY <1>1, <1>2, <1>3, <1>4, <1>5 DEF UserStep

\* A start, listener or worker whose generation left the slot changes neither the session
\* nor the cache file, even when a later session took its session id; the cache opener is
\* the only exception (every is_owned check of documents/runtime.rs).
THEOREM OwnerWrites == Spec => OnlyTheOwnerWrites
  <1>1. ASSUME Ownership, [Next]_vars
        PROVE  [\A n \in Nonces : TaskMoves(n) /\ SessionChanges =>
                  generation.owner.nonce = n \/ mutation = n]_vars
    <2>. SUFFICES ASSUME Next, NEW n \in Nonces, TaskMoves(n), SessionChanges
                  PROVE  generation.owner.nonce = n \/ mutation = n
      BY <1>1
    <2>1. CASE \E m \in Nonces : StarterStep(m)
      BY <1>1, <2>1, StarterWrites DEF MovesOnly
    <2>2. CASE \E m \in Nonces : ListenerStep(m) \/ NotifyError(m)
      BY <1>1, <2>2, ListenerWrites DEF MovesOnly
    <2>3. CASE \E m \in Nonces : WorkerStep(m) \/ ScanFails(m) \/ ApplyFails(m)
      BY <1>1, <2>3, WorkerWrites DEF MovesOnly
    <2>4. CASE \E m \in Nonces : CacheOpenFails(m) \/ PrepareFails(m)
      BY <1>1, <2>4, HandleWrites DEF MovesOnly
    <2>5. CASE UserStep
      BY <1>1, <2>5, UserWrites
    <2>6. CASE FileStep
      BY <2>6
      DEF FileStep, WriteFile, DeleteFile, RenameFile, Changed, SessionChanges, sessionVars
    <2>. QED BY <2>1, <2>2, <2>3, <2>4, <2>5, <2>6 DEF Next, FailureStep
  <1>. QED BY OwnershipHolds, <1>1, PTL DEF Spec, OnlyTheOwnerWrites

-----------------------------------------------------------------------------
(***************************************************************************)
(* The plan of a run.                                                      *)
(***************************************************************************)

Planned(n) == worker[n].pc \in {"waiting", "reading", "read"}

PlanStands == \A n \in Nonces : Owned(n) /\ Planned(n) => BatchComplete(n)

\* The plan of every worker that was planned stands, and none is made.
LEMMA PlanKept ==
  ASSUME Ownership, PlanStands,
         \A n \in Nonces : Owned(n)' /\ Planned(n)' =>
           /\ Owned(n) /\ Planned(n)
           /\ worker'[n].found = worker[n].found /\ worker'[n].read = worker[n].read
           /\ cache'.rows = cache.rows
  PROVE  PlanStands'
  BY DEF PlanStands, BatchComplete

\* A session keeps its owner, unless it starts.
LEMMA OwnedBefore ==
  ASSUME Ownership, Ownership', NEW n \in Nonces, Owned(n)',
         generation' \in {generation, NoGeneration}, starter'[n].session = starter[n].session
  PROVE  Owned(n)
  BY DEF Owned, HoldsSlot, OwnerOf, NoGeneration

\* A step of a start keeps the plans: a session it activates has none.
LEMMA StarterPlan ==
  ASSUME Ownership, Ownership', PlanStands, NEW n \in Nonces, StarterStep(n)
  PROVE  PlanStands'
  <1>0. TypeOK
    BY DEF Ownership
  <1>1. CASE Activate(n) /\ Starting(n)
    <2>1. ASSUME NEW m \in Nonces, Owned(m)' PROVE m = n
      <3>1. generation'.owner = generation.owner
        BY <1>0, <1>1 DEF Activate, TypeOK, SlotTypeOK
      <3>. QED BY <1>1, <2>1, <3>1, HolderIsNonce DEF Starting, Owned, HoldsSlot, OwnerOf
    <2>2. ~Planned(n)'
      BY <1>1
      DEF Activate, Ownership, NothingEarly, Early, Preparing, Planned, workVars
    <2>. QED BY <2>1, <2>2 DEF PlanStands
  <1>2. CASE ~(Activate(n) /\ Starting(n))
    <2>1. generation' = generation
      BY <1>2
      DEF StarterStep, BeginCacheOpen, CacheOpened, StartScan, Activate, StartWatcher,
          InstallWatcher, FirstRequest, CompleteStart, slotVars
    <2>2. \A m \in Nonces : starter'[m].session = starter[m].session
      <3>1. CASE \E p \in Paths : StartScan(n, p)
        BY <1>0, <3>1 DEF StartScan, TypeOK, StartTypeOK, Starters
      <3>2. CASE CacheOpened(n)
        BY <1>0, <3>2 DEF CacheOpened, TypeOK, StartTypeOK, Starters
      <3>3. CASE BeginCacheOpen(n) \/ Activate(n) \/ CompleteStart(n)
        BY <1>0, <3>3, StarterTurns DEF BeginCacheOpen, Activate, CompleteStart, StarterPcs, Turns
      <3>4. CASE StartWatcher(n) \/ InstallWatcher(n) \/ FirstRequest(n)
        BY <1>0, <3>4, StarterTurns
        DEF StartWatcher, InstallWatcher, FirstRequest, StarterPcs, Turns
      <3>. QED BY <3>1, <3>2, <3>3, <3>4 DEF StarterStep
    <2>3. ASSUME NEW m \in Nonces, Owned(m)' PROVE Owned(m)
      BY <2>1, <2>2, <2>3 DEF Owned, HoldsSlot, OwnerOf
    <2>4. Active => cache'.rows = cache.rows
      <3>1. CASE CacheOpened(n)
        BY <3>1 DEF CacheOpened, Ownership, CacheOpenExclusive, Nonces, Active
      <3>2. CASE Activate(n)
        BY <1>2, <3>2 DEF Activate
      <3>3. CASE ~CacheOpened(n) /\ ~Activate(n)
        BY <3>3
        DEF StarterStep, BeginCacheOpen, StartScan, StartWatcher, InstallWatcher,
            FirstRequest, CompleteStart, diskVars
      <3>. QED BY <3>1, <3>2, <3>3
    <2>5. ASSUME NEW m \in Nonces, Planned(m)' PROVE worker'[m] = worker[m]
      <3>1. CASE FirstRequest(n)
        BY <1>0, <2>5, <3>1
        DEF FirstRequest, RequestReconcile, Request, Spawned, Planned, TypeOK, WorkTypeOK, IdleWorker
      <3>2. CASE ~FirstRequest(n)
        BY <3>2
        DEF StarterStep, BeginCacheOpen, CacheOpened, StartScan, Activate, StartWatcher,
            InstallWatcher, CompleteStart, workVars
      <3>. QED BY <3>1, <3>2
    <2>. QED BY <2>3, <2>4, <2>5, PlanKept, OwnedIsHolder DEF Planned
  <1>. QED BY <1>1, <1>2

\* A step of a listener keeps the plans.
LEMMA ListenerPlan ==
  ASSUME Ownership, Ownership', PlanStands, NEW n \in Nonces, ListenerStep(n) \/ NotifyError(n)
  PROVE  PlanStands'
  <1>0. TypeOK
    BY DEF Ownership
  <1>1. UNCHANGED <<generation, starter, cache>>
    BY DEF ListenerStep, NotifyChange, ListenerReceives, WindowCloses, ListenerStops,
           NotifyError, slotVars, startVars, diskVars
  <1>2. ASSUME NEW m \in Nonces, Planned(m)' PROVE worker'[m] = worker[m]
    <2>1. CASE WindowCloses(n)
      BY <1>0, <1>2, <2>1
      DEF WindowCloses, RequestReconcile, Request, Spawned, Planned, TypeOK, WorkTypeOK, IdleWorker
    <2>2. CASE ~WindowCloses(n)
      BY <2>2
      DEF ListenerStep, NotifyChange, ListenerReceives, ListenerStops, NotifyError, workVars
    <2>. QED BY <2>1, <2>2
  <1>. QED BY <1>1, <1>2, PlanKept DEF Planned, Owned, HoldsSlot, OwnerOf

\* A step of a worker keeps the plans: only the owner applies one.
LEMMA WorkerPlan ==
  ASSUME Ownership, Ownership', PlanStands, NEW n \in Nonces,
         WorkerStep(n) \/ ScanFails(n) \/ ApplyFails(n)
  PROVE  PlanStands'
  <1>0. TypeOK
    BY DEF Ownership
  <1>1. /\ UNCHANGED <<generation, starter>>
        /\ \A m \in Nonces \ {n} : worker'[m] = worker[m]
    BY <1>0, WorkerStepMoves, WorkerStepFrame DEF slotVars, startVars
  <1>2. \A m \in Nonces : Owned(m)' <=> Owned(m)
    BY <1>1 DEF Owned, HoldsSlot, OwnerOf
  <1>3. \A m \in Nonces : Owned(n) /\ Owned(m) => m = n
    BY OwnedIsHolder
  <1>4. CASE Plan(n)
    <2>1. CASE Owned(n)
      <3>1. worker' = [worker EXCEPT ![n] = [worker[n] EXCEPT
              !.pc = IF ToIndex(cache.rows, worker[n].found) = {} THEN "read" ELSE "waiting",
              !.left = ToIndex(cache.rows, worker[n].found),
              !.read = ToIndex(cache.rows, worker[n].found)]]
        BY <1>4, <2>1 DEF Plan
      <3>2. worker'[n].found = worker[n].found /\ cache' = cache
            /\ worker'[n].read = ToIndex(cache.rows, worker[n].found)
        BY <1>0, <1>4, <3>1 DEF Plan, diskVars, TypeOK, WorkTypeOK, Workers
      <3>. QED BY <1>2, <1>3, <2>1, <3>2 DEF PlanStands, BatchComplete
    <2>2. CASE ~Owned(n)
      BY <1>1, <1>2, <1>4, <2>2, PlanKept DEF Plan, diskVars, Planned
    <2>. QED BY <2>1, <2>2
  <1>5. ASSUME ~Planned(n)', cache'.rows = cache.rows \/ Owned(n) PROVE PlanStands'
    BY <1>1, <1>2, <1>3, <1>5, PlanKept DEF Planned
  <1>6. CASE Apply(n) \/ ApplyFails(n) \/ FinishRun(n) \/ PublishFailure(n) \/ ScanFails(n)
    <2>1. ~Planned(n)'
      BY <1>0, <1>6
      DEF Apply, ApplyFails, FinishRun, PublishFailure, ScanFails, RunEnds, Spawned, Planned,
          IdleWorker, TypeOK, WorkTypeOK
    <2>2. cache' = cache \/ Owned(n)
      BY <1>6 DEF Apply, ApplyFails, FinishRun, PublishFailure, ScanFails, diskVars
    <2>. QED BY <1>5, <2>1, <2>2
  <1>7. CASE BeginRun(n)
    <2>1. ~Planned(n)'
      <3>1. CASE Owned(n)
        <4>1. worker' = [worker EXCEPT ![n] = [worker[n] EXCEPT
                           !.pc = "scanning", !.left = Paths, !.claim = watch.current]]
          BY <1>7, <3>1 DEF BeginRun
        <4>. QED BY <1>0, <4>1 DEF Planned, TypeOK, WorkTypeOK, Workers
      <3>2. CASE ~Owned(n)
        BY <1>0, <1>7, <3>2 DEF BeginRun, RunEnds, Planned, IdleWorker, TypeOK, WorkTypeOK
      <3>. QED BY <3>1, <3>2
    <2>. QED BY <1>5, <1>7, <2>1 DEF BeginRun, diskVars
  <1>8. CASE \E p \in Paths : Scan(n, p)
    <2>1. ~Planned(n)'
      BY <1>0, <1>8 DEF Scan, Planned, TypeOK, WorkTypeOK, Workers
    <2>. QED BY <1>5, <1>8, <2>1 DEF Scan, diskVars
  <1>9. CASE BeginBatch(n) \/ EndBatch(n) \/ \E p \in Paths : ReadBody(n, p)
    <2>1. cache' = cache /\ Planned(n)
      BY <1>9 DEF BeginBatch, EndBatch, ReadBody, diskVars, Planned
    <2>2. Planned(n)' => worker'[n].found = worker[n].found /\ worker'[n].read = worker[n].read
      <3>1. CASE \E p \in Paths : ReadBody(n, p)
        BY <1>0, <3>1 DEF ReadBody, TypeOK, WorkTypeOK, Workers
      <3>2. CASE BeginBatch(n) \/ EndBatch(n)
        BY <1>0, <3>2
        DEF BeginBatch, EndBatch, WorkerGoto, RunEnds, Planned, IdleWorker, TypeOK, WorkTypeOK, Workers
      <3>. QED BY <1>9, <3>1, <3>2
    <2>. QED BY <1>1, <1>2, <2>1, <2>2, PlanKept DEF Planned
  <1>. QED BY <1>4, <1>6, <1>7, <1>8, <1>9 DEF WorkerStep

\* A start that fails, ends or is dropped keeps the plans.
LEMMA HandlePlan ==
  ASSUME Ownership, Ownership', PlanStands, NEW n \in Nonces,
         CacheOpenFails(n) \/ PrepareFails(n) \/ AbortStart(n) \/ StopGeneration(n)
  PROVE  PlanStands'
  <1>0. TypeOK
    BY DEF Ownership
  <1>1. UNCHANGED <<cache, worker>>
    BY DEF CacheOpenFails, PrepareFails, AbortStart, StopGeneration, diskVars, workVars
  <1>2. generation' \in {generation, NoGeneration}
    BY DEF CacheOpenFails, PrepareFails, AbortStart, StopGeneration, ClearIfOwned, CancelOwner
  <1>3. \A m \in Nonces : starter'[m].session = starter[m].session
    BY <1>0, StarterTurns
    DEF CacheOpenFails, PrepareFails, AbortStart, StopGeneration, StarterPcs, Turns
  <1>. QED BY <1>1, <1>2, <1>3, PlanKept, OwnedBefore DEF Planned

\* A call of the commands keeps the plans: the open document is not a row.
LEMMA UserPlan ==
  ASSUME Ownership, Ownership', PlanStands, UserStep
  PROVE  PlanStands'
  <1>0. TypeOK
    BY DEF Ownership
  <1>1. ASSUME NEW s \in Sessions, ReserveSession(s) \/ StopSession(s) PROVE PlanStands'
    BY <1>1 DEF ReserveSession, StopSession, NoGeneration, PlanStands, Owned
  <1>2. ASSUME NEW s \in Sessions, Refresh(s) PROVE PlanStands'
    <2>1. UNCHANGED <<generation, starter, cache>>
      BY <1>2 DEF Refresh, slotVars, startVars, diskVars
    <2>2. ASSUME NEW m \in Nonces, Planned(m)' PROVE worker'[m] = worker[m]
      BY <1>0, <1>2, <2>2 DEF Refresh, Request, Spawned, Planned, TypeOK, WorkTypeOK, IdleWorker
    <2>. QED BY <2>1, <2>2, PlanKept DEF Planned, Owned, HoldsSlot, OwnerOf
  <1>3. ASSUME NEW s \in Sessions, NEW p \in Paths, SetOpenDocument(s, p) PROVE PlanStands'
    <2>1. UNCHANGED <<generation, starter, worker>> /\ cache'.rows = cache.rows
      BY <1>0, <1>3 DEF SetOpenDocument, slotVars, startVars, workVars, TypeOK, DiskTypeOK, Caches
    <2>. QED BY <2>1, PlanKept DEF Planned, Owned, HoldsSlot, OwnerOf
  <1>. QED BY <1>1, <1>2, <1>3, HandlePlan DEF UserStep

\* Every step keeps the plans.
LEMMA NextPlan ==
  ASSUME Ownership, Ownership', PlanStands, [Next]_vars
  PROVE  PlanStands'
  <1>1. ASSUME UNCHANGED <<generation, starter, cache, worker>> PROVE PlanStands'
    BY <1>1, PlanKept DEF Planned, Owned, HoldsSlot, OwnerOf
  <1>2. CASE FileStep
    BY <1>1, <1>2
    DEF FileStep, WriteFile, DeleteFile, RenameFile, Changed, slotVars, startVars, workVars
  <1>3. CASE UNCHANGED vars
    BY <1>1, <1>3 DEF vars, slotVars, startVars, diskVars, workVars
  <1>. QED
    BY <1>2, <1>3, StarterPlan, ListenerPlan, WorkerPlan, HandlePlan, UserPlan
    DEF Next, FailureStep

\* What a run read still answers its plan when it applies it: nothing else changes the
\* rows of the owner's cache meanwhile (run_reconcile_once, DocumentCache::apply_reconcile).
THEOREM BatchesMatch == Spec => []BatchMatchesPlan
  <1>1. Init => PlanStands
    BY DEF Init, SlotInit, NoGeneration, PlanStands, Owned
  <1>2. Ownership /\ Ownership' /\ PlanStands /\ [Next]_vars => PlanStands'
    BY NextPlan
  <1>3. PlanStands => BatchMatchesPlan
    BY DEF PlanStands, BatchMatchesPlan, Planned
  <1>. QED BY OwnershipHolds, <1>1, <1>2, <1>3, PTL DEF Spec

-----------------------------------------------------------------------------
(***************************************************************************)
(* Bodies.  A body is read some time after the scan that asked for it, so  *)
(* it may be newer than its document; but then the document has left its   *)
(* path since the scan.                                                    *)
(***************************************************************************)

Running == {"scanning", "waiting", "reading", "read"}
Resting == {"idle", "spawned", "failing", "finishing"}

\* A document without a version is the absent one.
Whole(d) == Present(d) \/ d = Absent
WholeDocs ==
  /\ \A p \in Paths : Whole(fs[p])
  /\ \A n \in Nonces, p \in Paths : Whole(worker[n].found[p])

\* Body b is the one of document d, unless d has left path p since it was scanned there.
BodyOf(p, d, b) == b = d.ver \/ (Present(d) /\ d.ver \in former[p])

RowBodies == \A p \in Paths : BodyOf(p, cache.rows[p].doc, cache.rows[p].body)

Scanned(n, p) ==
  worker[n].pc \in Running /\ ~(worker[n].pc = "scanning" /\ p \in worker[n].left)
BodyRead(n, p) ==
  /\ p \in worker[n].read
  /\ \/ worker[n].pc = "read"
     \/ worker[n].pc = "reading" /\ p \notin worker[n].left /\ ~worker[n].failed

\* What a run found at a path is there, or was there; so is a body it read.
RunBodies(n) ==
  \A p \in Paths :
    /\ Scanned(n, p) => worker[n].found[p].ver \in former[p] \cup {fs[p].ver}
    /\ BodyRead(n, p) => BodyOf(p, worker[n].found[p], worker[n].body[p])
    /\ Planned(n) /\ p \in worker[n].read => Present(worker[n].found[p])
    /\ worker[n].pc = "waiting" /\ p \in worker[n].read => p \in worker[n].left

BodiesInv == WholeDocs /\ RowBodies /\ \A n \in Nonces : RunBodies(n)

\* The worker of n is left alone, or spawned afresh.
Aside(n) == worker'[n] = worker[n] \/ worker'[n] = [IdleWorker EXCEPT !.pc = "spawned"]

\* A worker that rests has read nothing that anybody relies on.
LEMMA RestingHasNone ==
  ASSUME NEW n \in Nonces, worker[n].pc \notin Running
  PROVE  RunBodies(n)
  BY DEF RunBodies, Scanned, BodyRead, Planned, Running

\* What is not a worker's step leaves the workers aside.
LEMMA RequestAside ==
  ASSUME worker \in [Nonces -> Workers], NEW n \in Nonces, NEW id, Request(n, id)
  PROVE  \A m \in Nonces : Aside(m)
  BY DEF Request, Spawned, Aside

LEMMA TasksAside ==
  ASSUME TypeOK, NEW n \in Nonces,
         \/ StarterStep(n) \/ ListenerStep(n) \/ NotifyError(n)
         \/ CacheOpenFails(n) \/ PrepareFails(n) \/ AbortStart(n) \/ StopGeneration(n)
  PROVE  \A m \in Nonces : Aside(m)
  <1>1. worker \in [Nonces -> Workers]
    BY DEF TypeOK, WorkTypeOK
  <1>2. CASE FirstRequest(n) \/ WindowCloses(n)
    <2>1. RequestReconcile(n)
      BY <1>2 DEF FirstRequest, WindowCloses
    <2>. QED BY <1>1, <2>1, RequestAside DEF RequestReconcile, Aside
  <1>3. CASE ~FirstRequest(n) /\ ~WindowCloses(n)
    <2>1. UNCHANGED worker
      BY <1>3
      DEF StarterStep, BeginCacheOpen, CacheOpened, StartScan, Activate, StartWatcher,
          InstallWatcher, CompleteStart, ListenerStep, NotifyChange, ListenerReceives,
          ListenerStops, NotifyError, CacheOpenFails, PrepareFails, AbortStart,
          StopGeneration, workVars
    <2>. QED BY <2>1 DEF Aside
  <1>. QED BY <1>2, <1>3

LEMMA UserAside ==
  ASSUME TypeOK, UserStep
  PROVE  \A m \in Nonces : Aside(m)
  <1>1. ASSUME NEW s \in Sessions, Refresh(s) PROVE \A m \in Nonces : Aside(m)
    <2>1. generation.owner.nonce \in Nonces
      BY <1>1 DEF Refresh, TypeOK, SlotTypeOK, Owners
    <2>2. \E id : Request(generation.owner.nonce, id)
      BY <1>1 DEF Refresh
    <2>. QED BY <2>1, <2>2, RequestAside DEF TypeOK, WorkTypeOK
  <1>2. ASSUME NEW s \in Sessions, ReserveSession(s) \/ StopSession(s)
        PROVE  \A m \in Nonces : Aside(m)
    BY <1>2 DEF ReserveSession, StopSession, workVars, Aside
  <1>3. ASSUME NEW s \in Sessions, NEW p \in Paths, SetOpenDocument(s, p)
        PROVE  \A m \in Nonces : Aside(m)
    BY <1>3 DEF SetOpenDocument, workVars, Aside
  <1>. QED BY <1>1, <1>2, <1>3, TasksAside DEF UserStep

\* Nor does it touch the files, or the rows of the cache except to empty them.
LEMMA TasksOffDisk ==
  ASSUME TypeOK, NEW n \in Nonces,
         \/ StarterStep(n) \/ ListenerStep(n) \/ NotifyError(n)
         \/ CacheOpenFails(n) \/ PrepareFails(n) \/ AbortStart(n) \/ StopGeneration(n)
  PROVE  UNCHANGED fileVars /\ cache'.rows \in {cache.rows, EmptyRows}
  <1>1. CASE CacheOpened(n)
    BY <1>1 DEF CacheOpened, EmptyCache
  <1>2. CASE Activate(n)
    BY <1>2 DEF Activate, TypeOK, DiskTypeOK, Caches
  <1>3. CASE ~CacheOpened(n) /\ ~Activate(n)
    BY <1>3
    DEF StarterStep, BeginCacheOpen, StartScan, StartWatcher, InstallWatcher, FirstRequest,
        CompleteStart, ListenerStep, NotifyChange, ListenerReceives, WindowCloses,
        ListenerStops, NotifyError, CacheOpenFails, PrepareFails, AbortStart,
        StopGeneration, diskVars
  <1>. QED BY <1>1, <1>2, <1>3

LEMMA UserOffDisk ==
  ASSUME TypeOK, UserStep
  PROVE  UNCHANGED fileVars /\ cache'.rows = cache.rows
  <1>1. ASSUME NEW n \in Nonces, AbortStart(n) \/ StopGeneration(n)
        PROVE  UNCHANGED fileVars /\ cache'.rows = cache.rows
    BY <1>1 DEF AbortStart, StopGeneration, diskVars
  <1>2. ASSUME NEW s \in Sessions, ReserveSession(s) \/ StopSession(s) \/ Refresh(s)
        PROVE  UNCHANGED fileVars /\ cache'.rows = cache.rows
    BY <1>2 DEF ReserveSession, StopSession, Refresh, diskVars
  <1>3. ASSUME NEW s \in Sessions, NEW p \in Paths, SetOpenDocument(s, p)
        PROVE  UNCHANGED fileVars /\ cache'.rows = cache.rows
    BY <1>3 DEF SetOpenDocument, TypeOK, DiskTypeOK, Caches
  <1>. QED BY <1>1, <1>2, <1>3 DEF UserStep

\* Empty rows have the bodies of absent documents.
LEMMA EmptyRowBodies ==
  \A p \in Paths : BodyOf(p, EmptyRows[p].doc, EmptyRows[p].body)
  BY DEF BodyOf, EmptyRows, NoRow, Absent

LEMMA AsideKeepsBodies ==
  ASSUME BodiesInv, UNCHANGED fileVars, cache'.rows \in {cache.rows, EmptyRows},
         \A m \in Nonces : Aside(m)
  PROVE  BodiesInv'
  <1>1. UNCHANGED <<fs, former>>
    BY DEF fileVars
  <1>2. RowBodies'
    <2>1. CASE cache'.rows = cache.rows
      BY <1>1, <2>1 DEF BodiesInv, RowBodies, BodyOf
    <2>2. CASE cache'.rows = EmptyRows
      BY <1>1, <2>2, EmptyRowBodies DEF RowBodies, BodyOf
    <2>. QED BY <2>1, <2>2
  <1>3. ASSUME NEW m \in Nonces
        PROVE  RunBodies(m)' /\ \A p \in Paths : Whole(worker'[m].found[p])
    <2>1. CASE worker'[m] = worker[m]
      BY <1>1, <2>1
      DEF BodiesInv, WholeDocs, RunBodies, Scanned, BodyRead, BodyOf, Planned
    <2>2. CASE worker'[m] = [IdleWorker EXCEPT !.pc = "spawned"]
      <3>1. worker'[m].pc \notin Running /\ worker'[m].found = [p \in Paths |-> Absent]
        BY <2>2 DEF IdleWorker, Running
      <3>. QED BY <3>1 DEF Whole, RunBodies, Scanned, BodyRead, Planned, Running
    <2>. QED BY <2>1, <2>2 DEF Aside
  <1>4. WholeDocs'
    BY <1>1, <1>3 DEF BodiesInv, WholeDocs
  <1>. QED BY <1>2, <1>3, <1>4 DEF BodiesInv

\* A change to the files keeps the bodies: what it replaces has left its path.
LEMMA FilesKeepBodies ==
  ASSUME TypeOK, BodiesInv, NEW files \in Catalogs, Changed(files),
         \A p \in Paths : Whole(files[p])
  PROVE  BodiesInv'
  <1>1. fs' = files /\ UNCHANGED <<cache, worker>>
    BY DEF Changed, workVars
  <1>2. \A p \in Paths : former[p] \subseteq former'[p] /\ fs[p].ver \in former'[p] \cup {fs'[p].ver}
    BY DEF Changed, TypeOK, DiskTypeOK
  <1>3. \A p \in Paths : \A d, b : BodyOf(p, d, b) => BodyOf(p, d, b)'
    BY <1>2 DEF BodyOf
  <1>4. RowBodies'
    BY <1>1, <1>3 DEF BodiesInv, RowBodies, BodyOf
  <1>5. ASSUME NEW m \in Nonces PROVE RunBodies(m)'
    <2>. SUFFICES ASSUME NEW p \in Paths
                  PROVE  /\ Scanned(m, p)' => worker'[m].found[p].ver \in former'[p] \cup {fs'[p].ver}
                         /\ BodyRead(m, p)' => BodyOf(p, worker[m].found[p], worker[m].body[p])'
                         /\ Planned(m)' /\ p \in worker'[m].read => Present(worker'[m].found[p])
                         /\ worker'[m].pc = "waiting" /\ p \in worker'[m].read => p \in worker'[m].left
      BY DEF RunBodies
    <2>1. RunBodies(m)
      BY DEF BodiesInv
    <2>2. Scanned(m, p)' = Scanned(m, p) /\ BodyRead(m, p)' = BodyRead(m, p) /\ Planned(m)' = Planned(m)
      BY <1>1 DEF Scanned, BodyRead, Planned
    <2>3. Scanned(m, p) => worker'[m].found[p].ver \in former'[p] \cup {fs'[p].ver}
      BY <1>1, <1>2, <2>1 DEF RunBodies
    <2>4. BodyRead(m, p) => BodyOf(p, worker[m].found[p], worker[m].body[p])'
      BY <1>1, <1>2, <2>1 DEF RunBodies, BodyOf
    <2>. QED BY <1>1, <2>1, <2>2, <2>3, <2>4 DEF RunBodies
  <1>6. WholeDocs'
    BY <1>1 DEF BodiesInv, WholeDocs
  <1>. QED BY <1>4, <1>5, <1>6 DEF BodiesInv

\* The step of a worker concerns its own run, and the rows.
LEMMA OneRun ==
  ASSUME BodiesInv, NEW n \in Nonces, UNCHANGED fileVars,
         \A m \in Nonces \ {n} : worker'[m] = worker[m],
         RowBodies', RunBodies(n)', \A p \in Paths : Whole(worker'[n].found[p])
  PROVE  BodiesInv'
  <1>1. UNCHANGED <<fs, former>>
    BY DEF fileVars
  <1>2. ASSUME NEW m \in Nonces \ {n} PROVE RunBodies(m)' /\ \A p \in Paths : Whole(worker'[m].found[p])
    <2>1. worker'[m] = worker[m] /\ RunBodies(m)
      BY DEF BodiesInv
    <2>. QED BY <1>1, <2>1 DEF BodiesInv, WholeDocs, RunBodies, Scanned, BodyRead, BodyOf, Planned
  <1>3. WholeDocs'
    BY <1>1, <1>2 DEF BodiesInv, WholeDocs
  <1>. QED BY <1>2, <1>3 DEF BodiesInv

\* A run that ends leaves nothing behind.
LEMMA RunOver ==
  ASSUME worker \in [Nonces -> Workers], NEW n \in Nonces, NEW pc \in Resting,
         RunEnds(n, pc) \/ worker' = Spawned(n) \/ worker' = [worker EXCEPT ![n] = IdleWorker]
  PROVE  RunBodies(n)' /\ \A p \in Paths : Whole(worker'[n].found[p])
  <1>1. worker'[n].pc \in Resting /\ worker'[n].found = [p \in Paths |-> Absent]
    BY DEF RunEnds, Spawned, IdleWorker, Resting
  <1>2. worker'[n].pc \notin Running /\ ~Planned(n)' /\ worker'[n].pc # "waiting"
    BY <1>1 DEF Running, Resting, Planned
  <1>. QED BY <1>1, <1>2 DEF Whole, RunBodies, Scanned, BodyRead, Running

\* The rows a run commits have the bodies it read, and keep those of the other documents.
LEMMA NewRowBodies ==
  ASSUME BodiesInv, NEW n \in Nonces, worker[n].pc = "read", BatchComplete(n)
  PROVE  \A p \in Paths : BodyOf(p, NewRows(n)[p].doc, NewRows(n)[p].body)
  <1>. SUFFICES ASSUME NEW p \in Paths PROVE BodyOf(p, NewRows(n)[p].doc, NewRows(n)[p].body)
    OBVIOUS
  <1>1. CASE ~Present(worker[n].found[p])
    BY <1>1 DEF NewRows, Reindexed, NoRow, Absent, BodyOf
  <1>2. CASE Present(worker[n].found[p]) /\ p \in worker[n].read
    <2>1. NewRows(n)[p] = [doc |-> worker[n].found[p], body |-> worker[n].body[p]]
      BY <1>2 DEF NewRows, Reindexed
    <2>2. BodyOf(p, worker[n].found[p], worker[n].body[p])
      BY <1>2 DEF BodiesInv, RunBodies, BodyRead
    <2>. QED BY <2>1, <2>2
  <1>3. CASE Present(worker[n].found[p]) /\ p \notin worker[n].read
    <2>1. NewRows(n)[p] = [doc |-> worker[n].found[p], body |-> cache.rows[p].body]
      BY <1>3 DEF NewRows, Reindexed
    <2>2. cache.rows[p].doc = worker[n].found[p]
      BY <1>3 DEF BatchComplete, ToIndex
    <2>. QED BY <2>1, <2>2 DEF BodiesInv, RowBodies
  <1>. QED BY <1>1, <1>2, <1>3

\* A step of a worker keeps the bodies.
LEMMA WorkerKeepsBodies ==
  ASSUME Ownership, PlanStands, BodiesInv, NEW n \in Nonces,
         WorkerStep(n) \/ ScanFails(n) \/ ApplyFails(n)
  PROVE  BodiesInv'
  <1>0. TypeOK /\ worker \in [Nonces -> Workers] /\ worker[n] \in Workers
    BY DEF Ownership, TypeOK, WorkTypeOK
  <1>1. UNCHANGED fileVars /\ (\A m \in Nonces \ {n} : worker'[m] = worker[m]) /\ UNCHANGED <<fs, former>>
    BY <1>0, WorkerStepMoves, WorkerStepFrame DEF fileVars
  <1>2. RunBodies(n) /\ (\A p \in Paths : Whole(worker[n].found[p]) /\ Whole(fs[p]))
    BY DEF BodiesInv, WholeDocs
  <1>3. ASSUME UNCHANGED cache, RunBodies(n)', \A p \in Paths : Whole(worker'[n].found[p])
        PROVE  BodiesInv'
    <2>1. RowBodies'
      BY <1>1, <1>3 DEF BodiesInv, RowBodies, BodyOf
    <2>. QED BY <1>1, <1>3, <2>1, OneRun
  <1>4. ASSUME UNCHANGED cache, NEW pc \in Resting,
               RunEnds(n, pc) \/ worker' = Spawned(n) \/ worker' = [worker EXCEPT ![n] = IdleWorker]
        PROVE  BodiesInv'
    BY <1>0, <1>3, <1>4, RunOver
  <1>5. CASE BeginRun(n)
    <2>1. UNCHANGED cache
      BY <1>5 DEF BeginRun, diskVars
    <2>2. CASE Owned(n)
      <3>1. worker' = [worker EXCEPT ![n] = [worker[n] EXCEPT
                         !.pc = "scanning", !.left = Paths, !.claim = watch.current]]
        BY <1>5, <2>2 DEF BeginRun
      <3>2. /\ worker'[n].pc = "scanning" /\ worker'[n].left = Paths
            /\ worker'[n].found = worker[n].found
        BY <1>0, <3>1 DEF Workers
      <3>3. RunBodies(n)'
        BY <3>2 DEF RunBodies, Scanned, BodyRead, Planned
      <3>. QED BY <1>2, <1>3, <2>1, <3>2, <3>3
    <2>3. CASE ~Owned(n)
      BY <1>4, <1>5, <2>1, <2>3 DEF BeginRun, Resting
    <2>. QED BY <2>2, <2>3
  <1>6. ASSUME NEW p \in Paths, Scan(n, p) PROVE BodiesInv'
    <2>1. UNCHANGED cache /\ worker[n].pc = "scanning"
      BY <1>6 DEF Scan, diskVars
    <2>. DEFINE new == [worker[n] EXCEPT !.found = [@ EXCEPT ![p] = fs[p]], !.left = @ \ {p}]
    <2>2. worker'[n] = new
      BY <1>0, <1>6 DEF Scan
    <2>3. /\ new.pc = "scanning" /\ new.left = worker[n].left \ {p}
          /\ \A q \in Paths : new.found[q] = IF q = p THEN fs[p] ELSE worker[n].found[q]
      BY <1>0, <2>1 DEF Workers, Catalogs
    <2>. HIDE DEF new
    <2>4. RunBodies(n)'
      BY <1>1, <1>2, <2>1, <2>2, <2>3 DEF RunBodies, Scanned, BodyRead, Planned, Running
    <2>5. \A q \in Paths : Whole(worker'[n].found[q])
      BY <1>2, <2>2, <2>3
    <2>. QED BY <1>3, <2>1, <2>4, <2>5
  <1>7. CASE ScanFails(n) \/ PublishFailure(n)
    BY <1>4, <1>7 DEF ScanFails, PublishFailure, diskVars, Resting
  <1>8. CASE Plan(n)
    <2>1. UNCHANGED cache
      BY <1>8 DEF Plan, diskVars
    <2>2. CASE Owned(n)
      <3>. DEFINE todo == ToIndex(cache.rows, worker[n].found)
      <3>1. worker' = [worker EXCEPT ![n] = [worker[n] EXCEPT
                         !.pc = IF todo = {} THEN "read" ELSE "waiting", !.left = todo, !.read = todo]]
        BY <1>8, <2>2 DEF Plan
      <3>2. /\ worker'[n].pc = (IF todo = {} THEN "read" ELSE "waiting")
            /\ worker'[n].left = todo /\ worker'[n].read = todo
            /\ worker'[n].found = worker[n].found
        BY <1>0, <3>1 DEF Workers
      <3>3. \A p \in todo : Present(worker[n].found[p])
        BY DEF ToIndex
      <3>4. \A p \in Paths : Scanned(n, p)
        BY <1>8 DEF Plan, Scanned, Running
      <3>. HIDE DEF todo
      <3>5. RunBodies(n)'
        BY <1>1, <1>2, <3>2, <3>3, <3>4 DEF RunBodies, BodyRead, Planned
      <3>. QED BY <1>2, <1>3, <2>1, <3>2, <3>5
    <2>3. CASE ~Owned(n)
      BY <1>4, <1>8, <2>1, <2>3 DEF Plan, Resting
    <2>. QED BY <2>2, <2>3
  <1>9. CASE BeginBatch(n)
    <2>1. UNCHANGED cache /\ worker[n].pc = "waiting"
      BY <1>9 DEF BeginBatch, diskVars
    <2>2. CASE Owned(n)
      <3>1. worker'[n].pc = "reading" /\ worker'[n].left = worker[n].left
            /\ worker'[n].read = worker[n].read /\ worker'[n].found = worker[n].found
        BY <1>0, <1>9, <2>2 DEF BeginBatch, WorkerGoto, Workers
      <3>2. RunBodies(n)'
        BY <1>1, <1>2, <2>1, <3>1 DEF RunBodies, Scanned, BodyRead, Planned, Running
      <3>. QED BY <1>2, <1>3, <2>1, <3>1, <3>2
    <2>3. CASE ~Owned(n)
      BY <1>4, <1>9, <2>1, <2>3 DEF BeginBatch, Resting
    <2>. QED BY <2>2, <2>3
  <1>10. ASSUME NEW p \in Paths, ReadBody(n, p) PROVE BodiesInv'
    <2>1. UNCHANGED cache /\ worker[n].pc = "reading"
      BY <1>10 DEF ReadBody, diskVars
    <2>2. PICK ok \in BOOLEAN : worker' = [worker EXCEPT ![n] = [worker[n] EXCEPT
                    !.left = @ \ {p}, !.failed = @ \/ ~ok,
                    !.body[p] = IF ok THEN fs[p].ver ELSE @]]
      BY <1>10 DEF ReadBody
    <2>. DEFINE read == [worker[n].body EXCEPT ![p] = IF ok THEN fs[p].ver ELSE @]
                new == [worker[n] EXCEPT !.left = @ \ {p}, !.failed = @ \/ ~ok, !.body = read]
    <2>6. worker'[n] = new
      BY <1>0, <2>2
    <2>7. \A q \in Paths : read[q] = IF q = p /\ ok THEN fs[p].ver ELSE worker[n].body[q]
      BY <1>0 DEF Workers
    <2>. HIDE DEF read
    <2>3. /\ worker'[n].pc = "reading" /\ worker'[n].left = worker[n].left \ {p}
          /\ worker'[n].read = worker[n].read /\ worker'[n].found = worker[n].found
          /\ worker'[n].failed = (worker[n].failed \/ ~ok)
          /\ \A q \in Paths : worker'[n].body[q] =
                IF q = p /\ ok THEN fs[p].ver ELSE worker[n].body[q]
      BY <1>0, <2>1, <2>6, <2>7 DEF Workers
    <2>4. ASSUME NEW q \in Paths, BodyRead(n, q)'
          PROVE  BodyOf(q, worker[n].found[q], worker'[n].body[q])
      <3>1. q \in worker[n].read /\ ok /\ (q # p => BodyRead(n, q))
        BY <2>1, <2>3, <2>4 DEF BodyRead
      <3>2. CASE q = p
        <4>1. Scanned(n, p) /\ Planned(n)
          BY <2>1 DEF Scanned, Planned, Running
        <4>2. Present(worker[n].found[p]) /\ worker[n].found[p].ver \in former[p] \cup {fs[p].ver}
          BY <1>2, <3>1, <3>2, <4>1 DEF RunBodies
        <4>. QED BY <2>3, <3>1, <3>2, <4>2 DEF BodyOf
      <3>3. CASE q # p
        BY <1>2, <2>3, <3>1, <3>3 DEF RunBodies
      <3>. QED BY <3>2, <3>3
    <2>5. RunBodies(n)'
      <3>1. \A q \in Paths : Scanned(n, q) /\ Planned(n)
        BY <2>1 DEF Scanned, Planned, Running
      <3>. QED BY <1>1, <1>2, <2>3, <2>4, <3>1 DEF RunBodies, BodyOf
    <2>. QED BY <1>2, <1>3, <2>1, <2>3, <2>5
  <1>11. CASE EndBatch(n)
    <2>1. UNCHANGED cache /\ worker[n].pc = "reading" /\ worker[n].left = {}
      BY <1>11 DEF EndBatch, diskVars
    <2>2. CASE worker[n].failed
      BY <1>4, <1>11, <2>1, <2>2 DEF EndBatch, Resting
    <2>3. CASE ~worker[n].failed
      <3>1. /\ worker'[n].pc = "read" /\ worker'[n].read = worker[n].read
            /\ worker'[n].found = worker[n].found /\ worker'[n].body = worker[n].body
        BY <1>0, <1>11, <2>3 DEF EndBatch, WorkerGoto, Workers
      <3>2. \A q \in Paths : Scanned(n, q) /\ Planned(n) /\ (q \in worker[n].read => BodyRead(n, q))
        BY <2>1, <2>3 DEF Scanned, Planned, Running, BodyRead
      <3>3. RunBodies(n)'
        BY <1>1, <1>2, <3>1, <3>2 DEF RunBodies, BodyOf, BodyRead
      <3>. QED BY <1>2, <1>3, <2>1, <3>1, <3>3
    <2>. QED BY <2>2, <2>3
  <1>12. CASE Apply(n) \/ ApplyFails(n)
    <2>1. worker[n].pc = "read" /\ (RunEnds(n, "finishing") \/ RunEnds(n, "failing"))
      BY <1>12 DEF Apply, ApplyFails
    <2>2. RunBodies(n)' /\ \A p \in Paths : Whole(worker'[n].found[p])
      BY <1>0, <2>1, RunOver DEF Resting
    <2>3. cache'.rows = cache.rows \/ (BatchComplete(n) /\ cache'.rows = NewRows(n))
      BY <1>0, <1>12 DEF Apply, ApplyFails, TypeOK, DiskTypeOK, Caches
    <2>4. RowBodies'
      <3>1. \A p \in Paths : BodyOf(p, cache'.rows[p].doc, cache'.rows[p].body)
        BY <2>1, <2>3, NewRowBodies DEF BodiesInv, RowBodies
      <3>. QED BY <1>1, <3>1 DEF RowBodies, BodyOf
    <2>. QED BY <1>1, <2>2, <2>4, OneRun
  <1>13. CASE FinishRun(n)
    <2>1. UNCHANGED cache
      BY <1>13 DEF FinishRun, diskVars
    <2>2. worker' = Spawned(n) \/ worker' = [worker EXCEPT ![n] = IdleWorker]
      BY <1>13 DEF FinishRun
    <2>. QED BY <1>4, <2>1, <2>2 DEF Resting
  <1>. QED
    BY <1>5, <1>6, <1>7, <1>8, <1>9, <1>10, <1>11, <1>12, <1>13 DEF WorkerStep

\* The versions of documents that are written are not 0.
LEMMA FileStepKeepsBodies ==
  ASSUME TypeOK, BodiesInv, FileStep
  PROVE  BodiesInv'
  <1>0. \A p \in Paths : Whole(fs[p])
    BY DEF BodiesInv, WholeDocs
  <1>1. ASSUME NEW p \in Paths, NEW i \in Ids \cup {NoId}, WriteFile(p, i) PROVE BodiesInv'
    <2>1. [ver |-> writes + 2, id |-> i] \in Docs /\ writes + 2 # 0
      BY <1>1, RuntimeAssumption DEF WriteFile, Changed, Docs, Versions, TypeOK, DiskTypeOK
    <2>2. [fs EXCEPT ![p] = [ver |-> writes + 2, id |-> i]] \in Catalogs
      BY <2>1 DEF TypeOK, DiskTypeOK, Catalogs
    <2>3. \A q \in Paths : Whole([fs EXCEPT ![p] = [ver |-> writes + 2, id |-> i]][q])
      BY <1>0, <2>1 DEF Whole, Present, TypeOK, DiskTypeOK, Catalogs
    <2>. QED BY <1>1, <2>2, <2>3, FilesKeepBodies DEF WriteFile
  <1>2. ASSUME NEW p \in Paths, DeleteFile(p) PROVE BodiesInv'
    <2>1. [fs EXCEPT ![p] = Absent] \in Catalogs
      BY RecordsTyped DEF TypeOK, DiskTypeOK, Catalogs
    <2>2. \A q \in Paths : Whole([fs EXCEPT ![p] = Absent][q])
      BY <1>0 DEF Whole, TypeOK, DiskTypeOK, Catalogs
    <2>. QED BY <1>2, <2>1, <2>2, FilesKeepBodies DEF DeleteFile
  <1>3. ASSUME NEW p \in Paths, NEW q \in Paths, RenameFile(p, q) PROVE BodiesInv'
    <2>1. [fs EXCEPT ![q] = fs[p], ![p] = Absent] \in Catalogs
      BY RecordsTyped DEF TypeOK, DiskTypeOK, Catalogs
    <2>2. \A r \in Paths : Whole([fs EXCEPT ![q] = fs[p], ![p] = Absent][r])
      BY <1>0 DEF Whole, TypeOK, DiskTypeOK, Catalogs
    <2>. QED BY <1>3, <2>1, <2>2, FilesKeepBodies DEF RenameFile
  <1>. QED BY <1>1, <1>2, <1>3 DEF FileStep

\* At the start every row has the body of its document.
LEMMA InitBodies == Init => BodiesInv
  <1>. SUFFICES ASSUME Init PROVE BodiesInv
    OBVIOUS
  <1>1. PICK seed \in [Paths -> Seeds], onDisk \in SUBSET Paths, known \in SUBSET Paths :
          fs = Kept(seed, onDisk) /\ cache \in InitialCaches(Kept(seed, known))
    BY DEF Init
  <1>2. \A n \in Nonces : worker[n] = IdleWorker
    BY DEF Init
  <1>3. WholeDocs
    <2>1. \A p \in Paths : Whole(fs[p])
      BY <1>1 DEF Kept, Seeds, Whole, Present
    <2>2. \A n \in Nonces, p \in Paths : worker[n].found[p] = Absent
      BY <1>2 DEF IdleWorker
    <2>. QED BY <2>1, <2>2 DEF WholeDocs, Whole
  <1>4. RowBodies
    <2>1. cache.rows = EmptyRows \/ cache.rows = Indexed(Kept(seed, known))
      <3>1. CASE cache = EmptyCache
        BY <3>1 DEF EmptyCache
      <3>2. CASE cache \in [valid : {TRUE}, rows : {Indexed(Kept(seed, known))}, open : Paths \cup {NoPath}]
        BY <3>2
      <3>. QED BY <1>1, <3>1, <3>2 DEF InitialCaches
    <2>2. CASE cache.rows = EmptyRows
      BY <2>2, EmptyRowBodies DEF RowBodies
    <2>3. CASE cache.rows = Indexed(Kept(seed, known))
      BY <2>3 DEF Indexed, RowBodies, BodyOf
    <2>. QED BY <2>1, <2>2, <2>3
  <1>5. \A n \in Nonces : RunBodies(n)
    BY <1>2, RestingHasNone DEF IdleWorker, Running
  <1>. QED BY <1>3, <1>4, <1>5 DEF BodiesInv

\* Every step keeps the bodies.
LEMMA NextBodies ==
  ASSUME Ownership, PlanStands, BodiesInv, [Next]_vars
  PROVE  BodiesInv'
  <1>0. TypeOK
    BY DEF Ownership
  <1>1. CASE \E n \in Nonces : \/ StarterStep(n) \/ ListenerStep(n) \/ NotifyError(n)
                              \/ CacheOpenFails(n) \/ PrepareFails(n)
    BY <1>0, <1>1, TasksAside, TasksOffDisk, AsideKeepsBodies
  <1>2. CASE \E n \in Nonces : WorkerStep(n) \/ ScanFails(n) \/ ApplyFails(n)
    BY <1>2, WorkerKeepsBodies
  <1>3. CASE UserStep
    BY <1>0, <1>3, UserAside, UserOffDisk, AsideKeepsBodies
  <1>4. CASE FileStep
    BY <1>0, <1>4, FileStepKeepsBodies
  <1>5. CASE UNCHANGED vars
    <2>1. UNCHANGED <<fileVars, cache, worker>>
      BY <1>5 DEF vars, diskVars, workVars
    <2>. QED BY <2>1, AsideKeepsBodies DEF Aside
  <1>. QED BY <1>1, <1>2, <1>3, <1>4, <1>5 DEF Next, FailureStep
-----------------------------------------------------------------------------
(***************************************************************************)
(* The watch.  From its first request on, a session is heard by a native   *)
(* watcher or is marked as degraded, and a mark is cleared only by a run   *)
(* that was asked for after it.                                            *)
(***************************************************************************)

Unclaimed == \A n \in Nonces : worker[n].pc \in Resting => worker[n].claim = 0

WatchOK(n) ==
  /\ starter[n].pc \in {"activated", "watching"} => ~watch.installed
  /\ (starter[n].pc = "watching" \/ watch.installed) => listener[n].attached
  /\ ~watch.installed => watch.current = 0 /\ watch.pending = 0 /\ worker[n].claim = 0
  /\ starter[n].pc \in {"installed", "returned", "completed"} =>
       watch.installed \/ watch.degradation # 0
  /\ watch.current <= marks /\ watch.pending <= marks
  /\ worker[n].claim <= marks /\ watch.degradation <= marks
  /\ ~gate.closed /\ (gate.pending => gate.running)

WatchInv == Unclaimed /\ (Active => WatchOK(Holder))

\* The start of n stays where it is, or goes on after its watcher was installed.
StageStays(n) ==
  \/ starter'[n].pc = starter[n].pc
  \/ {starter[n].pc, starter'[n].pc} \subseteq {"installed", "returned", "completed"}

LEMMA WatchKept ==
  ASSUME TypeOK, Active => WatchOK(Holder), UNCHANGED <<generation, watch, gate, marks>>,
         Active => /\ StageStays(Holder)
                   /\ listener'[Holder].attached = listener[Holder].attached
                   /\ worker'[Holder].claim \in {worker[Holder].claim, 0}
  PROVE  (Active => WatchOK(Holder))'
  <1>1. marks \in Nat
    BY DEF TypeOK, SessionTypeOK
  <1>. QED BY <1>1 DEF WatchOK, StageStays, Active, Holder

LEMMA AsideUnclaimed ==
  ASSUME Unclaimed, \A m \in Nonces : Aside(m)
  PROVE  Unclaimed'
  BY DEF Unclaimed, Aside, IdleWorker

LEMMA AsideClaim ==
  ASSUME NEW n \in Nonces, Aside(n)
  PROVE  worker'[n].claim \in {worker[n].claim, 0}
  BY DEF Aside, IdleWorker

\* A request of the holder keeps the watch.
LEMMA RequestWatch ==
  ASSUME Ownership, NEW n \in Nonces, WatchOK(n), NEW id \in Nat, id <= marks,
         ~watch.installed => id = 0, Request(n, id), UNCHANGED marks, StageStays(n),
         listener'[n].attached = listener[n].attached
  PROVE  WatchOK(n)'
  <1>1. /\ watch \in Watches /\ gate \in Gates /\ marks \in Nat
        /\ worker \in [Nonces -> Workers]
    BY DEF Ownership, TypeOK, SessionTypeOK, WorkTypeOK
  <1>2. watch'.installed = watch.installed /\ watch'.degradation = watch.degradation
    BY <1>1 DEF Request, Claimed, Watches
  <1>3. watch'.current \in {watch.current, id} /\ watch'.pending \in {watch.pending, id, 0}
    BY <1>1 DEF Request, Claimed, Watches
  <1>4. worker'[n].claim \in {worker[n].claim, 0}
    BY <1>1 DEF Request, Spawned, IdleWorker
  <1>5. ~gate'.closed /\ (gate'.pending => gate'.running)
    BY <1>1 DEF Request, AfterRequest, Gates, WatchOK
  <1>. QED BY <1>1, <1>2, <1>3, <1>4, <1>5 DEF WatchOK, StageStays

\* A mark keeps the watch of the session it marks.
LEMMA MarkWatch ==
  ASSUME TypeOK, NEW n \in Nonces, WatchOK(n), Marked(n), UNCHANGED gate,
         worker'[n].claim = worker[n].claim,
         (starter'[n].pc = "watching" \/ watch.installed) => listener'[n].attached,
         starter'[n].pc \in {"activated", "watching"} => ~watch.installed
  PROVE  WatchOK(n)'
  <1>1. watch \in Watches /\ marks \in Nat /\ worker[n].claim \in Nat
    BY DEF TypeOK, SessionTypeOK, WorkTypeOK, Workers
  <1>2. /\ watch'.installed = watch.installed /\ watch'.degradation = marks + 1
        /\ watch'.current = 0 /\ watch'.pending = 0 /\ marks' = marks + 1
    BY <1>1 DEF Marked, Watches
  <1>. QED BY <1>1, <1>2 DEF WatchOK

\* A start that turns elsewhere, or is still preparing, is not the holder's.
LEMMA OtherStart ==
  ASSUME Ownership, NEW n \in Nonces, ~Owned(n), \A m \in Nonces \ {n} : starter'[m] = starter[m]
  PROVE  Active => Holder # n /\ Holder \in Nonces /\ StageStays(Holder)
  <1>. SUFFICES ASSUME Active PROVE Holder # n /\ Holder \in Nonces /\ StageStays(Holder)
    OBVIOUS
  <1>1. Holder \in Nonces /\ Owned(Holder)
    BY ActiveHolder
  <1>2. Holder # n
    BY <1>1
  <1>. QED BY <1>1, <1>2 DEF StageStays

LEMMA PreparingIsNotOwner ==
  ASSUME Ownership, NEW n \in Nonces, starter[n].pc \in Preparing
  PROVE  ~Owned(n)
  BY OwnedIsHolder DEF Ownership, HolderKnown, Active, Holder, Preparing, Serving

\* A step of a start keeps the watch.
LEMMA StarterWatch ==
  ASSUME Ownership, WatchInv, NEW n \in Nonces, StarterStep(n)
  PROVE  WatchInv'
  <1>0. TypeOK
    BY DEF Ownership
  <1>1. Unclaimed'
    BY <1>0, TasksAside, AsideUnclaimed DEF WatchInv
  <1>2. CASE BeginCacheOpen(n) \/ (\E p \in Paths : StartScan(n, p)) \/ CacheOpened(n)
    <2>1. UNCHANGED <<generation, watch, gate, marks, listener, worker>>
      BY <1>2 DEF BeginCacheOpen, StartScan, CacheOpened, slotVars, sessionVars, workVars
    <2>2. \A m \in Nonces \ {n} : starter'[m] = starter[m]
      BY <1>0, <1>2
      DEF BeginCacheOpen, StartScan, CacheOpened, Goto, Past, TypeOK, StartTypeOK
    <2>3. starter'[n] = starter[n] \/ starter[n].pc \in Preparing
      BY <1>2 DEF BeginCacheOpen, StartScan, CacheOpened, Preparing
    <2>4. Active => StageStays(Holder)
      <3>1. CASE starter[n].pc \in Preparing
        BY <2>2, <3>1, OtherStart, PreparingIsNotOwner
      <3>2. CASE starter'[n] = starter[n]
        BY <2>2, <3>2, ActiveHolder DEF StageStays
      <3>. QED BY <2>3, <3>1, <3>2
    <2>. QED BY <1>0, <1>1, <2>1, <2>4, WatchKept DEF WatchInv
  <1>3. CASE CompleteStart(n)
    <2>1. UNCHANGED <<generation, watch, gate, marks, listener, worker>>
      BY <1>3 DEF CompleteStart, slotVars, sessionVars, workVars
    <2>2. \A m \in Nonces : StageStays(m)
      BY <1>0, <1>3 DEF CompleteStart, Goto, StageStays, TypeOK, StartTypeOK, Starters
    <2>. QED BY <1>0, <1>1, <2>1, <2>2, ActiveHolder, WatchKept DEF WatchInv
  <1>4. CASE Activate(n)
    <2>1. CASE Starting(n)
      <3>1. worker'[n].claim = 0
        <4>1. worker[n].pc = "idle" /\ worker' = worker
          BY <1>4 DEF Activate, Ownership, NothingEarly, Early, Preparing, workVars
        <4>. QED BY <4>1 DEF WatchInv, Unclaimed, Resting
      <3>2. generation'.owner.nonce = n
        BY <1>4, <2>1, HolderIsNonce DEF Activate, Starting, Ownership, TypeOK, SlotTypeOK
      <3>3. gate' = NewGate /\ watch' = NewWatch /\ starter'[n].pc = "activated" /\ marks' = marks
        BY <1>0, <1>4, <2>1 DEF Activate, Past, TypeOK, StartTypeOK, NoStarter
      <3>4. marks \in Nat
        BY <1>0 DEF TypeOK, SessionTypeOK
      <3>5. WatchOK(n)'
        BY <3>1, <3>3, <3>4 DEF WatchOK, NewGate, NewWatch
      <3>. QED BY <1>1, <3>2, <3>5 DEF WatchInv, Holder
    <2>2. CASE ~Starting(n)
      <3>1. UNCHANGED <<generation, watch, gate, marks, listener, worker>>
        BY <1>4, <2>2 DEF Activate, workVars
      <3>2. Active => StageStays(Holder)
        <4>1. starter[n].pc \in Preparing /\ \A m \in Nonces \ {n} : starter'[m] = starter[m]
          BY <1>0, <1>4, <2>2 DEF Activate, Past, TypeOK, StartTypeOK, Preparing
        <4>. QED BY <4>1, OtherStart, PreparingIsNotOwner
      <3>. QED BY <1>0, <1>1, <3>1, <3>2, WatchKept DEF WatchInv
    <2>. QED BY <2>1, <2>2
  <1>5. CASE StartWatcher(n) \/ InstallWatcher(n) \/ FirstRequest(n)
    <2>1. generation' = generation /\ \A m \in Nonces \ {n} : starter'[m] = starter[m]
      BY <1>0, <1>5
      DEF StartWatcher, InstallWatcher, FirstRequest, Goto, TypeOK, StartTypeOK, slotVars
    <2>2. CASE ~Owned(n)
      <3>1. UNCHANGED <<watch, gate, marks, worker>>
        BY <1>5, <2>2
        DEF StartWatcher, InstallWatcher, FirstRequest, RequestReconcile, MarkWatcherDegraded, workVars
      <3>2. \A m \in Nonces \ {n} : listener'[m] = listener[m]
        BY <1>0, <1>5, <2>2
        DEF StartWatcher, InstallWatcher, FirstRequest, UnwatchedAfter, TypeOK
      <3>. QED BY <1>0, <1>1, <2>1, <2>2, <3>1, <3>2, OtherStart, WatchKept DEF WatchInv
    <2>3. CASE Owned(n)
      <3>1. Active /\ Holder = n /\ WatchOK(n)
        BY <2>3, OwnedIsHolder DEF WatchInv
      <3>2. ASSUME WatchOK(n)' PROVE WatchInv'
        BY <1>1, <2>1, <3>1, <3>2 DEF WatchInv, Active, Holder
      <3>3. CASE StartWatcher(n)
        <4>1. UNCHANGED <<gate, worker>> /\ starter[n].pc = "activated"
          BY <3>3 DEF StartWatcher, workVars
        <4>2. CASE listener' = [listener EXCEPT ![n].attached = TRUE] /\ Goto(n, "watching")
                   /\ UNCHANGED <<watch, marks, snapshot>>
          <5>1. listener'[n].attached /\ starter'[n].pc = "watching"
            BY <1>0, <4>2 DEF Goto, TypeOK, StartTypeOK, Starters, Listeners
          <5>. QED BY <3>1, <3>2, <4>1, <4>2, <5>1 DEF WatchOK
        <4>3. CASE Marked(n) /\ Goto(n, "installed") /\ UNCHANGED listener
          <5>1. starter'[n].pc = "installed" /\ ~watch.installed
            BY <1>0, <3>1, <4>1, <4>3 DEF Goto, TypeOK, StartTypeOK, Starters, WatchOK
          <5>. QED BY <1>0, <3>1, <3>2, <4>1, <4>3, <5>1, MarkWatch
        <4>. QED BY <2>3, <3>3, <4>2, <4>3 DEF StartWatcher, MarkWatcherDegraded
      <3>4. CASE InstallWatcher(n)
        <4>1. UNCHANGED <<gate, worker, marks>> /\ starter[n].pc = "watching"
          BY <3>4 DEF InstallWatcher, workVars
        <4>2. starter'[n].pc = "installed"
          BY <1>0, <3>4 DEF InstallWatcher, Goto, TypeOK, StartTypeOK, Starters
        <4>3. /\ watch'.installed /\ watch'.current = watch.current
              /\ watch'.pending = watch.pending /\ watch'.degradation = watch.degradation
          BY <1>0, <2>3, <3>4 DEF InstallWatcher, TypeOK, SessionTypeOK, Watches
        <4>4. listener'[n].attached = listener[n].attached
          BY <1>0, <2>3, <3>4 DEF InstallWatcher, TypeOK, Listeners
        <4>. QED BY <3>1, <3>2, <4>1, <4>2, <4>3, <4>4 DEF WatchOK
      <3>5. CASE FirstRequest(n)
        <4>1. Request(n, 0) /\ UNCHANGED <<marks, listener>> /\ starter[n].pc = "installed"
          BY <2>3, <3>5 DEF FirstRequest, RequestReconcile
        <4>2. StageStays(n)
          BY <1>0, <3>5 DEF FirstRequest, Goto, StageStays, TypeOK, StartTypeOK, Starters
        <4>3. 0 <= marks
          BY <1>0 DEF TypeOK, SessionTypeOK
        <4>. QED BY <3>1, <3>2, <4>1, <4>2, <4>3, RequestWatch
      <3>. QED BY <1>5, <3>3, <3>4, <3>5
    <2>. QED BY <2>2, <2>3
  <1>. QED BY <1>2, <1>3, <1>4, <1>5 DEF StarterStep

\* A step of a watcher or its listener keeps the watch.
LEMMA ListenerWatch ==
  ASSUME Ownership, WatchInv, NEW n \in Nonces, ListenerStep(n) \/ NotifyError(n)
  PROVE  WatchInv'
  <1>0. TypeOK
    BY DEF Ownership
  <1>1. Unclaimed'
    BY <1>0, TasksAside, AsideUnclaimed DEF WatchInv
  <1>2. UNCHANGED <<generation, starter>>
    BY DEF ListenerStep, NotifyChange, ListenerReceives, WindowCloses, ListenerStops,
           NotifyError, slotVars, startVars
  <1>3. \A m \in Nonces : listener'[m].attached = listener[m].attached \/ (m = n /\ ~Owned(n))
    <2>1. listener \in [Nonces -> Listeners]
      BY <1>0 DEF TypeOK
    <2>2. \A m \in Nonces \ {n} : listener'[m] = listener[m]
      BY <2>1
      DEF ListenerStep, NotifyChange, ListenerReceives, WindowCloses, ListenerStops, NotifyError
    <2>3. listener'[n].attached = listener[n].attached \/ ~Owned(n)
      <3>1. CASE NotifyChange(n) \/ NotifyError(n)
        BY <2>1, <3>1 DEF NotifyChange, NotifyError, Listeners
      <3>2. CASE ListenerReceives(n)
        BY <2>1, <3>2 DEF ListenerReceives, Listeners
      <3>3. CASE WindowCloses(n) \/ ListenerStops(n)
        BY <2>1, <3>3 DEF WindowCloses, ListenerStops, Listeners
      <3>. QED BY <3>1, <3>2, <3>3 DEF ListenerStep
    <2>. QED BY <2>2, <2>3
  <1>4. Active => Holder \in Nonces /\ Owned(Holder)
    BY ActiveHolder
  <1>5. Active => StageStays(Holder) /\ listener'[Holder].attached = listener[Holder].attached
    BY <1>2, <1>3, <1>4 DEF StageStays
  <1>6. Active => worker'[Holder].claim \in {worker[Holder].claim, 0}
    BY <1>0, <1>4, TasksAside, AsideClaim
  <1>7. CASE UNCHANGED <<watch, gate, marks>>
    BY <1>0, <1>1, <1>2, <1>5, <1>6, <1>7, WatchKept DEF WatchInv
  <1>8. CASE Owned(n)
    <2>1. Active /\ Holder = n /\ WatchOK(n)
      BY <1>8, OwnedIsHolder DEF WatchInv
    <2>2. ASSUME WatchOK(n)' PROVE WatchInv'
      BY <1>1, <1>2, <2>1, <2>2 DEF WatchInv, Active, Holder
    <2>3. CASE ListenerReceives(n) /\ Marked(n)
      <3>1. UNCHANGED <<gate, worker>>
        BY <2>3 DEF ListenerReceives, workVars
      <3>. QED BY <1>0, <1>2, <1>5, <2>1, <2>2, <2>3, <3>1, MarkWatch DEF WatchOK
    <2>4. CASE WindowCloses(n)
      <3>1. Request(n, 0) /\ UNCHANGED marks /\ 0 <= marks
        BY <1>0, <1>8, <2>4 DEF WindowCloses, RequestReconcile, TypeOK, SessionTypeOK
      <3>. QED BY <1>5, <2>1, <2>2, <3>1, RequestWatch
    <2>5. CASE ~(ListenerReceives(n) /\ Marked(n)) /\ ~WindowCloses(n)
      BY <1>7, <2>5
      DEF ListenerStep, NotifyChange, ListenerReceives, MarkWatcherDegraded, ListenerStops,
          NotifyError, sessionVars
    <2>. QED BY <2>3, <2>4, <2>5
  <1>9. CASE ~Owned(n)
    BY <1>7, <1>9
    DEF ListenerStep, NotifyChange, ListenerReceives, MarkWatcherDegraded, WindowCloses,
        RequestReconcile, ListenerStops, NotifyError, sessionVars
  <1>. QED BY <1>8, <1>9

\* A step of a worker keeps the watch: it claims what was current, and clears what it claimed.
LEMMA WorkerWatch ==
  ASSUME Ownership, WatchInv, NEW n \in Nonces, WorkerStep(n) \/ ScanFails(n) \/ ApplyFails(n)
  PROVE  WatchInv'
  <1>0. TypeOK
    BY DEF Ownership
  <1>1. /\ \A m \in Nonces \ {n} : worker'[m] = worker[m]
        /\ UNCHANGED <<generation, starter, listener, marks>>
    BY <1>0, WorkerStepMoves, WorkerStepFrame DEF slotVars, startVars
  <1>2. worker[n] \in Workers /\ worker \in [Nonces -> Workers] /\ watch \in Watches
        /\ gate \in Gates /\ marks \in Nat
    BY <1>0 DEF TypeOK, WorkTypeOK, SessionTypeOK
  <1>3. ASSUME worker'[n].pc \in Resting => worker'[n].claim = 0 PROVE Unclaimed'
    BY <1>1, <1>3 DEF WatchInv, Unclaimed
  <1>4. Active => Holder \in Nonces /\ Owned(Holder) /\ StageStays(Holder)
    BY <1>1, ActiveHolder DEF StageStays
  \* The claim is kept, or dropped with the run.
  <1>5. ASSUME worker'[n].claim \in {worker[n].claim, 0},
               worker'[n].pc \in Resting => worker'[n].claim = 0,
               Owned(n) => UNCHANGED <<watch, gate>>
        PROVE  WatchInv'
    <2>1. Active => worker'[Holder].claim \in {worker[Holder].claim, 0}
      BY <1>1, <1>4, <1>5
    <2>2. UNCHANGED <<watch, gate>>
      <3>1. CASE ~Owned(n)
        BY <3>1
        DEF WorkerStep, BeginRun, Scan, ScanFails, Plan, BeginBatch, ReadBody, EndBatch, Apply,
            ApplyFails, PublishFailure, FinishRun, sessionVars
      <3>. QED BY <1>5, <3>1
    <2>. QED BY <1>0, <1>1, <1>3, <1>4, <1>5, <2>1, <2>2, WatchKept DEF WatchInv
  <1>6. ASSUME NEW pc \in WorkerPcs, RunEnds(n, pc), Owned(n) => UNCHANGED <<watch, gate>>
        PROVE  WatchInv'
    <2>1. worker'[n].claim = 0
      BY <1>2, <1>6 DEF RunEnds, IdleWorker
    <2>. QED BY <1>5, <1>6, <2>1
  <1>7. ASSUME Owned(n), WatchOK(n)', worker'[n].pc \in Resting => worker'[n].claim = 0 PROVE WatchInv'
    BY <1>1, <1>3, <1>7, OwnedIsHolder DEF WatchInv, Active, Holder
  <1>8. Owned(n) => WatchOK(n)
    BY OwnedIsHolder DEF WatchInv
  <1>9. CASE BeginRun(n)
    <2>1. CASE Owned(n)
      <3>1. /\ worker' = [worker EXCEPT ![n] = [worker[n] EXCEPT
                            !.pc = "scanning", !.left = Paths, !.claim = watch.current]]
            /\ watch' = [watch EXCEPT !.current = 0] /\ gate' = gate
        BY <1>9, <2>1 DEF BeginRun
      <3>2. worker'[n].pc = "scanning" /\ worker'[n].claim = watch.current
        BY <1>2, <3>1 DEF Workers
      <3>3. /\ watch'.installed = watch.installed /\ watch'.degradation = watch.degradation
            /\ watch'.pending = watch.pending /\ watch'.current = 0
        BY <1>2, <3>1 DEF Watches
      <3>4. WatchOK(n)'
        BY <1>1, <1>2, <1>8, <2>1, <3>1, <3>2, <3>3 DEF WatchOK
      <3>. QED BY <1>7, <2>1, <3>2, <3>4 DEF Resting
    <2>2. CASE ~Owned(n)
      BY <1>6, <1>9, <2>2 DEF BeginRun, WorkerPcs
    <2>. QED BY <2>1, <2>2
  <1>10. CASE \E p \in Paths : Scan(n, p) \/ ReadBody(n, p)
    <2>1. UNCHANGED <<watch, gate>>
      BY <1>10 DEF Scan, ReadBody, sessionVars
    <2>2. worker'[n].claim = worker[n].claim /\ worker'[n].pc = worker[n].pc
      <3>1. CASE \E p \in Paths : Scan(n, p)
        BY <1>2, <3>1 DEF Scan, Workers
      <3>2. CASE \E p \in Paths : ReadBody(n, p)
        BY <1>2, <3>2 DEF ReadBody, Workers
      <3>. QED BY <1>10, <3>1, <3>2
    <2>. QED BY <1>5, <2>1, <2>2 DEF WatchInv, Unclaimed
  <1>11. CASE ScanFails(n) \/ ApplyFails(n) \/ PublishFailure(n)
    <2>1. UNCHANGED <<watch, gate>> /\ \E pc \in WorkerPcs : RunEnds(n, pc)
      BY <1>11 DEF ScanFails, ApplyFails, PublishFailure, sessionVars, WorkerPcs
    <2>. QED BY <1>6, <2>1
  <1>12. CASE Plan(n)
    <2>1. UNCHANGED <<watch, gate>>
      BY <1>12 DEF Plan, sessionVars
    <2>2. CASE Owned(n)
      <3>1. worker' = [worker EXCEPT ![n] = [worker[n] EXCEPT
              !.pc = IF ToIndex(cache.rows, worker[n].found) = {} THEN "read" ELSE "waiting",
              !.left = ToIndex(cache.rows, worker[n].found),
              !.read = ToIndex(cache.rows, worker[n].found)]]
        BY <1>12, <2>2 DEF Plan
      <3>2. worker'[n].claim = worker[n].claim /\ worker'[n].pc \in {"read", "waiting"}
        BY <1>2, <3>1 DEF Workers
      <3>. QED BY <1>5, <2>1, <3>2 DEF Resting
    <2>3. CASE ~Owned(n)
      BY <1>6, <1>12, <2>1, <2>3 DEF Plan, WorkerPcs
    <2>. QED BY <2>2, <2>3
  <1>13. CASE BeginBatch(n) \/ EndBatch(n)
    <2>1. UNCHANGED <<watch, gate>>
      BY <1>13 DEF BeginBatch, EndBatch, sessionVars
    <2>2. \/ \E pc \in WorkerPcs : RunEnds(n, pc)
          \/ WorkerGoto(n, "reading") \/ WorkerGoto(n, "read")
      BY <1>13 DEF BeginBatch, EndBatch, WorkerPcs
    <2>3. ASSUME NEW pc \in {"reading", "read"}, WorkerGoto(n, pc) PROVE WatchInv'
      <3>1. worker'[n].claim = worker[n].claim /\ worker'[n].pc = pc
        BY <1>2, <2>3 DEF WorkerGoto, Workers
      <3>. QED BY <1>5, <2>1, <3>1 DEF Resting
    <2>. QED BY <1>6, <2>1, <2>2, <2>3
  <1>14. CASE Apply(n)
    <2>1. RunEnds(n, "finishing") /\ gate' = gate
      BY <1>14 DEF Apply
    <2>2. CASE Owned(n) /\ watch' # watch
      <3>1. worker[n].claim # 0 /\ watch' = [watch EXCEPT !.degradation = 0]
        BY <1>14, <2>2 DEF Apply, Cleared
      <3>2. /\ watch'.installed = watch.installed /\ watch'.degradation = 0
            /\ watch'.pending = watch.pending /\ watch'.current = watch.current
        BY <1>2, <3>1 DEF Watches
      <3>3. worker'[n].claim = 0
        BY <1>2, <2>1 DEF RunEnds, IdleWorker
      <3>4. watch.installed
        BY <1>8, <2>2, <3>1 DEF WatchOK
      <3>5. WatchOK(n)'
        BY <1>1, <1>2, <1>8, <2>1, <2>2, <3>2, <3>3, <3>4 DEF WatchOK
      <3>. QED BY <1>7, <2>2, <3>3, <3>5
    <2>3. CASE ~(Owned(n) /\ watch' # watch)
      BY <1>6, <2>1, <2>3 DEF WorkerPcs
    <2>. QED BY <2>2, <2>3
  <1>15. CASE FinishRun(n)
    <2>1. worker'[n].claim = 0
      BY <1>2, <1>15 DEF FinishRun, Spawned, IdleWorker
    <2>2. CASE Owned(n)
      <3>1. /\ watch'.installed = watch.installed /\ watch'.degradation = watch.degradation
            /\ watch'.pending = 0 /\ watch'.current \in {watch.pending, 0}
        BY <1>2, <1>15, <2>2 DEF FinishRun, Watches
      <3>2. ~gate'.closed /\ ~gate'.pending
        BY <1>2, <1>8, <1>15, <2>2 DEF FinishRun, AfterFinish, Gates, WatchOK
      <3>3. WatchOK(n)'
        BY <1>1, <1>2, <1>8, <2>1, <2>2, <3>1, <3>2 DEF WatchOK
      <3>. QED BY <1>7, <2>1, <2>2, <3>3
    <2>3. CASE ~Owned(n)
      BY <1>5, <2>1, <2>3
    <2>. QED BY <2>2, <2>3
  <1>. QED
    BY <1>9, <1>10, <1>11, <1>12, <1>13, <1>14, <1>15 DEF WorkerStep

\* A session that ends, or is not active, leaves nothing to watch.
LEMMA EndsWatch ==
  ASSUME Unclaimed, \A m \in Nonces : Aside(m), generation'.kind # "active"
  PROVE  WatchInv'
  BY AsideUnclaimed DEF WatchInv, Active

\* A start that fails, ends or is dropped keeps the watch of another session.
LEMMA HandleWatch ==
  ASSUME Ownership, WatchInv, NEW n \in Nonces,
         CacheOpenFails(n) \/ PrepareFails(n) \/ AbortStart(n) \/ StopGeneration(n)
  PROVE  WatchInv'
  <1>0. TypeOK /\ Unclaimed
    BY DEF Ownership, WatchInv
  <1>1. (\A m \in Nonces : Aside(m)) /\ Unclaimed'
    BY <1>0, TasksAside, AsideUnclaimed
  <1>2. UNCHANGED <<worker, marks>>
    BY DEF CacheOpenFails, PrepareFails, AbortStart, StopGeneration, workVars, sessionVars
  <1>3. CASE generation' # generation
    <2>1. generation' = NoGeneration
      BY <1>3
      DEF CacheOpenFails, PrepareFails, AbortStart, StopGeneration, ClearIfOwned, CancelOwner
    <2>. QED BY <1>0, <1>1, <2>1, EndsWatch DEF NoGeneration
  <1>4. CASE generation' = generation
    <2>1. UNCHANGED <<watch, gate>>
      <3>1. CASE HoldsSlot(n)
        BY <1>4, <3>1
        DEF CacheOpenFails, PrepareFails, AbortStart, StopGeneration, ClearIfOwned, CancelOwner,
            HoldsSlot, NoGeneration, sessionVars
      <3>2. CASE ~HoldsSlot(n)
        BY <3>2
        DEF CacheOpenFails, PrepareFails, AbortStart, StopGeneration, CancelOwner, sessionVars
      <3>. QED BY <3>1, <3>2
    <2>2. ASSUME Active
          PROVE  StageStays(Holder) /\ listener'[Holder].attached = listener[Holder].attached
      <3>1. Holder \in Nonces /\ Owned(Holder)
        BY <2>2, ActiveHolder
      <3>2. CASE starter' = starter
        <4>1. listener' = listener
          BY <1>0, <3>2
          DEF CacheOpenFails, PrepareFails, AbortStart, StopGeneration, Past, NoStarter,
              TypeOK, StartTypeOK
        <4>. QED BY <3>2, <4>1 DEF StageStays
      <3>3. CASE starter' # starter
        <4>1. Past(n, "over")
          BY <3>3 DEF CacheOpenFails, PrepareFails, AbortStart, StopGeneration
        <4>2. ~Owned(n)
          <5>1. CASE CacheOpenFails(n) \/ PrepareFails(n)
            <6>1. starter[n].pc \in Preparing
              BY <3>3, <5>1 DEF CacheOpenFails, PrepareFails, Preparing
            <6>. QED BY <6>1, PreparingIsNotOwner
          <5>2. CASE AbortStart(n) \/ StopGeneration(n)
            BY <1>4, <5>2 DEF AbortStart, StopGeneration, CancelOwner, NoGeneration, Owned
          <5>. QED BY <5>1, <5>2
        <4>3. Holder # n /\ \A m \in Nonces \ {n} : starter'[m] = starter[m]
          BY <1>0, <3>1, <4>1, <4>2 DEF Past, TypeOK, StartTypeOK
        <4>4. listener' = listener \/ listener' = UnwatchedAfter({n})
          BY <1>4, <4>2
          DEF CacheOpenFails, PrepareFails, AbortStart, StopGeneration, CancelOwner,
              NoGeneration, HoldsSlot
        <4>5. listener'[Holder] = listener[Holder]
          BY <3>1, <4>3, <4>4 DEF UnwatchedAfter
        <4>. QED BY <3>1, <4>3, <4>5 DEF StageStays
      <3>. QED BY <3>2, <3>3
    <2>. QED BY <1>0, <1>1, <1>2, <1>4, <2>1, <2>2, WatchKept DEF WatchInv
  <1>. QED BY <1>3, <1>4

\* A call of the commands keeps the watch.
LEMMA UserWatch ==
  ASSUME Ownership, WatchInv, UserStep
  PROVE  WatchInv'
  <1>0. TypeOK /\ Unclaimed /\ (\A m \in Nonces : Aside(m)) /\ Unclaimed'
    BY UserAside, AsideUnclaimed DEF Ownership, WatchInv
  <1>1. ASSUME NEW s \in Sessions, ReserveSession(s) \/ StopSession(s) PROVE WatchInv'
    <2>1. generation'.kind # "active"
      BY <1>1 DEF ReserveSession, StopSession, NoGeneration
    <2>. QED BY <1>0, <2>1, EndsWatch
  <1>2. ASSUME NEW s \in Sessions, Refresh(s) PROVE WatchInv'
    <2>1. Active /\ Holder \in Nonces /\ WatchOK(Holder)
      BY <1>2, ActiveHolder DEF Refresh, Active, WatchInv
    <2>2. UNCHANGED <<generation, starter, marks, listener>>
      BY <1>2 DEF Refresh, slotVars, startVars
    <2>3. PICK id : /\ id = IF watch.installed THEN watch.degradation ELSE 0
                    /\ Request(Holder, id)
      BY <1>2 DEF Refresh, Holder
    <2>4. id \in Nat /\ id <= marks
      BY <1>0, <2>1, <2>3 DEF TypeOK, SessionTypeOK, Watches, WatchOK
    <2>5. WatchOK(Holder)'
      <3>1. StageStays(Holder)
        BY <2>2 DEF StageStays
      <3>2. PICK n \in Nonces : n = Holder
        BY <2>1
      <3>3. WatchOK(n)'
        BY <2>1, <2>2, <2>3, <2>4, <3>1, <3>2, RequestWatch
      <3>. QED BY <2>2, <3>2, <3>3 DEF Holder
    <2>. QED BY <1>0, <2>5 DEF WatchInv
  <1>3. ASSUME NEW s \in Sessions, NEW p \in Paths, SetOpenDocument(s, p) PROVE WatchInv'
    <2>1. UNCHANGED <<generation, watch, gate, marks, starter, listener, worker>>
      BY <1>3 DEF SetOpenDocument, slotVars, startVars, workVars
    <2>. QED BY <1>0, <2>1, WatchKept DEF WatchInv, StageStays
  <1>. QED BY <1>1, <1>2, <1>3, HandleWatch DEF UserStep

\* A change of the files keeps the watch.
LEMMA FileWatch ==
  ASSUME Ownership, WatchInv, FileStep
  PROVE  WatchInv'
  <1>0. TypeOK
    BY DEF Ownership
  <1>1. /\ UNCHANGED <<generation, watch, gate, marks, starter, worker>>
        /\ \A m \in Nonces : listener'[m].attached = listener[m].attached
    <2>1. \E files : Changed(files)
      BY DEF FileStep, WriteFile, DeleteFile, RenameFile
    <2>. QED
      BY <1>0, <2>1 DEF Changed, slotVars, sessionVars, startVars, workVars, TypeOK, Listeners
  <1>2. (\A m \in Nonces : Aside(m)) /\ Unclaimed'
    BY <1>1, AsideUnclaimed DEF Aside, WatchInv
  <1>3. Active => StageStays(Holder) /\ listener'[Holder].attached = listener[Holder].attached
    BY <1>1, ActiveHolder DEF StageStays
  <1>. QED BY <1>0, <1>1, <1>2, <1>3, WatchKept DEF WatchInv

\* Every step keeps the watch.
LEMMA NextWatch ==
  ASSUME Ownership, WatchInv, [Next]_vars
  PROVE  WatchInv'
  <1>1. CASE \E n \in Nonces : FailureStep(n)
    BY <1>1, HandleWatch, ListenerWatch, WorkerWatch DEF FailureStep
  <1>2. CASE UNCHANGED vars
    <2>1. UNCHANGED <<generation, watch, gate, marks, starter, listener, worker>>
      BY <1>2 DEF vars, slotVars, sessionVars, startVars, workVars
    <2>. QED BY <2>1, AsideUnclaimed, WatchKept DEF WatchInv, StageStays, Aside, Ownership
  <1>. QED
    BY <1>1, <1>2, StarterWatch, ListenerWatch, WorkerWatch, UserWatch, FileWatch DEF Next

-----------------------------------------------------------------------------
(***************************************************************************)
(* The sight.  A run of the session that would clear its degradation has   *)
(* scanned what the files hold, and a session that rests shows it; or a    *)
(* change was heard since, and another run follows.                        *)
(***************************************************************************)

\* The session of n will look again.
Heard(n) ==
  \/ listener[n].raw \/ listener[n].queue # <<>> \/ listener[n].pc = "coalescing"
  \/ gate.pending \/ worker[n].pc = "spawned"

\* The start of n has made its first request.
Looks(n) == starter[n].pc \in {"returned", "completed"}

\* The run of n leaves the session without a degradation.
Clears(n) == watch.degradation \in {0, worker[n].claim}

FoundAll(n) == \A p \in Paths : Scanned(n, p) => worker[n].found[p] = fs[p]
ShownAll == snapshot.catalog = fs /\ RowDocs(cache.rows) = fs

RunSees(n) ==
  Looks(n) /\ worker[n].pc \in Running /\ Clears(n) => Heard(n) \/ FoundAll(n)
RestSees(n) ==
  Looks(n) /\ worker[n].pc \in {"idle", "finishing"} /\ watch.degradation = 0 /\ notice # "failed"
    => Heard(n) \/ ShownAll
Agrees(n) ==
  notice = "ok" /\ worker[n].pc # "failing" => RowDocs(cache.rows) = snapshot.catalog

Sees(n) == RunSees(n) /\ RestSees(n) /\ Agrees(n)
SightInv == (~Active => notice = "none") /\ (Active => Sees(Holder))

FreshInv == BodiesInv /\ WatchInv /\ SightInv

\* A step that leaves alone what the session of n shows, and what its run has found.
LEMMA SightKept ==
  ASSUME NEW n \in Nonces, Sees(n), UNCHANGED <<notice, fs>>,
         cache'.rows = cache.rows, snapshot'.catalog = snapshot.catalog,
         watch'.degradation = watch.degradation, worker'[n] = worker[n],
         Looks(n)' => Looks(n), Heard(n) => Heard(n)'
  PROVE  Sees(n)'
  <1>1. RowDocs(cache.rows)' = RowDocs(cache.rows)
    BY DEF RowDocs
  <1>2. RunSees(n)'
    BY DEF Sees, RunSees, Clears, FoundAll, Scanned
  <1>3. RestSees(n)'
    BY <1>1 DEF Sees, RestSees, ShownAll
  <1>4. Agrees(n)'
    BY <1>1 DEF Sees, Agrees
  <1>. QED BY <1>2, <1>3, <1>4 DEF Sees

\* A session that has heard of a change only has to agree with its index.
LEMMA SightHeard ==
  ASSUME NEW n \in Nonces, Sees(n), UNCHANGED <<notice, cache, snapshot>>, Heard(n)',
         worker[n].pc = "failing" => worker'[n].pc = "failing"
  PROVE  Sees(n)'
  BY DEF Sees, RunSees, RestSees, Agrees, RowDocs

\* So does a session that was marked: no run under way clears the mark.
LEMMA SightMarked ==
  ASSUME TypeOK, NEW n \in Nonces, Sees(n), WatchOK(n), Marked(n),
         UNCHANGED <<notice, cache, worker>>
  PROVE  Sees(n)'
  <1>1. watch'.degradation = marks + 1 /\ snapshot'.catalog = snapshot.catalog
    BY DEF Marked, TypeOK, SessionTypeOK, Watches, Snapshots
  <1>2. marks \in Nat /\ worker[n].claim \in Nat /\ worker[n].claim <= marks
    BY DEF TypeOK, SessionTypeOK, WorkTypeOK, Workers, WatchOK
  <1>3. watch'.degradation # 0 /\ watch'.degradation # worker'[n].claim
    BY <1>1, <1>2
  <1>. QED BY <1>1, <1>3 DEF Sees, RunSees, RestSees, Agrees, Clears, RowDocs

\* A request of the session is heard: a worker is spawned for it, or told to run again.
LEMMA RequestSight ==
  ASSUME Ownership, SessionOK, NEW n \in Nonces, Owned(n), Sees(n), WatchOK(n), NEW id,
         Request(n, id), UNCHANGED <<notice, cache, snapshot>>
  PROVE  Sees(n)'
  <1>1. gate \in Gates /\ worker \in [Nonces -> Workers]
    BY DEF Ownership, TypeOK, SessionTypeOK, WorkTypeOK
  <1>2. CASE RequestStarts(gate)
    <2>1. worker'[n].pc = "spawned"
      BY <1>1, <1>2 DEF Request, Spawned, IdleWorker
    <2>2. worker[n].pc = "idle"
      BY <1>2, OwnedIsHolder DEF SessionOK, GateMatchesWorker, Active, Holder, RequestStarts
    <2>. QED BY <2>1, <2>2, SightHeard DEF Heard
  <1>3. CASE ~RequestStarts(gate)
    <2>1. gate'.pending /\ worker' = worker
      BY <1>1, <1>3 DEF Request, RequestStarts, AfterRequest, Gates, WatchOK
    <2>. QED BY <2>1, SightHeard DEF Heard
  <1>. QED BY <1>2, <1>3

\* The active session is seen to by what is proved of its holder.
LEMMA HolderSight ==
  ASSUME Ownership, SightInv, generation' = generation,
         ~Active => notice' = notice,
         \A n \in Nonces : Owned(n) /\ Sees(n) => Sees(n)'
  PROVE  SightInv'
  <1>1. CASE Active
    <2>1. PICK n \in Nonces : n = Holder
      BY <1>1, ActiveHolder
    <2>2. Owned(n) /\ Sees(n)
      BY <1>1, <2>1, ActiveHolder DEF SightInv
    <2>3. Sees(n)' /\ Active' /\ Holder' = n
      BY <1>1, <2>1, <2>2 DEF Active, Holder
    <2>. QED BY <2>3 DEF SightInv
  <1>2. CASE ~Active
    BY <1>2 DEF SightInv, Active
  <1>. QED BY <1>1, <1>2

\* A step of a start keeps the sight: a session looks from its first request on.
LEMMA StarterSight ==
  ASSUME Ownership, SessionOK, WatchInv, SightInv, NEW n \in Nonces, StarterStep(n)
  PROVE  SightInv'
  <1>0. TypeOK
    BY DEF Ownership
  <1>1. UNCHANGED <<fs, notice>>
    BY DEF StarterStep, BeginCacheOpen, CacheOpened, StartScan, Activate, StartWatcher,
           InstallWatcher, FirstRequest, CompleteStart, sessionVars, diskVars, fileVars
  <1>2. CASE Activate(n) /\ Starting(n)
    <2>1. notice = "none" /\ Active' /\ Holder' = n
      BY <1>0, <1>2, HolderIsNonce
      DEF Activate, Starting, SightInv, Active, Holder, TypeOK, SlotTypeOK
    <2>2. starter'[n].pc = "activated"
      BY <1>0, <1>2 DEF Activate, Past, TypeOK, StartTypeOK, NoStarter
    <2>3. Sees(n)'
      BY <1>1, <2>1, <2>2 DEF Sees, RunSees, RestSees, Agrees, Looks
    <2>. QED BY <2>1, <2>3 DEF SightInv
  <1>3. CASE ~(Activate(n) /\ Starting(n))
    <2>1. generation' = generation
      BY <1>3
      DEF StarterStep, BeginCacheOpen, CacheOpened, StartScan, Activate, StartWatcher,
          InstallWatcher, FirstRequest, CompleteStart, slotVars
    <2>. SUFFICES ASSUME NEW m \in Nonces, Owned(m), Sees(m) PROVE Sees(m)'
      BY <1>1, <2>1, HolderSight
    <2>2. Active /\ Holder = m /\ WatchOK(m)
      BY OwnedIsHolder DEF WatchInv
    <2>3. CASE CacheOpened(n)
      BY <2>2, <2>3 DEF CacheOpened, Ownership, CacheOpenExclusive, Nonces, Active
    <2>4. CASE BeginCacheOpen(n) \/ (\E p \in Paths : StartScan(n, p)) \/ Activate(n)
      <3>1. UNCHANGED <<cache, snapshot, watch, gate, worker, listener>>
        BY <1>3, <2>4
        DEF BeginCacheOpen, StartScan, Activate, diskVars, sessionVars, workVars
      <3>2. starter[n].pc \in Preparing /\ \A k \in Nonces \ {n} : starter'[k] = starter[k]
        BY <1>0, <2>4
        DEF BeginCacheOpen, StartScan, Activate, Goto, Past, Preparing, TypeOK, StartTypeOK
      <3>3. starter'[m] = starter[m]
        BY <3>2, PreparingIsNotOwner
      <3>. QED BY <1>1, <3>1, <3>3, SightKept DEF Looks, Heard
    <2>5. CASE CompleteStart(n)
      <3>1. UNCHANGED <<cache, snapshot, watch, gate, worker, listener>>
        BY <2>5 DEF CompleteStart, diskVars, sessionVars, workVars
      <3>2. Looks(m)' => Looks(m)
        BY <1>0, <2>5 DEF CompleteStart, Goto, Looks, TypeOK, StartTypeOK
      <3>. QED BY <1>1, <3>1, <3>2, SightKept DEF Heard
    <2>6. CASE FirstRequest(n) /\ n = m
      BY <2>2, <2>6, RequestSight DEF FirstRequest, RequestReconcile, diskVars
    <2>7. CASE (StartWatcher(n) \/ InstallWatcher(n) \/ FirstRequest(n)) /\ n # m
      <3>1. ~Owned(n)
        BY <2>2, <2>7, OwnedIsHolder
      <3>2. UNCHANGED <<cache, snapshot, watch, gate, worker>>
        BY <2>7, <3>1
        DEF StartWatcher, InstallWatcher, FirstRequest, RequestReconcile, MarkWatcherDegraded,
            diskVars, workVars
      <3>3. starter'[m] = starter[m] /\ listener'[m] = listener[m]
        BY <1>0, <2>7, <3>1
        DEF StartWatcher, InstallWatcher, FirstRequest, UnwatchedAfter, Goto, TypeOK, StartTypeOK
      <3>. QED BY <1>1, <3>2, <3>3, SightKept DEF Looks, Heard
    <2>8. CASE (StartWatcher(n) \/ InstallWatcher(n)) /\ n = m
      <3>1. ~Looks(m)' /\ UNCHANGED <<cache, worker>>
        <4>1. Goto(n, "watching") \/ Goto(n, "installed")
          BY <2>8 DEF StartWatcher, InstallWatcher
        <4>2. starter'[m].pc \in {"watching", "installed"}
          BY <1>0, <2>8, <4>1 DEF Goto, TypeOK, StartTypeOK, Starters
        <4>. QED BY <2>8, <4>2 DEF StartWatcher, InstallWatcher, Looks, diskVars, workVars
      <3>2. snapshot'.catalog = snapshot.catalog
        BY <1>0, <2>8
        DEF StartWatcher, InstallWatcher, MarkWatcherDegraded, Marked, TypeOK, SessionTypeOK,
            Snapshots
      <3>. QED BY <1>1, <3>1, <3>2 DEF Sees, RunSees, RestSees, Agrees, RowDocs
    <2>. QED BY <2>3, <2>4, <2>5, <2>6, <2>7, <2>8 DEF StarterStep
  <1>. QED BY <1>2, <1>3

\* A step of a watcher or its listener keeps the sight: what it heard stays heard until
\* the window closes with a request, and a lost change leaves a mark.
LEMMA ListenerSight ==
  ASSUME Ownership, SessionOK, WatchInv, SightInv, NEW n \in Nonces,
         ListenerStep(n) \/ NotifyError(n)
  PROVE  SightInv'
  <1>0. TypeOK
    BY DEF Ownership
  <1>1. UNCHANGED <<generation, starter, fs, cache, notice>>
    BY DEF ListenerStep, NotifyChange, ListenerReceives, WindowCloses, ListenerStops,
           NotifyError, slotVars, startVars, diskVars, fileVars, sessionVars
  <1>2. \A m \in Nonces \ {n} : listener'[m] = listener[m]
    BY <1>0
    DEF ListenerStep, NotifyChange, ListenerReceives, WindowCloses, ListenerStops,
        NotifyError, TypeOK
  <1>. SUFFICES ASSUME NEW m \in Nonces, Owned(m), Sees(m) PROVE Sees(m)'
    BY <1>1, HolderSight
  <1>3. Active /\ Holder = m /\ WatchOK(m)
    BY OwnedIsHolder DEF WatchInv
  <1>4. Looks(m)' => Looks(m)
    BY <1>1 DEF Looks
  <1>5. CASE n # m
    <2>1. ~Owned(n)
      BY <1>3, <1>5, OwnedIsHolder
    <2>2. UNCHANGED <<snapshot, watch, gate, worker>>
      BY <2>1
      DEF ListenerStep, NotifyChange, ListenerReceives, MarkWatcherDegraded, WindowCloses,
          RequestReconcile, ListenerStops, NotifyError, sessionVars, workVars
    <2>. QED BY <1>1, <1>2, <1>4, <1>5, <2>2, SightKept DEF Heard
  <1>6. CASE n = m
    <2>1. CASE NotifyChange(n) \/ NotifyError(n)
      <3>1. UNCHANGED <<snapshot, worker>>
        BY <2>1 DEF NotifyChange, NotifyError, sessionVars, workVars
      <3>2. listener'[n].queue # <<>>
        <4>1. listener \in [Nonces -> Listeners] /\ listener[n].queue \in Seq(Messages)
          BY <1>0 DEF TypeOK, Listeners
        <4>2. PICK msg \in Messages :
                listener' = [listener EXCEPT ![n] = [listener[n] EXCEPT !.raw = FALSE, !.queue = Append(@, msg)]]
          BY <2>1 DEF NotifyChange, NotifyError, Messages
        <4>3. listener'[n].queue = Append(listener[n].queue, msg)
          BY <4>1, <4>2 DEF Listeners
        <4>. QED BY <4>1, <4>3
      <3>. QED BY <1>1, <1>6, <3>1, <3>2, SightHeard DEF Heard
    <2>2. CASE ListenerReceives(n) /\ Head(listener[n].queue) = "changed"
      <3>1. UNCHANGED <<snapshot, worker>>
        BY <2>2 DEF ListenerReceives, workVars
      <3>2. listener'[n].pc = "coalescing"
        BY <1>0, <2>2 DEF ListenerReceives, TypeOK, Listeners
      <3>. QED BY <1>1, <1>6, <3>1, <3>2, SightHeard DEF Heard
    <2>3. CASE ListenerReceives(n) /\ Head(listener[n].queue) # "changed"
      <3>1. Marked(m) /\ worker' = worker
        BY <1>6, <2>3 DEF ListenerReceives, MarkWatcherDegraded, workVars
      <3>. QED BY <1>0, <1>1, <1>3, <3>1, SightMarked
    <2>4. CASE WindowCloses(n)
      <3>1. Request(m, 0) /\ snapshot' = snapshot
        BY <1>6, <2>4 DEF WindowCloses, RequestReconcile
      <3>. QED BY <1>1, <1>3, <3>1, RequestSight
    <2>5. CASE ListenerStops(n)
      BY <1>6, <2>5 DEF ListenerStops
    <2>. QED BY <2>1, <2>2, <2>3, <2>4, <2>5 DEF ListenerStep
  <1>. QED BY <1>5, <1>6

\* The rows a run commits are those of the documents it found.
LEMMA NewRowDocs ==
  ASSUME TypeOK, WholeDocs, NEW n \in Nonces
  PROVE  RowDocs(NewRows(n)) = worker[n].found
  <1>1. worker[n].found \in [Paths -> Docs]
    BY DEF TypeOK, WorkTypeOK, Workers, Catalogs
  <1>2. ASSUME NEW p \in Paths PROVE NewRows(n)[p].doc = worker[n].found[p]
    <2>1. CASE Present(worker[n].found[p])
      BY <2>1 DEF NewRows, Reindexed
    <2>2. CASE ~Present(worker[n].found[p])
      BY <2>2 DEF NewRows, Reindexed, NoRow, WholeDocs, Whole
    <2>. QED BY <2>1, <2>2
  <1>. QED BY <1>1, <1>2 DEF RowDocs

\* A step of a worker keeps the sight: what it scanned is there until a change is heard,
\* and what it scanned it shows.
LEMMA WorkerSight ==
  ASSUME Ownership, PlanStands, BodiesInv, WatchInv, SightInv, NEW n \in Nonces,
         WorkerStep(n) \/ ScanFails(n) \/ ApplyFails(n)
  PROVE  SightInv'
  <1>0. TypeOK
    BY DEF Ownership
  <1>1. /\ \A m \in Nonces \ {n} : worker'[m] = worker[m]
        /\ UNCHANGED <<generation, starter, listener, fs>>
    BY <1>0, WorkerStepMoves, WorkerStepFrame DEF slotVars, startVars, fileVars
  <1>2. worker[n] \in Workers /\ worker \in [Nonces -> Workers] /\ watch \in Watches /\ gate \in Gates
    BY <1>0 DEF TypeOK, WorkTypeOK, SessionTypeOK
  <1>3. CASE ~Owned(n)
    <2>1. UNCHANGED <<cache, gate, watch, snapshot, notice>>
      BY <1>3
      DEF WorkerStep, BeginRun, Scan, ScanFails, Plan, BeginBatch, ReadBody, EndBatch, Apply,
          ApplyFails, PublishFailure, FinishRun, diskVars, sessionVars
    <2>. SUFFICES ASSUME NEW m \in Nonces, Owned(m), Sees(m) PROVE Sees(m)'
      BY <1>1, <2>1, HolderSight
    <2>2. worker'[m] = worker[m]
      BY <1>1, <1>3
    <2>. QED BY <1>1, <2>1, <2>2, SightKept DEF Looks, Heard
  <1>4. CASE Owned(n)
    <2>0. Active /\ Holder = n /\ WatchOK(n) /\ Sees(n)
      BY <1>4, OwnedIsHolder DEF WatchInv, SightInv
    <2>. SUFFICES Sees(n)'
      BY <1>1, <2>0 DEF SightInv, Active, Holder
    <2>1. Looks(n)' = Looks(n)
      BY <1>1 DEF Looks
    \* A run that fails, or told of its failure, promises nothing.
    <2>2. CASE ScanFails(n) \/ ApplyFails(n)
      <3>1. worker'[n].pc = "failing"
        BY <1>2, <2>2 DEF ScanFails, ApplyFails, RunEnds, IdleWorker
      <3>. QED BY <3>1 DEF Sees, RunSees, RestSees, Agrees, Running
    <2>3. CASE PublishFailure(n)
      <3>1. worker'[n].pc = "finishing" /\ notice' = "failed"
        BY <1>2, <1>4, <2>3 DEF PublishFailure, RunEnds, IdleWorker
      <3>. QED BY <3>1 DEF Sees, RunSees, RestSees, Agrees, Running
    <2>4. CASE BeginRun(n)
      <3>1. /\ worker' = [worker EXCEPT ![n] = [worker[n] EXCEPT
                            !.pc = "scanning", !.left = Paths, !.claim = watch.current]]
            /\ UNCHANGED <<cache, snapshot, notice>> /\ worker[n].pc = "spawned"
        BY <1>4, <2>4 DEF BeginRun, diskVars
      <3>2. worker'[n].pc = "scanning" /\ worker'[n].left = Paths
        BY <1>2, <3>1 DEF Workers
      <3>3. FoundAll(n)'
        BY <3>2 DEF FoundAll, Scanned
      <3>. QED BY <2>0, <3>1, <3>2, <3>3 DEF Sees, RunSees, RestSees, Agrees, RowDocs
    \* A run that goes on has found what it had found, and what it scans now.
    <2>5. ASSUME worker[n].pc \in Running, worker'[n].pc \in Running,
                 UNCHANGED <<cache, snapshot, notice, watch, gate>>,
                 worker'[n].claim = worker[n].claim,
                 \A p \in Paths : Scanned(n, p)' =>
                   \/ worker'[n].found[p] = fs[p]
                   \/ Scanned(n, p) /\ worker'[n].found[p] = worker[n].found[p]
          PROVE  Sees(n)'
      <3>1. FoundAll(n) => FoundAll(n)'
        BY <1>1, <2>5 DEF FoundAll
      <3>2. Heard(n) => Heard(n)'
        BY <1>1, <2>5 DEF Heard, Running
      <3>3. RunSees(n)'
        BY <2>0, <2>1, <2>5, <3>1, <3>2 DEF Sees, RunSees, Clears
      <3>4. RestSees(n)'
        BY <2>5 DEF RestSees, Running
      <3>5. Agrees(n)'
        BY <2>0, <2>5 DEF Sees, Agrees, Running, RowDocs
      <3>. QED BY <3>3, <3>4, <3>5 DEF Sees
    <2>6. CASE \E p \in Paths : Scan(n, p)
      <3>1. PICK q \in Paths : Scan(n, q)
        BY <2>6
      <3>2. worker' = [worker EXCEPT ![n] = [worker[n] EXCEPT !.found[q] = fs[q], !.left = @ \ {q}]]
        BY <3>1 DEF Scan
      <3>3. /\ worker'[n].pc = worker[n].pc /\ worker'[n].claim = worker[n].claim
            /\ worker'[n].left = worker[n].left \ {q}
            /\ worker'[n].found = [worker[n].found EXCEPT ![q] = fs[q]]
        BY <1>2, <3>2 DEF Workers
      <3>4. ASSUME NEW p \in Paths, Scanned(n, p)'
            PROVE  \/ worker'[n].found[p] = fs[p]
                   \/ Scanned(n, p) /\ worker'[n].found[p] = worker[n].found[p]
        BY <1>2, <3>3, <3>4 DEF Scanned, Workers, Catalogs
      <3>5. worker[n].pc \in Running /\ UNCHANGED <<cache, snapshot, notice, watch, gate>>
        BY <3>1 DEF Scan, Running, diskVars, sessionVars
      <3>. QED BY <2>5, <3>3, <3>4, <3>5
    <2>7. CASE Plan(n)
      <3>1. worker' = [worker EXCEPT ![n] = [worker[n] EXCEPT
              !.pc = IF ToIndex(cache.rows, worker[n].found) = {} THEN "read" ELSE "waiting",
              !.left = ToIndex(cache.rows, worker[n].found),
              !.read = ToIndex(cache.rows, worker[n].found)]]
        BY <1>4, <2>7 DEF Plan
      <3>2. /\ worker'[n].pc \in {"read", "waiting"} /\ worker'[n].claim = worker[n].claim
            /\ worker'[n].found = worker[n].found
        BY <1>2, <3>1 DEF Workers
      <3>3. /\ worker[n].pc = "scanning" /\ worker[n].left = {}
            /\ UNCHANGED <<cache, snapshot, notice, watch, gate>>
        BY <2>7 DEF Plan, diskVars, sessionVars
      <3>4. \A p \in Paths : Scanned(n, p)
        BY <3>3 DEF Scanned, Running
      <3>. QED BY <2>5, <3>2, <3>3, <3>4 DEF Running
    <2>8. CASE BeginBatch(n) \/ (\E p \in Paths : ReadBody(n, p)) \/ EndBatch(n)
      <3>1. worker[n].pc \in {"waiting", "reading"} /\ UNCHANGED <<cache, snapshot, notice, watch, gate>>
        BY <2>8 DEF BeginBatch, ReadBody, EndBatch, diskVars, sessionVars
      <3>2. \A p \in Paths : Scanned(n, p)
        BY <3>1 DEF Scanned, Running
      <3>3. CASE \E p \in Paths : ReadBody(n, p)
        <4>1. /\ worker'[n].pc = worker[n].pc /\ worker'[n].claim = worker[n].claim
              /\ worker'[n].found = worker[n].found
          BY <1>2, <3>3 DEF ReadBody, Workers
        <4>. QED BY <2>5, <3>1, <3>2, <4>1 DEF Running
      <3>4. CASE WorkerGoto(n, "reading") \/ WorkerGoto(n, "read")
        <4>1. /\ worker'[n].pc \in {"reading", "read"} /\ worker'[n].claim = worker[n].claim
              /\ worker'[n].found = worker[n].found
          BY <1>2, <3>4 DEF WorkerGoto, Workers
        <4>. QED BY <2>5, <3>1, <3>2, <4>1 DEF Running
      <3>5. CASE RunEnds(n, "failing")
        <4>1. worker'[n].pc = "failing"
          BY <1>2, <3>5 DEF RunEnds, IdleWorker
        <4>. QED BY <4>1 DEF Sees, RunSees, RestSees, Agrees, Running
      <3>. QED BY <1>4, <2>8, <3>3, <3>4, <3>5 DEF BeginBatch, EndBatch
    <2>9. CASE Apply(n)
      <3>1. /\ worker[n].pc = "read" /\ RunEnds(n, "finishing") /\ gate' = gate
            /\ cache' = [cache EXCEPT !.rows = NewRows(n), !.open = NewOpen(n)]
            /\ watch' = Cleared(worker[n].claim)
            /\ snapshot'.catalog = worker[n].found
        BY <1>4, <2>9 DEF Apply
      <3>2. worker'[n].pc = "finishing"
        BY <1>2, <3>1 DEF RunEnds, IdleWorker
      <3>3. RowDocs(cache.rows)' = worker[n].found
        <4>1. cache'.rows = NewRows(n)
          BY <1>0, <3>1 DEF TypeOK, DiskTypeOK, Caches
        <4>2. RowDocs(cache'.rows) = worker[n].found
          BY <1>0, <4>1, NewRowDocs DEF BodiesInv
        <4>. QED BY <4>2
      <3>4. watch'.degradation = 0 => Clears(n)
        BY <1>2, <3>1 DEF Cleared, Clears, Watches
      <3>5. FoundAll(n) => worker[n].found = fs
        BY <1>0, <3>1
        DEF FoundAll, Scanned, Running, TypeOK, DiskTypeOK, WorkTypeOK, Workers, Catalogs
      <3>6. Heard(n) => Heard(n)'
        BY <1>1, <3>1 DEF Heard
      <3>7. RestSees(n)'
        <4>. SUFFICES ASSUME Looks(n)', watch'.degradation = 0 PROVE Heard(n)' \/ ShownAll'
          BY DEF RestSees
        <4>1. Heard(n) \/ FoundAll(n)
          BY <2>0, <2>1, <3>1, <3>4 DEF Sees, RunSees, Running
        <4>. QED BY <1>1, <3>1, <3>3, <3>5, <3>6, <4>1 DEF ShownAll
      <3>. QED BY <3>1, <3>2, <3>3, <3>7 DEF Sees, RunSees, Agrees, Running
    <2>10. CASE FinishRun(n)
      <3>1. worker[n].pc = "finishing" /\ UNCHANGED <<cache, snapshot, notice>>
        BY <2>10 DEF FinishRun, diskVars
      <3>2. Agrees(n)'
        BY <2>0, <3>1 DEF Sees, Agrees, RowDocs
      <3>3. CASE FinishStarts(gate)
        <4>1. worker'[n].pc = "spawned"
          BY <1>2, <1>4, <2>10, <3>3 DEF FinishRun, Spawned, IdleWorker
        <4>. QED BY <3>2, <4>1 DEF Sees, RunSees, RestSees, Running
      <3>4. CASE ~FinishStarts(gate)
        <4>1. worker'[n].pc = "idle" /\ ~gate.pending /\ watch'.degradation = watch.degradation
          <5>1. worker' = [worker EXCEPT ![n] = IdleWorker] /\ watch' = [watch EXCEPT !.current = 0, !.pending = 0]
            BY <1>4, <2>10, <3>4 DEF FinishRun
          <5>2. worker'[n].pc = "idle"
            BY <1>2, <5>1 DEF IdleWorker
          <5>3. watch'.degradation = watch.degradation
            BY <1>2, <5>1 DEF Watches
          <5>. QED BY <2>0, <3>4, <5>2, <5>3 DEF FinishStarts, WatchOK
        <4>2. Heard(n) => Heard(n)'
          BY <1>1, <3>1, <4>1 DEF Heard
        <4>3. RestSees(n)'
          BY <1>1, <2>0, <2>1, <3>1, <4>1, <4>2 DEF Sees, RestSees, ShownAll, RowDocs
        <4>. QED BY <3>2, <4>1, <4>3 DEF Sees, RunSees, Running
      <3>. QED BY <3>3, <3>4
    <2>. QED
      BY <2>2, <2>3, <2>4, <2>6, <2>7, <2>8, <2>9, <2>10 DEF WorkerStep
  <1>. QED BY <1>3, <1>4

\* A start that fails, ends or is dropped keeps the sight of another session.
LEMMA HandleSight ==
  ASSUME Ownership, SightInv, NEW n \in Nonces,
         CacheOpenFails(n) \/ PrepareFails(n) \/ AbortStart(n) \/ StopGeneration(n)
  PROVE  SightInv'
  <1>0. TypeOK
    BY DEF Ownership
  <1>1. UNCHANGED <<fs, cache, worker>>
    BY DEF CacheOpenFails, PrepareFails, AbortStart, StopGeneration, diskVars, fileVars, workVars
  <1>2. CASE HoldsSlot(n) /\ (AbortStart(n) \/ StopGeneration(n))
    <2>1. generation' = NoGeneration /\ notice' = "none"
      BY <1>2 DEF AbortStart, StopGeneration, CancelOwner, CloseGeneration
    <2>. QED BY <2>1 DEF SightInv, Active, NoGeneration
  <1>3. CASE CacheOpenFails(n) \/ PrepareFails(n)
    <2>1. UNCHANGED <<gate, watch, snapshot, notice, listener>>
      BY <1>3 DEF CacheOpenFails, PrepareFails, sessionVars
    <2>2. CASE starter[n].pc \in Preparing
      <3>1. ~Owned(n) /\ \A m \in Nonces \ {n} : starter'[m] = starter[m]
        BY <1>0, <1>3, <2>2, PreparingIsNotOwner
        DEF CacheOpenFails, PrepareFails, Past, TypeOK, StartTypeOK
      <3>2. CASE generation' = generation
        <4>. SUFFICES ASSUME NEW m \in Nonces, Owned(m), Sees(m) PROVE Sees(m)'
          BY <1>1, <2>1, <3>2, HolderSight
        <4>1. starter'[m] = starter[m]
          BY <3>1
        <4>. QED BY <1>1, <2>1, <4>1, SightKept DEF Looks, Heard
      <3>3. CASE generation' # generation
        <4>1. HoldsSlot(n) /\ generation' = NoGeneration
          BY <1>3, <3>3 DEF CacheOpenFails, PrepareFails, ClearIfOwned
        <4>2. ~Active
          BY <3>1, <4>1 DEF Owned, Active
        <4>. QED BY <2>1, <4>1, <4>2 DEF SightInv, Active, NoGeneration
      <3>. QED BY <3>2, <3>3
    <2>3. CASE starter[n].pc \notin Preparing
      <3>1. UNCHANGED <<generation, starter>>
        BY <1>3, <2>3 DEF CacheOpenFails, PrepareFails, Preparing
      <3>. QED BY <1>1, <2>1, <3>1, HolderSight, SightKept DEF Looks, Heard
    <2>. QED BY <2>2, <2>3
  <1>4. CASE ~HoldsSlot(n) /\ (AbortStart(n) \/ StopGeneration(n))
    <2>1. /\ UNCHANGED <<generation, gate, watch, snapshot, notice>> /\ Past(n, "over")
          /\ listener' = listener \/ listener' = UnwatchedAfter({n})
      BY <1>4 DEF AbortStart, StopGeneration, CancelOwner
    <2>. SUFFICES ASSUME NEW m \in Nonces, Owned(m), Sees(m) PROVE Sees(m)'
      BY <1>1, <2>1, HolderSight
    <2>2. m # n
      BY <1>4 DEF Owned
    <2>3. starter'[m] = starter[m] /\ listener'[m] = listener[m]
      BY <1>0, <2>1, <2>2 DEF Past, UnwatchedAfter, TypeOK, StartTypeOK
    <2>. QED BY <1>1, <2>1, <2>3, SightKept DEF Looks, Heard
  <1>. QED BY <1>2, <1>3, <1>4

\* A call of the commands keeps the sight.
LEMMA UserSight ==
  ASSUME Ownership, SessionOK, WatchInv, SightInv, UserStep
  PROVE  SightInv'
  <1>0. TypeOK
    BY DEF Ownership
  <1>1. ASSUME NEW s \in Sessions, ReserveSession(s) \/ StopSession(s) PROVE SightInv'
    <2>1. generation'.kind # "active" /\ notice' = "none"
      BY <1>1 DEF ReserveSession, StopSession, CloseGeneration, NoGeneration
    <2>. QED BY <2>1 DEF SightInv, Active
  <1>2. ASSUME NEW s \in Sessions, Refresh(s) PROVE SightInv'
    <2>1. UNCHANGED <<generation, notice, cache, snapshot>> /\ \E id : Request(Holder, id)
      BY <1>2 DEF Refresh, Holder, slotVars, diskVars
    <2>. SUFFICES ASSUME NEW m \in Nonces, Owned(m), Sees(m) PROVE Sees(m)'
      BY <2>1, HolderSight
    <2>2. Active /\ Holder = m /\ WatchOK(m)
      BY OwnedIsHolder DEF WatchInv
    <2>. QED BY <2>1, <2>2, RequestSight
  <1>3. ASSUME NEW s \in Sessions, NEW p \in Paths, SetOpenDocument(s, p) PROVE SightInv'
    <2>1. UNCHANGED <<generation, starter, fs, gate, watch, notice, listener, worker>>
      BY <1>3 DEF SetOpenDocument, slotVars, startVars, fileVars, workVars
    <2>2. cache'.rows = cache.rows /\ snapshot'.catalog = snapshot.catalog
      BY <1>0, <1>3 DEF SetOpenDocument, TypeOK, DiskTypeOK, SessionTypeOK, Caches, Snapshots
    <2>. QED BY <2>1, <2>2, HolderSight, SightKept DEF Looks, Heard
  <1>. QED BY <1>1, <1>2, <1>3, HandleSight DEF UserStep

\* A change of the files keeps the sight: an installed watcher hears of it, and a session
\* without one is degraded and has nothing that clears it.
LEMMA FileSight ==
  ASSUME Ownership, WatchInv, SightInv, FileStep
  PROVE  SightInv'
  <1>0. TypeOK
    BY DEF Ownership
  <1>1. PICK files : Changed(files)
    BY DEF FileStep, WriteFile, DeleteFile, RenameFile
  <1>2. UNCHANGED <<generation, starter, cache, gate, watch, snapshot, notice, worker>>
    BY <1>1 DEF Changed, slotVars, startVars, sessionVars, workVars
  <1>. SUFFICES ASSUME NEW m \in Nonces, Owned(m), Sees(m) PROVE Sees(m)'
    BY <1>2, HolderSight
  <1>3. WatchOK(m)
    BY OwnedIsHolder DEF WatchInv
  <1>4. CASE watch.installed
    <2>1. listener'[m].raw
      BY <1>0, <1>1, <1>3, <1>4 DEF Changed, WatchOK, TypeOK, Listeners
    <2>. QED BY <1>2, <2>1, SightHeard DEF Heard
  <1>5. CASE ~watch.installed
    <2>1. Looks(m) => watch.degradation # 0 /\ worker[m].claim = 0
      BY <1>3, <1>5 DEF WatchOK, Looks
    <2>. QED
      BY <1>2, <2>1 DEF Sees, RunSees, RestSees, Agrees, Looks, Clears, RowDocs
  <1>. QED BY <1>4, <1>5

\* Every step keeps the sight.
LEMMA NextSight ==
  ASSUME Ownership, SessionOK, PlanStands, FreshInv, [Next]_vars
  PROVE  SightInv'
  <1>0. BodiesInv /\ WatchInv /\ SightInv
    BY DEF FreshInv
  <1>1. CASE \E n \in Nonces : FailureStep(n)
    BY <1>0, <1>1, HandleSight, ListenerSight, WorkerSight DEF FailureStep
  <1>2. CASE UNCHANGED vars
    <2>1. UNCHANGED <<generation, starter, fs, cache, gate, watch, snapshot, notice, listener, worker>>
      BY <1>2 DEF vars, slotVars, startVars, diskVars, fileVars, sessionVars, workVars
    <2>. QED BY <1>0, <2>1, HolderSight, SightKept DEF Looks, Heard
  <1>. QED
    BY <1>0, <1>1, <1>2, StarterSight, ListenerSight, WorkerSight, UserSight, FileSight DEF Next

\* What the bodies, the watch and the sight promise together is an invariant.
LEMMA FreshnessHolds == Spec => [](Ownership /\ SessionOK /\ FreshInv)
  <1>1. Init => PlanStands /\ FreshInv
    <2>1. ASSUME Init PROVE PlanStands /\ WatchInv /\ SightInv
      BY <2>1
      DEF Init, SlotInit, NoGeneration, PlanStands, Owned, WatchInv, Unclaimed, IdleWorker,
          SightInv, Active
    <2>. QED BY <2>1, InitBodies DEF FreshInv
  <1>2. Ownership /\ Ownership' /\ SessionOK /\ PlanStands /\ FreshInv /\ [Next]_vars
        => PlanStands' /\ FreshInv'
    BY NextPlan, NextBodies, NextWatch, NextSight DEF FreshInv
  <1>. QED BY OwnershipHolds, SessionHolds, <1>1, <1>2, PTL DEF Spec

\* A session that is neither degraded, nor told of a failure, nor about to look again
\* shows and searches what the files hold, whatever changed while it started, scanned,
\* read or waited (finish_reserved_session, watch_changes, run_reconcile_once).
THEOREM QuietIsFresh == Spec => []QuietMeansFresh
  <1>1. Ownership /\ SessionOK /\ FreshInv => QuietMeansFresh
    <2>. SUFFICES ASSUME Ownership, SessionOK, FreshInv, NEW n \in Nonces, Quiet(n),
                         NEW p \in Paths
                  PROVE  /\ snapshot.catalog[p] = fs[p] /\ cache.rows[p].doc = fs[p]
                         /\ CameBack(p) \/ cache.rows[p].body = fs[p].ver
      BY DEF QuietMeansFresh, Fresh
    <2>1. Active /\ Holder = n /\ Sees(n) /\ WatchOK(n)
      BY OwnedIsHolder DEF Quiet, FreshInv, WatchInv, SightInv
    <2>2. ~gate.pending
      BY <2>1 DEF Quiet, SessionOK, GateMatchesWorker, Active, Holder, WatchOK
    <2>3. ShownAll
      BY <2>1, <2>2 DEF Quiet, Sees, RestSees, Looks, Heard
    <2>4. snapshot.catalog[p] = fs[p] /\ cache.rows[p].doc = fs[p]
      BY <2>3 DEF ShownAll, RowDocs
    <2>5. BodyOf(p, fs[p], cache.rows[p].body)
      BY <2>4 DEF FreshInv, BodiesInv, RowBodies
    <2>. QED BY <2>4, <2>5 DEF BodyOf, CameBack
  <1>. QED BY FreshnessHolds, <1>1, PTL

\* Search finds only documents of the tree and all of them, whenever the last run did not
\* fail half way (run_reconcile_once, DocumentCache::apply_reconcile).
THEOREM IndexAgrees == Spec => []IndexAgreesWithTree
  <1>1. Ownership /\ FreshInv => IndexAgreesWithTree
    BY OwnedIsHolder DEF IndexAgreesWithTree, FreshInv, SightInv, Sees, Agrees
  <1>. QED BY FreshnessHolds, <1>1, PTL

=============================================================================
