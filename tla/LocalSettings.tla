---------------------------- MODULE LocalSettings ----------------------------
(***************************************************************************)
(* settings.json: the connected workspace, the folders remembered for      *)
(* GitHub Projects, the density of the display, the AI commands and the    *)
(* pending initialization (src-tauri/src/settings/service.rs,              *)
(* store_adapter.rs, commands.rs).                                         *)
(*                                                                         *)
(* The store keeps all values in memory and writes the whole file at every *)
(* change.  The commands of the settings page are synchronous and share    *)
(* the main thread; the commands that connect or initialize a workspace    *)
(* use the blocking threads.  Each thread carries out one operation at a   *)
(* time, a list of transactions under the store's lock.                    *)
(***************************************************************************)
EXTENDS Integers, Sequences, FiniteSets

CONSTANTS Main,        \* the main thread
          Blocking,    \* threads of the blocking pool
          Projects,    \* GitHub Projects a folder can be remembered for
          Values,      \* what the other settings can say
          Corrupt,     \* a text that is not a map of remembered folders
          Nobody, None

(* The remembered folders: project -> folder, None where there is none.    *)
Maps == [Projects -> Values \cup {None}]
NoFolders == [p \in Projects |-> None]

LocalSettingsAssumption ==
  /\ Main \notin Blocking /\ Nobody \notin {Main} \cup Blocking
  /\ None \notin Values /\ Corrupt \notin Maps

VARIABLES disk,        \* settings.json: key -> value
          cached,      \* the store's memory: key -> value
          lock,        \* who holds the transaction lock
          thread       \* thread -> its operation

vars == <<disk, cached, lock, thread>>

Threads == {Main} \cup Blocking
Keys == {"current", "remembered", "density", "template", "cli", "pending"}

(* A transaction: read a key, or write one; None removes it.  "remember"   *)
(* is the write whose value is the map just read with one folder changed.  *)
Read(key) == [do |-> "read", key |-> key, value |-> None, project |-> None]
Write(key, value) == [do |-> "write", key |-> key, value |-> value, project |-> None]
Remember(p, value) ==
  [do |-> "remember", key |-> "remembered", value |-> value, project |-> p]

(* The operations of LocalSettingsService, by the setting they are about.  *)
(* What an operation checks before its first transaction (that a folder    *)
(* exists, that it holds a workspace, that a context is complete) may end  *)
(* it without any.                                                         *)
Density == {<<Read("density")>>} \cup {<<Write("density", v)>> : v \in Values}

Folders ==
  {<<Read("remembered")>>}
    \cup {<<Read("remembered"), Remember(p, v)>> : p \in Projects, v \in Values}

AiConfig ==
  {<<Read("template"), Read("cli")>>}
    \cup {<<Write("template", v), Write("cli", v)>> : v \in Values}

(* load_current, set_current, set_current_for_repository, clear_current.   *)
ReadCurrent == {<<Read("current")>>}
WriteCurrent == {<<Write("current", v)>> : v \in Values \cup {None}}

Pending ==
  {<<Read("pending")>>} \cup {<<Write("pending", v)>> : v \in Values \cup {None}}

Operations(t) ==
  IF t = Main THEN Density \cup Folders \cup AiConfig \cup ReadCurrent
  ELSE ReadCurrent \cup WriteCurrent \cup Pending

Idle == [pc |-> "idle", rest |-> <<>>, read |-> None, previous |-> None]

Begin(t) ==
  /\ thread[t].pc = "idle"
  /\ \E op \in Operations(t) :
       thread' = [thread EXCEPT ![t] = [Idle EXCEPT !.pc = "wait", !.rest = op]]
  /\ UNCHANGED <<disk, cached, lock>>

Doing(t) == Head(thread[t].rest)
End(t) == thread' = [thread EXCEPT ![t] = Idle]

(* After a transaction the operation goes on with the next one.            *)
GoOn(t, read) ==
  thread' = [thread EXCEPT ![t] =
    IF Len(@.rest) = 1 THEN Idle
    ELSE [Idle EXCEPT !.pc = "wait", !.rest = Tail(thread[t].rest), !.read = read]]

(* load_remembered_map refuses what it cannot read.                        *)
Unreadable_Taken(t, value) == FALSE
Unreadable(t, value) == Doing(t).key = "remembered" /\ value = Corrupt

FoldersIn(value) == IF value \in Maps THEN value ELSE NoFolders

LockIsFree_ForReaders(t) == Doing(t).do = "read" \/ lock = Nobody
LockIsFree(t) == lock = Nobody

TakeLock(t) ==
  /\ thread[t].pc = "wait" /\ LockIsFree(t)
  /\ lock' = t
  /\ thread' = [thread EXCEPT ![t].pc = "locked"]
  /\ UNCHANGED <<disk, cached>>

(* read: the value in memory.                                              *)
ReadValue(t) ==
  /\ thread[t].pc = "locked" /\ Doing(t).do = "read"
  /\ IF Unreadable(t, cached[Doing(t).key]) THEN End(t) ELSE GoOn(t, cached[Doing(t).key])
  /\ lock' = Nobody
  /\ UNCHANGED <<disk, cached>>

NewValue(t) ==
  IF Doing(t).do = "write" THEN Doing(t).value
  ELSE [FoldersIn(thread[t].read) EXCEPT ![Doing(t).project] = Doing(t).value]

(* write and remove change the memory first ...                            *)
Set(t) ==
  /\ thread[t].pc = "locked" /\ Doing(t).do # "read"
  /\ thread' = [thread EXCEPT ![t].pc = "save", ![t].previous = cached[Doing(t).key]]
  /\ cached' = [cached EXCEPT ![Doing(t).key] = NewValue(t)]
  /\ UNCHANGED <<disk, lock>>

(* ... and then save it ...                                                *)
Save(t) ==
  /\ thread[t].pc = "save"
  /\ disk' = cached
  /\ GoOn(t, None)
  /\ lock' = Nobody
  /\ UNCHANGED cached

(* ... or put the previous value back (restore_cached_value) and fail.     *)
Restored_Forgotten(t) == cached
Restored(t) == [cached EXCEPT ![Doing(t).key] = thread[t].previous]

SaveFails(t) ==
  /\ thread[t].pc = "save"
  /\ cached' = Restored(t)
  /\ End(t)
  /\ lock' = Nobody
  /\ UNCHANGED disk

(* The application ends, killed or in order: on the way out the store is   *)
(* saved once more (tauri_plugin_store), with a change nobody was told of. *)
Quit ==
  /\ \E file \in {disk, cached} : disk' = file /\ cached' = file
  /\ lock' = Nobody
  /\ thread' = [t \in Threads |-> Idle]

Init ==
  /\ \E folders \in {NoFolders, Corrupt} :
       disk = [key \in Keys |-> IF key = "remembered" THEN folders ELSE None]
  /\ cached = disk
  /\ lock = Nobody
  /\ thread = [t \in Threads |-> Idle]

Next ==
  \/ \E t \in Threads :
       \/ Begin(t) \/ TakeLock(t) \/ ReadValue(t)
       \/ Set(t) \/ Save(t) \/ SaveFails(t)
  \/ Quit

Spec == Init /\ [][Next]_vars

(***************************************************************************)
(* Properties.                                                             *)
(***************************************************************************)
(* What any command is told of a setting is what a restart would find: a   *)
(* change that could not be saved is never seen, by anyone, at any time.   *)
ReadsAreSaved ==
  \A t \in Threads :
    thread[t].pc = "locked" /\ Doing(t).do = "read" =>
      cached[Doing(t).key] = disk[Doing(t).key]

(* A folder once remembered for a project is not forgotten when another is *)
(* remembered, and a map that cannot be read is not replaced by a new one. *)
KeepsFolders ==
  \/ disk'["remembered"] = disk["remembered"]
  \/ /\ disk["remembered"] # Corrupt
     /\ \A p \in Projects : disk["remembered"][p] # None => disk'["remembered"][p] # None
FoldersAreKept == [][KeepsFolders]_vars
=============================================================================
