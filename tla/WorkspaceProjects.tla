-------------------------- MODULE WorkspaceProjects --------------------------
(***************************************************************************)
(* The GitHub Projects a workspace is linked to, in .okf/workspace.yml,    *)
(* and the boards that are cached for them                                 *)
(* (src-tauri/src/commands/project_board.rs, workspace/model.rs).          *)
(*                                                                         *)
(* A command reads the workspace file, asks GitHub and writes the file     *)
(* back; nothing makes two commands wait for each other, so they meet in   *)
(* any order.  The file is replaced by a rename: it is never half written. *)
(***************************************************************************)
EXTENDS Integers, Sequences, Functions, FiniteSets

CONSTANTS Projects,    \* Node IDs of projects on GitHub
          Calls,       \* commands under way at the same time
          None

VARIABLES config,      \* what workspace.yml says in its github section
          call,        \* call -> the command it carries out
          cached,      \* project -> its board is in the cache file of its key
          older        \* project -> its board is in a cache file of the old key

vars == <<config, call, cached, older>>

(***************************************************************************)
(* GithubWorkspaceConfig.  The section that is absent and the one with     *)
(* nothing in it are the same here.                                        *)
(***************************************************************************)
NoConfig == [project |-> None, projects |-> <<>>, active |-> None]

(* A file of the version that knew one project only.                       *)
LegacyConfig(p) == [NoConfig EXCEPT !.project = p]

AllProjects(c) ==
  IF c.project = None \/ c.project \in Range(c.projects) THEN c.projects
  ELSE Append(c.projects, c.project)

ActiveProject(c) ==
  LET all == AllProjects(c)
  IN IF all = <<>> THEN None
     ELSE IF c.active \in Range(all) THEN c.active
     ELSE IF c.project # None THEN c.project
     ELSE Head(all)

UpsertActive(c, p) ==
  [project |-> p, active |-> p,
   projects |-> IF p \in Range(c.projects) THEN c.projects ELSE Append(c.projects, p)]

Without(c, p) ==
  [project  |-> IF c.project = p THEN None ELSE c.project,
   projects |-> SelectSeq(c.projects, LAMBDA q: q # p),
   active   |-> IF c.active = p THEN None ELSE c.active]

(* Without an active project the first one left takes its place.           *)
Promoted_Never(c) == c
Promoted(c) ==
  IF c.active # None THEN c
  ELSE IF c.projects # <<>>
  THEN [c EXCEPT !.active = Head(c.projects), !.project = Head(c.projects)]
  ELSE [c EXCEPT !.active = c.project]

RemoveProject(c, p) == Promoted(Without(c, p))

SetActive_Alone(c, p) == [c EXCEPT !.active = p]
SetActive(c, p) == [c EXCEPT !.active = p, !.project = p]

(***************************************************************************)
(* The commands.                                                           *)
(***************************************************************************)
Idle == [pc |-> "idle", kind |-> None, target |-> None, read |-> NoConfig]

Kinds == {"link", "set_active", "unlink", "get", "sync"}

TypeOK ==
  /\ config \in [project : Projects \cup {None}, active : Projects \cup {None},
                 projects : UNION {[1 .. n -> Projects] : n \in 0 .. Cardinality(Projects)}]
  /\ DOMAIN call = Calls
  /\ \A c \in Calls : /\ call[c].pc \in {"idle", "load", "ask", "persist", "save"}
                      /\ call[c].kind \in Kinds \cup {None}
                      /\ call[c].target \in Projects \cup {None}
  /\ cached \in [Projects -> BOOLEAN]
  /\ older \in [Projects -> BOOLEAN]

Init ==
  /\ config \in {NoConfig} \cup {LegacyConfig(p) : p \in Projects}
  /\ call = [c \in Calls |-> Idle]
  /\ cached = [p \in Projects |-> FALSE]
  /\ older \in {[p \in Projects |-> b] : b \in BOOLEAN}

files == <<config, cached, older>>

(* A command of the window; unlink without a project means the active one. *)
Named(kind) == CASE kind \in {"get", "sync"} -> {None}
                 [] kind = "unlink" -> Projects \cup {None}
                 [] OTHER -> Projects

Give(c) ==
  /\ call[c].pc = "idle"
  /\ \E kind \in Kinds : \E p \in Named(kind) :
       call' = [call EXCEPT ![c] = [Idle EXCEPT !.pc = "load", !.kind = kind, !.target = p]]
  /\ UNCHANGED files

End(c) == call' = [call EXCEPT ![c] = Idle]

(* No login, no connected workspace, no readable file, or GitHub's refusal. *)
Fails(c) ==
  /\ call[c].pc # "idle"
  /\ End(c)
  /\ UNCHANGED files

(* What a command is about once it has read the file.                      *)
Target(k, read) ==
  IF k.target # None THEN k.target ELSE ActiveProject(read)

(* load_workspace_root; get and sync need an active project               *)
(* (load_linked_project), as unlink without a project does.                *)
Load(c) ==
  LET k == call[c] IN
  /\ k.pc = "load"
  /\ Target(k, config) # None
  /\ call' = [call EXCEPT ![c] =
       [k EXCEPT !.read = config, !.target = Target(k, config),
                 !.pc = CASE k.kind \in {"link", "sync"} -> "ask"
                          [] k.kind = "get" -> "save"
                          [] OTHER -> "persist"]]
  /\ UNCHANGED files

(* link_github_project asks GitHub for the project in the scope the window *)
(* names and then in the other one; an answer with another ID is refused.  *)
Verify(c) ==
  /\ call[c].pc = "ask" /\ call[c].kind = "link"
  /\ call' = [call EXCEPT ![c].pc = "persist"]
  /\ UNCHANGED files

(* sync_project_board lists the items, again in either scope.              *)
ListItems(c) ==
  LET k == call[c] IN
  /\ k.pc = "ask" /\ k.kind = "sync"
  /\ call' = [call EXCEPT ![c].pc = "save"]
  /\ UNCHANGED files

(* What the command makes of the file it read; it is refused when the      *)
(* project is not linked.                                                  *)
Refused(k) ==
  k.kind \in {"set_active", "unlink"} /\ k.target \notin Range(AllProjects(k.read))

Changed(k) ==
  CASE k.kind = "link" -> UpsertActive(k.read, k.target)
    [] k.kind = "set_active" -> SetActive(k.read, k.target)
    [] k.kind = "unlink" -> RemoveProject(k.read, k.target)

(* persist_workspace_document: the whole file is replaced.                 *)
Persist(c) ==
  /\ call[c].pc = "persist" /\ ~Refused(call[c])
  /\ config' = Changed(call[c])
  /\ End(c)
  /\ UNCHANGED <<cached, older>>

(* save_cached_board: the file of the project's key is replaced, whatever  *)
(* board another synchronization has put there meanwhile.  A failure to    *)
(* save leaves it and does not fail the command (Fails).                   *)
Save(c) ==
  LET k == call[c] IN
  /\ k.pc = "save" /\ k.kind = "sync"
  /\ cached' = [cached EXCEPT ![k.target] = TRUE]
  /\ End(c)
  /\ UNCHANGED <<config, older>>

(* get_project_board only reads: load_board_with_migration takes the board *)
(* of the project's key, or if that was never fetched the one of the old.  *)
Get(c) ==
  /\ call[c].pc = "save" /\ call[c].kind = "get"
  /\ End(c)
  /\ UNCHANGED files

Next ==
  \E c \in Calls :
    \/ Give(c) \/ Fails(c) \/ Load(c) \/ Verify(c) \/ ListItems(c)
    \/ Persist(c) \/ Save(c) \/ Get(c)

Spec == Init /\ [][Next]_vars

(***************************************************************************)
(* Properties.                                                             *)
(***************************************************************************)
(* Commands that overtake each other may undo one another, but the file    *)
(* they leave always has one meaning for every version that reads it: if   *)
(* any project is linked, the active project is a linked one, and it is    *)
(* the one that a version knowing a single project would show.             *)
VersionsAgree ==
  AllProjects(config) # <<>> =>
    /\ ActiveProject(config) \in Range(AllProjects(config))
    /\ config.project = ActiveProject(config)
    /\ config.active \in {None, config.project}
    /\ config.active = None => config.projects = <<>>
=============================================================================
