---------------------- MODULE WorkspaceInitialization -----------------------
(***************************************************************************)
(* The initialization of a workspace: previews and their pending context   *)
(* (commands/workspace.rs, InitializationContextRegistry of state.rs), and *)
(* the attempt that commits, pushes and publishes one                      *)
(* (RepositoryService::initialize over the libgit2 adapter), with logins   *)
(* and logouts, the end of the application at any step, failing files and  *)
(* requests, answers that are lost and other people's changes.             *)
(*                                                                         *)
(* One working directory and one GitHub repository.  Branch "main" is the  *)
(* default branch, "init" is okf/init-workspace; a branch is named by the  *)
(* preview its commit was made for.  The scopes of the mutation lock are   *)
(* atomic: no step waits for anything but its own file or request there.   *)
(***************************************************************************)
EXTENDS Naturals

CONSTANTS
  Previews,     \* ids of previews
  Users,        \* GitHub accounts
  Commands,     \* the window's commands at work
  None,
  Base,         \* the commit both sides start from, in a repository with content
  Foreign,      \* a commit of somebody else
  Empties,      \* whether the repository may be empty, may have content at first
  OfEmpty,      \* bound of the model: the previews made while the repository is empty
  MaxEvents     \* bound of the model on what disturbs the commands: other people's
                \* changes, logins, logouts, time, ends of the application

\* What a branch may stand at, and what a preview records of the repository.
Refs == Previews \cup {None, Base, Foreign}
Records == [empty : BOOLEAN, head : Refs, clean : BOOLEAN, author : Users]

ASSUME WorkspaceInitializationAssumption ==
  /\ Users # {} /\ None \notin Previews \cup Users \cup Records
  /\ Base \notin Previews \cup {None} /\ Foreign \notin Previews \cup {None, Base}
  /\ Empties \subseteq BOOLEAN /\ Empties # {} /\ OfEmpty \subseteq Previews
  /\ MaxEvents \in Nat

VARIABLES
  pending,      \* the context in the settings
  registry,     \* the context in memory, whether it is completed, and the claimed one
  previews,     \* the preview registry
  data,         \* what each preview recorded
  cmd,          \* the commands at work
  local,        \* the branches of the working directory's repository
  made,         \* parent and author of the commit made for a preview
  tree,         \* HEAD is on main; there are edits; the initial files are there
  remote,       \* the branches on GitHub
  prs,          \* whether a pull request of "init" is open, and how many were opened
  disk,         \* the files of each attempt
  auth,         \* the signed-in user, a login at work, the lifecycle generation
  expired,      \* previews older than their time to live
  done,         \* previews whose initialization was answered with a result
  count         \* other people's changes and other events so far

settingsVars == <<pending, registry, previews>>
repoVars == <<local, made, tree>>
githubVars == <<remote, prs>>
vars == <<settingsVars, data, cmd, repoVars, githubVars, disk, auth, expired, done, count>>

Branches == {"main", "init"}
Phases == {"prepared", "committed", "pushed"}
Working == {"account", "loading", "committing", "noting", "reading", "pushing",
            "noting_push", "publishing", "creating", "removing", "completing"}
Pcs == Working \cup {"idle", "asking", "persisting", "forgetting", "clearing"}
Idle == [pc |-> "idle", p |-> None, user |-> None, gen |-> 0, empty |-> FALSE,
         onBase |-> FALSE, pushed |-> FALSE, expired |-> FALSE]
Nobody == [preview |-> None, completed |-> FALSE, active |-> None]
Contexts == [preview : Previews \cup {None}, completed : BOOLEAN,
             active : Previews \cup {None}]
CommandStates == [pc : Pcs, p : Previews \cup {None}, user : Users \cup {None}, gen : Nat,
                  empty : BOOLEAN, onBase : BOOLEAN, pushed : BOOLEAN, expired : BOOLEAN]
Commits == [parent : Refs, author : Users]
Trees == [onBase : BOOLEAN, edited : BOOLEAN, seeded : BOOLEAN]
PullRequests == [open : BOOLEAN, opened : Nat]
Attempts == [files : SUBSET (Phases \cup {"tmp"}), onBase : BOOLEAN]
Accounts == [user : Users \cup {None}, login : BOOLEAN, gen : Nat]
Counts == [changes : 0..MaxEvents, others : 0..MaxEvents]

TypeOK ==
  /\ pending \in Previews \cup {None} /\ registry \in Contexts /\ previews \subseteq Previews
  /\ data \in [Previews -> Records \cup {None}]
  /\ cmd \in [Commands -> CommandStates]
  /\ local \in [Branches -> Refs] /\ remote \in [Branches -> Refs]
  /\ made \in [Previews -> Commits \cup {None}]
  /\ tree \in Trees /\ prs \in PullRequests
  /\ disk \in [Previews -> Attempts]
  /\ auth \in Accounts
  /\ expired \subseteq Previews /\ done \subseteq Previews
  /\ count \in Counts

Init ==
  /\ pending = None /\ registry = Nobody /\ previews = {}
  /\ data = [p \in Previews |-> None]
  /\ cmd = [c \in Commands |-> Idle]
  /\ \E empty \in Empties :
        remote = [b \in Branches |-> IF b = "main" /\ ~empty THEN Base ELSE None]
  /\ local = remote
  /\ made = [p \in Previews |-> None]
  /\ tree = [onBase |-> TRUE, edited |-> FALSE, seeded |-> FALSE]
  /\ prs = [open |-> FALSE, opened |-> 0]
  /\ disk = [p \in Previews |-> [files |-> {}, onBase |-> FALSE]]
  /\ auth = [user |-> CHOOSE user \in Users : TRUE, login |-> FALSE, gen |-> 0]
  /\ expired = {} /\ done = {}
  /\ count = [changes |-> 0, others |-> 0]

-----------------------------------------------------------------------------
(***************************************************************************)
(* What the adapter sees of the repository.                                *)
(***************************************************************************)

HeadCommit == IF tree.onBase THEN local["main"] ELSE Base
\* A commit that HEAD reached without a checkout leaves its files missing.
Dirty == tree.edited \/ (HeadCommit \in Previews /\ ~tree.seeded)
Branch(p) == IF data[p].empty THEN "main" ELSE "init"
\* is_empty of the repository's detail.
RemoteEmpty == remote["main"] = None
Unchanged(p) == HeadCommit = data[p].head /\ data[p].clean /\ ~Dirty
\* commit_matches, and the branch is where the commit is.
HasCommit(p, parent, user) ==
  local[Branch(p)] = p /\ made[p] = [parent |-> parent, author |-> user]

-----------------------------------------------------------------------------
(***************************************************************************)
(* The ways a command goes on or ends.                                     *)
(***************************************************************************)

At(c, pc) == cmd[c].pc = pc
Goto(c, pc) == cmd' = [cmd EXCEPT ![c].pc = pc]
End(c) == cmd' = [cmd EXCEPT ![c] = Idle]

\* The claim is dropped.
Released_Kept(r) == r
Released(r) == [r EXCEPT !.active = None]
\* The claim is completed: its context goes with it.
Completed(r) == [Nobody EXCEPT !.preview = IF r.preview = r.active THEN None ELSE r.preview]

Fail(c) ==
  /\ End(c)
  /\ registry' = Released(registry)
  /\ UNCHANGED <<pending, previews, done>>

\* handle_initialization_failure of an error that says the workspace changed: the
\* claim goes first, and the pending context after it when the preview is expired or
\* the workspace is ready.
FailChanged(c) ==
  /\ IF cmd[c].expired \/ tree.seeded THEN Goto(c, "clearing") ELSE End(c)
  /\ registry' = Released(registry)
  /\ UNCHANGED <<pending, previews, done>>

\* clear_pending_initialization_locked.
ClearPending ==
  /\ pending' = None
  /\ registry' = [registry EXCEPT !.preview = None, !.completed = FALSE]
  /\ previews' = {}

-----------------------------------------------------------------------------
(***************************************************************************)
(* preview_workspace_initialization, under its read lease.                 *)
(***************************************************************************)

\* The generation is captured; the window asks while the files are missing.
AskPreview(c) ==
  /\ At(c, "idle")
  /\ ~tree.seeded
  /\ ~auth.login
  /\ cmd' = [cmd EXCEPT ![c] = [Idle EXCEPT !.pc = "asking", !.gen = auth.gen]]
  /\ UNCHANGED <<settingsVars, data, repoVars, githubVars, disk, auth, expired, done, count>>

\* The preview gets a new id.
Unused == {p \in IF RemoteEmpty THEN OfEmpty ELSE Previews : data[p] = None}
Inspect(c) ==
  /\ At(c, "asking")
  /\ \/ /\ auth.user # None /\ Unused # {}
        /\ LET p == CHOOSE p \in Unused : TRUE IN
           /\ data' = [data EXCEPT ![p] =
                [empty |-> RemoteEmpty, head |-> HeadCommit, clean |-> ~Dirty, author |-> auth.user]]
           /\ cmd' = [cmd EXCEPT ![c] = [@ EXCEPT !.pc = "persisting", !.p = p]]
     \/ End(c) /\ UNCHANGED data
  /\ UNCHANGED <<settingsVars, repoVars, githubVars, disk, auth, expired, done, count>>

\* persist_initialization_preview: begin_replace, the settings, commit.
SameSession(c) == ~auth.login /\ auth.gen = cmd[c].gen
MayReplace == registry.active = None
Replaced(p) == [registry EXCEPT !.preview = p, !.completed = FALSE]
Persist(c) ==
  /\ At(c, "persisting")
  /\ End(c)
  /\ \/ /\ SameSession(c) /\ MayReplace
        /\ pending' = cmd[c].p
        /\ registry' = Replaced(cmd[c].p)
        /\ previews' = (previews \ {registry.preview}) \cup {cmd[c].p}
     \/ UNCHANGED settingsVars
  /\ UNCHANGED <<data, repoVars, githubVars, disk, auth, expired, done, count>>

-----------------------------------------------------------------------------
(***************************************************************************)
(* initialize_workspace, under its read lease.                             *)
(***************************************************************************)

\* claim_pending_initialization.  A claim that is refused changes nothing.
MayClaim(p) == registry.active = None /\ (registry.preview = p \/ pending = p)
Claim(c, p) ==
  /\ At(c, "idle")
  /\ MayClaim(p)
  /\ registry' = [preview |-> p, active |-> p,
                  completed |-> registry.preview = p /\ registry.completed]
  /\ cmd' = [cmd EXCEPT ![c] =
       [Idle EXCEPT !.p = p, !.pc = IF registry'.completed THEN "forgetting" ELSE "account"]]
  /\ UNCHANGED <<pending, previews, data, repoVars, githubVars, disk, auth, expired, done, count>>

\* clear_completed_initialization.
Forget(c) ==
  /\ At(c, "forgetting")
  /\ End(c)
  /\ \/ /\ pending' = None /\ previews' = previews \ {cmd[c].p}
        /\ registry' = Completed(registry)
        /\ done' = done \cup {cmd[c].p}
     \/ registry' = Released(registry) /\ UNCHANGED <<pending, previews, done>>
  /\ UNCHANGED <<data, repoVars, githubVars, disk, auth, expired, count>>

\* The boundaries: the user and the repository's detail are asked for, another account
\* loses the pending preview, an expired one is removed.
CheckAccount(c) ==
  LET p == cmd[c].p  old == p \in expired IN
  /\ At(c, "account")
  /\ \/ /\ auth.user = data[p].author
        /\ previews' = IF old THEN previews \ {p} ELSE previews
        /\ cmd' = [cmd EXCEPT ![c] = [@ EXCEPT !.pc = "loading", !.user = auth.user,
                                               !.empty = RemoteEmpty, !.expired = old]]
        /\ UNCHANGED <<pending, registry, done>>
     \/ /\ auth.user \notin {data[p].author, None}
        /\ pending' = None /\ previews' = {} /\ registry' = Nobody
        /\ End(c) /\ UNCHANGED done
     \/ Fail(c)
  /\ UNCHANGED <<data, repoVars, githubVars, disk, auth, expired, count>>

\* load_attempt takes the latest phase; validate_loaded_attempt.
HasFile(p, phase) == phase \in disk[p].files
IsVerified(c) ==
  LET p == cmd[c].p IN
  HasCommit(p, IF data[p].empty THEN None ELSE local["main"], cmd[c].user)
Trusted(c) ==
  LET p == cmd[c].p  committed == HasFile(p, "committed") \/ HasFile(p, "pushed") IN
  /\ IF data[p].empty THEN cmd[c].empty \/ committed ELSE ~cmd[c].empty
  /\ committed => (data[p].empty \/ disk[p].onBase) /\ IsVerified(c)

Load(c) ==
  LET p == cmd[c].p IN
  /\ At(c, "loading")
  /\ disk[p].files \cap Phases # {}
  /\ \/ /\ Trusted(c)
        /\ cmd' = [cmd EXCEPT ![c] = [@ EXCEPT
             !.pushed = HasFile(p, "pushed"), !.onBase = disk[p].onBase,
             !.pc = IF HasFile(p, "committed") \/ HasFile(p, "pushed")
                    THEN "reading" ELSE "committing"]]
        /\ UNCHANGED <<settingsVars, done>>
     \/ FailChanged(c)
  /\ UNCHANGED <<data, repoVars, githubVars, disk, auth, expired, count>>

\* write_attempt: a temporary file renamed to the phase's own; when the writing fails,
\* or the application ends meanwhile, the temporary file may stay.
Written(p, phase) == [disk EXCEPT ![p].files = @ \cup {phase}]
Littered(p) == [disk EXCEPT ![p].files = @ \cup {"tmp"}]
WriteFails(c) == FailChanged(c) /\ disk' \in {disk, Littered(cmd[c].p)}

\* No attempt yet: the preview must be known and the repository as it was.
Fresh(p) == p \in previews /\ Unchanged(p) /\ (data[p].empty \/ tree.onBase)
Prepare(c) ==
  LET p == cmd[c].p IN
  /\ At(c, "loading")
  /\ disk[p].files \cap Phases = {}
  /\ IF Fresh(p)
     THEN \/ /\ disk' = Written(p, "prepared")
             /\ Goto(c, "committing") /\ UNCHANGED <<settingsVars, done>>
          \/ WriteFails(c)
     ELSE FailChanged(c) /\ UNCHANGED disk
  /\ UNCHANGED <<data, repoVars, githubVars, auth, expired, count>>

\* commit_initialization, after the check that nothing changed.
MayCreate_Always(p, parent) == TRUE
MayCreate(p, parent) == local[Branch(p)] = None /\ (data[p].empty \/ parent # None)
Commit(c) ==
  LET p == cmd[c].p IN
  /\ At(c, "committing")
  /\ IF Unchanged(p)
     THEN \/ /\ HasCommit(p, HeadCommit, cmd[c].user) \/ MayCreate(p, HeadCommit)
             /\ local' = [local EXCEPT ![Branch(p)] = p]
             /\ made' = [made EXCEPT ![p] = [parent |-> HeadCommit, author |-> cmd[c].user]]
             /\ cmd' = [cmd EXCEPT ![c] = [@ EXCEPT !.pc = "noting", !.onBase = tree.onBase]]
             /\ UNCHANGED <<settingsVars, done>>
          \/ Fail(c) /\ UNCHANGED <<local, made>>
     ELSE FailChanged(c) /\ UNCHANGED <<local, made>>
  /\ UNCHANGED <<data, tree, githubVars, disk, auth, expired, count>>

NoteCommit(c) ==
  LET p == cmd[c].p IN
  /\ At(c, "noting")
  /\ \/ /\ disk' = [Written(p, "committed") EXCEPT ![p].onBase = cmd[c].onBase]
        /\ Goto(c, "reading") /\ UNCHANGED <<settingsVars, done>>
     \/ WriteFails(c)
  /\ UNCHANGED <<data, repoVars, githubVars, auth, expired, count>>

\* The origin is resolved and the branch on GitHub is read.
RemoteBranch(p) == remote[Branch(p)]
RemoteIs_Something(p) == RemoteBranch(p) # None
RemoteIs(p) == RemoteBranch(p) = p
ReadRemote(c) ==
  LET p == cmd[c].p IN
  /\ At(c, "reading")
  /\ \/ /\ RemoteIs(p)
        /\ Goto(c, IF cmd[c].pushed THEN "publishing" ELSE "noting_push")
        /\ UNCHANGED <<settingsVars, done>>
     \/ /\ RemoteBranch(p) = None /\ ~cmd[c].pushed
        /\ Goto(c, "pushing") /\ UNCHANGED <<settingsVars, done>>
     \/ RemoteBranch(p) = None /\ cmd[c].pushed /\ FailChanged(c)
     \/ Fail(c)
  /\ UNCHANGED <<data, repoVars, githubVars, disk, auth, expired, count>>

\* push_branch, without force: its answer may be lost.
Push(c) ==
  LET p == cmd[c].p IN
  /\ At(c, "pushing")
  /\ \/ /\ remote[Branch(p)] \in {None, p}
        /\ remote' = [remote EXCEPT ![Branch(p)] = p]
        /\ \/ Goto(c, "noting_push") /\ UNCHANGED <<settingsVars, done>>
           \/ Fail(c)
     \/ Fail(c) /\ UNCHANGED remote
  /\ UNCHANGED <<data, repoVars, prs, disk, auth, expired, count>>

NotePush(c) ==
  /\ At(c, "noting_push")
  /\ \/ /\ disk' = Written(cmd[c].p, "pushed")
        /\ Goto(c, "publishing") /\ UNCHANGED <<settingsVars, done>>
     \/ WriteFails(c)
  /\ UNCHANGED <<data, repoVars, githubVars, auth, expired, count>>

\* find_open_pull_request and create_draft_pull_request, whose answer may be lost.
FoundPr_Never == FALSE
FoundPr == prs.open
FindPr(c) ==
  /\ At(c, "publishing") /\ ~data[cmd[c].p].empty
  /\ \/ /\ Goto(c, IF FoundPr THEN "removing" ELSE "creating")
        /\ UNCHANGED <<settingsVars, done>>
     \/ Fail(c)
  /\ UNCHANGED <<data, repoVars, githubVars, disk, auth, expired, count>>
CreatePr(c) ==
  /\ At(c, "creating")
  /\ \/ /\ prs' = [open |-> TRUE, opened |-> prs.opened + 1]
        /\ \/ Goto(c, "removing") /\ UNCHANGED <<settingsVars, done>>
           \/ Fail(c)
     \/ Fail(c) /\ UNCHANGED prs
  /\ UNCHANGED <<data, repoVars, remote, disk, auth, expired, count>>

\* checkout_initialization of an empty repository: safe, the files and then HEAD.
Checkout(c) ==
  /\ At(c, "publishing") /\ data[cmd[c].p].empty
  /\ \/ /\ tree' = [tree EXCEPT !.seeded = TRUE]
        /\ \/ Goto(c, "removing") /\ UNCHANGED <<settingsVars, done>>
           \/ Fail(c)
     \/ Fail(c) /\ UNCHANGED tree
  /\ UNCHANGED <<data, local, made, githubVars, disk, auth, expired, count>>

\* remove_attempt: the phases in their order, then the directory, which must be empty.
RemovedFirst == {{}, {"prepared"}, {"prepared", "committed"}, Phases}
Remove(c) ==
  LET p == cmd[c].p IN
  /\ At(c, "removing")
  /\ \/ /\ ~HasFile(p, "tmp")
        /\ disk' = [disk EXCEPT ![p].files = {}]
        /\ previews' = previews \ {p}
        /\ Goto(c, "completing") /\ UNCHANGED <<pending, registry, done>>
     \/ /\ \E gone \in RemovedFirst : disk' = [disk EXCEPT ![p].files = @ \ gone]
        /\ FailChanged(c)
  /\ UNCHANGED <<data, repoVars, githubVars, auth, expired, count>>

\* record_completion, the settings, complete.
Complete(c) ==
  LET recorded == [registry EXCEPT !.preview = cmd[c].p, !.completed = TRUE] IN
  /\ At(c, "completing")
  /\ End(c)
  /\ \/ /\ pending' = None
        /\ registry' = Completed(recorded)
        /\ done' = done \cup {cmd[c].p}
     \/ registry' = Released(recorded) /\ UNCHANGED <<pending, done>>
  /\ UNCHANGED <<previews, data, repoVars, githubVars, disk, auth, expired, count>>

\* The pending context is cleared after a failure, when the claim is gone already.
ClearAfterFailure(c) ==
  /\ At(c, "clearing")
  /\ End(c)
  /\ ClearPending \/ UNCHANGED settingsVars
  /\ UNCHANGED <<data, repoVars, githubVars, disk, auth, expired, done, count>>

Step(c) ==
  \/ Inspect(c) \/ Persist(c) \/ Forget(c) \/ CheckAccount(c) \/ Load(c) \/ Prepare(c)
  \/ Commit(c) \/ NoteCommit(c) \/ ReadRemote(c) \/ Push(c) \/ NotePush(c) \/ FindPr(c)
  \/ CreatePr(c) \/ Checkout(c) \/ Remove(c) \/ Complete(c) \/ ClearAfterFailure(c)

-----------------------------------------------------------------------------
(***************************************************************************)
(* Logins, logouts, time, the end of the application and other people.     *)
(***************************************************************************)

MayHappen == count.changes + count.others < MaxEvents

\* begin_github_auth takes no lease, but it cannot clear a context that is claimed.
MayClear_Always == TRUE
MayClear == registry.active = None
BeginLogin ==
  /\ MayHappen
  /\ MayClear
  /\ ClearPending
  /\ \E begun \in BOOLEAN : auth' = [user |-> auth.user, login |-> begun, gen |-> auth.gen + 1]
  /\ count' = [count EXCEPT !.others = @ + 1]
  /\ UNCHANGED <<data, cmd, repoVars, githubVars, disk, expired, done>>
EndLogin ==
  /\ auth.login
  /\ \E user \in Users \cup {auth.user} : auth' = [auth EXCEPT !.login = FALSE, !.user = user]
  /\ UNCHANGED <<settingsVars, data, cmd, repoVars, githubVars, disk, expired, done, count>>
\* logout_github waits for every lease.
Logout ==
  /\ MayHappen
  /\ \A c \in Commands : At(c, "idle")
  /\ MayClear
  /\ ClearPending
  /\ \E user \in {None, auth.user} : auth' = [user |-> user, login |-> FALSE, gen |-> auth.gen + 1]
  /\ count' = [count EXCEPT !.others = @ + 1]
  /\ UNCHANGED <<data, cmd, repoVars, githubVars, disk, expired, done>>

Expire(p) ==
  /\ pending = p /\ p \notin expired
  /\ MayHappen
  /\ expired' = expired \cup {p}
  /\ count' = [count EXCEPT !.others = @ + 1]
  /\ UNCHANGED <<settingsVars, data, cmd, repoVars, githubVars, disk, auth, done>>

Quit ==
  /\ MayHappen
  /\ count' = [count EXCEPT !.others = @ + 1]
  /\ cmd' = [c \in Commands |-> Idle]
  /\ registry' = Nobody /\ previews' = {}
  /\ auth' = [auth EXCEPT !.login = FALSE]
  /\ \/ UNCHANGED disk
     \/ \E c \in Commands :
          /\ \E pc \in {"loading", "noting", "noting_push"} : At(c, pc)
          /\ disk' = Littered(cmd[c].p)
  /\ UNCHANGED <<pending, data, repoVars, githubVars, expired, done>>

\* Edits, a commit on the checked-out branch, another branch checked out or made, a
\* push by somebody else, a pull request closed.
Change ==
  /\ MayHappen
  /\ count' = [count EXCEPT !.changes = @ + 1]
  /\ \/ tree' = [tree EXCEPT !.edited = ~@] /\ UNCHANGED <<local, githubVars>>
     \/ /\ local["main"] = Base
        /\ tree' = [tree EXCEPT !.onBase = ~@] /\ UNCHANGED <<local, githubVars>>
     \/ /\ tree.onBase /\ local["main"] \in {None, Base}
        /\ local' = [local EXCEPT !["main"] = Foreign] /\ UNCHANGED <<tree, githubVars>>
     \/ /\ local["init"] = None
        /\ local' = [local EXCEPT !["init"] = Foreign] /\ UNCHANGED <<tree, githubVars>>
     \/ /\ \E b \in Branches : remote[b] = None /\ remote' = [remote EXCEPT ![b] = Foreign]
        /\ UNCHANGED <<local, tree, prs>>
     \/ prs.open /\ prs' = [prs EXCEPT !.open = FALSE] /\ UNCHANGED <<local, tree, remote>>
  /\ UNCHANGED <<settingsVars, data, cmd, made, disk, auth, expired, done>>

Next ==
  \/ \E c \in Commands : Step(c) \/ AskPreview(c) \/ \E p \in Previews : Claim(c, p)
  \/ BeginLogin \/ EndLogin \/ Logout \/ Quit \/ Change
  \/ \E p \in Previews : Expire(p)

\* The requests and files of a command end.
Fairness == \A c \in Commands : WF_vars(Step(c))

Spec == Init /\ [][Next]_vars /\ Fairness

-----------------------------------------------------------------------------
(***************************************************************************)
(* What an initialization promises.                                        *)
(***************************************************************************)

\* An initialization answered with a result did reach GitHub as its own commit, and
\* the pull request was opened or the files are in the working directory.
ResultIsTrue ==
  \A p \in done :
    /\ remote[Branch(p)] = p
    /\ IF data[p].empty THEN tree.seeded ELSE prs.opened > 0

\* However often an initialization fails, loses an answer, is repeated or the
\* application ends, a second pull request is opened only after somebody closed one.
OnePullRequest == prs.opened <= 1 + count.changes

\* The files of an attempt never claim more than what happened: its commit is on its
\* branch, and on GitHub when they say so.  A retry relies on them.
AttemptTellsTruth ==
  \A p \in Previews :
    /\ HasFile(p, "committed") \/ HasFile(p, "pushed") => local[Branch(p)] = p
    /\ HasFile(p, "pushed") => remote[Branch(p)] = p

\* No step of the application moves a branch that exists, here or on GitHub.
CreatesOnly ==
  \A b \in Branches : count'.changes = count.changes =>
    /\ local'[b] # local[b] => local[b] = None
    /\ remote'[b] # remote[b] => remote[b] = None
NothingIsOverwritten == [][CreatesOnly]_vars

\* While a claimed initialization works, alone, the user who previewed it stays
\* signed in: no login or logout changes whose token pushes the commit.
ClaimHoldsAccount ==
  \A c \in Commands : cmd[c].pc \in Working \ {"account"} =>
    /\ registry.active = cmd[c].p
    /\ auth.user = data[cmd[c].p].author /\ ~auth.login
    /\ \A d \in Commands \ {c} : cmd[d].pc \notin Working

\* A claim is released whatever fails, so that the initialization can be repeated.
ClaimsEnd == registry.active # None ~> registry.active = None
=============================================================================
