--------------------------- MODULE RepositoryClone ---------------------------
(***************************************************************************)
(* The clone jobs of commands/workspace.rs over RepositoryService::clone   *)
(* (repository/service.rs) and the libgit2 adapter: a clone is made in a   *)
(* staging directory of its own beside its target and moved there at the   *)
(* end, while the window or a logout cancels it, other clones want the     *)
(* same target and other programs write into the parent directory.         *)
(*                                                                         *)
(* Request ids are UUIDs the window makes for one clone each.  Directories *)
(* are told apart by who made them, which is what the code compares with   *)
(* same_file; a clone is whole or not.                                     *)
(***************************************************************************)
EXTENDS Naturals, JobRegistry

CONSTANTS
  Requests,     \* request ids of clone_repository
  Targets,      \* parent directory and repository name
  Nothing,      \* no file or directory at a path
  Foreign,      \* something another program made
  MaxForeign,   \* bound of the model on what other programs do
  MaxLogouts    \* bound of the model on logouts

\* A clone's directory, in its staging path or at a target.
Dirs == {"partial", "whole"}
Clones == [by : Requests, is : Dirs]

RepositoryCloneAssumption ==
  /\ Nothing \notin Requests \cup Dirs \cup Clones
  /\ Foreign \notin Requests \cup Dirs \cup Clones \cup {Nothing}
  /\ MaxForeign \in Nat
  /\ MaxLogouts \in Nat

VARIABLES
  jobs,         \* clone_jobs
  clone,        \* the thread of each clone: where it is, its target and its result
  staging,      \* the directory a clone works in
  targets,      \* what is at each target
  appeared,     \* the clones whose own directory was moved to its target (a history variable)
  told,         \* the terminal events sent for each request
  promised,     \* requests whose cancellation was answered true
  account,      \* whether a user is signed in, and how often one was signed out
  logout,       \* logout_github
  foreigns      \* what other programs did so far

diskVars == <<staging, targets, appeared>>
accountVars == <<account, logout>>
vars == <<jobs, clone, diskVars, told, promised, accountVars, foreigns>>

Pcs == {"unused", "resolving", "token", "reserving", "cloning", "finalizing",
        "checking", "renaming", "verifying", "inspecting", "ended", "telling",
        "over", "gone"}
Results == {"none", "ok", "failed"}

Threads == [pc : Pcs, target : Targets, result : Results,
            terminal : Terminals \cup {"none"}, since : Nat]
SignIns == [signedIn : BOOLEAN, outs : Nat]

TypeOK ==
  /\ jobs \in [Requests -> JobPhases]
  /\ clone \in [Requests -> Threads]
  /\ staging \in [Requests -> Dirs \cup {Nothing, Foreign}]
  /\ targets \in [Targets -> Clones \cup {Nothing, Foreign}]
  /\ appeared \subseteq Requests
  /\ told \in [Requests -> {"nothing", "completed", "failed", "cancelled"}]
  /\ promised \subseteq Requests
  /\ account \in SignIns
  /\ logout \in {"idle", "cancelled"}
  /\ foreigns \in 0..MaxForeign

Init ==
  /\ jobs = [r \in Requests |-> "free"]
  /\ clone \in [Requests -> {[pc |-> "unused", target |-> t, result |-> "none",
                              terminal |-> "none", since |-> 0] : t \in Targets}]
  /\ staging = [r \in Requests |-> Nothing]
  /\ targets \in [Targets -> {Nothing, Foreign}]
  /\ appeared = {}
  /\ told = [r \in Requests |-> "nothing"]
  /\ promised = {}
  /\ account = [signedIn |-> TRUE, outs |-> 0]
  /\ logout = "idle"
  /\ foreigns = 0

-----------------------------------------------------------------------------
(***************************************************************************)
(* The thread of a clone.                                                  *)
(***************************************************************************)

At(r, pc) == clone[r].pc = pc
Goto(r, pc) == clone' = [clone EXCEPT ![r].pc = pc]
EndWith(r, result) == clone' = [clone EXCEPT ![r] = [@ EXCEPT !.pc = "ended", !.result = result]]

\* clone_repository under its read lease: the job is registered and its thread spawned.
Register(r) ==
  /\ At(r, "unused")
  /\ logout = "idle"
  /\ account.signedIn
  /\ MayInsert(jobs, r)
  /\ jobs' = Inserted(jobs, r)
  /\ clone' = [clone EXCEPT ![r] = [@ EXCEPT !.pc = "resolving", !.since = account.outs]]
  /\ UNCHANGED <<diskVars, told, promised, accountVars, foreigns>>

\* The two requests service.clone waits for.  A cancellation may be seen at either of
\* them, or not: select! may as well poll the clone first.
Resolve(r) ==
  /\ At(r, "resolving")
  /\ Goto(r, "token") \/ EndWith(r, "failed")
  /\ UNCHANGED <<jobs, diskVars, told, promised, accountVars, foreigns>>

ObtainToken(r) ==
  /\ At(r, "token")
  /\ \/ account.signedIn /\ Goto(r, "reserving")
     \/ EndWith(r, "failed")
  /\ UNCHANGED <<jobs, diskVars, told, promised, accountVars, foreigns>>

SeeCancellation(r) ==
  /\ At(r, "resolving") \/ At(r, "token")
  /\ Cancelled(jobs, r)
  /\ EndWith(r, "failed")
  /\ UNCHANGED <<jobs, diskVars, told, promised, accountVars, foreigns>>

\* ensure_clone_target and create_clone_staging; the parent may not be writable.
TargetFree(r) == targets[clone[r].target] = Nothing
Reserve(r) ==
  /\ At(r, "reserving")
  /\ \/ /\ TargetFree(r)
        /\ staging' = [staging EXCEPT ![r] = "partial"]
        /\ Goto(r, "cloning")
     \/ EndWith(r, "failed") /\ UNCHANGED staging
  /\ UNCHANGED <<jobs, targets, appeared, told, promised, accountVars, foreigns>>

\* clone_repository of the adapter: it fails, or it has everything and hears from the
\* last progress callback whether the job is cancelled.
Fetched(r) == IF staging[r] = "partial" THEN "whole" ELSE staging[r]
FetchFails(r) ==
  /\ At(r, "cloning")
  /\ \E left \in {staging[r], Fetched(r)} : staging' = [staging EXCEPT ![r] = left]
  /\ EndWith(r, "failed")
  /\ UNCHANGED <<jobs, targets, appeared, told, promised, accountVars, foreigns>>
Fetch(r) ==
  /\ At(r, "cloning")
  /\ staging' = [staging EXCEPT ![r] = Fetched(r)]
  /\ IF Cancelled(jobs, r) THEN EndWith(r, "failed") ELSE Goto(r, "finalizing")
  /\ UNCHANGED <<jobs, targets, appeared, told, promised, accountVars, foreigns>>

\* begin_finalization: from here on the clone cannot be cancelled.
Finalize(r) ==
  /\ At(r, "finalizing")
  /\ IF MayComplete(jobs, r)
     THEN jobs' = Completing(jobs, r) /\ Goto(r, "checking")
     ELSE EndWith(r, "failed") /\ UNCHANGED jobs
  /\ UNCHANGED <<diskVars, told, promised, accountVars, foreigns>>

\* publish_owned_clone: the staging directory is still the one that was created, it is
\* moved to a target that does not exist, and what is there then is that directory.
CheckStaging(r) ==
  /\ At(r, "checking")
  /\ IF staging[r] \in Dirs THEN Goto(r, "renaming") ELSE EndWith(r, "failed")
  /\ UNCHANGED <<jobs, diskVars, told, promised, accountVars, foreigns>>

Moved(r) == IF staging[r] \in Dirs THEN [by |-> r, is |-> staging[r]] ELSE staging[r]
RenameWorks_Replaces(r) == staging[r] # Nothing
RenameWorks(r) == staging[r] # Nothing /\ TargetFree(r)
Rename(r) ==
  /\ At(r, "renaming")
  /\ \/ /\ RenameWorks(r)
        /\ targets' = [targets EXCEPT ![clone[r].target] = Moved(r)]
        /\ appeared' = appeared \cup (IF staging[r] \in Dirs THEN {r} ELSE {})
        /\ staging' = [staging EXCEPT ![r] = Nothing]
        /\ Goto(r, "verifying")
     \/ EndWith(r, "failed") /\ UNCHANGED diskVars
  /\ UNCHANGED <<jobs, told, promised, accountVars, foreigns>>

IsMine_Exists(r) == targets[clone[r].target] # Nothing
IsMine(r) == targets[clone[r].target] \in [by : {r}, is : Dirs]
CheckTarget(r) ==
  /\ At(r, "verifying")
  /\ IF IsMine(r) THEN Goto(r, "inspecting") ELSE EndWith(r, "failed")
  /\ UNCHANGED <<jobs, diskVars, told, promised, accountVars, foreigns>>

\* git.inspect of the target.
Inspect(r) ==
  /\ At(r, "inspecting")
  /\ EndWith(r, "failed") \/ EndWith(r, "ok")
  /\ UNCHANGED <<jobs, diskVars, told, promised, accountVars, foreigns>>

\* jobs.finish, and the event that follows it.
Finish(r) ==
  /\ At(r, "ended")
  /\ jobs' = Finished(jobs, r)
  /\ clone' = [clone EXCEPT ![r] = [@ EXCEPT !.pc = "telling", !.terminal = Terminal(jobs, r)]]
  /\ UNCHANGED <<diskVars, told, promised, accountVars, foreigns>>

EventFor(r) ==
  IF clone[r].terminal = "already_terminal" THEN told[r]
  ELSE IF clone[r].terminal = "cancelled" THEN "cancelled"
  ELSE IF clone[r].result = "ok" THEN "completed"
  ELSE "failed"
Tell(r) ==
  /\ At(r, "telling")
  /\ told' = [told EXCEPT ![r] = EventFor(r)]
  /\ Goto(r, "over")
  /\ UNCHANGED <<jobs, diskVars, promised, accountVars, foreigns>>

Thread(r) ==
  \/ Resolve(r) \/ ObtainToken(r) \/ SeeCancellation(r) \/ Reserve(r)
  \/ FetchFails(r) \/ Fetch(r) \/ Finalize(r) \/ CheckStaging(r) \/ Rename(r)
  \/ CheckTarget(r) \/ Inspect(r) \/ Finish(r) \/ Tell(r)

-----------------------------------------------------------------------------
(***************************************************************************)
(* The window, logouts, the end of the application and other programs.     *)
(***************************************************************************)

\* cancel_repository_clone: true only for a job that is running.
CancelClone(r) ==
  /\ MayCancel(jobs, r)
  /\ jobs' = WithCancelled(jobs, {r})
  /\ promised' = promised \cup {r}
  /\ UNCHANGED <<clone, diskVars, told, accountVars, foreigns>>

\* logout_github holds the write lease from the cancellations to its end; the sign-out
\* may fail.
LogoutCancels ==
  /\ logout = "idle"
  /\ account.outs < MaxLogouts
  /\ logout' = "cancelled"
  /\ jobs' = WithCancelled(jobs, Won(jobs))
  /\ promised' = promised \cup Won(jobs)
  /\ account' = [account EXCEPT !.outs = @ + 1]
  /\ UNCHANGED <<clone, diskVars, told, foreigns>>
LogoutEnds ==
  /\ logout = "cancelled"
  /\ logout' = "idle"
  /\ \E out \in BOOLEAN : account' = [account EXCEPT !.signedIn = @ /\ ~out]
  /\ UNCHANGED <<jobs, clone, diskVars, told, promised, foreigns>>
SignIn ==
  /\ logout = "idle" /\ ~account.signedIn
  /\ account' = [account EXCEPT !.signedIn = TRUE]
  /\ UNCHANGED <<jobs, clone, diskVars, told, promised, logout, foreigns>>

\* Another program makes or removes something at a target, or takes a staging directory.
ForeignTarget(t) ==
  /\ foreigns < MaxForeign
  /\ foreigns' = foreigns + 1
  /\ \E new \in {Nothing, Foreign} \ {targets[t]} :
        targets' = [targets EXCEPT ![t] = new]
  /\ UNCHANGED <<jobs, clone, staging, appeared, told, promised, accountVars>>
ForeignStaging(r) ==
  /\ foreigns < MaxForeign
  /\ staging[r] \in Dirs
  /\ foreigns' = foreigns + 1
  /\ \E new \in {Nothing, Foreign} : staging' = [staging EXCEPT ![r] = new]
  /\ UNCHANGED <<jobs, clone, targets, appeared, told, promised, accountVars>>

\* The application ends: the threads are gone, the directories stay.
Quit ==
  /\ \E r \in Requests : clone[r].pc \notin {"unused", "over", "gone"}
  /\ jobs' = [r \in Requests |-> "free"]
  /\ clone' = [r \in Requests |->
                 IF At(r, "unused") \/ At(r, "over") THEN clone[r]
                 ELSE [clone[r] EXCEPT !.pc = "gone"]]
  /\ promised' = {r \in promised : At(r, "over")}
  /\ logout' = "idle"
  /\ UNCHANGED <<diskVars, told, account, foreigns>>

Next ==
  \/ \E r \in Requests : Register(r) \/ Thread(r) \/ CancelClone(r) \/ ForeignStaging(r)
  \/ LogoutCancels \/ LogoutEnds \/ SignIn \/ Quit
  \/ \E t \in Targets : ForeignTarget(t)

\* The blocking thread of a clone goes on by itself, and its requests end.
Fairness == \A r \in Requests : WF_vars(Thread(r))

Spec == Init /\ [][Next]_vars /\ Fairness

-----------------------------------------------------------------------------
(***************************************************************************)
(* What a clone promises.                                                  *)
(***************************************************************************)

\* The clone whose cancellation was answered true, by the command or by a logout, is
\* reported cancelled and its directory never appears at the target; no other clone is
\* reported cancelled (JobRegistry::cancel against begin_finalization and finish).
CancelIsFinal ==
  \A r \in Requests :
    /\ r \in promised => told[r] \in {"nothing", "cancelled"} /\ r \notin appeared
    /\ told[r] = "cancelled" => r \in promised

\* A logout stops the clones that were registered before it, those excepted that were
\* being published already (logout_github, cancel_all and the command lease).
LogoutStopsClones ==
  \A r \in Requests : jobs[r] = "running" => clone[r].since = account.outs

\* A clone reported completed did move its own directory to the target, whatever took
\* the place of its staging directory just before.
CompletedIsOwn == \A r \in Requests : told[r] = "completed" => r \in appeared

\* Whatever cancels, fails, races for the target or ends the application: a clone
\* appears at its target whole, at once and only where nothing was.
PublishesWhole ==
  \A t \in Targets :
    targets'[t] # targets[t] /\ foreigns' = foreigns =>
      targets[t] = Nothing /\ targets'[t] \in [by : Requests, is : {"whole"}] \cup {Foreign}
PublicationIsWhole == [][PublishesWhole]_vars

\* Every clone that was registered is answered by one terminal event, unless the
\* application ends first.
ClonesEnd ==
  \A r \in Requests : Registered(jobs, r) ~> (told[r] # "nothing" \/ At(r, "gone"))
=============================================================================
