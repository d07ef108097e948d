---------------------------- MODULE Authentication ----------------------------
(***************************************************************************)
(* auth/service.rs under the commands of commands/auth.rs and the job      *)
(* registry of state.rs: device-flow logins that can be cancelled at any   *)
(* moment, the one access token request at a time that loads or rotates    *)
(* the stored credentials, get_auth_state, and logout.                     *)
(*                                                                         *)
(* Generations count from 1 here; 0 stands for no entry in a map.          *)
(* The lifecycle lock is held across a suspension only by a login between  *)
(* its save and its second look at the cancellation; every other critical  *)
(* section is one action.  Credentials are told apart by the login that    *)
(* obtained them, which also names the GitHub account.                     *)
(***************************************************************************)
EXTENDS Naturals

CONSTANTS
  Logins,       \* request ids of logins, each used once
  RefreshJob,   \* the job id of an access token request
  Stored,       \* the account stored by an earlier run of the program
  Nobody,
  MaxGeneration, \* bound of the model on the logins and logouts that begin
  MaxExpiries   \* bound of the model on the times tokens grow old

AuthenticationAssumption ==
  /\ RefreshJob \notin Logins
  /\ Stored \notin Logins
  /\ Nobody \notin Logins \cup {Stored}
  /\ MaxGeneration \in Nat
  /\ MaxExpiries \in Nat

VARIABLES
  store,        \* the credentials in the keychain of the operating system
  detached,     \* the keychain call of a dropped request, still on its blocking thread
  stray,        \* such a call stored credentials in a later generation (a history variable)
  session,      \* access_session
  principal,    \* authenticated_principal
  lifecycle,    \* the generation, the active jobs and the pending authorizations
  reserved,     \* begin_reservations
  jobs,         \* auth_jobs, the JobRegistry of logins
  login,        \* begin_github_auth and AuthService::run of each request id
  told,         \* the last terminal event sent to the window for a login
  getter,       \* the holder of the refresh lock, in access_token_locked
  probe,        \* get_auth_state
  logout,       \* logout_github and the generation of its last success
  expiries      \* times tokens grew old so far

keychainVars == <<detached, stray>>
credentialVars == <<store, session, principal>>
loginVars == <<reserved, jobs, login, told>>
otherVars == <<keychainVars, getter, probe, logout, expiries>>
vars == <<credentialVars, lifecycle, loginVars, otherVars>>

-----------------------------------------------------------------------------
(***************************************************************************)
(* Data.  A token pair is fresh, then its access token expires (stale),    *)
(* then its refresh token does (dead).                                     *)
(***************************************************************************)

Accounts == Logins \cup {Stored}
Jobs == Logins \cup {RefreshJob}
Lives == {"fresh", "stale", "dead"}
Tokens == [by : Accounts, life : Lives]
NoTokens == [by |-> Nobody, life |-> "dead"]
Older(life) == IF life = "fresh" THEN "stale" ELSE "dead"
Aged(tokens) == IF tokens.by = Nobody THEN tokens ELSE [tokens EXCEPT !.life = Older(@)]

\* AccessSession; the in-memory token expires like the stored one.
Kinds == {"uninitialized", "signed_out", "authenticated", "reauthenticate"}
Unsigned(kind) == [kind |-> kind, tokens |-> NoTokens]
SignedIn(tokens) == [kind |-> "authenticated", tokens |-> tokens]

LoginPcs == {"unused", "registered", "requesting", "starting", "polling", "identified",
             "saved", "emitting", "cleaning", "over", "refused", "unclean"}
GetterPcs == {"idle", "entering", "loading", "none found", "invalid", "valid",
              "publishing", "refreshing", "deleting"}
ProbePcs == {"idle", "checking", "checked", "asking", "fetching", "known", "rejected"}

Callers == {"task", "probe"}
NoCall == [op |-> "none", tokens |-> NoTokens, gen |-> 0]

NewLogin == [pc |-> "unused", gen |-> 0, cancelled |-> FALSE, revoked |-> FALSE]
IdleGetter == [pc |-> "idle", for |-> "task", gen |-> 0, tokens |-> NoTokens,
               cancelled |-> FALSE]
IdleProbe == [pc |-> "idle", gen |-> 0, user |-> Nobody]

TypeOK ==
  /\ store \in Tokens \cup {NoTokens}
  /\ detached \in [op : {"none", "save", "delete"}, tokens : Tokens \cup {NoTokens}, gen : Nat]
  /\ stray \in BOOLEAN
  /\ session \in [kind : Kinds, tokens : Tokens \cup {NoTokens}]
  /\ principal \in Accounts \cup {Nobody}
  /\ lifecycle \in [generation : Nat, active : [Jobs -> Nat],
                    pending : SUBSET Logins]
  /\ reserved \in [Logins -> Nat]
  /\ jobs \in [Logins -> {"free", "running", "cancelling"}]
  /\ login \in [Logins -> [pc : LoginPcs, gen : Nat, cancelled : BOOLEAN, revoked : BOOLEAN]]
  /\ told \in [Logins -> {"nothing", "authenticated", "failed", "cancelled"}]
  /\ getter \in [pc : GetterPcs, for : Callers, gen : Nat,
                 tokens : Tokens \cup {NoTokens}, cancelled : BOOLEAN]
  /\ probe \in [pc : ProbePcs, gen : Nat, user : Accounts \cup {Nobody}]
  /\ logout \in [pc : {"idle", "cancelling"}, gen : Nat]
  /\ expiries \in 0..MaxExpiries

Init ==
  /\ store \in [by : {Stored}, life : Lives] \cup {NoTokens}
  /\ detached = NoCall
  /\ stray = FALSE
  /\ session = Unsigned("uninitialized")
  /\ principal = Nobody
  /\ lifecycle = [generation |-> 1, active |-> [j \in Jobs |-> 0], pending |-> {}]
  /\ reserved = [r \in Logins |-> 0]
  /\ jobs = [r \in Logins |-> "free"]
  /\ login = [r \in Logins |-> NewLogin]
  /\ told = [r \in Logins |-> "nothing"]
  /\ getter = IdleGetter
  /\ probe = IdleProbe
  /\ logout = [pc |-> "idle", gen |-> 0]
  /\ expiries = 0

-----------------------------------------------------------------------------
(***************************************************************************)
(* The lifecycle.                                                          *)
(***************************************************************************)

LockFree == \A r \in Logins : login[r].pc # "saved"

\* initialization_contexts.lock_mutation, held by a begin and by a logout.
MutationFree == logout.pc = "idle" /\ \A r \in Logins : login[r].pc # "requesting"

JobIsCurrent(j, gen) == lifecycle.generation = gen /\ lifecycle.active[j] = gen

\* A login is active, or a begin has reserved its intent.
LoginActive == \E r \in Logins : lifecycle.active[r] # 0
HasBeginReservation == \E r \in Logins : reserved[r] = lifecycle.generation
LoginUnderWay == LoginActive \/ HasBeginReservation

FinishJob_Decrements(j) == lifecycle' = [lifecycle EXCEPT !.active[j] = @ - 1]
FinishJob(j) == lifecycle' = [lifecycle EXCEPT !.active[j] = 0]

InvalidateLifecycle ==
  lifecycle' = [generation |-> lifecycle.generation + 1,
                active |-> [j \in Jobs |-> 0], pending |-> {}]
Revoked == [r \in Logins |-> [login[r] EXCEPT !.revoked = @ \/ lifecycle.active[r] # 0]]
GetterRevoked == [getter EXCEPT !.cancelled = @ \/ lifecycle.active[RefreshJob] # 0]

\* What LifecycleAuthEventSink sends for a terminal event: nothing once the job is
\* finished, Cancelled when a cancellation was accepted.
Outcome(r, event) ==
  CASE jobs[r] = "running" -> event
    [] jobs[r] = "cancelling" -> "cancelled"
    [] OTHER -> told[r]

FinishRequest(r) == jobs' = [jobs EXCEPT ![r] = "free"]
Emit(r, event) == FinishRequest(r) /\ told' = [told EXCEPT ![r] = Outcome(r, event)]

At(r, pc) == login[r].pc = pc
Goto(r, pc) == login' = [login EXCEPT ![r].pc = pc]

-----------------------------------------------------------------------------
(***************************************************************************)
(* begin_github_auth.                                                      *)
(***************************************************************************)

RegisterLogin(r) ==
  /\ At(r, "unused")
  /\ Goto(r, "registered")
  /\ jobs' = [jobs EXCEPT ![r] = "running"]
  /\ UNCHANGED <<credentialVars, lifecycle, reserved, told, otherVars>>

\* The drop of PendingJobRegistration: the caller gets an error instead of an event.
Refuse(r) == Goto(r, "refused") /\ FinishRequest(r)

\* The pending initialization of the previous account cannot be invalidated.
BeginRefused(r) ==
  /\ At(r, "registered")
  /\ MutationFree
  /\ Refuse(r)
  /\ UNCHANGED <<credentialVars, lifecycle, reserved, told, otherVars>>

BeginLogin(r) ==
  /\ At(r, "registered")
  /\ lifecycle.generation < MaxGeneration
  /\ MutationFree /\ LockFree
  /\ InvalidateLifecycle
  /\ principal' = Nobody
  /\ reserved' = [q \in Logins |->
       IF q = r \/ reserved[q] = lifecycle'.generation THEN lifecycle'.generation ELSE 0]
  /\ login' = [Revoked EXCEPT ![r].pc = "requesting", ![r].gen = lifecycle'.generation]
  /\ getter' = GetterRevoked
  /\ UNCHANGED <<store, session, jobs, told, keychainVars, probe, logout, expiries>>

\* The device code arrived: the login becomes active and its task is spawned.
DeviceCodeArrives(r) ==
  /\ At(r, "requesting")
  /\ LockFree
  /\ reserved' = [reserved EXCEPT ![r] = 0]
  /\ IF lifecycle.generation = login[r].gen
     THEN /\ lifecycle' = [lifecycle EXCEPT !.active[r] = login[r].gen, !.pending = @ \cup {r}]
          /\ Goto(r, "starting")
          /\ UNCHANGED jobs
     ELSE Refuse(r) /\ UNCHANGED lifecycle
  /\ UNCHANGED <<credentialVars, told, otherVars>>

\* The request failed, or the command was dropped while it waited for the answer.
DeviceCodeFails(r) ==
  /\ At(r, "requesting")
  /\ reserved' = [reserved EXCEPT ![r] = 0]
  /\ Refuse(r)
  /\ UNCHANGED <<credentialVars, lifecycle, told, otherVars>>

\* cancel_github_auth, refused once the login is cancelling or finished.
Cancelled(S) == [r \in Logins |-> IF r \in S THEN [login[r] EXCEPT !.cancelled = TRUE] ELSE login[r]]
Cancelling(S) == [r \in Logins |-> IF r \in S THEN "cancelling" ELSE jobs[r]]

CancelLogin(r) ==
  /\ jobs[r] = "running"
  /\ jobs' = Cancelling({r})
  /\ login' = Cancelled({r})
  /\ UNCHANGED <<credentialVars, lifecycle, reserved, told, otherVars>>

-----------------------------------------------------------------------------
(***************************************************************************)
(* AuthService::run.                                                       *)
(***************************************************************************)

StopAsked(r) == login[r].cancelled \/ login[r].revoked

\* finish_job and the terminal event, in whatever order the path has them.
Over(r) == login' = [login EXCEPT ![r].pc = "over", ![r].revoked = FALSE]
EndRun(r, event) == FinishJob(r) /\ Emit(r, event) /\ Over(r)

RunStarts_Silent(r) ==
  /\ At(r, "starting")
  /\ LockFree
  /\ IF r \in lifecycle.pending
     THEN Goto(r, "polling") /\ UNCHANGED <<jobs, told>>
     ELSE Over(r) /\ FinishRequest(r) /\ UNCHANGED told
  /\ lifecycle' = [lifecycle EXCEPT !.pending = @ \ {r}]
  /\ UNCHANGED <<credentialVars, reserved, otherVars>>

\* The task takes its authorization, unless an invalidation emptied the map first.
RunStarts(r) ==
  /\ At(r, "starting")
  /\ LockFree
  /\ IF r \in lifecycle.pending
     THEN Goto(r, "polling") /\ UNCHANGED <<jobs, told>>
     ELSE Over(r) /\ Emit(r, IF login[r].cancelled THEN "cancelled" ELSE "failed")
  /\ lifecycle' = [lifecycle EXCEPT !.pending = @ \ {r}]
  /\ UNCHANGED <<credentialVars, reserved, otherVars>>

\* cancel_run, at any of the places that watch the two cancellations.
RunCancelled(r) ==
  /\ login[r].pc \in {"polling", "identified"}
  /\ StopAsked(r)
  /\ LockFree
  /\ EndRun(r, "cancelled")
  /\ UNCHANGED <<credentialVars, reserved, otherVars>>

\* The user denies it, time runs out, GitHub fails or answers with nonsense.
RunFails(r) ==
  /\ login[r].pc \in {"polling", "identified"}
  /\ LockFree
  /\ EndRun(r, "failed")
  /\ UNCHANGED <<credentialVars, reserved, otherVars>>

\* A poll brought the tokens and GitHub named their user; both waits watch the two
\* cancellations like the polls before them.
Authorized(r) ==
  /\ At(r, "polling")
  /\ Goto(r, "identified")
  /\ UNCHANGED <<credentialVars, lifecycle, reserved, jobs, told, otherVars>>

MaySave_Unchecked(r) == ~login[r].cancelled
MaySave(r) == JobIsCurrent(r, login[r].gen) /\ ~StopAsked(r)

\* Under the lifecycle lock, kept while the keychain works.
SaveCredentials(r) ==
  /\ At(r, "identified")
  /\ LockFree
  /\ \/ /\ MaySave(r)
        /\ store' = [by |-> r, life |-> "fresh"]
        /\ Goto(r, "saved")
        /\ UNCHANGED <<lifecycle, jobs, told>>
     \/ /\ EndRun(r, IF MaySave(r) THEN "failed" ELSE "cancelled")
        /\ UNCHANGED store
  /\ UNCHANGED <<session, principal, reserved, otherVars>>

Established_KeepsCredentials(r) ==
  IF login[r].cancelled
  THEN /\ EndRun(r, "cancelled")
       /\ UNCHANGED credentialVars
  ELSE /\ session' = SignedIn([by |-> r, life |-> "fresh"])
       /\ principal' = r
       /\ FinishJob(r)
       /\ Goto(r, "emitting")
       /\ UNCHANGED <<store, jobs, told>>

\* A login cancelled during the save takes its credentials back, if it can; the
\* session of the account before it is left as it was.
Established(r) ==
  IF login[r].cancelled
  THEN /\ FinishJob(r)
       /\ Emit(r, "cancelled")
       /\ \/ store' = NoTokens /\ Goto(r, "over")
          \/ UNCHANGED store /\ Goto(r, "unclean")
       /\ UNCHANGED <<session, principal>>
  ELSE /\ session' = SignedIn([by |-> r, life |-> "fresh"])
       /\ principal' = r
       /\ FinishJob(r)
       /\ Goto(r, "emitting")
       /\ UNCHANGED <<store, jobs, told>>

Establish(r) ==
  /\ At(r, "saved")
  /\ Established(r)
  /\ UNCHANGED <<reserved, otherVars>>

\* Delivery fails when a cancellation was accepted, and when the window is gone.
EmitAuthenticated(r) ==
  /\ At(r, "emitting")
  /\ Emit(r, "authenticated")
  /\ \/ jobs[r] = "running" /\ Goto(r, "over")
     \/ Goto(r, "cleaning")
  /\ UNCHANGED <<credentialVars, lifecycle, reserved, otherVars>>

\* Authenticated was not what the window heard: sign out again, unless another
\* account transition began.
CleanUp(r) ==
  /\ At(r, "cleaning")
  /\ LockFree
  /\ IF lifecycle.generation = login[r].gen /\ ~LoginUnderWay
     THEN \/ /\ store' = NoTokens
             /\ session' = Unsigned("signed_out")
             /\ principal' = Nobody
             /\ Goto(r, "over")
          \/ Goto(r, "unclean") /\ UNCHANGED credentialVars
     ELSE Goto(r, "over") /\ UNCHANGED credentialVars
  /\ UNCHANGED <<lifecycle, reserved, jobs, told, otherVars>>

-----------------------------------------------------------------------------
(***************************************************************************)
(* access_token_locked, under the refresh lock: one request at a time, for *)
(* get_auth_state, which holds no lease, or for a task that may be dropped *)
(* (a clone).  A leased command has the steps of a task, minus the drop    *)
(* and the steps its lease delays: fewer behaviours.                       *)
(***************************************************************************)

\* What get_auth_state does with the token of `tokens`, or with the lack of one.
Probed(result, tokens) ==
  CASE probe.pc = "checking" /\ result = "token" -> [probe EXCEPT !.pc = "checked"]
    [] probe.pc = "asking" /\ result = "token" -> [probe EXCEPT !.pc = "fetching", !.user = tokens.by]
    [] probe.pc = "asking" /\ result \in {"none", "reauthenticate"} -> [probe EXCEPT !.pc = "rejected"]
    [] OTHER -> IdleProbe

Answer(who, result, tokens) ==
  /\ getter' = IdleGetter
  /\ probe' = IF who = "probe" THEN Probed(result, tokens) ELSE probe
GetterReturns(result) == Answer(getter.for, result, getter.tokens)
GetterGoto(pc) == getter' = [getter EXCEPT !.pc = pc] /\ UNCHANGED probe

RefreshIsCurrent == JobIsCurrent(RefreshJob, getter.gen)

\* A fresh session answers at once; an unknown or stale one goes to the keychain.
RequestToken(who) ==
  /\ getter.pc = "idle"
  /\ who = "probe" => probe.pc \in {"checking", "asking"}
  /\ CASE session.kind = "authenticated" /\ session.tokens.life = "fresh" ->
            Answer(who, "token", session.tokens)
       [] session.kind = "signed_out" -> Answer(who, "none", NoTokens)
       [] session.kind = "reauthenticate" -> Answer(who, "reauthenticate", NoTokens)
       [] OTHER -> getter' = [IdleGetter EXCEPT !.pc = "entering", !.for = who] /\ UNCHANGED probe
  /\ UNCHANGED <<credentialVars, lifecycle, loginVars, keychainVars, logout, expiries>>

\* A login under way keeps every request out.
EnterRefresh ==
  /\ getter.pc = "entering"
  /\ LockFree
  /\ IF LoginUnderWay
     THEN GetterReturns("reauthenticate") /\ UNCHANGED lifecycle
     ELSE /\ lifecycle' = [lifecycle EXCEPT !.active[RefreshJob] = lifecycle.generation]
          /\ getter' = [getter EXCEPT !.pc = "loading", !.gen = lifecycle.generation]
          /\ UNCHANGED probe
  /\ UNCHANGED <<credentialVars, loginVars, keychainVars, logout, expiries>>

\* The keychain may be out of order, hold nothing, or hold a record that is damaged.
LoadCredentials ==
  /\ getter.pc = "loading"
  /\ LockFree
  /\ \/ /\ ~RefreshIsCurrent
        /\ GetterReturns("reauthenticate")
        /\ UNCHANGED lifecycle
     \/ /\ RefreshIsCurrent
        /\ GetterReturns("error")
        /\ FinishJob(RefreshJob)
     \/ /\ RefreshIsCurrent /\ store = NoTokens
        /\ GetterGoto("none found")
        /\ UNCHANGED lifecycle
     \/ /\ RefreshIsCurrent /\ store # NoTokens
        /\ GetterGoto("invalid")
        /\ FinishJob(RefreshJob)
     \/ /\ RefreshIsCurrent /\ store # NoTokens
        /\ getter' = [getter EXCEPT !.tokens = store,
             !.pc = CASE store.life = "fresh" -> "valid"
                      [] store.life = "stale" -> "refreshing"
                      [] store.life = "dead" -> "deleting"]
        /\ UNCHANGED <<probe, lifecycle>>
  /\ UNCHANGED <<credentialVars, loginVars, keychainVars, logout, expiries>>

\* The writes of this path and the next ask for no generation.
NoneFound ==
  /\ getter.pc = "none found"
  /\ LockFree
  /\ session' = Unsigned("signed_out")
  /\ principal' = Nobody
  /\ FinishJob(RefreshJob)
  /\ GetterReturns("none")
  /\ UNCHANGED <<store, loginVars, keychainVars, logout, expiries>>

InvalidFound ==
  /\ getter.pc = "invalid"
  /\ session' = Unsigned("reauthenticate")
  /\ principal' = Nobody
  /\ GetterReturns("reauthenticate")
  /\ UNCHANGED <<store, lifecycle, loginVars, keychainVars, logout, expiries>>

ValidFound ==
  /\ getter.pc = "valid"
  /\ LockFree
  /\ IF RefreshIsCurrent
     THEN /\ FinishJob(RefreshJob)
          /\ getter' = [getter EXCEPT !.pc = "publishing", !.gen = 0]
          /\ UNCHANGED probe
     ELSE GetterReturns("reauthenticate") /\ UNCHANGED lifecycle
  /\ UNCHANGED <<credentialVars, loginVars, keychainVars, logout, expiries>>

\* The loaded token becomes the session after the lifecycle lock was let go.
PublishLoaded ==
  /\ getter.pc = "publishing"
  /\ session' = SignedIn(getter.tokens)
  /\ GetterReturns("token")
  /\ UNCHANGED <<store, principal, lifecycle, loginVars, keychainVars, logout, expiries>>

\* The rotation is abandoned: it was cancelled, or GitHub is out of reach.
RefreshAbandoned ==
  /\ getter.pc = "refreshing"
  /\ LockFree
  /\ FinishJob(RefreshJob)
  /\ GetterReturns("error") \/ (getter.cancelled /\ GetterReturns("reauthenticate"))
  /\ UNCHANGED <<credentialVars, loginVars, keychainVars, logout, expiries>>

RefreshRefused ==
  /\ getter.pc = "refreshing"
  /\ GetterGoto("deleting")
  /\ UNCHANGED <<credentialVars, lifecycle, loginVars, keychainVars, logout, expiries>>

MayRotate_Unchecked == TRUE
MayRotate == RefreshIsCurrent /\ ~getter.cancelled

RefreshGranted ==
  /\ getter.pc = "refreshing"
  /\ LockFree
  /\ FinishJob(RefreshJob)
  /\ \/ /\ MayRotate
        /\ store' = [getter.tokens EXCEPT !.life = "fresh"]
        /\ session' = SignedIn(store')
        /\ GetterReturns("token")
     \/ /\ GetterReturns(IF MayRotate THEN "error" ELSE "reauthenticate")
        /\ UNCHANGED <<store, session>>
  /\ UNCHANGED <<principal, loginVars, keychainVars, logout, expiries>>

\* delete_if_current.
DeleteIfCurrent ==
  /\ getter.pc = "deleting"
  /\ LockFree
  /\ FinishJob(RefreshJob)
  /\ \/ /\ RefreshIsCurrent
        /\ store' = NoTokens
        /\ session' = Unsigned("reauthenticate")
        /\ principal' = Nobody
        /\ GetterReturns("reauthenticate")
     \/ /\ GetterReturns(IF RefreshIsCurrent THEN "error" ELSE "reauthenticate")
        /\ UNCHANGED credentialVars
  /\ UNCHANGED <<loginVars, keychainVars, logout, expiries>>

\* A clone that is cancelled drops its request wherever that waits.  The keychain call
\* it was in goes on without the lifecycle lock; the model has one such call at a time.
\* Its entry among the active jobs, which nobody reads again, is dropped with it.
DropRequest ==
  /\ getter.for = "task" /\ getter.pc # "idle"
  /\ \/ UNCHANGED detached
     \/ /\ LockFree /\ detached = NoCall
        /\ \/ /\ getter.pc = "refreshing" /\ MayRotate
              /\ detached' = [op |-> "save", tokens |-> [getter.tokens EXCEPT !.life = "fresh"],
                              gen |-> getter.gen]
           \/ /\ getter.pc = "deleting" /\ RefreshIsCurrent
              /\ detached' = [NoCall EXCEPT !.op = "delete"]
  /\ getter' = IdleGetter
  /\ FinishJob(RefreshJob)
  /\ UNCHANGED <<credentialVars, stray, loginVars, probe, logout, expiries>>

DetachedEnds ==
  /\ detached # NoCall
  /\ \/ /\ store' = detached.tokens
        /\ stray' = (stray \/ (detached.op = "save" /\ detached.gen # lifecycle.generation))
     \/ UNCHANGED <<store, stray>>
  /\ detached' = NoCall
  /\ UNCHANGED <<session, principal, lifecycle, loginVars, getter, probe, logout, expiries>>

-----------------------------------------------------------------------------
(***************************************************************************)
(* get_auth_state, logout_github and time.                                 *)
(***************************************************************************)

ProbeStart ==
  /\ probe.pc = "idle"
  /\ probe' = [probe EXCEPT !.pc = "checking"]
  /\ UNCHANGED <<credentialVars, lifecycle, loginVars, keychainVars, getter, logout, expiries>>

\* lifecycle_generation.
ProbeGeneration ==
  /\ probe.pc = "checked"
  /\ LockFree
  /\ probe' = IF LoginUnderWay THEN IdleProbe
              ELSE [probe EXCEPT !.pc = "asking", !.gen = lifecycle.generation]
  /\ UNCHANGED <<credentialVars, lifecycle, loginVars, keychainVars, getter, logout, expiries>>

\* GitHub names the user of the token, rejects it, or cannot be reached.
ProbeAnswered ==
  /\ probe.pc = "fetching"
  /\ \/ probe' = [probe EXCEPT !.pc = "known"]
     \/ probe' = [probe EXCEPT !.pc = "rejected"]
     \/ probe' = IdleProbe
  /\ UNCHANGED <<credentialVars, lifecycle, loginVars, keychainVars, getter, logout, expiries>>

ProbeMayWrite_NoGeneration == ~HasBeginReservation
ProbeMayWrite == lifecycle.generation = probe.gen /\ ~LoginUnderWay

\* establish_ and invalidate_authenticated_principal_if_current.
ProbeEnds ==
  /\ probe.pc \in {"known", "rejected"}
  /\ LockFree
  /\ principal' = IF ~ProbeMayWrite THEN principal
                  ELSE IF probe.pc = "known" THEN probe.user ELSE Nobody
  /\ probe' = IdleProbe
  /\ UNCHANGED <<store, session, lifecycle, loginVars, keychainVars, getter, logout, expiries>>

\* logout_github cancels every login job under the two gates.
RequestLogout ==
  /\ lifecycle.generation < MaxGeneration
  /\ MutationFree
  /\ logout' = [logout EXCEPT !.pc = "cancelling"]
  /\ LET running == {r \in Logins : jobs[r] = "running"} IN
       /\ jobs' = Cancelling(running)
       /\ login' = Cancelled(running)
  /\ UNCHANGED <<credentialVars, lifecycle, reserved, told, keychainVars, getter, probe, expiries>>

\* AuthService::logout; a keychain that cannot delete leaves the account signed in.
Logout ==
  /\ logout.pc = "cancelling"
  /\ LockFree
  /\ InvalidateLifecycle
  /\ login' = Revoked
  /\ getter' = GetterRevoked
  /\ reserved' = [r \in Logins |-> 0]
  /\ \/ /\ store' = NoTokens
        /\ session' = Unsigned("signed_out")
        /\ principal' = Nobody
        /\ logout' = [pc |-> "idle", gen |-> lifecycle'.generation]
     \/ /\ logout' = [logout EXCEPT !.pc = "idle"]
        /\ UNCHANGED credentialVars
  /\ UNCHANGED <<jobs, told, keychainVars, probe, expiries>>

\* Time passes: tokens live for hours, requests for seconds, so only a login that
\* waits for its user may see a token grow old.
Expire ==
  /\ expiries < MaxExpiries
  /\ getter = IdleGetter /\ probe = IdleProbe /\ detached = NoCall /\ logout.pc = "idle"
  /\ \A r \in Logins : login[r].pc \in {"unused", "polling", "over", "refused", "unclean"}
  /\ expiries' = expiries + 1
  /\ store' = Aged(store)
  /\ session' = [session EXCEPT !.tokens = Aged(@)]
  /\ UNCHANGED <<principal, lifecycle, loginVars, keychainVars, getter, probe, logout>>

-----------------------------------------------------------------------------
RunStep(r) ==
  \/ RunStarts(r) \/ RunCancelled(r) \/ RunFails(r) \/ Authorized(r)
  \/ SaveCredentials(r) \/ Establish(r) \/ EmitAuthenticated(r) \/ CleanUp(r)

BeginStep(r) ==
  BeginRefused(r) \/ BeginLogin(r) \/ DeviceCodeArrives(r) \/ DeviceCodeFails(r)

GetterStep ==
  \/ EnterRefresh \/ LoadCredentials \/ NoneFound \/ InvalidFound \/ ValidFound \/ PublishLoaded
  \/ RefreshAbandoned \/ RefreshRefused \/ RefreshGranted \/ DeleteIfCurrent
  \/ DropRequest \/ DetachedEnds

ProbeStep == ProbeGeneration \/ ProbeAnswered \/ ProbeEnds

Next ==
  \/ \E r \in Logins : RegisterLogin(r) \/ BeginStep(r) \/ CancelLogin(r) \/ RunStep(r)
  \/ \E who \in Callers : RequestToken(who)
  \/ GetterStep
  \/ ProbeStart \/ ProbeStep
  \/ RequestLogout \/ Logout
  \/ Expire

Spec == Init /\ [][Next]_vars

-----------------------------------------------------------------------------
(***************************************************************************)
(* Safety.                                                                 *)
(***************************************************************************)

\* Once a logout succeeded, credentials come back only through a new login: neither
\* a login nor a token rotation that was under way stores any, short of a keychain
\* call that outlived its request (logout_during_poll_prevents_late_credential_save
\* and its neighbours).
LogoutDeletesCredentials ==
  logout.gen = lifecycle.generation /\ ~stray => store = NoTokens

\* After a login the window was told of, no earlier account's rotation, logout or
\* login replaces its credentials, short of such a keychain call.
LastLoginOwnsTheStore ==
  \A r \in Logins :
    told[r] = "authenticated" /\ login[r].gen = lifecycle.generation /\ ~stray =>
      store.by \in {r, Nobody}

\* A cancellation that was accepted is what the window hears of the login, and, when
\* the keychain obeys and no account transition followed, it leaves no credentials.
CancelLeavesNothing ==
  \A r \in Logins :
    login[r].cancelled =>
      /\ told[r] \in {"nothing", "cancelled"}
      /\ login[r].pc = "over" /\ login[r].gen = lifecycle.generation => store.by # r

\* From the moment a login begins until it ends nobody is the principal, so nothing is
\* authored in the name of the account being left (get_auth_state may be under way).
NoPrincipalDuringLogin == LoginUnderWay => principal = Nobody

\* Every login the program took on is answered, by an error of the command or by a
\* terminal event, whatever cancels, overtakes or fails it (every end of run, with
\* LifecycleAuthEventSink).
EveryLoginIsAnswered == \A r \in Logins : At(r, "over") => told[r] # "nothing"

\* The documentation of logout: the credential entry and the session in memory are
\* deleted (docs/development/github-app.md:49).
LogoutSignsOut ==
  logout.gen = lifecycle.generation => store = NoTokens /\ session.kind # "authenticated"

=============================================================================
