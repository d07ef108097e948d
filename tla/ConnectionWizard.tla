--------------------------- MODULE ConnectionWizard ---------------------------
(***************************************************************************)
(* The window's way to a workspace: the wizard of connection-reducer.ts    *)
(* (sign in, choose a repository, find or clone a checkout, initialize it, *)
(* connect it), the account of account-session.ts beside it, and           *)
(* WorkspaceConnectionProvider.tsx, which calls the commands and hands     *)
(* their answers and events to both.                                       *)
(*                                                                         *)
(* A call is answered late and in any order: it is served by the backend   *)
(* in one step and its answer reaches the window in another.  A status     *)
(* names the reducer's step and status in one; "repositories_new" is the   *)
(* repository step whose list was never loaded, "draft_review" is          *)
(* ready_to_connect with a draft pull request.  The window never asks for  *)
(* the cancellation of a clone, so clone_cancelling has no state here.     *)
(***************************************************************************)
EXTENDS Naturals, FiniteSets

CONSTANTS
  Checkouts,    \* directories of the repository on this device
  None,
  MaxRequests,  \* bound of the model on the request ids that live at a time
  MaxRefusals   \* bound of the model on the commands refused for want of a sign-in

WizardAssumption ==
  /\ None \notin Checkouts
  /\ MaxRequests \in Nat \ {0}
  /\ MaxRefusals \in Nat

VARIABLES
  wizard,       \* ConnectionState
  account,      \* AccountSessionState
  calls,        \* commands the window waits for, with the answer on its way
  events,       \* auth and clone events on their way, in any order
  signed,       \* the backend has credentials and their principal
  login,        \* the login whose device flow runs, 0 for none
  clones,       \* the clone jobs that run
  saved,        \* the workspace local settings remember as the current one
  refusals,     \* such refusals so far
  picked,       \* the directory the user gave for the connection under way (a history variable)
  dropped       \* the wizard was thrown back from a connection under way (a history variable)

windowVars == <<wizard, account>>
backendVars == <<events, signed, login, clones, saved, refusals>>
vars == <<windowVars, calls, backendVars, picked, dropped>>

-----------------------------------------------------------------------------
(***************************************************************************)
(* Data.                                                                   *)
(***************************************************************************)

Ids == 1..MaxRequests
MaybeCheckout == Checkouts \cup {None}

LoggingIn == {"login_beginning", "waiting_for_user"}
Mutating == {"clone_starting", "cloning", "workspace_connecting", "initializing", "connecting"}
Errors == {"auth_error", "repositories_error", "local_error", "initialize_error"}
Statuses == LoggingIn \cup Mutating \cup Errors \cup
  {"idle", "loading", "reauthentication_required",
   "repositories_new", "repositories_loading", "repositories_idle",
   "local_idle", "inspecting", "workspace_inspecting", "preview_loading", "validation_failed",
   "preview", "ready_to_connect", "draft_review", "connected"}
Operations == {"none", "inspection", "clone", "repository", "preview", "connection", "initialization"}

\* root is the checkout found, or the one an inspection or a clone asked for; replaced
\* is the workspace of a replacement, shown the connected one.
Wizards == [at : Statuses, request : Ids \cup {0}, replaced : MaybeCheckout,
            root : MaybeCheckout, inspection : {"none", "ready", "initialization_required"},
            failed : Operations, shown : MaybeCheckout]
Blank == [at |-> "idle", request |-> 0, replaced |-> None, root |-> None,
          inspection |-> "none", failed |-> "none", shown |-> None]

Accounts == [at : LoggingIn \cup {"loading", "signed_out", "reauthentication_required",
                                  "authenticated", "logging_out"},
             request : Ids \cup {0}]
Account(at) == [at |-> at, request |-> 0]

\* Request ids are UUIDs: a new one is any that nothing bears which is in flight or still
\* waited for.
Free(held) == Ids \ (held \cup {login} \cup clones \cup {c.id : c \in calls})
Unused == Free({wizard.request, account.request} \cup {e.id : e \in events})
RoomForRequest == Unused # {}
Least(ids) == CHOOSE i \in ids : \A j \in ids : i <= j
Fresh == Least(Unused)

Asked(op, id, path) == [op |-> op, id |-> id, path |-> path, answer |-> "none"]
Call(op, path) == calls' = calls \cup {Asked(op, Fresh, path)}

Event(kind, id) == [kind |-> kind, id |-> id]
LoginOutcomes == {"authenticated", "failed", "cancelled"}
CloneOutcomes == {"clone completed", "clone failed", "clone cancelled"}

-----------------------------------------------------------------------------
(***************************************************************************)
(* The states of the reducer, as connection-state-builders.ts makes them.  *)
(***************************************************************************)

\* A step before the choice of a checkout keeps only the flow.
Plain(at, id) == [Blank EXCEPT !.at = at, !.request = id, !.replaced = wizard.replaced]
LocalIdle(root, inspection) ==
  [Plain("local_idle", 0) EXCEPT !.root = root, !.inspection = inspection]
Seeking(at, path) == [Plain(at, Fresh) EXCEPT !.root = path]
Doing(at) == [wizard EXCEPT !.at = at, !.request = Fresh, !.failed = "none"]
Failing(at, operation) == [wizard EXCEPT !.at = at, !.request = 0, !.failed = operation]
Reached(at) == [wizard EXCEPT !.at = at, !.request = 0, !.failed = "none"]
Connected(workspace) == [Blank EXCEPT !.at = "connected", !.shown = workspace]

\* loadAuth before anything else is shown.
Init ==
  /\ wizard = [Blank EXCEPT !.at = "loading", !.request = 1]
  /\ account = Account("loading")
  /\ calls = {Asked("restoring auth", 1, None)}
  /\ events = {}
  /\ signed \in BOOLEAN
  /\ login = 0
  /\ clones = {}
  /\ saved \in MaybeCheckout
  /\ refusals = 0
  /\ picked = None
  /\ dropped = FALSE

-----------------------------------------------------------------------------
(***************************************************************************)
(* What the user asks for.  WorkspaceGate shows the pages of the program,  *)
(* the account panel among them, when a workspace is connected or nothing  *)
(* has begun, and the connection page otherwise.                           *)
(***************************************************************************)

ShellShown == wizard.at = "connected" \/ (wizard.at = "idle" /\ wizard.replaced = None)
LoginOffered == ShellShown \/ wizard.at \in Errors \cup {"idle", "reauthentication_required"}

\* startLogin: the account decides; a connected wizard stays where it is.
StartLogin ==
  /\ LoginOffered /\ RoomForRequest
  /\ account.at \in {"signed_out", "reauthentication_required"}
  /\ account' = [at |-> "login_beginning", request |-> Fresh]
  /\ wizard' = IF wizard.at = "connected" THEN wizard ELSE Plain("login_beginning", Fresh)
  /\ Call("begin", None)
  /\ UNCHANGED backendVars

\* The login cancelLogin names: the account's before the wizard's.
LoginRequest == IF account.at \in LoggingIn THEN account.request ELSE wizard.request
CancelCall(op) ==
  /\ calls' = calls \cup {Asked(op, LoginRequest, None)}
  /\ UNCHANGED <<windowVars, backendVars>>

CancelLogin ==
  /\ ShellShown /\ account.at = "waiting_for_user"
  /\ CancelCall("cancel")

Logout ==
  /\ ShellShown /\ RoomForRequest
  /\ account.at = "authenticated"
  /\ account' = Account("logging_out")
  /\ Call("logout", None)
  /\ UNCHANGED <<wizard, backendVars>>

\* A replacement begins with what the backend knows of the account, not with the
\* saved workspace.
StartReplacement ==
  /\ wizard.at = "connected" /\ RoomForRequest
  /\ wizard' = [Blank EXCEPT !.at = "loading", !.request = Fresh, !.replaced = wizard.shown]
  /\ Call("auth", None)
  /\ UNCHANGED <<account, backendVars>>

CanCancelReplacement == wizard.replaced # None /\ wizard.at \notin Mutating

CancelReplacement_Anytime ==
  /\ wizard.replaced # None
  /\ IF wizard.at \in LoggingIn
     THEN CancelCall("cancel replacement")
     ELSE /\ wizard' = Connected(wizard.replaced)
          /\ UNCHANGED <<account, calls, backendVars>>

CancelReplacement ==
  /\ CanCancelReplacement
  /\ IF wizard.at \in LoggingIn
     THEN CancelCall("cancel replacement")
     ELSE /\ wizard' = Connected(wizard.replaced)
          /\ UNCHANGED <<account, calls, backendVars>>

Do(at, op) ==
  /\ RoomForRequest
  /\ wizard' = Doing(at)
  /\ Call(op, wizard.root)
  /\ UNCHANGED <<account, backendVars>>

\* loadRepositories: the effect of a fresh sign-in, a refresh, another page or a retry.
LoadRepositories ==
  /\ wizard.at \in {"repositories_new", "repositories_idle", "repositories_error"}
  /\ Do("repositories_loading", "list")

SelectRepository ==
  /\ wizard.at = "repositories_idle"
  /\ wizard' = LocalIdle(None, "none")
  /\ UNCHANGED <<account, calls, backendVars>>

\* The form is shown until an initialization is to be previewed.
FormShown == wizard.at \in {"local_idle", "local_error"} /\ wizard.inspection # "initialization_required"

Seek(at, op, path) ==
  /\ RoomForRequest
  /\ wizard' = Seeking(at, path)
  /\ Call(op, path)
  /\ UNCHANGED <<account, backendVars>>

\* inspectLocalClone: after a failed inspection another directory or a retry of the
\* same; after a failed clone the reducer refuses it.
InspectCheckout(path) ==
  /\ FormShown /\ wizard.failed # "clone"
  /\ Seek("inspecting", "inspect", path)

\* clone: after a failed clone another directory or a retry; after a failed
\* inspection the reducer refuses it.
CloneRepository(path) ==
  /\ FormShown /\ wizard.failed # "inspection"
  /\ Seek("clone_starting", "clone", path)

Pick(path) == InspectCheckout(path) \/ CloneRepository(path)

\* The effect of a checkout found, and the retry of a failed inspection of its workspace.
InspectWorkspace ==
  /\ \/ wizard.at = "local_idle" /\ wizard.root # None /\ wizard.inspection = "none"
     \/ wizard.at = "local_error" /\ wizard.failed = "repository"
  /\ Do("workspace_inspecting", "workspace")

PreviewInitialization ==
  /\ wizard.at \in {"local_idle", "preview_loading", "local_error"}
  /\ wizard.inspection = "initialization_required"
  /\ Do("preview_loading", "preview")

CancelInitializationPreview ==
  /\ wizard.at = "preview"
  /\ wizard' = Reached("local_idle")
  /\ UNCHANGED <<account, calls, backendVars>>

ConfirmInitialization ==
  /\ wizard.at = "preview" \/ (wizard.at = "initialize_error" /\ wizard.failed = "initialization")
  /\ Do("initializing", "initialize")

ChoosePostMergeClone ==
  /\ wizard.at = "draft_review"
  /\ wizard' = LocalIdle(None, "none")
  /\ UNCHANGED <<account, calls, backendVars>>

\* connectInitializedWorkspace: the effect of a workspace found ready or initialized
\* without a review, and the retry of a connection that failed.
ConnectWorkspace ==
  \/ /\ \/ wizard.at = "local_idle" /\ wizard.inspection = "ready"
        \/ wizard.at = "local_error" /\ wizard.failed = "connection"
     /\ Do("workspace_connecting", "connect")
  \/ /\ \/ wizard.at = "ready_to_connect"
        \/ wizard.at = "initialize_error" /\ wizard.failed = "connection"
     /\ Do("connecting", "connect")

UserSteps ==
  \/ StartLogin \/ CancelLogin \/ Logout
  \/ StartReplacement \/ CancelReplacement
  \/ LoadRepositories \/ SelectRepository
  \/ InspectWorkspace
  \/ PreviewInitialization \/ CancelInitializationPreview
  \/ ConfirmInitialization \/ ChoosePostMergeClone
  \/ ConnectWorkspace

-----------------------------------------------------------------------------
(***************************************************************************)
(* The backend, as much of it as the window can tell.  Commands about the  *)
(* repository need a principal, which a login in progress takes away.      *)
(***************************************************************************)

Principal == signed /\ login = 0
Served(c, answer) == calls' = (calls \ {c}) \cup {[c EXCEPT !.answer = answer]}

ServeAuth(c) ==
  /\ c.op \in {"auth", "restoring auth"}
  /\ \E answer \in IF Principal THEN {"authenticated", "error"}
                   ELSE {"signed_out", "reauthentication_required", "error"} :
       Served(c, answer)
  /\ UNCHANGED backendVars

\* get_current_workspace; no workspace, or one to be recovered, has no path here.
ServeRestore(c) ==
  /\ c.op = "restore"
  /\ \/ Principal /\ \E path \in {saved, None} :
          calls' = (calls \ {c}) \cup {[c EXCEPT !.answer = "ok", !.path = path]}
     \/ Served(c, "error")
  /\ UNCHANGED backendVars

\* A login that begins ends the one before it.
ServeBegin(c) ==
  /\ c.op = "begin"
  /\ \/ /\ Served(c, "ok")
        /\ login' = c.id
        /\ events' = events \cup (IF login = 0 THEN {} ELSE {Event("cancelled", login)})
     \/ Served(c, "error") /\ UNCHANGED <<login, events>>
  /\ UNCHANGED <<signed, clones, saved, refusals>>

\* The registry accepts it while the login runs, or before its begin was answered,
\* and refuses it once the outcome is decided; the window is told the same.
ServeCancel(c) ==
  /\ c.op \in {"cancel", "cancel replacement"}
  /\ \/ /\ Served(c, "ok")
        /\ UNCHANGED <<login, events>>
     \/ /\ login = c.id
        /\ Served(c, "ok")
        /\ login' = 0
        /\ events' = events \cup {Event("cancelled", c.id)}
     \/ \E b \in calls :
          /\ b.op = "begin" /\ b.id = c.id /\ b.answer = "none"
          /\ calls' = (calls \ {b, c})
               \cup {[b EXCEPT !.answer = "ok"], [c EXCEPT !.answer = "ok"]}
          /\ events' = events \cup {Event("cancelled", c.id)}
          /\ UNCHANGED login
  /\ UNCHANGED <<signed, clones, saved, refusals>>

\* Logins are cancelled even when the credentials cannot be deleted.
ServeLogout(c) ==
  /\ c.op = "logout"
  /\ \/ Served(c, "ok") /\ signed' = FALSE
     \/ Served(c, "error") /\ UNCHANGED signed
  /\ login' = 0
  /\ events' = events \cup (IF login = 0 THEN {} ELSE {Event("cancelled", login)})
  /\ UNCHANGED <<clones, saved, refusals>>

ServeClone(c) ==
  /\ c.op = "clone"
  /\ \/ Principal /\ Served(c, "ok") /\ clones' = clones \cup {c.id}
     \/ Served(c, "error") /\ UNCHANGED clones
  /\ UNCHANGED <<events, signed, login, saved, refusals>>

ServeConnect(c) ==
  /\ c.op = "connect"
  /\ \/ Principal /\ Served(c, "ok") /\ saved' = c.path
     \/ Served(c, "error") /\ UNCHANGED saved
  /\ UNCHANGED <<events, signed, login, clones, refusals>>

Serve(c) ==
  /\ c.answer = "none"
  /\ \/ ServeAuth(c) \/ ServeRestore(c) \/ ServeBegin(c) \/ ServeCancel(c) \/ ServeLogout(c)
     \/ ServeClone(c) \/ ServeConnect(c)
  /\ UNCHANGED windowVars

\* The user enters the code on GitHub, or the login fails.
LoginEnds ==
  /\ login # 0
  /\ \E kind \in {"authenticated", "failed"} :
       /\ events' = events \cup {Event(kind, login)}
       /\ signed' = (signed \/ kind = "authenticated")
  /\ login' = 0
  /\ UNCHANGED <<windowVars, calls, clones, saved, refusals>>

\* A logout cancels the clone jobs.
CloneEnds(id) ==
  /\ clones' = clones \ {id}
  /\ \E kind \in CloneOutcomes : events' = events \cup {Event(kind, id)}
  /\ UNCHANGED <<windowVars, calls, signed, login, saved, refusals>>

\* A command finds no credentials it may use - GitHub rejected them, there are none, or a
\* login runs - and the window is told so, under an id of its own.
SignInRefused ==
  /\ refusals < MaxRefusals
  /\ signed' = (signed /\ login # 0)
  /\ refusals' = refusals + 1
  /\ events' = events \cup {Event("reauthentication_required", 0)}
  /\ UNCHANGED <<windowVars, calls, login, clones, saved>>

BackendSteps ==
  \/ \E c \in calls : Serve(c)
  \/ LoginEnds \/ SignInRefused
  \/ \E id \in clones : CloneEnds(id)

-----------------------------------------------------------------------------
(***************************************************************************)
(* The window hears.  An answer counts only while the wizard, or the       *)
(* account, still waits for the request it answers.                        *)
(***************************************************************************)

Awaits_AnyRequest(c, at) == wizard.at = at
Awaits(c, at) == wizard.at = at /\ wizard.request = c.id
Answered(c) == calls' = {d \in calls : <<d.op, d.id>> # <<c.op, c.id>>}
WizardGoes(c, at, next) == wizard' = IF Awaits(c, at) THEN next ELSE wizard
Quietly(c) == Answered(c) /\ UNCHANGED account

\* loadAuth: the account takes what it hears, whatever it was about; the wizard may go
\* on to ask for the saved workspace.
AuthAnswered(c) ==
  /\ c.op \in {"auth", "restoring auth"}
  /\ account' = Account(IF c.answer = "error" THEN "signed_out" ELSE c.answer)
  /\ IF c.op = "restoring auth" /\ c.answer = "authenticated"
     THEN calls' = (calls \ {c}) \cup {Asked("restore", c.id, None)} /\ UNCHANGED wizard
     ELSE /\ Answered(c)
          /\ WizardGoes(c, "loading",
               Plain(CASE c.answer = "authenticated" -> "repositories_new"
                       [] c.answer = "error" -> "auth_error"
                       [] c.answer = "signed_out" -> "idle"
                       [] OTHER -> "reauthentication_required", 0))

RestoreAnswered(c) ==
  /\ c.op = "restore"
  /\ WizardGoes(c, "loading",
       IF c.answer = "error" THEN Plain("auth_error", 0)
       ELSE IF c.path # None THEN Connected(c.path)
       ELSE Plain("repositories_new", 0))
  /\ Quietly(c)

BeginAnswered(c) ==
  /\ c.op = "begin"
  /\ Answered(c)
  /\ LET waiting == [at |-> "login_beginning", request |-> c.id]
         signedOut == Account("signed_out")
     IN account' = IF account # waiting THEN account
                   ELSE IF c.answer = "ok" THEN [waiting EXCEPT !.at = "waiting_for_user"]
                   ELSE signedOut
  /\ WizardGoes(c, "login_beginning",
       IF c.answer = "ok" THEN Plain("waiting_for_user", c.id) ELSE Plain("auth_error", 0))

LogoutAnswered(c) ==
  /\ c.op = "logout"
  /\ Answered(c)
  /\ account' = IF account.at # "logging_out" THEN account
                ELSE Account(IF c.answer = "ok" THEN "signed_out" ELSE "authenticated")
  /\ wizard' = IF c.answer = "ok" THEN Blank ELSE wizard

ListAnswered(c) ==
  /\ c.op = "list"
  /\ WizardGoes(c, "repositories_loading",
       Plain(IF c.answer = "ok" THEN "repositories_idle" ELSE "repositories_error", 0))
  /\ Quietly(c)

InspectAnswered_Unasked(c) ==
  /\ c.op = "inspect"
  /\ wizard' = IF ~Awaits_AnyRequest(c, "inspecting") THEN wizard
               ELSE IF c.answer = "ok" THEN LocalIdle(c.path, "none")
               ELSE Failing("local_error", "inspection")
  /\ Quietly(c)

InspectAnswered(c) ==
  /\ c.op = "inspect"
  /\ WizardGoes(c, "inspecting",
       IF c.answer = "ok" THEN LocalIdle(c.path, "none") ELSE Failing("local_error", "inspection"))
  /\ Quietly(c)

CloneAnswered(c) ==
  /\ c.op = "clone"
  /\ WizardGoes(c, "clone_starting",
       IF c.answer = "ok" THEN [wizard EXCEPT !.at = "cloning"] ELSE Failing("local_error", "clone"))
  /\ Quietly(c)

WorkspaceAnswered(c) ==
  /\ c.op = "workspace"
  /\ WizardGoes(c, "workspace_inspecting",
       CASE c.answer = "error" -> Failing("local_error", "repository")
         [] c.answer = "invalid" -> Reached("validation_failed")
         [] OTHER -> LocalIdle(wizard.root, c.answer))
  /\ Quietly(c)

PreviewAnswered(c) ==
  /\ c.op = "preview"
  /\ WizardGoes(c, "preview_loading",
       IF c.answer = "ok" THEN Reached("preview") ELSE Failing("local_error", "preview"))
  /\ Quietly(c)

InitializeAnswered(c) ==
  /\ c.op = "initialize"
  /\ WizardGoes(c, "initializing",
       CASE c.answer = "pushed" -> Reached("ready_to_connect")
         [] c.answer = "drafted" -> Reached("draft_review")
         [] c.answer = "changed" -> Failing("local_error", "preview")
         [] OTHER -> Failing("initialize_error", "initialization"))
  /\ Quietly(c)

ConnectAnswered(c) ==
  /\ c.op = "connect"
  /\ LET connecting == Awaits(c, "workspace_connecting") \/ Awaits(c, "connecting")
         errorAt == IF wizard.at = "connecting" THEN "initialize_error" ELSE "local_error"
     IN wizard' = IF ~connecting THEN wizard
                  ELSE IF c.answer = "ok" THEN Connected(c.path)
                  ELSE Failing(errorAt, "connection")
  /\ Quietly(c)

\* What an authentication event makes of the account; the wizard hears it unless it is
\* connected, and after a sign-in asks for the saved workspace.
AccountHears(e) ==
  account' =
    IF e.kind = "reauthentication_required" THEN Account("reauthentication_required")
    ELSE IF account.at \notin LoggingIn \/ account.request # e.id THEN account
    ELSE Account(IF e.kind = "authenticated" THEN "authenticated" ELSE "signed_out")

LoginAwaited_OnceShown(id) == wizard.at = "waiting_for_user" /\ wizard.request = id
LoginAwaited(id) == wizard.at \in LoggingIn /\ wizard.request = id

\* The event takes its id with it.
UnusedAfter(e) ==
  LET unused == Free(({account.request} \ {e.id}) \cup {f.id : f \in events \ {e}})
  IN IF unused = {} THEN {} ELSE {Least(unused)}

WizardHears(e) ==
  \/ /\ e.kind = "reauthentication_required" /\ wizard.at # "connected"
     /\ wizard' = Plain("reauthentication_required", 0)
     /\ UNCHANGED calls
  \/ /\ e.kind = "authenticated" /\ LoginAwaited(e.id)
     /\ \E id \in UnusedAfter(e) :
          /\ wizard' = Plain("loading", id)
          /\ calls' = calls \cup {Asked("restore", id, None)}
  \/ /\ e.kind \in {"failed", "cancelled"} /\ LoginAwaited(e.id)
     /\ wizard' = Plain(IF e.kind = "failed" THEN "auth_error" ELSE "idle", 0)
     /\ UNCHANGED calls
  \/ /\ IF e.kind = "reauthentication_required" THEN wizard.at = "connected"
        ELSE ~LoginAwaited(e.id)
     /\ UNCHANGED <<wizard, calls>>

AuthEventReceived(e) ==
  /\ e.kind \in LoginOutcomes \cup {"reauthentication_required"}
  /\ AccountHears(e)
  /\ WizardHears(e)

\* cancelLogin tells both the outcome itself, whatever the backend answered; the
\* replacement is then cancelled if it still may be.
CancelAnswered(c) ==
  /\ c.op \in {"cancel", "cancel replacement"}
  /\ AccountHears(Event("cancelled", c.id))
  /\ Answered(c)
  /\ wizard' =
       IF c.op = "cancel replacement" /\ CanCancelReplacement THEN Connected(wizard.replaced)
       ELSE IF LoginAwaited(c.id) THEN Plain("idle", 0)
       ELSE wizard

CloneAwaited(id) == wizard.at \in {"clone_starting", "cloning"} /\ wizard.request = id
CloneEventReceived(e) ==
  /\ e.kind \in CloneOutcomes
  /\ wizard' =
       IF ~CloneAwaited(e.id) THEN wizard
       ELSE CASE e.kind = "clone completed" -> LocalIdle(wizard.root, "none")
              [] e.kind = "clone failed" -> Failing("local_error", "clone")
              [] OTHER -> LocalIdle(None, "none")
  /\ UNCHANGED <<account, calls>>

\* Progress may be heard before the answer that the job runs; late progress changes nothing.
CloneProgressReceived(id) ==
  /\ wizard.at = "clone_starting" /\ wizard.request = id
  /\ wizard' = [wizard EXCEPT !.at = "cloning"]
  /\ UNCHANGED <<account, calls, backendVars>>

\* What these answer depends on GitHub and on the files.
Findings(op) ==
  CASE op = "workspace" -> {"ready", "initialization_required", "invalid", "error"}
    [] op = "initialize" -> {"pushed", "drafted", "changed", "error"}
    [] op \in {"list", "inspect", "preview"} -> {"ok", "error"}
    [] OTHER -> {}

Answers(c) ==
  {d \in {c} : d.answer # "none"} \cup {[c EXCEPT !.answer = answer] : answer \in Findings(c.op)}

Receive(c) ==
  /\ \/ AuthAnswered(c) \/ RestoreAnswered(c) \/ BeginAnswered(c) \/ LogoutAnswered(c)
     \/ CancelAnswered(c) \/ ListAnswered(c) \/ InspectAnswered(c) \/ CloneAnswered(c)
     \/ WorkspaceAnswered(c) \/ PreviewAnswered(c) \/ InitializeAnswered(c)
     \/ ConnectAnswered(c)
  /\ UNCHANGED backendVars

Deliver(e) ==
  /\ AuthEventReceived(e) \/ CloneEventReceived(e)
  /\ events' = events \ {e}
  /\ UNCHANGED <<signed, login, clones, saved, refusals>>

WindowSteps ==
  \/ \E c \in calls : \E d \in Answers(c) : Receive(d)
  \/ \E e \in events : Deliver(e)
  \/ \E id \in clones : CloneProgressReceived(id)

-----------------------------------------------------------------------------
\* The wizard is thrown back while a connection is under way.
LosesConnection ==
  wizard'.at # "connected" /\ \E c \in calls' : c.op = "connect" /\ c.id # wizard'.request

Next ==
  /\ \/ \E path \in Checkouts : Pick(path) /\ picked' = path
     \/ /\ UserSteps \/ BackendSteps \/ WindowSteps
        /\ picked' = IF wizard'.root = None THEN None ELSE picked
  /\ dropped' = (dropped \/ LosesConnection)

Spec == Init /\ [][Next]_vars

-----------------------------------------------------------------------------
(***************************************************************************)
(* Properties.                                                             *)
(***************************************************************************)

\* Every variable keeps its type.
TypeOK ==
  /\ wizard \in Wizards
  /\ account \in Accounts
  /\ \A c \in calls : c.id \in Ids /\ c.path \in MaybeCheckout
  /\ \A e \in events : e.id \in Ids \cup {0}
  /\ signed \in BOOLEAN
  /\ login \in Ids \cup {0}
  /\ clones \subseteq Ids
  /\ saved \in MaybeCheckout
  /\ refusals \in 0..MaxRefusals
  /\ picked \in MaybeCheckout
  /\ dropped \in BOOLEAN

UnderWay(ops, id) == \E c \in calls : c.op \in ops /\ c.id = id
OnItsWay(kinds, id) == \E kind \in kinds : Event(kind, id) \in events
LoginUnderWay(id) == login = id \/ OnItsWay(LoginOutcomes, id)

\* The commands a status of the wizard waits for.
CommandsOf ==
  [at \in {"loading", "login_beginning", "repositories_loading", "inspecting", "clone_starting",
           "workspace_inspecting", "preview_loading", "workspace_connecting", "initializing",
           "connecting"} |->
     CASE at = "loading" -> {"auth", "restoring auth", "restore"}
       [] at = "login_beginning" -> {"begin"}
       [] at = "repositories_loading" -> {"list"}
       [] at = "inspecting" -> {"inspect"}
       [] at = "clone_starting" -> {"clone"}
       [] at = "workspace_inspecting" -> {"workspace"}
       [] at = "preview_loading" -> {"preview"}
       [] at \in {"workspace_connecting", "connecting"} -> {"connect"}
       [] at = "initializing" -> {"initialize"}]

\* The window never waits for what nobody will bring: while the wizard or the account is
\* in a status that only an answer or an event ends, that answer or event is still to
\* come, whatever cancellation, later login, expiry or early event went before it
\* (WorkspaceConnectionProvider.tsx, connection-reducer.ts, account-session.ts).
AwaitedIsUnderWay ==
  /\ wizard.at \in DOMAIN CommandsOf => UnderWay(CommandsOf[wizard.at], wizard.request)
  /\ wizard.at = "waiting_for_user" => LoginUnderWay(wizard.request)
  /\ wizard.at = "cloning" => wizard.request \in clones \/ OnItsWay(CloneOutcomes, wizard.request)
  /\ account.at = "login_beginning" => UnderWay({"begin"}, account.request)
  /\ account.at = "waiting_for_user" => LoginUnderWay(account.request)
  /\ account.at = "logging_out" => \E c \in calls : c.op = "logout"
  /\ account.at = "loading" => \E c \in calls : c.op \in {"auth", "restoring auth"}

\* The checkout the wizard goes on with is the one the user gave last: the answer about
\* another directory, asked for before the wizard was thrown back, changes nothing
\* (connection-reducer.ts).
GoesOnWithThePicked == wizard.root # None => wizard.root = picked

\* A workspace shown as connected is the one local settings remember, after any
\* replacement, cancelled or completed, unless a refused sign-in or a logout made the
\* window let go of a connection under way (connection-reducer.ts, settings/service.rs).
ShownIsSaved == wizard.at = "connected" /\ ~dropped => wizard.shown = saved
=============================================================================
