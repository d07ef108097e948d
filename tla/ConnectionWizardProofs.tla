------------------------ MODULE ConnectionWizardProofs ------------------------
(***************************************************************************)
(* What the window waits for is under way, and it goes on with the         *)
(* directory picked last and the workspace that is remembered, for every   *)
(* number of checkouts, request ids and refused commands.                  *)
(***************************************************************************)
EXTENDS ConnectionWizard, WellFoundedInduction, TLAPS

(***************************************************************************)
(* The inductive invariant.                                                *)
(***************************************************************************)

\* The types of what the window sent and what is on its way to it.
AuthOps == {"auth", "restoring auth"}
AuthAnswers == {"none", "authenticated", "signed_out", "reauthentication_required", "error"}
Ops == AuthOps \cup
  {"restore", "begin", "cancel", "cancel replacement", "logout", "list", "inspect", "clone",
   "workspace", "preview", "initialize", "connect"}
Calls == [op : Ops, id : Ids, path : MaybeCheckout, answer : AuthAnswers \cup {"ok"}]
Events == [kind : LoginOutcomes \cup CloneOutcomes \cup {"reauthentication_required"},
           id : Ids \cup {0}]

\* The account is told what it may be told, and the inspection of a workspace is answered
\* only as the window hears of it; a login that is waited for has an id.
AnswerOK(c) ==
  /\ c.op \in AuthOps => c.answer \in AuthAnswers
  /\ c.op = "workspace" => c.answer = "none"
TrafficOK ==
  /\ calls \subseteq Calls /\ events \subseteq Events
  /\ \A c \in calls : AnswerOK(c)
  /\ wizard.at \in LoggingIn => wizard.request \in Ids
  /\ account.at \in LoggingIn => account.request \in Ids

\* A login whose begin was accepted, and a clone whose start was, is under way as long as
\* the window that has not heard the answer still waits for it.
LoginHeard(id) == LoginAwaited(id) \/ (account.at \in LoggingIn /\ account.request = id)
CloneUnderWay(id) == id \in clones \/ OnItsWay(CloneOutcomes, id)
AcceptedOK ==
  \A c \in calls : c.answer = "ok" =>
    /\ c.op = "begin" /\ LoginHeard(c.id) => LoginUnderWay(c.id)
    /\ c.op = "clone" /\ CloneAwaited(c.id) => CloneUnderWay(c.id)

WaitsInv == TypeOK /\ TrafficOK /\ AcceptedOK /\ AwaitedIsUnderWay

\* The inspection that is waited for is the one of the checkout that was picked.
PickedOK ==
  \A c \in calls : c.op = "inspect" /\ Awaits(c, "inspecting") => c.path = wizard.root

\* Unless the wizard was thrown back, the one connection under way is the one it waits for.
ConnectionOK ==
  \A c \in calls : c.op = "connect" =>
    /\ wizard.at \in {"workspace_connecting", "connecting"} /\ wizard.request = c.id
    /\ c.answer = "ok" => saved = c.path
    /\ \A d \in calls : d.op = "connect" => c = d

\* What the window has of the saved workspace, or will hear of it, is as it was saved last.
RemembersOK ==
  /\ \A c \in calls :
       c.op = "restore" /\ c.answer # "error" /\ c.path # None /\ Awaits(c, "loading") =>
         c.path = saved
  /\ wizard.replaced # None =>
       wizard.replaced = saved \/ \E c \in calls : c.op = "connect" /\ c.answer = "ok"

ConnectsInv ==
  /\ PickedOK /\ GoesOnWithThePicked
  /\ ~dropped => ConnectionOK /\ RemembersOK
  /\ ShownIsSaved

-----------------------------------------------------------------------------
(***************************************************************************)
(* Request ids.                                                            *)
(***************************************************************************)

\* There is a least one among the ids of a set.
LEMMA LeastChosen ==
  ASSUME NEW ids, ids \subseteq Ids, ids # {}, MaxRequests \in Nat
  PROVE  Least(ids) \in ids
  <1>1. ids \subseteq Nat
    BY DEF Ids
  <1>. DEFINE less == {ss \in Nat \X Nat : ss[1] < ss[2]}
  <1>2. IsWellFoundedOn(less, Nat)
    BY NatLessThanWellFounded DEF OpToRel
  <1>3. PICK x \in ids : \A y \in ids : <<y, x>> \notin less
    <2>. HIDE DEF less
    <2>. QED BY <1>1, <1>2, WFMin
  <1>4. ASSUME NEW y \in ids PROVE x <= y
    <2>1. <<y, x>> \in Nat \X Nat /\ <<y, x>>[1] = y /\ <<y, x>>[2] = x
      BY <1>1
    <2>2. ~(<<y, x>>[1] < <<y, x>>[2])
      BY <1>3, <2>1
    <2>. QED BY <1>1, <2>1, <2>2
  <1>. QED BY <1>3, <1>4 DEF Least

\* A new id is borne by nothing that is in flight or waited for.
LEMMA FreshIsFree ==
  ASSUME WizardAssumption, RoomForRequest
  PROVE  /\ Fresh \in Ids /\ Fresh \notin {wizard.request, account.request, login} \cup clones
         /\ \A c \in calls : c.id # Fresh
         /\ \A e \in events : e.id # Fresh
  <1>1. Unused \subseteq Ids /\ Unused # {}
    BY DEF Unused, Free, RoomForRequest
  <1>2. Fresh \in Unused
    BY <1>1, LeastChosen DEF Fresh, WizardAssumption
  <1>. QED BY <1>2 DEF Unused, Free

\* The id that an event leaves behind may be used again.
LEMMA FreshAfter ==
  ASSUME WizardAssumption, NEW e, NEW id \in UnusedAfter(e)
  PROVE  /\ id \in Ids /\ id # login /\ id \notin clones
         /\ \A c \in calls : c.id # id
         /\ account.request = id => id = e.id
         /\ \A f \in events : f = e \/ f.id # id
  <1>. DEFINE unused == Free(({account.request} \ {e.id}) \cup {f.id : f \in events \ {e}})
  <1>1. unused \subseteq Ids /\ unused # {} /\ id = Least(unused)
    BY DEF UnusedAfter, Free
  <1>2. id \in unused
    BY <1>1, LeastChosen DEF WizardAssumption
  <1>. QED BY <1>2 DEF Free

-----------------------------------------------------------------------------
(***************************************************************************)
(* The states of the reducer and the records of the traffic.               *)
(***************************************************************************)

\* A wizard that neither waits nor goes on with a checkout.
LEMMA PlainMade ==
  ASSUME wizard \in Wizards, NEW at \in Statuses, NEW id \in Ids \cup {0}
  PROVE  /\ Plain(at, id) \in Wizards /\ Plain(at, id).at = at /\ Plain(at, id).request = id
         /\ Plain(at, id).root = None /\ Plain(at, id).replaced = wizard.replaced
         /\ Plain(at, id).shown = None
  <1>1. wizard.replaced \in MaybeCheckout /\ None \in MaybeCheckout /\ "none" \in Operations
        /\ "idle" \in Statuses
    BY DEF Wizards, MaybeCheckout, Operations, Statuses
  <1>2. Blank \in Wizards
    BY <1>1 DEF Blank, Wizards
  <1>3. Plain(at, id) \in Wizards
    BY <1>1, <1>2 DEF Plain, Wizards
  <1>4. Blank.root = None /\ Blank.shown = None
    BY DEF Blank
  <1>. QED BY <1>2, <1>3, <1>4 DEF Plain, Wizards

LEMMA LocalIdleMade ==
  ASSUME wizard \in Wizards, NEW root \in MaybeCheckout,
         NEW found \in {"none", "ready", "initialization_required"}
  PROVE  /\ LocalIdle(root, found) \in Wizards
         /\ LocalIdle(root, found).at = "local_idle" /\ LocalIdle(root, found).request = 0
         /\ LocalIdle(root, found).root = root
         /\ LocalIdle(root, found).replaced = wizard.replaced
  <1>1. "local_idle" \in Statuses
    BY DEF Statuses
  <1>2. Plain("local_idle", 0) \in Wizards /\ Plain("local_idle", 0).at = "local_idle"
        /\ Plain("local_idle", 0).request = 0
        /\ Plain("local_idle", 0).replaced = wizard.replaced
    BY <1>1, PlainMade
  <1>. QED BY <1>2 DEF LocalIdle, Wizards

\* A wizard that goes on from where it is.
LEMMA GoesOnMade ==
  ASSUME wizard \in Wizards, NEW at \in Statuses, NEW id \in Ids \cup {0},
         NEW failed \in Operations
  PROVE  LET next == [wizard EXCEPT !.at = at, !.request = id, !.failed = failed]
         IN  /\ next \in Wizards /\ next.at = at /\ next.request = id
             /\ next.root = wizard.root /\ next.replaced = wizard.replaced
  BY DEF Wizards

LEMMA FailingMade ==
  ASSUME wizard \in Wizards, NEW at \in Statuses, NEW operation \in Operations
  PROVE  /\ Failing(at, operation) \in Wizards /\ Failing(at, operation).at = at
         /\ Failing(at, operation).request = 0 /\ Failing(at, operation).root = wizard.root
         /\ Failing(at, operation).replaced = wizard.replaced
  BY DEF Failing, Wizards

LEMMA ReachedMade ==
  ASSUME wizard \in Wizards, NEW at \in Statuses
  PROVE  /\ Reached(at) \in Wizards /\ Reached(at).at = at
         /\ Reached(at).request = 0 /\ Reached(at).root = wizard.root
         /\ Reached(at).replaced = wizard.replaced
  <1>1. "none" \in Operations
    BY DEF Operations
  <1>. QED BY <1>1 DEF Reached, Wizards

LEMMA ConnectedMade ==
  ASSUME NEW workspace \in MaybeCheckout
  PROVE  /\ Connected(workspace) \in Wizards /\ Connected(workspace).at = "connected"
         /\ Connected(workspace).request = 0 /\ Connected(workspace).root = None
         /\ Connected(workspace).replaced = None /\ Connected(workspace).shown = workspace
  BY DEF Connected, Blank, Wizards, MaybeCheckout, Statuses, Operations

LEMMA BlankMade ==
  /\ Blank \in Wizards /\ Blank.at = "idle" /\ Blank.request = 0 /\ Blank.root = None
  /\ Blank.replaced = None
  BY DEF Blank, Wizards, MaybeCheckout, Statuses, Operations

LEMMA AskedMade ==
  ASSUME NEW op \in Ops, NEW id \in Ids, NEW path \in MaybeCheckout
  PROVE  /\ Asked(op, id, path) \in Calls /\ Asked(op, id, path).op = op
         /\ Asked(op, id, path).id = id /\ Asked(op, id, path).path = path
         /\ Asked(op, id, path).answer = "none"
  BY DEF Asked, Calls, AuthAnswers

LEMMA AnswerMade ==
  ASSUME NEW c \in Calls, NEW answer
  PROVE  /\ answer \in AuthAnswers \cup {"ok"} => [c EXCEPT !.answer = answer] \in Calls
         /\ [c EXCEPT !.answer = answer].op = c.op /\ [c EXCEPT !.answer = answer].id = c.id
         /\ [c EXCEPT !.answer = answer].path = c.path
         /\ [c EXCEPT !.answer = answer].answer = answer
  BY DEF Calls

LEMMA EventMade ==
  ASSUME NEW kind, NEW id
  PROVE  /\ Event(kind, id).kind = kind /\ Event(kind, id).id = id
         /\ kind \in LoginOutcomes \cup CloneOutcomes \cup {"reauthentication_required"}
              /\ id \in Ids \cup {0} => Event(kind, id) \in Events
  BY DEF Event, Events

LEMMA AccountMade ==
  ASSUME NEW at \in {"loading", "signed_out", "reauthentication_required", "authenticated", "logging_out"}
  PROVE  Account(at) \in Accounts /\ Account(at).at = at /\ Account(at).request = 0
  BY DEF Account, Accounts

\* Which commands a status waits for.
LEMMA CommandsKnown ==
  /\ DOMAIN CommandsOf =
       {"loading", "login_beginning", "repositories_loading", "inspecting", "clone_starting",
        "workspace_inspecting", "preview_loading", "workspace_connecting", "initializing",
        "connecting"}
  /\ CommandsOf["loading"] = {"auth", "restoring auth", "restore"}
  /\ CommandsOf["login_beginning"] = {"begin"}
  /\ CommandsOf["repositories_loading"] = {"list"}
  /\ CommandsOf["inspecting"] = {"inspect"}
  /\ CommandsOf["clone_starting"] = {"clone"}
  /\ CommandsOf["workspace_inspecting"] = {"workspace"}
  /\ CommandsOf["preview_loading"] = {"preview"}
  /\ CommandsOf["workspace_connecting"] = {"connect"}
  /\ CommandsOf["initializing"] = {"initialize"}
  /\ CommandsOf["connecting"] = {"connect"}
  BY DEF CommandsOf

-----------------------------------------------------------------------------
(***************************************************************************)
(* What the user asks for.                                                 *)
(***************************************************************************)

Waits == DOMAIN CommandsOf \cup {"waiting_for_user", "cloning"}
HistoryTyped == picked' \in MaybeCheckout /\ dropped' \in BOOLEAN

LEMMA StatusesKnown ==
  /\ LoggingIn = {"login_beginning", "waiting_for_user"}
  /\ Waits = {"loading", "login_beginning", "repositories_loading", "inspecting", "clone_starting",
              "workspace_inspecting", "preview_loading", "workspace_connecting", "initializing",
              "connecting", "waiting_for_user", "cloning"}
  BY CommandsKnown DEF LoggingIn, Waits

\* The wizard asks for something under a new id, and waits for the answer.
LEMMA AskStep ==
  ASSUME WizardAssumption, WaitsInv, HistoryTyped, RoomForRequest,
         NEW op \in Ops, NEW path \in MaybeCheckout, Call(op, path),
         wizard' \in Wizards, wizard'.request = Fresh,
         wizard'.at \in DOMAIN CommandsOf \ LoggingIn, op \in CommandsOf[wizard'.at],
         UNCHANGED <<account, backendVars>>
  PROVE  WaitsInv'
  <1>. PICK id : id = Fresh
    OBVIOUS
  <1>. PICK new : new = Asked(op, id, path)
    OBVIOUS
  <1>1. /\ id \in Ids /\ \A c \in calls : c.id # id
        /\ new \in Calls /\ new.op = op /\ new.id = id /\ new.answer = "none"
    BY FreshIsFree, AskedMade
  <1>2. calls' = calls \cup {new} /\ UNCHANGED <<account, events, signed, login, clones, saved, refusals>>
    BY DEF Call, backendVars
  <1>3. \A ops, x : UnderWay(ops, x) => UnderWay(ops, x)'
    BY <1>2 DEF UnderWay
  <1>4. TypeOK'
    BY <1>1, <1>2 DEF WaitsInv, TypeOK, HistoryTyped, Calls
  <1>5. TrafficOK'
    BY <1>1, <1>2 DEF WaitsInv, TrafficOK, AnswerOK, AuthAnswers
  <1>6. AcceptedOK'
    <2>. SUFFICES ASSUME NEW c \in calls', c.answer = "ok"
                  PROVE  /\ c.op = "begin" /\ LoginHeard(c.id)' => LoginUnderWay(c.id)'
                         /\ c.op = "clone" /\ CloneAwaited(c.id)' => CloneUnderWay(c.id)'
      BY DEF AcceptedOK
    <2>1. c \in calls /\ c.id # id
      BY <1>1, <1>2
    <2>2. ~LoginAwaited(c.id)' /\ ~CloneAwaited(c.id)'
      BY <2>1 DEF LoginAwaited, CloneAwaited
    <2>3. LoginHeard(c.id)' => LoginHeard(c.id)
      BY <1>2, <2>2 DEF LoginHeard
    <2>4. LoginUnderWay(c.id) => LoginUnderWay(c.id)'
      BY <1>2 DEF LoginUnderWay, OnItsWay
    <2>5. c.op = "begin" /\ LoginHeard(c.id) => LoginUnderWay(c.id)
      BY <2>1 DEF WaitsInv, AcceptedOK
    <2>. QED BY <2>2, <2>3, <2>4, <2>5
  <1>7. AwaitedIsUnderWay'
    <2>1. UnderWay(CommandsOf[wizard.at], wizard.request)'
      BY <1>1, <1>2 DEF UnderWay
    <2>2. wizard'.at \notin {"waiting_for_user", "cloning"}
      BY CommandsKnown
    <2>3. /\ account.at = "login_beginning" => UnderWay({"begin"}, account.request)'
          /\ account.at = "waiting_for_user" => LoginUnderWay(account.request)'
          /\ account.at = "logging_out" => \E c \in calls' : c.op = "logout"
          /\ account.at = "loading" => \E c \in calls' : c.op \in {"auth", "restoring auth"}
      BY <1>2, <1>3 DEF WaitsInv, AwaitedIsUnderWay, LoginUnderWay, OnItsWay
    <2>. QED BY <1>2, <2>1, <2>2, <2>3 DEF AwaitedIsUnderWay
  <1>. QED BY <1>4, <1>5, <1>6, <1>7 DEF WaitsInv

\* The wizard comes to where it waits for nothing.
LEMMA SettleStep ==
  ASSUME WaitsInv, HistoryTyped, wizard' \in Wizards, wizard'.at \notin Waits,
         UNCHANGED <<account, calls, backendVars>>
  PROVE  WaitsInv'
  <1>1. UNCHANGED <<account, calls, events, signed, login, clones, saved, refusals>>
    BY DEF backendVars
  <1>2. TypeOK' /\ TrafficOK'
    BY <1>1, StatusesKnown DEF WaitsInv, TypeOK, TrafficOK, HistoryTyped
  <1>3. AcceptedOK'
    <2>. SUFFICES ASSUME NEW c \in calls', c.answer = "ok"
                  PROVE  /\ c.op = "begin" /\ LoginHeard(c.id)' => LoginUnderWay(c.id)'
                         /\ c.op = "clone" /\ CloneAwaited(c.id)' => CloneUnderWay(c.id)'
      BY DEF AcceptedOK
    <2>1. ~LoginAwaited(c.id)' /\ ~CloneAwaited(c.id)'
      BY StatusesKnown DEF LoginAwaited, CloneAwaited
    <2>2. LoginHeard(c.id)' => LoginHeard(c.id)
      BY <1>1, <2>1 DEF LoginHeard
    <2>3. LoginUnderWay(c.id) => LoginUnderWay(c.id)'
      BY <1>1 DEF LoginUnderWay, OnItsWay
    <2>. QED BY <1>1, <2>1, <2>2, <2>3 DEF WaitsInv, AcceptedOK
  <1>4. AwaitedIsUnderWay'
    <2>1. /\ account.at = "login_beginning" => UnderWay({"begin"}, account.request)'
          /\ account.at = "waiting_for_user" => LoginUnderWay(account.request)'
          /\ account.at = "logging_out" => \E c \in calls' : c.op = "logout"
          /\ account.at = "loading" => \E c \in calls' : c.op \in {"auth", "restoring auth"}
      BY <1>1 DEF WaitsInv, AwaitedIsUnderWay, LoginUnderWay, OnItsWay, UnderWay
    <2>. QED BY <1>1, <2>1 DEF AwaitedIsUnderWay, Waits
  <1>. QED BY <1>2, <1>3, <1>4 DEF WaitsInv

\* A command beside what the wizard does: nothing else waits for another answer.
LEMMA BesideStep ==
  ASSUME WaitsInv, HistoryTyped, NEW new \in Calls, new.answer = "none",
         calls' = calls \cup {new}, UNCHANGED <<wizard, backendVars>>,
         account' = account \/ (account' = Account("logging_out") /\ new.op = "logout")
  PROVE  WaitsInv'
  <1>1. UNCHANGED <<wizard, events, signed, login, clones, saved, refusals>>
    BY DEF backendVars
  <1>2. /\ account' \in Accounts
        /\ account' = account \/ (account'.at = "logging_out" /\ new.op = "logout")
    BY AccountMade DEF WaitsInv, TypeOK
  <1>3. TypeOK'
    BY <1>1, <1>2 DEF WaitsInv, TypeOK, HistoryTyped, Calls
  <1>4. TrafficOK'
    BY <1>1, <1>2, StatusesKnown DEF WaitsInv, TrafficOK, AnswerOK, AuthAnswers
  <1>5. \A x : LoginUnderWay(x) => LoginUnderWay(x)'
    BY <1>1 DEF LoginUnderWay, OnItsWay
  <1>6. AcceptedOK'
    <2>. SUFFICES ASSUME NEW c \in calls', c.answer = "ok"
                  PROVE  /\ c.op = "begin" /\ LoginHeard(c.id)' => LoginUnderWay(c.id)'
                         /\ c.op = "clone" /\ CloneAwaited(c.id)' => CloneUnderWay(c.id)'
      BY DEF AcceptedOK
    <2>1. c \in calls
      OBVIOUS
    <2>2. LoginHeard(c.id)' => LoginHeard(c.id)
      BY <1>1, <1>2, StatusesKnown DEF LoginHeard, LoginAwaited
    <2>3. /\ CloneAwaited(c.id)' => CloneAwaited(c.id)
          /\ CloneUnderWay(c.id) => CloneUnderWay(c.id)'
      BY <1>1 DEF CloneAwaited, CloneUnderWay, OnItsWay
    <2>4. /\ c.op = "begin" /\ LoginHeard(c.id) => LoginUnderWay(c.id)
          /\ c.op = "clone" /\ CloneAwaited(c.id) => CloneUnderWay(c.id)
      BY <2>1 DEF WaitsInv, AcceptedOK
    <2>. QED BY <1>5, <2>2, <2>3, <2>4
  <1>7. AwaitedIsUnderWay'
    <2>1. \A ops, x : UnderWay(ops, x) => UnderWay(ops, x)'
      BY DEF UnderWay
    <2>2. /\ wizard.at \in DOMAIN CommandsOf => UnderWay(CommandsOf[wizard.at], wizard.request)'
          /\ wizard.at = "waiting_for_user" => LoginUnderWay(wizard.request)'
          /\ wizard.at = "cloning" => wizard.request \in clones' \/ OnItsWay(CloneOutcomes, wizard.request)'
      BY <1>1, <1>5, <2>1 DEF WaitsInv, AwaitedIsUnderWay, OnItsWay
    <2>3. /\ account'.at = "login_beginning" => UnderWay({"begin"}, account.request)'
          /\ account'.at = "waiting_for_user" => LoginUnderWay(account.request)'
          /\ account'.at = "logging_out" => \E c \in calls' : c.op = "logout"
          /\ account'.at = "loading" => \E c \in calls' : c.op \in {"auth", "restoring auth"}
      <3>1. CASE account' = account
        BY <1>1, <1>5, <2>1, <3>1 DEF WaitsInv, AwaitedIsUnderWay
      <3>2. CASE account'.at = "logging_out" /\ new.op = "logout"
        BY <3>2
      <3>. QED BY <1>2, <3>1, <3>2
    <2>. QED BY <1>1, <2>2, <2>3 DEF AwaitedIsUnderWay
  <1>. QED BY <1>3, <1>4, <1>6, <1>7 DEF WaitsInv

\* The account, and the wizard unless it is connected, wait for the login that begins.
LEMMA StartLoginStep ==
  ASSUME WizardAssumption, WaitsInv, HistoryTyped, StartLogin
  PROVE  WaitsInv'
  <1>. PICK id : id = Fresh
    OBVIOUS
  <1>. PICK new : new = Asked("begin", id, None)
    OBVIOUS
  <1>0. "begin" \in Ops /\ None \in MaybeCheckout /\ RoomForRequest
    BY DEF StartLogin, Ops, MaybeCheckout
  <1>1. /\ id \in Ids /\ \A c \in calls : c.id # id
        /\ new \in Calls /\ new.op = "begin" /\ new.id = id /\ new.answer = "none"
    BY <1>0, FreshIsFree, AskedMade
  <1>2. calls' = calls \cup {new} /\ UNCHANGED <<events, signed, login, clones, saved, refusals>>
    BY DEF Call, backendVars, StartLogin
  <1>3. /\ account' \in Accounts /\ account'.at = "login_beginning" /\ account'.request = id
        /\ wizard' \in Wizards
        /\ \/ wizard' = wizard /\ wizard.at = "connected"
           \/ wizard'.at = "login_beginning" /\ wizard'.request = id
    BY <1>1, PlainMade DEF StartLogin, Accounts, LoggingIn, WaitsInv, TypeOK, Statuses
  <1>4. TypeOK'
    BY <1>1, <1>2, <1>3 DEF WaitsInv, TypeOK, HistoryTyped, Calls
  <1>5. TrafficOK'
    BY <1>1, <1>2, <1>3, StatusesKnown DEF WaitsInv, TrafficOK, AnswerOK, AuthOps
  <1>6. AcceptedOK'
    <2>. SUFFICES ASSUME NEW c \in calls', c.answer = "ok"
                  PROVE  ~LoginHeard(c.id)' /\ ~CloneAwaited(c.id)'
      BY DEF AcceptedOK
    <2>1. c.id # id
      BY <1>1, <1>2
    <2>. QED BY <1>3, <2>1, StatusesKnown DEF LoginHeard, LoginAwaited, CloneAwaited
  <1>7. AwaitedIsUnderWay'
    <2>1. UnderWay({"begin"}, id)'
      BY <1>1, <1>2 DEF UnderWay
    <2>2. /\ account'.at = "login_beginning" => UnderWay({"begin"}, account.request)'
          /\ account'.at # "waiting_for_user" /\ account'.at # "logging_out" /\ account'.at # "loading"
      BY <1>3, <2>1
    <2>3. CASE wizard'.at = "connected"
      <3>1. wizard'.at \notin DOMAIN CommandsOf
        BY <2>3, CommandsKnown
      <3>. QED BY <2>2, <2>3, <3>1 DEF AwaitedIsUnderWay
    <2>4. CASE wizard'.at = "login_beginning" /\ wizard'.request = id
      <3>1. CommandsOf[wizard'.at] = {"begin"}
        BY <2>4, CommandsKnown
      <3>2. UnderWay(CommandsOf[wizard.at], wizard.request)'
        BY <2>1, <2>4, <3>1 DEF UnderWay
      <3>. QED BY <2>2, <2>4, <3>2 DEF AwaitedIsUnderWay
    <2>. QED BY <1>3, <2>3, <2>4
  <1>. QED BY <1>4, <1>5, <1>6, <1>7 DEF WaitsInv

\* The cancellations name a login that is waited for.
LEMMA CancelCallStep ==
  ASSUME WaitsInv, HistoryTyped, NEW op \in Ops, CancelCall(op),
         account.at \in LoggingIn \/ wizard.at \in LoggingIn
  PROVE  WaitsInv'
  <1>. PICK id : id = LoginRequest
    OBVIOUS
  <1>1. id \in Ids
    BY DEF LoginRequest, WaitsInv, TrafficOK
  <1>2. None \in MaybeCheckout
    BY DEF MaybeCheckout
  <1>. PICK new : new = Asked(op, id, None)
    OBVIOUS
  <1>3. new \in Calls /\ new.answer = "none"
    BY <1>1, <1>2, AskedMade
  <1>4. calls' = calls \cup {new} /\ UNCHANGED <<wizard, account, backendVars>>
    BY DEF CancelCall, windowVars
  <1>. QED BY <1>3, <1>4, BesideStep

LEMMA LogoutStep ==
  ASSUME WizardAssumption, WaitsInv, HistoryTyped, Logout
  PROVE  WaitsInv'
  <1>. PICK new : new = Asked("logout", Fresh, None)
    OBVIOUS
  <1>1. "logout" \in Ops /\ None \in MaybeCheckout /\ Fresh \in Ids
    BY FreshIsFree DEF Ops, MaybeCheckout, Logout
  <1>2. new \in Calls /\ new.answer = "none" /\ new.op = "logout"
    BY <1>1, AskedMade
  <1>3. /\ calls' = calls \cup {new} /\ UNCHANGED <<wizard, backendVars>>
        /\ account' = Account("logging_out")
    BY DEF Logout, Call
  <1>. QED BY <1>2, <1>3, BesideStep

\* A status from which a command is given, and the path it is given with.
LEMMA DoStep ==
  ASSUME WizardAssumption, WaitsInv, HistoryTyped,
         NEW at \in Statuses, NEW op \in Ops, Do(at, op),
         at \in DOMAIN CommandsOf \ LoggingIn, op \in CommandsOf[at]
  PROVE  WaitsInv'
  <1>1. wizard \in Wizards /\ RoomForRequest
    BY DEF WaitsInv, TypeOK, Do
  <1>2. wizard.root \in MaybeCheckout
    BY <1>1 DEF Wizards
  <1>0. Fresh \in Ids \cup {0}
    BY <1>1, FreshIsFree
  <1>3. "none" \in Operations
    BY DEF Operations
  <1>4. Doing(at) \in Wizards /\ Doing(at).at = at /\ Doing(at).request = Fresh
    BY <1>0, <1>1, <1>3 DEF Doing, Wizards
  <1>5. wizard' = Doing(at) /\ Call(op, wizard.root) /\ UNCHANGED <<account, backendVars>>
    BY DEF Do
  <1>. QED BY <1>1, <1>2, <1>4, <1>5, AskStep

LEMMA SeekStep ==
  ASSUME WizardAssumption, WaitsInv, HistoryTyped,
         NEW at \in Statuses, NEW op \in Ops, NEW path \in MaybeCheckout, Seek(at, op, path),
         at \in DOMAIN CommandsOf \ LoggingIn, op \in CommandsOf[at]
  PROVE  WaitsInv'
  <1>1. wizard \in Wizards /\ RoomForRequest
    BY DEF WaitsInv, TypeOK, Seek
  <1>2. Fresh \in Ids \cup {0}
    BY <1>1, FreshIsFree
  <1>3. Plain(at, Fresh) \in Wizards /\ Plain(at, Fresh).at = at /\ Plain(at, Fresh).request = Fresh
    BY <1>1, <1>2, PlainMade
  <1>4. wizard' \in Wizards /\ wizard'.at = at /\ wizard'.request = Fresh
    BY <1>3 DEF Seek, Seeking, Wizards
  <1>5. Call(op, path) /\ UNCHANGED <<account, backendVars>>
    BY DEF Seek
  <1>. QED BY <1>1, <1>4, <1>5, AskStep

LEMMA PickStep ==
  ASSUME WizardAssumption, WaitsInv, HistoryTyped, NEW path \in Checkouts, Pick(path)
  PROVE  WaitsInv'
  <1>1. path \in MaybeCheckout /\ {"inspecting", "clone_starting"} \subseteq Statuses
        /\ {"inspect", "clone"} \subseteq Ops
    BY DEF MaybeCheckout, Statuses, Mutating, Ops
  <1>2. CASE Seek("inspecting", "inspect", path)
    BY <1>1, <1>2, SeekStep, CommandsKnown, StatusesKnown
  <1>3. CASE Seek("clone_starting", "clone", path)
    BY <1>1, <1>3, SeekStep, CommandsKnown, StatusesKnown
  <1>. QED BY <1>2, <1>3 DEF Pick, InspectCheckout, CloneRepository

LEMMA StartReplacementStep ==
  ASSUME WizardAssumption, WaitsInv, HistoryTyped, StartReplacement
  PROVE  WaitsInv'
  <1>1. wizard \in Wizards /\ RoomForRequest /\ "auth" \in Ops /\ None \in MaybeCheckout
    BY DEF WaitsInv, TypeOK, StartReplacement, Ops, AuthOps, MaybeCheckout
  <1>2. Fresh \in Ids
    BY <1>1, FreshIsFree
  <1>3. wizard' \in Wizards /\ wizard'.at = "loading" /\ wizard'.request = Fresh
    <2>1. "loading" \in Statuses /\ wizard.shown \in MaybeCheckout
      BY <1>1 DEF Statuses, Wizards
    <2>. QED BY <1>2, <2>1, BlankMade DEF StartReplacement, Wizards
  <1>4. Call("auth", None) /\ UNCHANGED <<account, backendVars>>
    BY DEF StartReplacement
  <1>. QED BY <1>1, <1>3, <1>4, AskStep, CommandsKnown, StatusesKnown

LEMMA CancelReplacementStep ==
  ASSUME WaitsInv, HistoryTyped, CancelReplacement
  PROVE  WaitsInv'
  <1>1. CASE wizard.at \in LoggingIn
    BY <1>1, CancelCallStep DEF CancelReplacement, Ops
  <1>2. CASE wizard.at \notin LoggingIn
    <2>1. wizard.replaced \in MaybeCheckout
      BY DEF WaitsInv, TypeOK, Wizards
    <2>. QED BY <1>2, <2>1, ConnectedMade, SettleStep, StatusesKnown DEF CancelReplacement
  <1>. QED BY <1>1, <1>2

LEMMA UserStepWaits ==
  ASSUME WizardAssumption, WaitsInv, HistoryTyped, UserSteps
  PROVE  WaitsInv'
  <1>1. {"repositories_loading", "workspace_inspecting", "preview_loading", "initializing",
         "workspace_connecting", "connecting", "local_idle"} \subseteq Statuses
        /\ {"cancel", "list", "workspace", "preview", "initialize", "connect"} \subseteq Ops
    BY DEF Statuses, Mutating, Ops
  <1>2. wizard \in Wizards /\ None \in MaybeCheckout
    BY DEF WaitsInv, TypeOK, MaybeCheckout
  <1>3. CASE StartLogin
    BY <1>3, StartLoginStep
  <1>4. CASE CancelLogin
    BY <1>1, <1>4, CancelCallStep DEF CancelLogin, LoggingIn
  <1>5. CASE Logout
    BY <1>5, LogoutStep
  <1>6. CASE StartReplacement \/ CancelReplacement
    BY <1>6, StartReplacementStep, CancelReplacementStep
  <1>7. CASE LoadRepositories
    BY <1>1, <1>7, DoStep, CommandsKnown, StatusesKnown DEF LoadRepositories
  <1>8. CASE SelectRepository \/ ChoosePostMergeClone
    BY <1>2, <1>8, LocalIdleMade, SettleStep, StatusesKnown DEF SelectRepository, ChoosePostMergeClone
  <1>9. CASE InspectWorkspace
    BY <1>1, <1>9, DoStep, CommandsKnown, StatusesKnown DEF InspectWorkspace
  <1>10. CASE PreviewInitialization
    BY <1>1, <1>10, DoStep, CommandsKnown, StatusesKnown DEF PreviewInitialization
  <1>11. CASE CancelInitializationPreview
    BY <1>1, <1>2, <1>11, ReachedMade, SettleStep, StatusesKnown DEF CancelInitializationPreview
  <1>12. CASE ConfirmInitialization
    BY <1>1, <1>12, DoStep, CommandsKnown, StatusesKnown DEF ConfirmInitialization
  <1>13. CASE ConnectWorkspace
    BY <1>1, <1>13, DoStep, CommandsKnown, StatusesKnown DEF ConnectWorkspace
  <1>. QED BY <1>3, <1>4, <1>5, <1>6, <1>7, <1>8, <1>9, <1>10, <1>11, <1>12, <1>13 DEF UserSteps

-----------------------------------------------------------------------------
(***************************************************************************)
(* What the backend does.                                                  *)
(***************************************************************************)

TrafficTyped ==
  /\ calls' \subseteq Calls /\ events' \subseteq Events
  /\ \A c \in calls' : AnswerOK(c)
  /\ signed' \in BOOLEAN /\ login' \in Ids \cup {0} /\ clones' \subseteq Ids
  /\ saved' \in MaybeCheckout /\ refusals' \in 0..MaxRefusals

\* Nothing that is under way is dropped, and what was accepted is under way.
NothingDropped ==
  /\ \A b \in calls : \E d \in calls' : d.op = b.op /\ d.id = b.id
  /\ \A x \in Ids : LoginUnderWay(x) => LoginUnderWay(x)'
  /\ \A x : CloneUnderWay(x) => CloneUnderWay(x)'
  /\ \A d \in calls' \ calls : d.answer = "ok" =>
       /\ d.op = "begin" => LoginUnderWay(d.id)'
       /\ d.op = "clone" => CloneUnderWay(d.id)'

LEMMA BackendKeepsWaits ==
  ASSUME WaitsInv, HistoryTyped, TrafficTyped, NothingDropped, UNCHANGED windowVars
  PROVE  WaitsInv'
  <1>1. UNCHANGED <<wizard, account>>
    BY DEF windowVars
  <1>2. TypeOK'
    BY <1>1 DEF WaitsInv, TypeOK, HistoryTyped, TrafficTyped, Calls, Events
  <1>3. TrafficOK'
    BY <1>1 DEF WaitsInv, TrafficOK, TrafficTyped
  <1>4. AcceptedOK'
    <2>. SUFFICES ASSUME NEW c \in calls', c.answer = "ok"
                  PROVE  /\ c.op = "begin" /\ LoginHeard(c.id)' => LoginUnderWay(c.id)'
                         /\ c.op = "clone" /\ CloneAwaited(c.id)' => CloneUnderWay(c.id)'
      BY DEF AcceptedOK
    <2>1. CASE c \notin calls
      BY <2>1 DEF NothingDropped
    <2>2. CASE c \in calls
      <3>1. c.id \in Ids
        BY <2>2 DEF WaitsInv, TypeOK
      <3>2. /\ LoginHeard(c.id)' => LoginHeard(c.id)
            /\ CloneAwaited(c.id)' => CloneAwaited(c.id)
        BY <1>1 DEF LoginHeard, LoginAwaited, CloneAwaited
      <3>3. /\ c.op = "begin" /\ LoginHeard(c.id) => LoginUnderWay(c.id)
            /\ c.op = "clone" /\ CloneAwaited(c.id) => CloneUnderWay(c.id)
        BY <2>2 DEF WaitsInv, AcceptedOK
      <3>4. /\ LoginUnderWay(c.id) => LoginUnderWay(c.id)'
            /\ CloneUnderWay(c.id) => CloneUnderWay(c.id)'
        BY <3>1 DEF NothingDropped
      <3>. QED BY <3>2, <3>3, <3>4
    <2>. QED BY <2>1, <2>2
  <1>5. AwaitedIsUnderWay'
    <2>1. \A ops, x : UnderWay(ops, x) => UnderWay(ops, x)'
      BY DEF UnderWay, NothingDropped
    <2>2. /\ wizard.at \in DOMAIN CommandsOf => UnderWay(CommandsOf[wizard.at], wizard.request)'
          /\ account.at = "login_beginning" => UnderWay({"begin"}, account.request)'
      BY <1>1, <2>1 DEF WaitsInv, AwaitedIsUnderWay
    <2>3. wizard.at = "waiting_for_user" => LoginUnderWay(wizard.request)'
      <3>. SUFFICES ASSUME wizard.at = "waiting_for_user" PROVE LoginUnderWay(wizard.request)'
        OBVIOUS
      <3>. PICK x : x = wizard.request
        OBVIOUS
      <3>1. x \in Ids
        BY StatusesKnown DEF WaitsInv, TrafficOK
      <3>2. LoginUnderWay(x)
        BY DEF WaitsInv, AwaitedIsUnderWay
      <3>3. LoginUnderWay(x)'
        BY <3>1, <3>2 DEF NothingDropped
      <3>. QED BY <1>1, <3>3 DEF LoginUnderWay, OnItsWay
    <2>4. account.at = "waiting_for_user" => LoginUnderWay(account.request)'
      <3>. SUFFICES ASSUME account.at = "waiting_for_user" PROVE LoginUnderWay(account.request)'
        OBVIOUS
      <3>. PICK x : x = account.request
        OBVIOUS
      <3>1. x \in Ids
        BY StatusesKnown DEF WaitsInv, TrafficOK
      <3>2. LoginUnderWay(x)
        BY DEF WaitsInv, AwaitedIsUnderWay
      <3>3. LoginUnderWay(x)'
        BY <3>1, <3>2 DEF NothingDropped
      <3>. QED BY <1>1, <3>3 DEF LoginUnderWay, OnItsWay
    <2>5. wizard.at = "cloning" =>
            wizard.request \in clones' \/ OnItsWay(CloneOutcomes, wizard.request)'
      <3>. SUFFICES ASSUME wizard.at = "cloning"
                    PROVE  wizard.request \in clones' \/ OnItsWay(CloneOutcomes, wizard.request)'
        OBVIOUS
      <3>. PICK x : x = wizard.request
        OBVIOUS
      <3>1. CloneUnderWay(x)
        BY DEF WaitsInv, AwaitedIsUnderWay, CloneUnderWay
      <3>2. CloneUnderWay(x)'
        BY <3>1 DEF NothingDropped
      <3>. QED BY <1>1, <3>2 DEF CloneUnderWay, OnItsWay
    <2>6. /\ account.at = "logging_out" => \E c \in calls' : c.op = "logout"
          /\ account.at = "loading" => \E c \in calls' : c.op \in {"auth", "restoring auth"}
      BY DEF WaitsInv, AwaitedIsUnderWay, NothingDropped
    <2>. QED BY <1>1, <2>2, <2>3, <2>4, <2>5, <2>6 DEF AwaitedIsUnderWay
  <1>. QED BY <1>2, <1>3, <1>4, <1>5 DEF WaitsInv

\* The answer takes the place of the command it answers.
LEMMA ServedMade ==
  ASSUME WaitsInv, NEW c \in calls, NEW answer, Served(c, answer)
  PROVE  \E d : /\ calls' = (calls \ {c}) \cup {d} /\ d.op = c.op /\ d.id = c.id /\ d.path = c.path
                /\ d.answer = answer
                /\ answer \in AuthAnswers \cup {"ok"} => d \in Calls
  <1>1. c \in Calls
    BY DEF WaitsInv, TrafficOK
  <1>. PICK d : d = [c EXCEPT !.answer = answer]
    OBVIOUS
  <1>2. /\ d.op = c.op /\ d.id = c.id /\ d.path = c.path /\ d.answer = answer
        /\ answer \in AuthAnswers \cup {"ok"} => d \in Calls
    BY <1>1, AnswerMade
  <1>. QED BY <1>2 DEF Served

\* A command that changes nothing else is served.
LEMMA OnlyServed ==
  ASSUME WaitsInv, NEW c \in calls, NEW d \in Calls, calls' = (calls \ {c}) \cup {d},
         d.op = c.op, d.id = c.id, AnswerOK(d) \/ c.op \notin AuthOps \cup {"workspace"}
  PROVE  /\ calls' \subseteq Calls
         /\ \A b \in calls' : AnswerOK(b)
         /\ \A b \in calls : \E b2 \in calls' : b2.op = b.op /\ b2.id = b.id
         /\ \A b \in calls' \ calls : b = d
  <1>1. calls \subseteq Calls
    BY DEF WaitsInv, TrafficOK
  <1>2. \A b \in calls : AnswerOK(b)
    BY DEF WaitsInv, TrafficOK
  <1>3. AnswerOK(d)
    BY DEF AnswerOK
  <1>. QED BY <1>1, <1>2, <1>3

\* A login that gives way to another one, or to a logout, is told so.
LEMMA LoginsGiveWay ==
  ASSUME login \in Ids \cup {0}, events \subseteq Events,
         events' = events \cup (IF login = 0 THEN {} ELSE {Event("cancelled", login)})
  PROVE  /\ events' \subseteq Events
         /\ \A x \in Ids : LoginUnderWay(x) => LoginUnderWay(x)'
         /\ \A x : OnItsWay(CloneOutcomes, x) => OnItsWay(CloneOutcomes, x)'
  <1>1. events \subseteq events'
    OBVIOUS
  <1>2. login # 0 => Event("cancelled", login) \in events'
    OBVIOUS
  <1>3. events' \subseteq Events
    BY EventMade DEF LoginOutcomes
  <1>4. ASSUME NEW x \in Ids, LoginUnderWay(x) PROVE LoginUnderWay(x)'
    <2>1. CASE login = x
      <3>1. x # 0
        BY DEF Ids
      <3>2. "cancelled" \in LoginOutcomes
        BY DEF LoginOutcomes
      <3>. QED BY <1>2, <2>1, <3>1, <3>2 DEF LoginUnderWay, OnItsWay
    <2>2. CASE OnItsWay(LoginOutcomes, x)
      BY <1>1, <2>2 DEF LoginUnderWay, OnItsWay
    <2>. QED BY <1>4, <2>1, <2>2 DEF LoginUnderWay
  <1>5. \A x : OnItsWay(CloneOutcomes, x) => OnItsWay(CloneOutcomes, x)'
    BY <1>1 DEF OnItsWay
  <1>. QED BY <1>3, <1>4, <1>5

\* What the rest of the types says of the backend.
LEMMA BackendTyped ==
  ASSUME WaitsInv
  PROVE  /\ calls \subseteq Calls /\ events \subseteq Events
         /\ signed \in BOOLEAN /\ login \in Ids \cup {0} /\ clones \subseteq Ids
         /\ saved \in MaybeCheckout /\ refusals \in 0..MaxRefusals
         /\ \A c \in calls : AnswerOK(c)
  BY DEF WaitsInv, TypeOK, TrafficOK

\* Where the events only grow nothing that was on its way is gone.
LEMMA EventsGrow ==
  ASSUME events \subseteq events', UNCHANGED login, clones \subseteq clones'
  PROVE  /\ \A x : LoginUnderWay(x) => LoginUnderWay(x)'
         /\ \A x : CloneUnderWay(x) => CloneUnderWay(x)'
  BY DEF LoginUnderWay, CloneUnderWay, OnItsWay

LEMMA ServeStep ==
  ASSUME WaitsInv, NEW c \in calls, Serve(c)
  PROVE  TrafficTyped /\ NothingDropped
  <1>. DEFINE Right == TrafficTyped /\ NothingDropped
  <1>1. c \in Calls /\ c.id \in Ids /\ c.path \in MaybeCheckout
    BY BackendTyped DEF Calls
  <1>2. ASSUME NEW answer \in AuthAnswers \cup {"ok"}, Served(c, answer),
               c.op \in AuthOps => answer \in AuthAnswers, c.op \notin {"begin", "clone", "workspace"},
               UNCHANGED <<events, login, clones, refusals>>,
               signed' \in BOOLEAN, saved' \in MaybeCheckout
        PROVE  Right
    <2>1. PICK d : /\ calls' = (calls \ {c}) \cup {d} /\ d.op = c.op /\ d.id = c.id
                   /\ d.answer = answer /\ d \in Calls
      BY <1>2, ServedMade
    <2>2. AnswerOK(d)
      BY <1>2, <2>1 DEF AnswerOK
    <2>4. TrafficTyped
      BY <1>2, <2>1, <2>2, OnlyServed, BackendTyped DEF TrafficTyped
    <2>3. NothingDropped
      BY <1>2, <2>1, <2>2, OnlyServed, EventsGrow DEF NothingDropped
    <2>. QED BY <2>3, <2>4
  <1>. HIDE DEF Right
  <1>3. ASSUME ServeAuth(c) PROVE Right
    <2>1. UNCHANGED <<events, signed, login, clones, saved, refusals>>
      BY <1>3 DEF ServeAuth, backendVars
    <2>2. PICK answer \in {"authenticated", "error", "signed_out", "reauthentication_required"} :
            Served(c, answer)
      BY <1>3 DEF ServeAuth
    <2>3. answer \in AuthAnswers /\ c.op \notin {"begin", "clone", "workspace"}
      BY <1>3 DEF AuthAnswers, ServeAuth
    <2>. QED BY <1>2, <2>1, <2>2, <2>3, BackendTyped
  <1>4. ASSUME ServeRestore(c) PROVE Right
    <2>1. UNCHANGED <<events, signed, login, clones, saved, refusals>> /\ c.op = "restore"
      BY <1>4 DEF ServeRestore, backendVars
    <2>2. c.op \notin AuthOps \cup {"workspace"} /\ "error" \in AuthAnswers
      BY <2>1 DEF AuthOps, AuthAnswers
    <2>3. CASE Served(c, "error")
      BY <1>2, <2>1, <2>2, <2>3, BackendTyped
    <2>4. ASSUME NEW path \in {saved, None},
                 calls' = (calls \ {c}) \cup {[c EXCEPT !.answer = "ok", !.path = path]}
          PROVE  Right
      <3>. PICK d : d = [c EXCEPT !.answer = "ok", !.path = path]
        OBVIOUS
      <3>1. path \in MaybeCheckout
        BY BackendTyped DEF MaybeCheckout
      <3>2. d \in Calls /\ d.op = c.op /\ d.id = c.id
        BY <1>1, <3>1 DEF Calls
      <3>3. calls' = (calls \ {c}) \cup {d}
        BY <2>4
      <3>4. TrafficTyped
        BY <2>1, <2>2, <3>2, <3>3, OnlyServed, BackendTyped DEF TrafficTyped
      <3>5. NothingDropped
        BY <2>1, <2>2, <3>2, <3>3, OnlyServed, EventsGrow DEF NothingDropped
      <3>. QED BY <3>4, <3>5 DEF Right
    <2>. QED BY <1>4, <2>3, <2>4 DEF ServeRestore
  <1>5. ASSUME ServeLogout(c) PROVE Right
    <2>1. /\ UNCHANGED <<clones, saved, refusals>> /\ c.op = "logout" /\ login' = 0
          /\ events' = events \cup (IF login = 0 THEN {} ELSE {Event("cancelled", login)})
          /\ signed' \in BOOLEAN
      BY <1>5, BackendTyped DEF ServeLogout
    <2>2. c.op \notin AuthOps \cup {"workspace"} /\ "error" \in AuthAnswers
      BY <2>1 DEF AuthOps, AuthAnswers
    <2>3. PICK answer \in {"ok", "error"} : Served(c, answer)
      BY <1>5 DEF ServeLogout
    <2>4. PICK d : /\ calls' = (calls \ {c}) \cup {d} /\ d.op = c.op /\ d.id = c.id /\ d \in Calls
      BY <2>2, <2>3, ServedMade
    <2>5. TrafficTyped
      BY <2>1, <2>2, <2>4, OnlyServed, LoginsGiveWay, BackendTyped DEF TrafficTyped
    <2>6. \A x : CloneUnderWay(x) => CloneUnderWay(x)'
      BY <2>1, LoginsGiveWay, BackendTyped DEF CloneUnderWay
    <2>7. NothingDropped
      BY <2>1, <2>2, <2>4, <2>6, OnlyServed, LoginsGiveWay, BackendTyped DEF NothingDropped
    <2>. QED BY <2>5, <2>7 DEF Right
  <1>6. ASSUME ServeBegin(c) PROVE Right
    <2>1. UNCHANGED <<signed, clones, saved, refusals>> /\ c.op = "begin"
      BY <1>6 DEF ServeBegin
    <2>2. c.op \notin AuthOps \cup {"workspace"} /\ "error" \in AuthAnswers
      BY <2>1 DEF AuthOps, AuthAnswers
    <2>3. ASSUME Served(c, "ok"), login' = c.id,
                 events' = events \cup (IF login = 0 THEN {} ELSE {Event("cancelled", login)})
          PROVE  Right
      <3>1. PICK d : /\ calls' = (calls \ {c}) \cup {d} /\ d.op = c.op /\ d.id = c.id /\ d \in Calls
        BY <2>2, <2>3, ServedMade
      <3>2. TrafficTyped
        BY <1>1, <2>1, <2>2, <2>3, <3>1, OnlyServed, LoginsGiveWay, BackendTyped DEF TrafficTyped
      <3>3. \A x : CloneUnderWay(x) => CloneUnderWay(x)'
        BY <2>1, <2>3, LoginsGiveWay, BackendTyped DEF CloneUnderWay
      <3>4. LoginUnderWay(c.id)'
        BY <2>3 DEF LoginUnderWay
      <3>5. \A b \in calls' \ calls : b.op = "begin" /\ b.id = c.id
        BY <2>1, <3>1
      <3>6. \A b \in calls' \ calls : LoginUnderWay(b.id)'
        BY <3>4, <3>5
      <3>7. NothingDropped
        BY <2>1, <2>2, <2>3, <3>1, <3>3, <3>5, <3>6, OnlyServed, LoginsGiveWay, BackendTyped
           DEF NothingDropped
      <3>. QED BY <3>2, <3>7 DEF Right
    <2>4. ASSUME Served(c, "error"), UNCHANGED <<login, events>> PROVE Right
      <3>1. PICK d : /\ calls' = (calls \ {c}) \cup {d} /\ d.op = c.op /\ d.id = c.id
                     /\ d.answer = "error" /\ d \in Calls
        BY <2>2, <2>4, ServedMade
      <3>2. TrafficTyped
        BY <2>1, <2>2, <2>4, <3>1, OnlyServed, BackendTyped DEF TrafficTyped
      <3>3. NothingDropped
        BY <2>1, <2>2, <2>4, <3>1, OnlyServed, EventsGrow DEF NothingDropped
      <3>. QED BY <3>2, <3>3 DEF Right
    <2>. QED BY <1>6, <2>3, <2>4 DEF ServeBegin
  <1>7. ASSUME ServeClone(c) PROVE Right
    <2>1. UNCHANGED <<events, signed, login, saved, refusals>> /\ c.op = "clone"
      BY <1>7 DEF ServeClone
    <2>2. c.op \notin AuthOps \cup {"workspace"} /\ "error" \in AuthAnswers
      BY <2>1 DEF AuthOps, AuthAnswers
    <2>3. ASSUME Served(c, "ok"), clones' = clones \cup {c.id} PROVE Right
      <3>1. PICK d : /\ calls' = (calls \ {c}) \cup {d} /\ d.op = c.op /\ d.id = c.id /\ d \in Calls
        BY <2>2, <2>3, ServedMade
      <3>2. TrafficTyped
        BY <1>1, <2>1, <2>2, <2>3, <3>1, OnlyServed, BackendTyped DEF TrafficTyped
      <3>3. \A b \in calls' \ calls : b.op = "clone" /\ b.id \in clones'
        BY <2>1, <2>3, <3>1
      <3>4. NothingDropped
        BY <2>1, <2>2, <2>3, <3>1, <3>3, OnlyServed, EventsGrow DEF NothingDropped, CloneUnderWay
      <3>. QED BY <3>2, <3>4 DEF Right
    <2>4. ASSUME Served(c, "error"), UNCHANGED clones PROVE Right
      <3>1. PICK d : /\ calls' = (calls \ {c}) \cup {d} /\ d.op = c.op /\ d.id = c.id
                     /\ d.answer = "error" /\ d \in Calls
        BY <2>2, <2>4, ServedMade
      <3>2. TrafficTyped
        BY <2>1, <2>2, <2>4, <3>1, OnlyServed, BackendTyped DEF TrafficTyped
      <3>3. NothingDropped
        BY <2>1, <2>2, <2>4, <3>1, OnlyServed, EventsGrow DEF NothingDropped
      <3>. QED BY <3>2, <3>3 DEF Right
    <2>. QED BY <1>7, <2>3, <2>4 DEF ServeClone
  <1>8. ASSUME ServeConnect(c) PROVE Right
    <2>1. UNCHANGED <<events, signed, login, clones, refusals>> /\ c.op = "connect"
          /\ saved' \in MaybeCheckout
      BY <1>1, <1>8, BackendTyped DEF ServeConnect
    <2>2. c.op \notin AuthOps \cup {"begin", "clone", "workspace"} /\ "error" \in AuthAnswers
      BY <2>1 DEF AuthOps, AuthAnswers
    <2>3. CASE Served(c, "ok")
      BY <1>2, <2>1, <2>2, <2>3, BackendTyped
    <2>4. CASE Served(c, "error")
      BY <1>2, <2>1, <2>2, <2>4, BackendTyped
    <2>. QED BY <1>8, <2>3, <2>4 DEF ServeConnect
  <1>9. ASSUME ServeCancel(c) PROVE Right
    <2>1. UNCHANGED <<signed, clones, saved, refusals>> /\ c.op \in {"cancel", "cancel replacement"}
      BY <1>9 DEF ServeCancel
    <2>2. c.op \notin AuthOps \cup {"begin", "clone", "workspace"} /\ "error" \in AuthAnswers
      BY <2>1 DEF AuthOps, AuthAnswers
    <2>3. ASSUME Served(c, "ok"), UNCHANGED <<login, events>> PROVE Right
      BY <1>2, <2>1, <2>2, <2>3, BackendTyped
    <2>4. ASSUME UNCHANGED login \/ (login = c.id /\ login' = 0),
                 events' = events \cup {Event("cancelled", c.id)}
          PROVE  /\ events' \subseteq Events /\ login' \in Ids \cup {0}
                 /\ \A x : LoginUnderWay(x) => LoginUnderWay(x)'
                 /\ \A x : CloneUnderWay(x) => CloneUnderWay(x)'
                 /\ LoginUnderWay(c.id)'
      <3>1. "cancelled" \in LoginOutcomes
        BY DEF LoginOutcomes
      <3>2. LoginUnderWay(c.id)'
        BY <2>4, <3>1 DEF LoginUnderWay, OnItsWay
      <3>3. \A x : LoginUnderWay(x) => LoginUnderWay(x)'
        BY <2>4, <3>2 DEF LoginUnderWay, OnItsWay
      <3>4. \A x : CloneUnderWay(x) => CloneUnderWay(x)'
        BY <2>1, <2>4 DEF CloneUnderWay, OnItsWay
      <3>5. events' \subseteq Events /\ login' \in Ids \cup {0}
        BY <1>1, <2>4, <3>1, EventMade, BackendTyped
      <3>. QED BY <3>2, <3>3, <3>4, <3>5
    <2>5. ASSUME login = c.id, Served(c, "ok"), login' = 0,
                 events' = events \cup {Event("cancelled", c.id)}
          PROVE  Right
      <3>1. PICK d : /\ calls' = (calls \ {c}) \cup {d} /\ d.op = c.op /\ d.id = c.id /\ d \in Calls
        BY <2>2, <2>5, ServedMade
      <3>2. TrafficTyped
        BY <2>1, <2>2, <2>4, <2>5, <3>1, OnlyServed, BackendTyped DEF TrafficTyped
      <3>3. NothingDropped
        BY <2>1, <2>2, <2>4, <2>5, <3>1, OnlyServed DEF NothingDropped
      <3>. QED BY <3>2, <3>3 DEF Right
    <2>6. ASSUME NEW b \in calls, b.op = "begin", b.id = c.id,
                 calls' = (calls \ {b, c})
                   \cup {[b EXCEPT !.answer = "ok"], [c EXCEPT !.answer = "ok"]},
                 events' = events \cup {Event("cancelled", c.id)}, UNCHANGED login
          PROVE  Right
      <3>. PICK d : d = [c EXCEPT !.answer = "ok"]
        OBVIOUS
      <3>. PICK e : e = [b EXCEPT !.answer = "ok"]
        OBVIOUS
      <3>1. b \in Calls /\ "ok" \in AuthAnswers \cup {"ok"}
        BY BackendTyped
      <3>2. /\ d \in Calls /\ d.op = c.op /\ d.id = c.id
            /\ e \in Calls /\ e.op = "begin" /\ e.id = c.id
        BY <1>1, <2>6, <3>1, AnswerMade
      <3>3. calls' = (calls \ {b, c}) \cup {d, e}
        BY <2>6
      <3>4. "begin" \notin AuthOps
        BY DEF AuthOps
      <3>5. TrafficTyped
        <4>1. calls' \subseteq Calls
          BY <3>2, <3>3, BackendTyped
        <4>2. AnswerOK(d) /\ AnswerOK(e)
          BY <2>2, <3>2, <3>4 DEF AnswerOK
        <4>3. \A f \in calls' : AnswerOK(f)
          BY <3>3, <4>2, BackendTyped
        <4>. QED BY <2>1, <2>4, <2>6, <4>1, <4>3, BackendTyped DEF TrafficTyped
      <3>6. \A f \in calls : \E g \in calls' : g.op = f.op /\ g.id = f.id
        BY <2>6, <3>2, <3>3
      <3>7. \A f \in calls' \ calls : f.id = c.id /\ f.op # "clone"
        BY <2>2, <3>2, <3>3
      <3>8. \A f \in calls' \ calls : LoginUnderWay(f.id)'
        BY <2>4, <2>6, <3>7
      <3>9. NothingDropped
        BY <2>4, <2>6, <3>6, <3>7, <3>8 DEF NothingDropped
      <3>. QED BY <3>5, <3>9 DEF Right
    <2>. QED BY <1>9, <2>3, <2>5, <2>6 DEF ServeCancel
  <1>10. Right
    BY <1>3, <1>4, <1>5, <1>6, <1>7, <1>8, <1>9 DEF Serve
  <1>. QED BY <1>10 DEF Right

\* What happens by itself: a login or a clone ends, a command is refused.
LEMMA OwnStep ==
  ASSUME WizardAssumption, WaitsInv, LoginEnds \/ SignInRefused \/ \E id \in clones : CloneEnds(id)
  PROVE  TrafficTyped /\ NothingDropped
  <1>1. UNCHANGED calls =>
          /\ \A b \in calls : \E d \in calls' : d.op = b.op /\ d.id = b.id
          /\ calls' \ calls = {}
    OBVIOUS
  <1>2. CASE LoginEnds
    <2>1. PICK kind \in {"authenticated", "failed"} :
            events' = events \cup {Event(kind, login)} /\ signed' = (signed \/ kind = "authenticated")
      BY <1>2 DEF LoginEnds
    <2>2. /\ UNCHANGED <<calls, clones, saved, refusals>> /\ login' = 0 /\ login # 0
      BY <1>2 DEF LoginEnds
    <2>3. kind \in LoginOutcomes
      BY DEF LoginOutcomes
    <2>4. events' \subseteq Events
      BY <2>1, <2>3, EventMade, BackendTyped
    <2>5. TrafficTyped
      BY <2>1, <2>2, <2>4, BackendTyped DEF TrafficTyped
    <2>6. \A x : LoginUnderWay(x) => LoginUnderWay(x)'
      BY <2>1, <2>2, <2>3 DEF LoginUnderWay, OnItsWay
    <2>7. \A x : CloneUnderWay(x) => CloneUnderWay(x)'
      BY <2>1, <2>2 DEF CloneUnderWay, OnItsWay
    <2>. QED BY <1>1, <2>2, <2>5, <2>6, <2>7 DEF NothingDropped
  <1>3. CASE SignInRefused
    <2>1. /\ UNCHANGED <<calls, login, clones, saved>> /\ refusals < MaxRefusals
          /\ signed' = (signed /\ login # 0) /\ refusals' = refusals + 1
          /\ events' = events \cup {Event("reauthentication_required", 0)}
      BY <1>3 DEF SignInRefused
    <2>2. events' \subseteq Events
      BY <2>1, EventMade, BackendTyped
    <2>3. refusals' \in 0..MaxRefusals
      BY <2>1, BackendTyped DEF WizardAssumption
    <2>4. signed' \in BOOLEAN
      BY <2>1
    <2>5. TrafficTyped
      BY <2>1, <2>2, <2>3, <2>4, BackendTyped DEF TrafficTyped
    <2>. QED BY <1>1, <2>1, <2>5, EventsGrow DEF NothingDropped
  <1>4. ASSUME NEW id \in clones, CloneEnds(id)
        PROVE  TrafficTyped /\ NothingDropped
    <2>1. PICK kind \in CloneOutcomes : events' = events \cup {Event(kind, id)}
      BY <1>4 DEF CloneEnds
    <2>2. UNCHANGED <<calls, signed, login, saved, refusals>> /\ clones' = clones \ {id}
      BY <1>4 DEF CloneEnds
    <2>3. events' \subseteq Events
      BY <2>1, EventMade, BackendTyped
    <2>4. TrafficTyped
      BY <2>2, <2>3, BackendTyped DEF TrafficTyped
    <2>5. \A x : LoginUnderWay(x) => LoginUnderWay(x)'
      BY <2>1, <2>2 DEF LoginUnderWay, OnItsWay
    <2>6. \A x : CloneUnderWay(x) => CloneUnderWay(x)'
      BY <2>1, <2>2 DEF CloneUnderWay, OnItsWay
    <2>. QED BY <1>1, <2>2, <2>4, <2>5, <2>6 DEF NothingDropped
  <1>. QED BY <1>2, <1>3, <1>4

LEMMA BackendStepWaits ==
  ASSUME WizardAssumption, WaitsInv, HistoryTyped, BackendSteps
  PROVE  WaitsInv'
  <1>1. UNCHANGED windowVars
    BY DEF BackendSteps, Serve, LoginEnds, SignInRefused, CloneEnds
  <1>. QED BY <1>1, ServeStep, OwnStep, BackendKeepsWaits DEF BackendSteps

-----------------------------------------------------------------------------
(***************************************************************************)
(* What the window hears.                                                  *)
(***************************************************************************)

\* The wizard does not wait for this answer, or rests, or waits for the end of what began.
WizardKeeps(d) ==
  /\ wizard' = wizard
  /\ ~(wizard.at \in DOMAIN CommandsOf /\ d.op \in CommandsOf[wizard.at] /\ wizard.request = d.id)
WizardRests == wizard' \in Wizards /\ wizard'.at \notin Waits
WizardBegun(d) ==
  /\ LoginAwaited(d.id) /\ LoginUnderWay(d.id)
  /\ wizard' \in Wizards /\ wizard'.at = "waiting_for_user" /\ wizard'.request = d.id
WizardClones(d) ==
  /\ CloneAwaited(d.id) /\ CloneUnderWay(d.id)
  /\ wizard' \in Wizards /\ wizard'.at = "cloning" /\ wizard'.request = d.id

AccountKeeps(d) ==
  /\ account' = account
  /\ ~(account.at = "login_beginning" /\ d.op = "begin" /\ account.request = d.id)
  /\ ~(account.at = "logging_out" /\ d.op = "logout")
  /\ ~(account.at = "loading" /\ d.op \in AuthOps)
AccountRests ==
  account' \in Accounts /\ account'.at \in {"signed_out", "authenticated", "reauthentication_required"}
AccountBegun(d) ==
  /\ account.at \in LoggingIn /\ account.request = d.id /\ LoginUnderWay(d.id)
  /\ account' \in Accounts /\ account'.at = "waiting_for_user" /\ account'.request = d.id

LEMMA AnswerKeepsWaits ==
  ASSUME WaitsInv, HistoryTyped, NEW d, d.id \in Ids, Answered(d), UNCHANGED backendVars,
         WizardKeeps(d) \/ WizardRests \/ WizardBegun(d) \/ WizardClones(d),
         AccountKeeps(d) \/ AccountRests \/ AccountBegun(d)
  PROVE  WaitsInv'
  <1>1. /\ calls' \subseteq calls /\ UNCHANGED <<events, signed, login, clones, saved, refusals>>
        /\ \A b \in calls : b.op # d.op \/ b.id # d.id => b \in calls'
    BY DEF Answered, backendVars
  <1>2. wizard' \in Wizards /\ account' \in Accounts
    BY DEF WaitsInv, TypeOK, WizardKeeps, WizardRests, WizardBegun, WizardClones, AccountKeeps,
           AccountRests, AccountBegun
  <1>3. TypeOK'
    BY <1>1, <1>2 DEF WaitsInv, TypeOK, HistoryTyped
  <1>4. TrafficOK'
    <2>1. wizard'.at \in LoggingIn => wizard'.request \in Ids
      BY StatusesKnown DEF WaitsInv, TrafficOK, WizardKeeps, WizardRests, WizardBegun, WizardClones
    <2>2. account'.at \in LoggingIn => account'.request \in Ids
      BY StatusesKnown DEF WaitsInv, TrafficOK, AccountKeeps, AccountRests, AccountBegun
    <2>. QED BY <1>1, <2>1, <2>2 DEF WaitsInv, TrafficOK
  <1>5. \A x : /\ LoginUnderWay(x) => LoginUnderWay(x)'
               /\ CloneUnderWay(x) => CloneUnderWay(x)'
    BY <1>1 DEF LoginUnderWay, CloneUnderWay, OnItsWay
  <1>6. ASSUME NEW x PROVE LoginAwaited(x)' => LoginAwaited(x)
    BY StatusesKnown DEF LoginAwaited, WizardKeeps, WizardRests, WizardBegun, WizardClones
  <1>7. ASSUME NEW x PROVE CloneAwaited(x)' => CloneAwaited(x)
    BY StatusesKnown DEF CloneAwaited, WizardKeeps, WizardRests, WizardBegun, WizardClones
  <1>8. ASSUME NEW x PROVE LoginHeard(x)' => LoginHeard(x)
    BY <1>6, StatusesKnown DEF LoginHeard, AccountKeeps, AccountRests, AccountBegun
  <1>9. AcceptedOK'
    <2>. SUFFICES ASSUME NEW c \in calls', c.answer = "ok"
                  PROVE  /\ c.op = "begin" /\ LoginHeard(c.id)' => LoginUnderWay(c.id)'
                         /\ c.op = "clone" /\ CloneAwaited(c.id)' => CloneUnderWay(c.id)'
      BY DEF AcceptedOK
    <2>1. /\ c.op = "begin" /\ LoginHeard(c.id) => LoginUnderWay(c.id)
          /\ c.op = "clone" /\ CloneAwaited(c.id) => CloneUnderWay(c.id)
      BY <1>1 DEF WaitsInv, AcceptedOK
    <2>. QED BY <1>5, <1>7, <1>8, <2>1
  <1>10. ASSUME NEW ops, NEW x, UnderWay(ops, x), d.op \notin ops \/ d.id # x
         PROVE  UnderWay(ops, x)'
    BY <1>1, <1>10 DEF UnderWay
  <1>11. /\ wizard'.at \in DOMAIN CommandsOf => UnderWay(CommandsOf[wizard.at], wizard.request)'
         /\ wizard'.at = "waiting_for_user" => LoginUnderWay(wizard.request)'
         /\ wizard'.at = "cloning" => CloneUnderWay(wizard.request)'
    <2>1. CASE WizardKeeps(d)
      BY <1>5, <1>10, <2>1 DEF WizardKeeps, WaitsInv, AwaitedIsUnderWay, CloneUnderWay
    <2>2. CASE WizardRests
      BY <2>2 DEF WizardRests, Waits
    <2>3. CASE WizardBegun(d)
      <3>1. LoginUnderWay(d.id)' /\ wizard'.request = d.id /\ wizard'.at = "waiting_for_user"
        BY <1>5, <2>3 DEF WizardBegun
      <3>2. LoginUnderWay(wizard.request)'
        BY <3>1 DEF LoginUnderWay, OnItsWay
      <3>. QED BY <3>1, <3>2, CommandsKnown
    <2>4. CASE WizardClones(d)
      <3>1. CloneUnderWay(d.id)' /\ wizard'.request = d.id /\ wizard'.at = "cloning"
        BY <1>5, <2>4 DEF WizardClones
      <3>2. CloneUnderWay(wizard.request)'
        BY <3>1 DEF CloneUnderWay, OnItsWay
      <3>. QED BY <3>1, <3>2, CommandsKnown
    <2>. QED BY <2>1, <2>2, <2>3, <2>4
  <1>12. /\ account'.at = "login_beginning" => UnderWay({"begin"}, account.request)'
         /\ account'.at = "waiting_for_user" => LoginUnderWay(account.request)'
         /\ account'.at = "logging_out" => \E c \in calls' : c.op = "logout"
         /\ account'.at = "loading" => \E c \in calls' : c.op \in {"auth", "restoring auth"}
    <2>1. CASE AccountKeeps(d)
      <3>1. account.at = "login_beginning" => UnderWay({"begin"}, account.request)'
        BY <1>10, <2>1 DEF AccountKeeps, WaitsInv, AwaitedIsUnderWay
      <3>2. account.at = "waiting_for_user" => LoginUnderWay(account.request)'
        BY <1>5, <2>1 DEF AccountKeeps, WaitsInv, AwaitedIsUnderWay
      <3>3. account.at = "logging_out" => \E c \in calls' : c.op = "logout"
        BY <1>1, <2>1 DEF AccountKeeps, WaitsInv, AwaitedIsUnderWay
      <3>4. account.at = "loading" => \E c \in calls' : c.op \in {"auth", "restoring auth"}
        BY <1>1, <2>1 DEF AccountKeeps, WaitsInv, AwaitedIsUnderWay, AuthOps
      <3>. QED BY <2>1, <3>1, <3>2, <3>3, <3>4 DEF AccountKeeps
    <2>2. CASE AccountRests
      BY <2>2 DEF AccountRests
    <2>3. CASE AccountBegun(d)
      <3>1. LoginUnderWay(d.id)' /\ account'.request = d.id /\ account'.at = "waiting_for_user"
        BY <1>5, <2>3 DEF AccountBegun
      <3>2. LoginUnderWay(account.request)'
        BY <3>1 DEF LoginUnderWay, OnItsWay
      <3>. QED BY <3>1, <3>2
    <2>. QED BY <2>1, <2>2, <2>3
  <1>13. AwaitedIsUnderWay'
    BY <1>11, <1>12 DEF AwaitedIsUnderWay, CloneUnderWay
  <1>. QED BY <1>3, <1>4, <1>9, <1>13 DEF WaitsInv

\* The answer d to the call c: only what GitHub and the files decide was not answered before.
LEMMA AnswersMade ==
  ASSUME WaitsInv, NEW c \in calls, NEW d \in Answers(c)
  PROVE  /\ d.op = c.op /\ d.id = c.id /\ d.path = c.path /\ d.id \in Ids /\ d.path \in MaybeCheckout
         /\ d.op \in AuthOps \cup {"restore", "begin", "clone", "connect"} => d = c
         /\ d.op \in AuthOps => d.answer \in AuthAnswers \ {"none"}
         /\ d.op = "workspace" => d.answer \in {"ready", "initialization_required", "invalid", "error"}
  <1>1. c \in Calls
    BY BackendTyped
  <1>2. CASE d = c /\ c.answer # "none"
    BY <1>1, <1>2, BackendTyped DEF Calls, AnswerOK
  <1>3. ASSUME NEW answer \in Findings(c.op), d = [c EXCEPT !.answer = answer]
        PROVE  /\ d.op = c.op /\ d.id = c.id /\ d.path = c.path
               /\ d.op \notin AuthOps \cup {"restore", "begin", "clone", "connect"}
               /\ d.op = "workspace" =>
                    d.answer \in {"ready", "initialization_required", "invalid", "error"}
    <2>1. d.op = c.op /\ d.id = c.id /\ d.path = c.path
      BY <1>1, <1>3, AnswerMade
    <2>2. c.op \in {"workspace", "initialize", "list", "inspect", "preview"}
      BY <1>3 DEF Findings
    <2>3. d.answer = answer
      BY <1>1, <1>3, AnswerMade
    <2>4. d.op = "workspace" => answer \in {"ready", "initialization_required", "invalid", "error"}
      BY <1>3, <2>1 DEF Findings
    <2>. QED BY <2>1, <2>2, <2>3, <2>4 DEF AuthOps
  <1>4. c.id \in Ids /\ c.path \in MaybeCheckout
    BY <1>1 DEF Calls
  <1>. QED BY <1>2, <1>3, <1>4 DEF Answers

LEMMA StatusesOf ==
  ASSUME NEW at \in DOMAIN CommandsOf
  PROVE  /\ "list" \in CommandsOf[at] => at = "repositories_loading"
         /\ "inspect" \in CommandsOf[at] => at = "inspecting"
         /\ "clone" \in CommandsOf[at] => at = "clone_starting"
         /\ "workspace" \in CommandsOf[at] => at = "workspace_inspecting"
         /\ "preview" \in CommandsOf[at] => at = "preview_loading"
         /\ "initialize" \in CommandsOf[at] => at = "initializing"
         /\ "connect" \in CommandsOf[at] => at \in {"workspace_connecting", "connecting"}
         /\ "restore" \in CommandsOf[at] => at = "loading"
         /\ "auth" \in CommandsOf[at] => at = "loading"
         /\ "restoring auth" \in CommandsOf[at] => at = "loading"
         /\ "begin" \in CommandsOf[at] => at = "login_beginning"
         /\ "logout" \notin CommandsOf[at] /\ "cancel" \notin CommandsOf[at]
         /\ "cancel replacement" \notin CommandsOf[at]
  BY DEF CommandsOf

\* An answer for the wizard alone, after which it waits for nothing.
LEMMA QuietAnswer ==
  ASSUME WaitsInv, HistoryTyped, NEW d, d.id \in Ids, UNCHANGED backendVars, Quietly(d),
         d.op \notin AuthOps \cup {"begin", "logout"},
         NEW at, NEW next, WizardGoes(d, at, next), Awaits(d, at) => next \in Wizards /\ next.at \notin Waits,
         \A s \in DOMAIN CommandsOf : d.op \in CommandsOf[s] => s = at
  PROVE  WaitsInv'
  <1>1. Answered(d) /\ AccountKeeps(d)
    BY DEF Quietly, AccountKeeps
  <1>2. CASE Awaits(d, at)
    BY <1>1, <1>2, AnswerKeepsWaits DEF WizardGoes, WizardRests
  <1>3. CASE ~Awaits(d, at)
    <2>1. WizardKeeps(d)
      BY <1>3 DEF WizardGoes, WizardKeeps, Awaits
    <2>. QED BY <1>1, <2>1, AnswerKeepsWaits
  <1>. QED BY <1>2, <1>3

LEMMA QuietAnswers ==
  ASSUME WaitsInv, HistoryTyped, NEW d, d.id \in Ids, d.path \in MaybeCheckout, UNCHANGED backendVars,
         d.op = "workspace" => d.answer \in {"ready", "initialization_required", "invalid", "error"},
         RestoreAnswered(d) \/ ListAnswered(d) \/ InspectAnswered(d) \/ WorkspaceAnswered(d)
           \/ PreviewAnswered(d) \/ InitializeAnswered(d)
  PROVE  WaitsInv'
  <1>1. wizard \in Wizards /\ wizard.root \in MaybeCheckout
    BY DEF WaitsInv, TypeOK, Wizards
  <1>2. \A at \in {"auth_error", "repositories_new", "repositories_idle", "repositories_error",
                   "local_error", "validation_failed", "preview", "ready_to_connect",
                   "draft_review", "initialize_error", "local_idle", "connected"} :
          at \in Statuses /\ at \notin Waits
    BY StatusesKnown DEF Statuses, Errors
  <1>3. \A operation \in {"inspection", "repository", "preview", "initialization"} :
          operation \in Operations
    BY DEF Operations
  <1>4. CASE RestoreAnswered(d)
    <2>. DEFINE next == IF d.answer = "error" THEN Plain("auth_error", 0)
                        ELSE IF d.path # None THEN Connected(d.path)
                        ELSE Plain("repositories_new", 0)
    <2>1. next \in Wizards /\ next.at \in {"auth_error", "connected", "repositories_new"}
      BY <1>1, <1>2, PlainMade, ConnectedMade
    <2>2. next.at \notin Waits
      BY <1>2, <2>1
    <2>3. WizardGoes(d, "loading", next) /\ Quietly(d) /\ d.op = "restore"
      BY <1>4 DEF RestoreAnswered
    <2>4. d.op \notin AuthOps \cup {"begin", "logout"}
      BY <2>3 DEF AuthOps
    <2>5. \A s \in DOMAIN CommandsOf : d.op \in CommandsOf[s] => s = "loading"
      BY <2>3, StatusesOf
    <2>. HIDE DEF next
    <2>. QED BY <2>1, <2>2, <2>3, <2>4, <2>5, QuietAnswer
  <1>5. CASE ListAnswered(d)
    <2>. DEFINE next == Plain(IF d.answer = "ok" THEN "repositories_idle" ELSE "repositories_error", 0)
    <2>1. next \in Wizards /\ next.at \in {"repositories_idle", "repositories_error"}
      BY <1>1, <1>2, PlainMade
    <2>2. next.at \notin Waits
      BY <1>2, <2>1
    <2>3. WizardGoes(d, "repositories_loading", next) /\ Quietly(d) /\ d.op = "list"
      BY <1>5 DEF ListAnswered
    <2>4. d.op \notin AuthOps \cup {"begin", "logout"}
      BY <2>3 DEF AuthOps
    <2>5. \A s \in DOMAIN CommandsOf : d.op \in CommandsOf[s] => s = "repositories_loading"
      BY <2>3, StatusesOf
    <2>. HIDE DEF next
    <2>. QED BY <2>1, <2>2, <2>3, <2>4, <2>5, QuietAnswer
  <1>6. CASE InspectAnswered(d)
    <2>. DEFINE next == IF d.answer = "ok" THEN LocalIdle(d.path, "none")
                        ELSE Failing("local_error", "inspection")
    <2>1. next \in Wizards /\ next.at \in {"local_idle", "local_error"}
      BY <1>1, <1>2, <1>3, LocalIdleMade, FailingMade
    <2>2. next.at \notin Waits
      BY <1>2, <2>1
    <2>3. WizardGoes(d, "inspecting", next) /\ Quietly(d) /\ d.op = "inspect"
      BY <1>6 DEF InspectAnswered
    <2>4. d.op \notin AuthOps \cup {"begin", "logout"}
      BY <2>3 DEF AuthOps
    <2>5. \A s \in DOMAIN CommandsOf : d.op \in CommandsOf[s] => s = "inspecting"
      BY <2>3, StatusesOf
    <2>. HIDE DEF next
    <2>. QED BY <2>1, <2>2, <2>3, <2>4, <2>5, QuietAnswer
  <1>7. CASE WorkspaceAnswered(d)
    <2>. DEFINE next == CASE d.answer = "error" -> Failing("local_error", "repository")
                          [] d.answer = "invalid" -> Reached("validation_failed")
                          [] OTHER -> LocalIdle(wizard.root, d.answer)
    <2>0. d.answer \in {"error", "invalid"} \/ d.answer \in {"ready", "initialization_required"}
      BY <1>7 DEF WorkspaceAnswered
    <2>1. next \in Wizards /\ next.at \in {"local_idle", "local_error", "validation_failed"}
      BY <1>1, <1>2, <1>3, <2>0, LocalIdleMade, FailingMade, ReachedMade
    <2>2. next.at \notin Waits
      BY <1>2, <2>1
    <2>3. WizardGoes(d, "workspace_inspecting", next) /\ Quietly(d) /\ d.op = "workspace"
      BY <1>7 DEF WorkspaceAnswered
    <2>4. d.op \notin AuthOps \cup {"begin", "logout"}
      BY <2>3 DEF AuthOps
    <2>5. \A s \in DOMAIN CommandsOf : d.op \in CommandsOf[s] => s = "workspace_inspecting"
      BY <2>3, StatusesOf
    <2>. HIDE DEF next
    <2>. QED BY <2>1, <2>2, <2>3, <2>4, <2>5, QuietAnswer
  <1>8. CASE PreviewAnswered(d)
    <2>. DEFINE next == IF d.answer = "ok" THEN Reached("preview") ELSE Failing("local_error", "preview")
    <2>1. next \in Wizards /\ next.at \in {"preview", "local_error"}
      BY <1>1, <1>2, <1>3, FailingMade, ReachedMade
    <2>2. next.at \notin Waits
      BY <1>2, <2>1
    <2>3. WizardGoes(d, "preview_loading", next) /\ Quietly(d) /\ d.op = "preview"
      BY <1>8 DEF PreviewAnswered
    <2>4. d.op \notin AuthOps \cup {"begin", "logout"}
      BY <2>3 DEF AuthOps
    <2>5. \A s \in DOMAIN CommandsOf : d.op \in CommandsOf[s] => s = "preview_loading"
      BY <2>3, StatusesOf
    <2>. HIDE DEF next
    <2>. QED BY <2>1, <2>2, <2>3, <2>4, <2>5, QuietAnswer
  <1>9. CASE InitializeAnswered(d)
    <2>. DEFINE next == CASE d.answer = "pushed" -> Reached("ready_to_connect")
                          [] d.answer = "drafted" -> Reached("draft_review")
                          [] d.answer = "changed" -> Failing("local_error", "preview")
                          [] OTHER -> Failing("initialize_error", "initialization")
    <2>1. next \in Wizards
          /\ next.at \in {"ready_to_connect", "draft_review", "local_error", "initialize_error"}
      BY <1>1, <1>2, <1>3, FailingMade, ReachedMade
    <2>2. next.at \notin Waits
      BY <1>2, <2>1
    <2>3. WizardGoes(d, "initializing", next) /\ Quietly(d) /\ d.op = "initialize"
      BY <1>9 DEF InitializeAnswered
    <2>4. d.op \notin AuthOps \cup {"begin", "logout"}
      BY <2>3 DEF AuthOps
    <2>5. \A s \in DOMAIN CommandsOf : d.op \in CommandsOf[s] => s = "initializing"
      BY <2>3, StatusesOf
    <2>. HIDE DEF next
    <2>. QED BY <2>1, <2>2, <2>3, <2>4, <2>5, QuietAnswer
  <1>. QED BY <1>4, <1>5, <1>6, <1>7, <1>8, <1>9

\* The answer to the start of a clone, which goes on by itself.
LEMMA CloneAnswer ==
  ASSUME WaitsInv, HistoryTyped, NEW d \in calls, UNCHANGED backendVars, CloneAnswered(d)
  PROVE  WaitsInv'
  <1>1. d.op = "clone" /\ Answered(d) /\ account' = account /\ d.id \in Ids /\ wizard \in Wizards
    BY DEF CloneAnswered, Quietly, WaitsInv, TypeOK
  <1>2. AccountKeeps(d)
    BY <1>1 DEF AccountKeeps, AuthOps
  <1>3. CASE ~Awaits(d, "clone_starting")
    <2>1. WizardKeeps(d)
      BY <1>1, <1>3, StatusesOf DEF CloneAnswered, WizardGoes, WizardKeeps, Awaits
    <2>. QED BY <1>1, <1>2, <2>1, AnswerKeepsWaits
  <1>4. CASE Awaits(d, "clone_starting") /\ d.answer = "ok"
    <2>1. wizard' = [wizard EXCEPT !.at = "cloning"] /\ "cloning" \in Statuses
      BY <1>4 DEF CloneAnswered, WizardGoes, Statuses, Mutating
    <2>2. wizard' \in Wizards /\ wizard'.at = "cloning" /\ wizard'.request = d.id
      BY <1>1, <1>4, <2>1 DEF Wizards, Awaits
    <2>3. CloneAwaited(d.id)
      BY <1>4 DEF Awaits, CloneAwaited
    <2>4. CloneUnderWay(d.id)
      BY <1>1, <1>4, <2>3 DEF WaitsInv, AcceptedOK
    <2>. QED BY <1>1, <1>2, <2>2, <2>3, <2>4, AnswerKeepsWaits DEF WizardClones
  <1>5. CASE Awaits(d, "clone_starting") /\ d.answer # "ok"
    <2>1. "local_error" \in Statuses /\ "clone" \in Operations /\ "local_error" \notin Waits
      BY StatusesKnown DEF Statuses, Errors, Operations
    <2>2. WizardRests
      BY <1>1, <1>5, <2>1, FailingMade DEF CloneAnswered, WizardGoes, WizardRests
    <2>. QED BY <1>1, <1>2, <2>2, AnswerKeepsWaits
  <1>. QED BY <1>3, <1>4, <1>5

LEMMA ConnectAnswer ==
  ASSUME WaitsInv, HistoryTyped, NEW d \in calls, UNCHANGED backendVars, ConnectAnswered(d)
  PROVE  WaitsInv'
  <1>1. /\ d.op = "connect" /\ Answered(d) /\ account' = account /\ wizard \in Wizards
        /\ d.id \in Ids /\ d.path \in MaybeCheckout
    BY DEF ConnectAnswered, Quietly, WaitsInv, TypeOK
  <1>2. AccountKeeps(d)
    BY <1>1 DEF AccountKeeps, AuthOps
  <1>3. CASE ~(Awaits(d, "workspace_connecting") \/ Awaits(d, "connecting"))
    <2>1. WizardKeeps(d)
      BY <1>1, <1>3, StatusesOf DEF ConnectAnswered, WizardKeeps, Awaits
    <2>. QED BY <1>1, <1>2, <2>1, AnswerKeepsWaits
  <1>4. CASE Awaits(d, "workspace_connecting") \/ Awaits(d, "connecting")
    <2>1. \A at \in {"local_error", "initialize_error", "connected"} : at \in Statuses /\ at \notin Waits
      BY StatusesKnown DEF Statuses, Errors
    <2>2. "connection" \in Operations
      BY DEF Operations
    <2>3. WizardRests
      BY <1>1, <1>4, <2>1, <2>2, FailingMade, ConnectedMade DEF ConnectAnswered, WizardRests
    <2>. QED BY <1>1, <1>2, <2>3, AnswerKeepsWaits
  <1>. QED BY <1>3, <1>4

\* The begin of a login is answered: both who wait for it wait on, or give up.
LEMMA BeginAnswer ==
  ASSUME WaitsInv, HistoryTyped, NEW d \in calls, UNCHANGED backendVars, BeginAnswered(d)
  PROVE  WaitsInv'
  <1>1. d.op = "begin" /\ Answered(d) /\ d.id \in Ids /\ wizard \in Wizards /\ account \in Accounts
    BY DEF BeginAnswered, WaitsInv, TypeOK
  <1>2. "login_beginning" \in LoggingIn /\ "waiting_for_user" \in LoggingIn
        /\ "waiting_for_user" \in Statuses /\ "auth_error" \in Statuses /\ "auth_error" \notin Waits
    BY StatusesKnown DEF Statuses, Errors
  <1>3. d.answer = "ok" /\ LoginHeard(d.id) => LoginUnderWay(d.id)
    BY <1>1 DEF WaitsInv, AcceptedOK
  <1>4. WizardKeeps(d) \/ WizardRests \/ WizardBegun(d)
    <2>1. CASE ~Awaits(d, "login_beginning")
      BY <1>1, <2>1, StatusesOf DEF BeginAnswered, WizardGoes, WizardKeeps, Awaits
    <2>2. CASE Awaits(d, "login_beginning") /\ d.answer # "ok"
      BY <1>1, <1>2, <2>2, PlainMade DEF BeginAnswered, WizardGoes, WizardRests
    <2>3. CASE Awaits(d, "login_beginning") /\ d.answer = "ok"
      <3>1. LoginAwaited(d.id) /\ LoginUnderWay(d.id)
        BY <1>2, <1>3, <2>3 DEF LoginAwaited, LoginHeard, Awaits
      <3>2. Plain("waiting_for_user", d.id) \in Wizards
            /\ Plain("waiting_for_user", d.id).at = "waiting_for_user"
            /\ Plain("waiting_for_user", d.id).request = d.id
        BY <1>1, <1>2, PlainMade
      <3>. QED BY <2>3, <3>1, <3>2 DEF BeginAnswered, WizardGoes, WizardBegun
    <2>. QED BY <2>1, <2>2, <2>3
  <1>5. AccountKeeps(d) \/ AccountRests \/ AccountBegun(d)
    <2>. DEFINE waiting == [at |-> "login_beginning", request |-> d.id]
    <2>1. CASE account # waiting
      <3>1. account' = account
        BY <2>1 DEF BeginAnswered
      <3>2. account.at = "login_beginning" => account.request # d.id
        BY <1>1, <2>1 DEF Accounts
      <3>. QED BY <1>1, <3>1, <3>2 DEF AccountKeeps, AuthOps
    <2>2. CASE account = waiting /\ d.answer # "ok"
      <3>1. account' = Account("signed_out")
        BY <2>2 DEF BeginAnswered
      <3>. QED BY <3>1, AccountMade DEF AccountRests
    <2>3. CASE account = waiting /\ d.answer = "ok"
      <3>1. account' = [waiting EXCEPT !.at = "waiting_for_user"]
        BY <2>3 DEF BeginAnswered
      <3>2. account.at = "login_beginning" /\ account.request = d.id
        BY <2>3
      <3>3. LoginUnderWay(d.id)
        BY <1>2, <1>3, <2>3, <3>2 DEF LoginHeard
      <3>4. account' \in Accounts /\ account'.at = "waiting_for_user" /\ account'.request = d.id
        BY <1>1, <1>2, <3>1 DEF Accounts
      <3>. QED BY <1>2, <3>2, <3>3, <3>4 DEF AccountBegun
    <2>. QED BY <2>1, <2>2, <2>3
  <1>. QED BY <1>1, <1>4, <1>5, AnswerKeepsWaits

LEMMA LogoutAnswer ==
  ASSUME WaitsInv, HistoryTyped, NEW d, d.id \in Ids, UNCHANGED backendVars, LogoutAnswered(d)
  PROVE  WaitsInv'
  <1>1. d.op = "logout" /\ Answered(d)
    BY DEF LogoutAnswered
  <1>2. WizardKeeps(d) \/ WizardRests
    <2>1. "idle" \notin Waits
      BY StatusesKnown
    <2>. QED BY <1>1, <2>1, BlankMade, StatusesOf DEF LogoutAnswered, WizardKeeps, WizardRests
  <1>3. AccountKeeps(d) \/ AccountRests
    <2>1. d.op \notin AuthOps
      BY <1>1 DEF AuthOps
    <2>. QED BY <1>1, <2>1, AccountMade DEF LogoutAnswered, AccountKeeps, AccountRests
  <1>. QED BY <1>1, <1>2, <1>3, AnswerKeepsWaits

\* A cancellation is told to both, whatever the backend made of it.
LEMMA CancelAnswer ==
  ASSUME WaitsInv, HistoryTyped, NEW d, d.id \in Ids, UNCHANGED backendVars, CancelAnswered(d)
  PROVE  WaitsInv'
  <1>1. d.op \in {"cancel", "cancel replacement"} /\ Answered(d) /\ wizard \in Wizards
    BY DEF CancelAnswered, WaitsInv, TypeOK
  <1>2. WizardKeeps(d) \/ WizardRests
    <2>1. "idle" \in Statuses /\ "idle" \notin Waits /\ "connected" \notin Waits
      BY StatusesKnown DEF Statuses
    <2>2. wizard.replaced \in MaybeCheckout
      BY <1>1 DEF Wizards
    <2>3. Plain("idle", 0) \in Wizards /\ Plain("idle", 0).at = "idle"
      BY <1>1, <2>1, PlainMade
    <2>4. wizard' \in {Connected(wizard.replaced), Plain("idle", 0), wizard}
      BY DEF CancelAnswered
    <2>5. wizard' = wizard => WizardKeeps(d)
      BY <1>1, StatusesOf DEF WizardKeeps
    <2>. QED BY <2>1, <2>2, <2>3, <2>4, <2>5, ConnectedMade DEF WizardRests
  <1>3. AccountKeeps(d) \/ AccountRests
    <2>1. Event("cancelled", d.id).kind = "cancelled"
      BY EventMade
    <2>2. account' \in {account, Account("signed_out")}
      BY <2>1 DEF CancelAnswered, AccountHears
    <2>3. d.op \notin AuthOps
      BY <1>1 DEF AuthOps
    <2>. QED BY <1>1, <2>2, <2>3, AccountMade DEF AccountKeeps, AccountRests
  <1>. QED BY <1>1, <1>2, <1>3, AnswerKeepsWaits

\* What is known of the account is told to it; the wizard may go on to the saved workspace,
\* under the same id.
LEMMA AuthAnswer ==
  ASSUME WaitsInv, HistoryTyped, NEW d \in calls, d.answer \in AuthAnswers \ {"none"},
         UNCHANGED backendVars, AuthAnswered(d)
  PROVE  WaitsInv'
  <1>1. d.op \in AuthOps /\ d.id \in Ids /\ wizard \in Wizards
    BY DEF AuthAnswered, AuthOps, WaitsInv, TypeOK
  <1>2. AccountRests
    <2>1. account' \in {Account("signed_out"), Account("authenticated"),
                        Account("reauthentication_required")}
      BY DEF AuthAnswered, AuthAnswers
    <2>. QED BY <2>1, AccountMade DEF AccountRests
  <1>3. CASE ~(d.op = "restoring auth" /\ d.answer = "authenticated")
    <2>. DEFINE at == CASE d.answer = "authenticated" -> "repositories_new"
                        [] d.answer = "error" -> "auth_error"
                        [] d.answer = "signed_out" -> "idle"
                        [] OTHER -> "reauthentication_required"
    <2>1. at \in {"repositories_new", "auth_error", "idle", "reauthentication_required"}
      OBVIOUS
    <2>2. Answered(d) /\ WizardGoes(d, "loading", Plain(at, 0))
      BY <1>3 DEF AuthAnswered
    <2>. HIDE DEF at
    <2>3. at \in Statuses /\ at \notin Waits
      BY <2>1, StatusesKnown DEF Statuses, Errors
    <2>4. Plain(at, 0) \in Wizards /\ Plain(at, 0).at = at
      BY <1>1, <2>3, PlainMade
    <2>5. \A s \in DOMAIN CommandsOf : d.op \in CommandsOf[s] => s = "loading"
      BY <1>1, StatusesOf DEF AuthOps
    <2>6. WizardKeeps(d) \/ WizardRests
      BY <2>2, <2>3, <2>4, <2>5 DEF WizardGoes, WizardKeeps, WizardRests, Awaits
    <2>. QED BY <1>1, <1>2, <2>2, <2>6, AnswerKeepsWaits
  <1>4. CASE d.op = "restoring auth" /\ d.answer = "authenticated"
    <2>. PICK id : id = d.id
      OBVIOUS
    <2>. PICK new : new = Asked("restore", id, None)
      OBVIOUS
    <2>1. calls' = (calls \ {d}) \cup {new} /\ wizard' = wizard
      BY <1>4 DEF AuthAnswered
    <2>2. UNCHANGED <<events, signed, login, clones, saved, refusals>>
      BY DEF backendVars
    <2>3. "restore" \in Ops /\ None \in MaybeCheckout
      BY DEF Ops, MaybeCheckout
    <2>4. new \in Calls /\ new.op = "restore" /\ new.id = id /\ new.answer = "none"
      BY <1>1, <2>3, AskedMade
    <2>5. AnswerOK(new)
      BY <2>4 DEF AnswerOK, AuthOps
    <2>6. TypeOK'
      BY <1>2, <2>1, <2>2, <2>4 DEF WaitsInv, TypeOK, HistoryTyped, Calls, AccountRests
    <2>7. TrafficOK'
      <3>1. account'.at \notin LoggingIn
        BY <1>2, StatusesKnown DEF AccountRests
      <3>. QED BY <2>1, <2>2, <2>4, <2>5, <3>1 DEF WaitsInv, TrafficOK
    <2>8. AcceptedOK'
      <3>. SUFFICES ASSUME NEW c \in calls', c.answer = "ok"
                    PROVE  /\ c.op = "begin" /\ LoginHeard(c.id)' => LoginUnderWay(c.id)'
                           /\ c.op = "clone" /\ CloneAwaited(c.id)' => CloneUnderWay(c.id)'
        BY DEF AcceptedOK
      <3>1. c \in calls
        BY <2>1, <2>4
      <3>2. account'.at \notin LoggingIn
        BY <1>2, StatusesKnown DEF AccountRests
      <3>3. /\ LoginHeard(c.id)' => LoginHeard(c.id)
            /\ CloneAwaited(c.id)' => CloneAwaited(c.id)
        BY <2>1, <3>2 DEF LoginHeard, LoginAwaited, CloneAwaited
      <3>4. /\ LoginUnderWay(c.id) => LoginUnderWay(c.id)'
            /\ CloneUnderWay(c.id) => CloneUnderWay(c.id)'
        BY <2>2 DEF LoginUnderWay, CloneUnderWay, OnItsWay
      <3>5. /\ c.op = "begin" /\ LoginHeard(c.id) => LoginUnderWay(c.id)
            /\ c.op = "clone" /\ CloneAwaited(c.id) => CloneUnderWay(c.id)
        BY <3>1 DEF WaitsInv, AcceptedOK
      <3>. QED BY <3>3, <3>4, <3>5
    <2>9. wizard.at \in DOMAIN CommandsOf => UnderWay(CommandsOf[wizard.at], wizard.request)'
      <3>. SUFFICES ASSUME wizard.at \in DOMAIN CommandsOf
                    PROVE  UnderWay(CommandsOf[wizard.at], wizard.request)'
        OBVIOUS
      <3>1. PICK c \in calls : c.op \in CommandsOf[wizard.at] /\ c.id = wizard.request
        BY DEF WaitsInv, AwaitedIsUnderWay, UnderWay
      <3>2. CASE c # d
        BY <2>1, <3>1, <3>2 DEF UnderWay
      <3>3. CASE c = d
        <4>1. wizard.at = "loading"
          BY <1>4, <3>1, <3>3, StatusesOf
        <4>2. "restore" \in CommandsOf[wizard.at]
          BY <4>1, CommandsKnown
        <4>3. new \in calls' /\ new.op \in CommandsOf[wizard.at] /\ new.id = wizard.request
          BY <2>1, <2>4, <3>1, <3>3, <4>2
        <4>. QED BY <2>1, <4>3 DEF UnderWay
      <3>. QED BY <3>2, <3>3
    <2>10. /\ wizard.at = "waiting_for_user" => LoginUnderWay(wizard.request)'
           /\ wizard.at = "cloning" =>
                wizard.request \in clones' \/ OnItsWay(CloneOutcomes, wizard.request)'
      BY <2>1, <2>2 DEF WaitsInv, AwaitedIsUnderWay, LoginUnderWay, OnItsWay
    <2>11. AwaitedIsUnderWay'
      BY <1>2, <2>1, <2>9, <2>10 DEF AwaitedIsUnderWay, AccountRests
    <2>. QED BY <2>6, <2>7, <2>8, <2>11 DEF WaitsInv
  <1>. QED BY <1>3, <1>4

\* Whichever answer arrives.
LEMMA ReceiveWaits ==
  ASSUME WaitsInv, HistoryTyped, NEW c \in calls, NEW d \in Answers(c), Receive(d)
  PROVE  WaitsInv'
  <1>1. d.id \in Ids /\ d.path \in MaybeCheckout /\ UNCHANGED backendVars
    BY AnswersMade DEF Receive
  <1>2. CASE AuthAnswered(d)
    <2>1. d.op \in AuthOps
      BY <1>2 DEF AuthAnswered, AuthOps
    <2>2. d = c /\ d.answer \in AuthAnswers \ {"none"}
      BY <2>1, AnswersMade
    <2>. QED BY <1>1, <1>2, <2>2, AuthAnswer
  <1>3. CASE BeginAnswered(d)
    <2>1. d = c
      BY <1>3, AnswersMade DEF BeginAnswered
    <2>. QED BY <1>1, <1>3, <2>1, BeginAnswer
  <1>4. CASE CloneAnswered(d)
    <2>1. d = c
      BY <1>4, AnswersMade DEF CloneAnswered
    <2>. QED BY <1>1, <1>4, <2>1, CloneAnswer
  <1>5. CASE ConnectAnswered(d)
    <2>1. d = c
      BY <1>5, AnswersMade DEF ConnectAnswered
    <2>. QED BY <1>1, <1>5, <2>1, ConnectAnswer
  <1>6. CASE LogoutAnswered(d) \/ CancelAnswered(d)
    BY <1>1, <1>6, LogoutAnswer, CancelAnswer
  <1>7. CASE RestoreAnswered(d) \/ ListAnswered(d) \/ InspectAnswered(d) \/ WorkspaceAnswered(d)
               \/ PreviewAnswered(d) \/ InitializeAnswered(d)
    BY <1>1, <1>7, AnswersMade, QuietAnswers
  <1>. QED BY <1>2, <1>3, <1>4, <1>5, <1>6, <1>7 DEF Receive

\* The wizard, and the account, that hear of the event leave the state in which they wait for it.
WizardMisses(e) ==
  /\ wizard' = wizard
  /\ ~(e.kind \in LoginOutcomes /\ LoginAwaited(e.id))
  /\ ~(e.kind \in CloneOutcomes /\ CloneAwaited(e.id))
AccountMisses(e) ==
  /\ account' = account
  /\ ~(e.kind \in LoginOutcomes /\ account.at \in LoggingIn /\ account.request = e.id)

\* The wizard goes on to ask for the saved workspace.
WizardRestores ==
  \E c \in Calls :
    /\ c.op = "restore" /\ c.answer = "none" /\ calls' = calls \cup {c}
    /\ wizard' \in Wizards /\ wizard'.at = "loading" /\ wizard'.request = c.id

LEMMA EventKeepsWaits ==
  ASSUME WaitsInv, HistoryTyped, NEW e \in events, events' = events \ {e},
         UNCHANGED <<signed, login, clones, saved, refusals>>,
         \/ (WizardMisses(e) \/ WizardRests) /\ UNCHANGED calls
         \/ WizardRestores,
         AccountMisses(e) \/ AccountRests
  PROVE  WaitsInv'
  <1>1. wizard' \in Wizards /\ account' \in Accounts
    BY DEF WizardMisses, WizardRests, WizardRestores, AccountMisses, AccountRests, WaitsInv, TypeOK
  <1>2. /\ calls \subseteq calls' /\ calls' \subseteq Calls
        /\ \A c \in calls' : AnswerOK(c)
        /\ \A c \in calls' : c \in calls \/ c.answer = "none"
    <2>1. CASE UNCHANGED calls
      BY <2>1, BackendTyped
    <2>2. CASE WizardRestores
      <3>1. PICK c \in Calls : c.op = "restore" /\ c.answer = "none" /\ calls' = calls \cup {c}
        BY <2>2 DEF WizardRestores
      <3>2. AnswerOK(c)
        BY <3>1 DEF AnswerOK, AuthOps
      <3>. QED BY <3>1, <3>2, BackendTyped
    <2>. QED BY <2>1, <2>2
  <1>3. TypeOK'
    BY <1>1, <1>2 DEF WaitsInv, TypeOK, HistoryTyped, Calls
  <1>4. TrafficOK'
    <2>1. wizard'.at \in LoggingIn => wizard'.request \in Ids
      BY StatusesKnown DEF WaitsInv, TrafficOK, WizardMisses, WizardRests, WizardRestores
    <2>2. account'.at \in LoggingIn => account'.request \in Ids
      BY StatusesKnown DEF WaitsInv, TrafficOK, AccountMisses, AccountRests
    <2>. QED BY <1>2, <2>1, <2>2, BackendTyped DEF TrafficOK
  <1>5. LoginOutcomes \cap CloneOutcomes = {}
    BY DEF LoginOutcomes, CloneOutcomes
  <1>6. ASSUME NEW x, ~(e.kind \in LoginOutcomes /\ e.id = x)
        PROVE  LoginUnderWay(x) => LoginUnderWay(x)'
    <2>1. ASSUME NEW kind \in LoginOutcomes, Event(kind, x) \in events PROVE Event(kind, x) \in events'
      BY <1>6, <2>1, EventMade
    <2>. QED BY <2>1 DEF LoginUnderWay, OnItsWay
  <1>7. ASSUME NEW x, ~(e.kind \in CloneOutcomes /\ e.id = x)
        PROVE  CloneUnderWay(x) => CloneUnderWay(x)'
    <2>1. ASSUME NEW kind \in CloneOutcomes, Event(kind, x) \in events PROVE Event(kind, x) \in events'
      BY <1>7, <2>1, EventMade
    <2>. QED BY <2>1 DEF CloneUnderWay, OnItsWay
  <1>8. ASSUME NEW x, LoginAwaited(x)' PROVE LoginAwaited(x) /\ ~(e.kind \in LoginOutcomes /\ e.id = x)
    BY <1>8, StatusesKnown DEF LoginAwaited, WizardMisses, WizardRests, WizardRestores
  <1>9. ASSUME NEW x, CloneAwaited(x)' PROVE CloneAwaited(x) /\ ~(e.kind \in CloneOutcomes /\ e.id = x)
    BY <1>9, StatusesKnown DEF CloneAwaited, WizardMisses, WizardRests, WizardRestores
  <1>10. ASSUME NEW x, account'.at \in LoggingIn, account'.request = x
         PROVE  account' = account /\ ~(e.kind \in LoginOutcomes /\ e.id = x)
    BY <1>10, StatusesKnown DEF AccountMisses, AccountRests
  <1>11. ASSUME NEW x, LoginHeard(x)' PROVE LoginHeard(x) /\ ~(e.kind \in LoginOutcomes /\ e.id = x)
    BY <1>8, <1>10, <1>11 DEF LoginHeard
  <1>12. AcceptedOK'
    <2>. SUFFICES ASSUME NEW c \in calls', c.answer = "ok"
                  PROVE  /\ c.op = "begin" /\ LoginHeard(c.id)' => LoginUnderWay(c.id)'
                         /\ c.op = "clone" /\ CloneAwaited(c.id)' => CloneUnderWay(c.id)'
      BY DEF AcceptedOK
    <2>1. /\ c.op = "begin" /\ LoginHeard(c.id) => LoginUnderWay(c.id)
          /\ c.op = "clone" /\ CloneAwaited(c.id) => CloneUnderWay(c.id)
      BY <1>2 DEF WaitsInv, AcceptedOK
    <2>. QED BY <1>6, <1>7, <1>9, <1>11, <2>1
  <1>13. /\ wizard'.at \in DOMAIN CommandsOf => UnderWay(CommandsOf[wizard.at], wizard.request)'
         /\ wizard'.at = "waiting_for_user" => LoginUnderWay(wizard.request)'
         /\ wizard'.at = "cloning" => CloneUnderWay(wizard.request)'
    <2>1. CASE WizardMisses(e)
      <3>1. wizard.at \in DOMAIN CommandsOf => UnderWay(CommandsOf[wizard.at], wizard.request)'
        BY <1>2, <2>1 DEF WizardMisses, WaitsInv, AwaitedIsUnderWay, UnderWay
      <3>2. wizard.at = "waiting_for_user" =>
              LoginUnderWay(wizard.request) /\ ~(e.kind \in LoginOutcomes /\ e.id = wizard.request)
        BY <2>1, StatusesKnown DEF WizardMisses, WaitsInv, AwaitedIsUnderWay, LoginAwaited
      <3>3. wizard.at = "cloning" =>
              CloneUnderWay(wizard.request) /\ ~(e.kind \in CloneOutcomes /\ e.id = wizard.request)
        BY <2>1 DEF WizardMisses, WaitsInv, AwaitedIsUnderWay, CloneAwaited, CloneUnderWay
      <3>. PICK x : x = wizard.request
        OBVIOUS
      <3>4. wizard.at = "waiting_for_user" => LoginUnderWay(x)'
        BY <1>6, <3>2
      <3>5. wizard.at = "cloning" => CloneUnderWay(x)'
        BY <1>7, <3>3
      <3>6. wizard' = wizard
        BY <2>1 DEF WizardMisses
      <3>. QED BY <3>1, <3>4, <3>5, <3>6 DEF LoginUnderWay, CloneUnderWay, OnItsWay
    <2>2. CASE WizardRests
      BY <2>2 DEF WizardRests, Waits
    <2>3. CASE WizardRestores
      <3>1. PICK c \in calls' : /\ c.op = "restore" /\ wizard'.at = "loading" /\ wizard'.request = c.id
        BY <2>3 DEF WizardRestores
      <3>2. "restore" \in CommandsOf["loading"]
        BY CommandsKnown
      <3>3. UnderWay(CommandsOf[wizard.at], wizard.request)'
        BY <3>1, <3>2 DEF UnderWay
      <3>. QED BY <3>1, <3>3
    <2>. QED BY <2>1, <2>2, <2>3
  <1>14. /\ account'.at = "login_beginning" => UnderWay({"begin"}, account.request)'
         /\ account'.at = "waiting_for_user" => LoginUnderWay(account.request)'
         /\ account'.at = "logging_out" => \E c \in calls' : c.op = "logout"
         /\ account'.at = "loading" => \E c \in calls' : c.op \in {"auth", "restoring auth"}
    <2>1. CASE AccountMisses(e)
      <3>1. /\ account.at = "login_beginning" => UnderWay({"begin"}, account.request)'
            /\ account.at = "logging_out" => \E c \in calls' : c.op = "logout"
            /\ account.at = "loading" => \E c \in calls' : c.op \in {"auth", "restoring auth"}
        BY <1>2, <2>1 DEF AccountMisses, WaitsInv, AwaitedIsUnderWay, UnderWay
      <3>2. account.at = "waiting_for_user" =>
              LoginUnderWay(account.request) /\ ~(e.kind \in LoginOutcomes /\ e.id = account.request)
        BY <2>1, StatusesKnown DEF AccountMisses, WaitsInv, AwaitedIsUnderWay
      <3>. PICK x : x = account.request
        OBVIOUS
      <3>3. account.at = "waiting_for_user" => LoginUnderWay(x)'
        BY <1>6, <3>2
      <3>4. account' = account
        BY <2>1 DEF AccountMisses
      <3>. QED BY <3>1, <3>3, <3>4 DEF LoginUnderWay, OnItsWay
    <2>2. CASE AccountRests
      BY <2>2 DEF AccountRests
    <2>. QED BY <2>1, <2>2
  <1>15. AwaitedIsUnderWay'
    BY <1>13, <1>14 DEF AwaitedIsUnderWay, CloneUnderWay
  <1>. QED BY <1>3, <1>4, <1>12, <1>15 DEF WaitsInv

\* An event of an authentication, which both hear.
LEMMA AuthEventWaits ==
  ASSUME WaitsInv, HistoryTyped, WizardAssumption, NEW e \in events, AuthEventReceived(e),
         events' = events \ {e}, UNCHANGED <<signed, login, clones, saved, refusals>>
  PROVE  WaitsInv'
  <1>1. e.kind \in LoginOutcomes \cup {"reauthentication_required"} /\ e.kind \notin CloneOutcomes
        /\ AccountHears(e) /\ WizardHears(e)
    BY DEF AuthEventReceived, LoginOutcomes, CloneOutcomes
  <1>2. wizard \in Wizards
    BY DEF WaitsInv, TypeOK
  <1>3. AccountMisses(e) \/ AccountRests
    <2>1. CASE e.kind = "reauthentication_required"
      <3>1. account' = Account("reauthentication_required")
        BY <1>1, <2>1 DEF AccountHears
      <3>. QED BY <3>1, AccountMade DEF AccountRests
    <2>2. CASE e.kind # "reauthentication_required"
               /\ (account.at \notin LoggingIn \/ account.request # e.id)
      <3>1. account' = account
        BY <1>1, <2>2 DEF AccountHears
      <3>. QED BY <2>2, <3>1 DEF AccountMisses
    <2>3. CASE e.kind # "reauthentication_required"
               /\ ~(account.at \notin LoggingIn \/ account.request # e.id)
      <3>1. account' \in {Account("authenticated"), Account("signed_out")}
        BY <1>1, <2>3 DEF AccountHears
      <3>. QED BY <3>1, AccountMade DEF AccountRests
    <2>. QED BY <2>1, <2>2, <2>3
  <1>4. \/ (WizardMisses(e) \/ WizardRests) /\ UNCHANGED calls
        \/ WizardRestores
    <2>1. /\ {"reauthentication_required", "auth_error", "idle", "loading"} \subseteq Statuses
          /\ {"reauthentication_required", "auth_error", "idle"} \cap Waits = {}
      BY StatusesKnown DEF Statuses, Errors
    <2>2. \A at \in {"reauthentication_required", "auth_error", "idle"} :
            Plain(at, 0) \in Wizards /\ Plain(at, 0).at \notin Waits
      BY <1>2, <2>1, PlainMade
    <2>3. CASE /\ e.kind = "reauthentication_required" /\ wizard.at # "connected"
               /\ wizard' = Plain("reauthentication_required", 0)
               /\ UNCHANGED calls
      BY <2>2, <2>3 DEF WizardRests
    <2>4. CASE /\ e.kind = "authenticated" /\ LoginAwaited(e.id)
               /\ \E id \in UnusedAfter(e) :
                    /\ wizard' = Plain("loading", id)
                    /\ calls' = calls \cup {Asked("restore", id, None)}
      <3>. PICK id \in UnusedAfter(e) : /\ wizard' = Plain("loading", id)
                                       /\ calls' = calls \cup {Asked("restore", id, None)}
        BY <2>4
      <3>1. id \in Ids
        BY FreshAfter
      <3>2. Plain("loading", id) \in Wizards /\ Plain("loading", id).at = "loading"
            /\ Plain("loading", id).request = id
        BY <1>2, <2>1, <3>1, PlainMade
      <3>3. "restore" \in Ops /\ None \in MaybeCheckout
        BY DEF Ops, MaybeCheckout
      <3>. PICK c : c = Asked("restore", id, None)
        OBVIOUS
      <3>4. c \in Calls /\ c.op = "restore" /\ c.id = id /\ c.answer = "none"
        BY <3>1, <3>3, AskedMade
      <3>5. calls' = calls \cup {c} /\ wizard' \in Wizards /\ wizard'.at = "loading"
            /\ wizard'.request = c.id
        BY <3>2, <3>4
      <3>. QED BY <3>4, <3>5 DEF WizardRestores
    <2>5. CASE /\ e.kind \in {"failed", "cancelled"} /\ LoginAwaited(e.id)
               /\ wizard' = Plain(IF e.kind = "failed" THEN "auth_error" ELSE "idle", 0)
               /\ UNCHANGED calls
      <3>1. wizard' \in {Plain("auth_error", 0), Plain("idle", 0)}
        BY <2>5
      <3>. QED BY <2>2, <2>5, <3>1 DEF WizardRests
    <2>6. CASE /\ IF e.kind = "reauthentication_required" THEN wizard.at = "connected"
                  ELSE ~LoginAwaited(e.id)
               /\ UNCHANGED <<wizard, calls>>
      <3>1. ~(e.kind \in LoginOutcomes /\ LoginAwaited(e.id))
        BY <2>6 DEF LoginOutcomes
      <3>. QED BY <1>1, <2>6, <3>1 DEF WizardMisses
    <2>. QED BY <1>1, <2>3, <2>4, <2>5, <2>6 DEF WizardHears
  <1>. QED BY <1>3, <1>4, EventKeepsWaits

\* An event of a clone, which only the wizard hears.
LEMMA CloneEventWaits ==
  ASSUME WaitsInv, HistoryTyped, NEW e \in events, CloneEventReceived(e),
         events' = events \ {e}, UNCHANGED <<signed, login, clones, saved, refusals>>
  PROVE  WaitsInv'
  <1>1. e.kind \in CloneOutcomes /\ e.kind \notin LoginOutcomes /\ UNCHANGED <<account, calls>>
    BY DEF CloneEventReceived, LoginOutcomes, CloneOutcomes
  <1>2. wizard \in Wizards /\ wizard.root \in MaybeCheckout /\ None \in MaybeCheckout
    BY DEF WaitsInv, TypeOK, Wizards, MaybeCheckout
  <1>3. AccountMisses(e)
    BY <1>1 DEF AccountMisses
  <1>4. WizardMisses(e) \/ WizardRests
    <2>1. CASE ~CloneAwaited(e.id)
      <3>1. wizard' = wizard
        BY <2>1 DEF CloneEventReceived
      <3>. QED BY <1>1, <2>1, <3>1 DEF WizardMisses
    <2>2. CASE CloneAwaited(e.id)
      <3>1. wizard' \in {LocalIdle(wizard.root, "none"), Failing("local_error", "clone"),
                         LocalIdle(None, "none")}
        BY <2>2 DEF CloneEventReceived
      <3>2. {"local_idle", "local_error"} \subseteq Statuses /\ "clone" \in Operations
            /\ {"local_idle", "local_error"} \cap Waits = {}
        BY StatusesKnown DEF Statuses, Errors, Operations
      <3>3. LocalIdle(wizard.root, "none") \in Wizards /\ LocalIdle(wizard.root, "none").at = "local_idle"
        BY <1>2, LocalIdleMade
      <3>4. LocalIdle(None, "none") \in Wizards /\ LocalIdle(None, "none").at = "local_idle"
        BY <1>2, LocalIdleMade
      <3>5. Failing("local_error", "clone") \in Wizards /\ Failing("local_error", "clone").at = "local_error"
        BY <1>2, <3>2, FailingMade
      <3>. QED BY <3>1, <3>2, <3>3, <3>4, <3>5 DEF WizardRests
    <2>. QED BY <2>1, <2>2
  <1>. QED BY <1>1, <1>3, <1>4, EventKeepsWaits

\* A clone is seen to run before the answer that it does.
LEMMA ProgressWaits ==
  ASSUME WaitsInv, HistoryTyped, NEW id \in clones, CloneProgressReceived(id)
  PROVE  WaitsInv'
  <1>1. /\ wizard.at = "clone_starting" /\ wizard.request = id /\ wizard \in Wizards
        /\ wizard' = [wizard EXCEPT !.at = "cloning"]
        /\ UNCHANGED <<account, calls, events, signed, login, clones, saved, refusals>>
    BY DEF CloneProgressReceived, backendVars, WaitsInv, TypeOK
  <1>2. wizard' \in Wizards /\ wizard'.at = "cloning" /\ wizard'.request = id
    <2>1. "cloning" \in Statuses
      BY DEF Statuses, Mutating
    <2>. QED BY <1>1, <2>1 DEF Wizards
  <1>3. TypeOK'
    BY <1>1, <1>2 DEF WaitsInv, TypeOK, HistoryTyped
  <1>4. TrafficOK'
    BY <1>1, <1>2, StatusesKnown DEF WaitsInv, TrafficOK
  <1>5. AcceptedOK'
    <2>. SUFFICES ASSUME NEW c \in calls, c.answer = "ok"
                  PROVE  /\ c.op = "begin" /\ LoginHeard(c.id)' => LoginUnderWay(c.id)'
                         /\ c.op = "clone" /\ CloneAwaited(c.id)' => CloneUnderWay(c.id)'
      BY <1>1 DEF AcceptedOK
    <2>1. LoginHeard(c.id)' => LoginHeard(c.id)
      BY <1>1, <1>2, StatusesKnown DEF LoginHeard, LoginAwaited
    <2>2. CloneAwaited(c.id)' => CloneUnderWay(c.id)'
      BY <1>1, <1>2 DEF CloneAwaited, CloneUnderWay
    <2>3. LoginUnderWay(c.id) => LoginUnderWay(c.id)'
      BY <1>1 DEF LoginUnderWay, OnItsWay
    <2>4. c.op = "begin" /\ LoginHeard(c.id) => LoginUnderWay(c.id)
      BY DEF WaitsInv, AcceptedOK
    <2>. QED BY <2>1, <2>2, <2>3, <2>4
  <1>6. AwaitedIsUnderWay'
    <2>1. wizard'.at \notin DOMAIN CommandsOf
      BY <1>2, CommandsKnown
    <2>2. /\ account.at = "login_beginning" => UnderWay({"begin"}, account.request)'
          /\ account.at = "waiting_for_user" => LoginUnderWay(account.request)'
          /\ account.at = "logging_out" => \E c \in calls' : c.op = "logout"
          /\ account.at = "loading" => \E c \in calls' : c.op \in {"auth", "restoring auth"}
      BY <1>1 DEF WaitsInv, AwaitedIsUnderWay, UnderWay, LoginUnderWay, OnItsWay
    <2>3. wizard'.at # "waiting_for_user" /\ wizard'.request \in clones'
      BY <1>1, <1>2
    <2>4. /\ account'.at = "login_beginning" => UnderWay({"begin"}, account.request)'
          /\ account'.at = "waiting_for_user" => LoginUnderWay(account.request)'
          /\ account'.at = "logging_out" => \E c \in calls' : c.op = "logout"
          /\ account'.at = "loading" => \E c \in calls' : c.op \in {"auth", "restoring auth"}
      BY <1>1, <2>2
    <2>. QED BY <2>1, <2>3, <2>4 DEF AwaitedIsUnderWay
  <1>. QED BY <1>3, <1>4, <1>5, <1>6 DEF WaitsInv

LEMMA WindowStepWaits ==
  ASSUME WizardAssumption, WaitsInv, HistoryTyped, WindowSteps
  PROVE  WaitsInv'
  <1>1. ASSUME NEW c \in calls, NEW d \in Answers(c), Receive(d) PROVE WaitsInv'
    BY <1>1, ReceiveWaits
  <1>2. ASSUME NEW e \in events, Deliver(e) PROVE WaitsInv'
    BY <1>2, AuthEventWaits, CloneEventWaits DEF Deliver
  <1>3. ASSUME NEW id \in clones, CloneProgressReceived(id) PROVE WaitsInv'
    BY <1>3, ProgressWaits
  <1>. QED BY <1>1, <1>2, <1>3 DEF WindowSteps

-----------------------------------------------------------------------------
(***************************************************************************)
(* Nothing is awaited in vain.                                             *)
(***************************************************************************)

LEMMA WaitsAtStart ==
  ASSUME WizardAssumption, Init
  PROVE  WaitsInv
  <1>. DEFINE first == Asked("restoring auth", 1, None)
  <1>1. 1 \in Ids /\ None \in MaybeCheckout /\ "restoring auth" \in Ops /\ "loading" \in Statuses
    BY DEF WizardAssumption, Ids, MaybeCheckout, Ops, AuthOps, Statuses
  <1>2. first \in Calls /\ first.op = "restoring auth" /\ first.id = 1 /\ first.answer = "none"
        /\ first.path = None
    BY <1>1, AskedMade DEF Asked
  <1>3. Blank \in Wizards /\ Blank.at = "idle"
    BY BlankMade
  <1>4. wizard \in Wizards /\ wizard.at = "loading" /\ wizard.request = 1
    BY <1>1, <1>3 DEF Init, Wizards
  <1>5. account \in Accounts /\ account.at = "loading"
    BY AccountMade DEF Init
  <1>6. calls = {first} /\ events = {}
    BY DEF Init
  <1>. HIDE DEF first
  <1>7. TypeOK
    <2>1. /\ signed \in BOOLEAN /\ login = 0 /\ clones = {} /\ saved \in MaybeCheckout
          /\ refusals = 0 /\ picked = None /\ dropped = FALSE
      BY DEF Init
    <2>2. refusals \in 0..MaxRefusals
      BY <2>1 DEF WizardAssumption
    <2>. QED BY <1>1, <1>2, <1>4, <1>5, <1>6, <2>1, <2>2 DEF TypeOK, Calls
  <1>8. TrafficOK
    <2>1. AnswerOK(first)
      BY <1>2 DEF AnswerOK, AuthAnswers
    <2>. QED BY <1>2, <1>4, <1>5, <1>6, <2>1, StatusesKnown DEF TrafficOK
  <1>9. AcceptedOK
    BY <1>2, <1>6 DEF AcceptedOK
  <1>10. AwaitedIsUnderWay
    <2>1. UnderWay(CommandsOf[wizard.at], wizard.request)
      BY <1>2, <1>4, <1>6, CommandsKnown DEF UnderWay
    <2>. QED BY <1>2, <1>4, <1>5, <1>6, <2>1 DEF AwaitedIsUnderWay
  <1>. QED BY <1>7, <1>8, <1>9, <1>10 DEF WaitsInv

LEMMA WaitsNext ==
  ASSUME WizardAssumption, WaitsInv, [Next]_vars
  PROVE  WaitsInv'
  <1>1. ASSUME Next PROVE HistoryTyped
    <2>1. picked \in MaybeCheckout /\ dropped \in BOOLEAN /\ None \in MaybeCheckout
          /\ Checkouts \subseteq MaybeCheckout
      BY DEF WaitsInv, TypeOK, MaybeCheckout
    <2>2. picked' \in MaybeCheckout
      BY <1>1, <2>1 DEF Next
    <2>3. dropped' = (dropped \/ LosesConnection)
      BY <1>1 DEF Next
    <2>4. LosesConnection \in BOOLEAN
      BY DEF LosesConnection
    <2>. QED BY <2>1, <2>2, <2>3, <2>4 DEF HistoryTyped
  <1>2. ASSUME NEW path \in Checkouts, Pick(path), HistoryTyped PROVE WaitsInv'
    BY <1>2, PickStep
  <1>3. ASSUME Next PROVE WaitsInv'
    BY <1>1, <1>2, <1>3, UserStepWaits, BackendStepWaits, WindowStepWaits DEF Next
  <1>4. ASSUME UNCHANGED vars PROVE WaitsInv'
    <2>1. UNCHANGED <<wizard, account, calls, events, signed, login, clones, saved, refusals, picked,
                      dropped>>
      BY <1>4 DEF vars, windowVars, backendVars
    <2>2. TypeOK' /\ TrafficOK'
      BY <2>1 DEF WaitsInv, TypeOK, TrafficOK
    <2>3. AcceptedOK'
      BY <2>1 DEF WaitsInv, AcceptedOK, LoginHeard, LoginAwaited, LoginUnderWay, CloneAwaited,
                  CloneUnderWay, OnItsWay
    <2>4. AwaitedIsUnderWay'
      BY <2>1 DEF WaitsInv, AwaitedIsUnderWay, UnderWay, LoginUnderWay, OnItsWay
    <2>. QED BY <2>2, <2>3, <2>4 DEF WaitsInv
  <1>. QED BY <1>3, <1>4

\* The inductive invariant of what is awaited (WorkspaceConnectionProvider.tsx): every
\* request the window waits for has its command, login or clone under way, and what the
\* backend accepted goes on until the window stops waiting for it.
THEOREM WaitsHold == WizardAssumption /\ Spec => []WaitsInv
  <1>. SUFFICES ASSUME WizardAssumption PROVE Spec => []WaitsInv
    OBVIOUS
  <1>1. Init => WaitsInv
    BY WaitsAtStart
  <1>2. WaitsInv /\ [Next]_vars => WaitsInv'
    BY WaitsNext
  <1>. QED BY <1>1, <1>2, PTL DEF Spec

\* Nothing is awaited in vain: whatever the wizard or the account waits for is still to
\* come (connection-reducer.ts, account-session.ts).
THEOREM NothingAwaitedInVain == WizardAssumption /\ Spec => []AwaitedIsUnderWay
  <1>1. WaitsInv => AwaitedIsUnderWay
    BY DEF WaitsInv
  <1>. QED BY <1>1, WaitsHold, PTL

-----------------------------------------------------------------------------
(***************************************************************************)
(* The directory picked, and the workspace remembered.                     *)
(***************************************************************************)

Connecting == {"workspace_connecting", "connecting"}
HistoryKept ==
  /\ picked' = IF wizard'.root = None THEN None ELSE picked
  /\ dropped' = (dropped \/ LosesConnection)

\* The connections asked for stand, and no inspection is asked for.
Harmless(c) ==
  /\ c.op \notin {"inspect", "connect"}
  /\ c.op = "restore" /\ c.answer # "error" /\ c.path # None => c.path = saved
CallsStand ==
  /\ UNCHANGED saved
  /\ \A c \in calls' : c \in calls \/ Harmless(c)
  /\ \A c \in calls : c.op = "connect" => c \in calls'

\* The wizard goes on without a directory or with its own, and if it was connecting it no
\* longer waits.
WizardMoves ==
  /\ wizard'.at # "inspecting" /\ wizard'.root \in {None, wizard.root}
  /\ wizard'.replaced \in {None, wizard.replaced} \/ (~dropped => wizard'.replaced = saved)
  /\ wizard'.at = "connected" /\ ~dropped => wizard'.shown = saved
  /\ wizard'.at = "loading" => \A c \in calls : c.id # wizard'.request
  /\ wizard.at \in Connecting => wizard'.request = 0 /\ wizard'.at # "connected"

\* Where the connections stand, so does what the wizard and they agree on.
LEMMA StandStep ==
  ASSUME WaitsInv, ConnectsInv, HistoryKept, CallsStand, wizard' = wizard \/ WizardMoves
  PROVE  ConnectsInv'
  <1>1. dropped \in BOOLEAN /\ (~dropped' => ~dropped /\ ~LosesConnection)
    BY DEF HistoryKept, WaitsInv, TypeOK
  <1>2. saved' = saved
    BY DEF CallsStand
  <1>3. PickedOK'
    <2>. SUFFICES ASSUME NEW c \in calls', c.op = "inspect", Awaits(c, "inspecting")'
                  PROVE  c.path = wizard'.root
      BY DEF PickedOK
    <2>1. c \in calls
      BY DEF CallsStand, Harmless
    <2>2. wizard' = wizard
      BY DEF WizardMoves, Awaits
    <2>3. Awaits(c, "inspecting")
      BY <2>2 DEF Awaits
    <2>. QED BY <2>1, <2>2, <2>3 DEF ConnectsInv, PickedOK
  <1>4. GoesOnWithThePicked'
    BY DEF GoesOnWithThePicked, ConnectsInv, HistoryKept, WizardMoves
  <1>5. ASSUME ~dropped' PROVE ConnectionOK'
    <2>. SUFFICES ASSUME NEW c \in calls', c.op = "connect"
                  PROVE  /\ wizard'.at \in {"workspace_connecting", "connecting"}
                         /\ wizard'.request = c.id
                         /\ c.answer = "ok" => saved' = c.path
                         /\ \A d \in calls' : d.op = "connect" => c = d
      BY DEF ConnectionOK
    <2>1. \A d \in calls' : d.op = "connect" => d \in calls
      BY DEF CallsStand, Harmless
    <2>2. ConnectionOK /\ c \in calls
      BY <1>1, <1>5, <2>1 DEF ConnectsInv
    <2>3. /\ wizard.at \in Connecting /\ wizard.request = c.id
          /\ c.answer = "ok" => saved = c.path
          /\ \A d \in calls : d.op = "connect" => c = d
      BY <2>2 DEF ConnectionOK, Connecting
    <2>4. c.id # 0
      BY <2>2, BackendTyped DEF Calls, Ids
    <2>5. wizard' = wizard
      BY <1>1, <1>5, <2>3, <2>4 DEF WizardMoves, LosesConnection
    <2>. QED BY <1>2, <2>1, <2>3, <2>5 DEF Connecting
  <1>6. ASSUME ~dropped' PROVE RemembersOK'
    <2>1. RemembersOK /\ ~dropped
      BY <1>1, <1>6 DEF ConnectsInv
    <2>2. ASSUME NEW c \in calls', c.op = "restore", c.answer # "error", c.path # None,
                 Awaits(c, "loading")'
          PROVE  c.path = saved'
      <3>1. CASE c \in calls
        <4>1. Awaits(c, "loading")
          BY <2>2, <3>1 DEF WizardMoves, Awaits
        <4>. QED BY <1>2, <2>1, <2>2, <3>1, <4>1 DEF RemembersOK
      <3>2. CASE Harmless(c)
        BY <1>2, <2>2, <3>2 DEF Harmless
      <3>. QED BY <3>1, <3>2 DEF CallsStand
    <2>3. ASSUME wizard'.replaced # None
          PROVE  wizard'.replaced = saved' \/ \E c \in calls' : c.op = "connect" /\ c.answer = "ok"
      <3>1. CASE wizard'.replaced = wizard.replaced
        <4>1. wizard.replaced = saved \/ \E c \in calls : c.op = "connect" /\ c.answer = "ok"
          BY <2>1, <2>3, <3>1 DEF RemembersOK
        <4>. QED BY <1>2, <3>1, <4>1 DEF CallsStand
      <3>2. CASE wizard'.replaced # wizard.replaced
        BY <1>2, <2>1, <2>3, <3>2 DEF WizardMoves
      <3>. QED BY <3>1, <3>2
    <2>. QED BY <2>2, <2>3 DEF RemembersOK
  <1>7. ShownIsSaved'
    BY <1>1, <1>2 DEF ShownIsSaved, ConnectsInv, WizardMoves
  <1>. QED BY <1>3, <1>4, <1>5, <1>6, <1>7 DEF ConnectsInv

\* What the wizard may move to.
LEMMA PlainMoves ==
  ASSUME wizard \in Wizards, NEW at \in Statuses, at \notin {"inspecting", "connected"},
         NEW id \in Ids \cup {0}, wizard' = Plain(at, id),
         at = "loading" => \A c \in calls : c.id # id,
         wizard.at \in Connecting => id = 0
  PROVE  WizardMoves
  BY PlainMade DEF WizardMoves

LEMMA OnwardMoves ==
  ASSUME wizard'.at \notin {"inspecting", "connected", "loading"},
         wizard'.root \in {None, wizard.root}, wizard'.replaced = wizard.replaced,
         wizard.at \notin Connecting
  PROVE  WizardMoves
  BY DEF WizardMoves

LEMMA ConnectedMoves ==
  ASSUME NEW path \in MaybeCheckout, wizard' = Connected(path), ~dropped => path = saved,
         wizard.at \notin Connecting
  PROVE  WizardMoves
  BY ConnectedMade DEF WizardMoves

\* A command that is no inspection and no connection is asked for or answered.
LEMMA AskedStands ==
  ASSUME NEW op \in Ops \ {"inspect", "connect", "restore"}, NEW id \in Ids, NEW path \in MaybeCheckout,
         calls' = calls \cup {Asked(op, id, path)}, UNCHANGED backendVars
  PROVE  CallsStand
  <1>. PICK new : new = Asked(op, id, path)
    OBVIOUS
  <1>1. new.op = op /\ new.answer = "none"
    BY AskedMade
  <1>2. calls' = calls \cup {new} /\ UNCHANGED saved
    BY DEF backendVars
  <1>3. Harmless(new)
    BY <1>1 DEF Harmless
  <1>. QED BY <1>2, <1>3 DEF CallsStand

LEMMA AnsweredStands ==
  ASSUME NEW d, d.op # "connect", Answered(d), UNCHANGED backendVars
  PROVE  CallsStand
  BY DEF CallsStand, Answered, backendVars

\* While nothing is connected a replaced workspace is the saved one.
LEMMA ReplacedIsSaved ==
  ASSUME ConnectsInv, ~dropped, wizard.replaced # None, wizard.at \notin Connecting
  PROVE  wizard.replaced = saved
  BY DEF ConnectsInv, RemembersOK, ConnectionOK, Connecting

\* The commands that are given about the checkout found, but for a connection.
LEMMA DoStands ==
  ASSUME WizardAssumption, WaitsInv, ConnectsInv, HistoryKept, wizard.at \notin Connecting,
         NEW at \in Statuses \ {"inspecting", "connected", "loading"},
         NEW op \in Ops \ {"inspect", "connect", "restore"}, Do(at, op)
  PROVE  ConnectsInv'
  <1>1. wizard \in Wizards /\ RoomForRequest
    BY DEF WaitsInv, TypeOK, Do
  <1>2. wizard.root \in MaybeCheckout /\ Fresh \in Ids
    BY <1>1, FreshIsFree DEF Wizards
  <1>3. CallsStand
    BY <1>2, AskedStands DEF Do, Call
  <1>4. wizard'.at = at /\ wizard'.root = wizard.root /\ wizard'.replaced = wizard.replaced
    BY <1>1 DEF Do, Doing, Wizards
  <1>. QED BY <1>3, <1>4, OnwardMoves, StandStep

LEMMA StartLoginStands ==
  ASSUME WizardAssumption, WaitsInv, ConnectsInv, HistoryKept, StartLogin
  PROVE  ConnectsInv'
  <1>1. wizard \in Wizards /\ RoomForRequest /\ None \in MaybeCheckout
    BY DEF WaitsInv, TypeOK, StartLogin, MaybeCheckout
  <1>2. Fresh \in Ids
    BY <1>1, FreshIsFree
  <1>3. "begin" \in Ops \ {"inspect", "connect", "restore"} /\ "login_beginning" \in Statuses
    BY DEF Ops, Statuses, LoggingIn
  <1>4. CallsStand
    BY <1>1, <1>2, <1>3, AskedStands DEF StartLogin, Call
  <1>5. wizard.at \notin Connecting
    BY DEF StartLogin, LoginOffered, ShellShown, Errors, Connecting
  <1>6. wizard' = wizard \/ wizard' = Plain("login_beginning", Fresh)
    BY DEF StartLogin
  <1>7. wizard' = wizard \/ WizardMoves
    BY <1>1, <1>2, <1>3, <1>5, <1>6, PlainMoves
  <1>. QED BY <1>4, <1>7, StandStep

LEMMA CancelCallStands ==
  ASSUME WaitsInv, ConnectsInv, HistoryKept, NEW op \in Ops \ {"inspect", "connect", "restore"}, CancelCall(op),
         account.at \in LoggingIn \/ wizard.at \in LoggingIn
  PROVE  ConnectsInv'
  <1>1. LoginRequest \in Ids /\ None \in MaybeCheckout
    BY DEF LoginRequest, WaitsInv, TrafficOK, MaybeCheckout
  <1>2. CallsStand
    BY <1>1, AskedStands DEF CancelCall
  <1>. QED BY <1>2, StandStep DEF CancelCall, windowVars

LEMMA LogoutStands ==
  ASSUME WizardAssumption, WaitsInv, ConnectsInv, HistoryKept, Logout
  PROVE  ConnectsInv'
  <1>1. Fresh \in Ids /\ None \in MaybeCheckout /\ "logout" \in Ops \ {"inspect", "connect", "restore"}
    BY FreshIsFree DEF Logout, MaybeCheckout, Ops
  <1>2. CallsStand
    BY <1>1, AskedStands DEF Logout, Call
  <1>. QED BY <1>2, StandStep DEF Logout

LEMMA StartReplacementStands ==
  ASSUME WizardAssumption, WaitsInv, ConnectsInv, HistoryKept, StartReplacement
  PROVE  ConnectsInv'
  <1>1. RoomForRequest /\ None \in MaybeCheckout /\ "auth" \in Ops \ {"inspect", "connect", "restore"}
    BY DEF StartReplacement, MaybeCheckout, Ops, AuthOps
  <1>2. Fresh \in Ids /\ \A c \in calls : c.id # Fresh
    BY <1>1, FreshIsFree
  <1>3. CallsStand
    BY <1>1, <1>2, AskedStands DEF StartReplacement, Call
  <1>4. /\ wizard'.at = "loading" /\ wizard'.request = Fresh /\ wizard'.root = None
        /\ wizard'.replaced = wizard.shown
    BY BlankMade DEF StartReplacement, Wizards
  <1>5. wizard.at = "connected" /\ (~dropped => wizard.shown = saved)
    BY DEF StartReplacement, ConnectsInv, ShownIsSaved
  <1>6. WizardMoves
    BY <1>2, <1>4, <1>5 DEF WizardMoves, Connecting
  <1>. QED BY <1>3, <1>6, StandStep

LEMMA CancelReplacementStands ==
  ASSUME WaitsInv, ConnectsInv, HistoryKept, CancelReplacement
  PROVE  ConnectsInv'
  <1>1. CASE wizard.at \in LoggingIn
    BY <1>1, CancelCallStands DEF CancelReplacement, Ops
  <1>2. CASE wizard.at \notin LoggingIn
    <2>1. /\ wizard' = Connected(wizard.replaced) /\ UNCHANGED <<calls, backendVars>>
          /\ wizard.replaced # None /\ wizard.at \notin Connecting
      BY <1>2 DEF CancelReplacement, CanCancelReplacement, Connecting, Mutating
    <2>2. CallsStand
      BY <2>1 DEF CallsStand, backendVars
    <2>3. wizard.replaced \in MaybeCheckout
      BY DEF WaitsInv, TypeOK, Wizards
    <2>4. WizardMoves
      BY <2>1, <2>3, ConnectedMoves, ReplacedIsSaved
    <2>. QED BY <2>2, <2>4, StandStep
  <1>. QED BY <1>1, <1>2

\* A connection is asked for while none is under way.
LEMMA ConnectStep ==
  ASSUME WizardAssumption, WaitsInv, ConnectsInv, HistoryKept, wizard.at \notin Connecting,
         NEW at \in Connecting, Do(at, "connect")
  PROVE  ConnectsInv'
  <1>. PICK id : id = Fresh
    OBVIOUS
  <1>. PICK new : new = Asked("connect", id, wizard.root)
    OBVIOUS
  <1>1. wizard \in Wizards /\ RoomForRequest
    BY DEF WaitsInv, TypeOK, Do
  <1>2. id \in Ids /\ \A c \in calls : c.id # id
    BY <1>1, FreshIsFree
  <1>3. new.op = "connect" /\ new.id = id /\ new.answer = "none"
    BY DEF Asked
  <1>4. calls' = calls \cup {new} /\ saved' = saved
    BY DEF Do, Call, backendVars
  <1>5. /\ wizard'.at = at /\ wizard'.request = id /\ wizard'.root = wizard.root
        /\ wizard'.replaced = wizard.replaced
    BY <1>1 DEF Do, Doing, Wizards
  <1>6. at \notin {"inspecting", "loading", "connected"}
    BY DEF Connecting
  <1>7. dropped' => dropped \/ LosesConnection
    BY DEF HistoryKept
  <1>8. ~dropped' => ~dropped
    BY DEF HistoryKept, WaitsInv, TypeOK
  <1>9. ~dropped => \A c \in calls : c.op # "connect"
    BY DEF ConnectsInv, ConnectionOK, Connecting
  <1>10. PickedOK' /\ ShownIsSaved'
    BY <1>5, <1>6 DEF PickedOK, ShownIsSaved, Awaits
  <1>11. GoesOnWithThePicked'
    BY <1>5 DEF GoesOnWithThePicked, ConnectsInv, HistoryKept
  <1>12. ~dropped' => ConnectionOK'
    BY <1>3, <1>4, <1>5, <1>8, <1>9 DEF ConnectionOK, Connecting
  <1>13. ASSUME ~dropped' PROVE RemembersOK'
    <2>1. wizard.replaced # None => wizard.replaced = saved
      BY <1>8, <1>13, ReplacedIsSaved
    <2>. QED BY <1>4, <1>5, <1>6, <2>1 DEF RemembersOK, Awaits
  <1>. QED BY <1>10, <1>11, <1>12, <1>13 DEF ConnectsInv

LEMMA UserStepConnects ==
  ASSUME WizardAssumption, WaitsInv, ConnectsInv, HistoryKept, UserSteps
  PROVE  ConnectsInv'
  <1>. DEFINE quiet == Statuses \ {"inspecting", "connected", "loading"}
              other == Ops \ {"inspect", "connect", "restore"}
  <1>1. /\ {"repositories_loading", "workspace_inspecting", "preview_loading", "initializing"}
             \subseteq quiet
        /\ {"cancel", "list", "workspace", "preview", "initialize"} \subseteq other
    BY DEF Statuses, Mutating, Ops
  <1>2. wizard \in Wizards /\ None \in MaybeCheckout
    BY DEF WaitsInv, TypeOK, MaybeCheckout
  <1>. HIDE DEF quiet, other
  <1>3. CASE StartLogin \/ Logout \/ StartReplacement \/ CancelReplacement
    BY <1>3, StartLoginStands, LogoutStands, StartReplacementStands, CancelReplacementStands
  <1>4. CASE CancelLogin
    BY <1>1, <1>4, CancelCallStands DEF CancelLogin, LoggingIn, other
  <1>5. CASE LoadRepositories
    BY <1>1, <1>5, DoStands DEF LoadRepositories, Connecting, quiet, other
  <1>6. CASE SelectRepository \/ ChoosePostMergeClone
    <2>1. /\ wizard' = LocalIdle(None, "none") /\ UNCHANGED <<calls, backendVars>>
          /\ wizard.at \notin Connecting
      BY <1>6 DEF SelectRepository, ChoosePostMergeClone, Connecting
    <2>2. /\ wizard'.at = "local_idle" /\ wizard'.root = None
          /\ wizard'.replaced = wizard.replaced
      BY <1>2, <2>1, LocalIdleMade
    <2>3. CallsStand /\ WizardMoves
      BY <2>1, <2>2, OnwardMoves DEF CallsStand, backendVars
    <2>. QED BY <2>3, StandStep
  <1>7. CASE InspectWorkspace
    BY <1>1, <1>7, DoStands DEF InspectWorkspace, Connecting, quiet, other
  <1>8. CASE PreviewInitialization
    BY <1>1, <1>8, DoStands DEF PreviewInitialization, Connecting, quiet, other
  <1>9. CASE CancelInitializationPreview
    <2>1. /\ wizard' = Reached("local_idle") /\ UNCHANGED <<calls, backendVars>>
          /\ wizard.at \notin Connecting /\ "local_idle" \in Statuses
      BY <1>9 DEF CancelInitializationPreview, Connecting, Statuses
    <2>2. /\ wizard'.at = "local_idle" /\ wizard'.root = wizard.root
          /\ wizard'.replaced = wizard.replaced
      BY <1>2, <2>1, ReachedMade
    <2>3. CallsStand /\ WizardMoves
      BY <2>1, <2>2, OnwardMoves DEF CallsStand, backendVars
    <2>. QED BY <2>3, StandStep
  <1>10. CASE ConfirmInitialization
    BY <1>1, <1>10, DoStands DEF ConfirmInitialization, Connecting, quiet, other
  <1>11. CASE ConnectWorkspace
    BY <1>11, ConnectStep DEF ConnectWorkspace, Connecting
  <1>. QED BY <1>3, <1>4, <1>5, <1>6, <1>7, <1>8, <1>9, <1>10, <1>11 DEF UserSteps

\* The user picks a directory, which the wizard goes on with from here.
LEMMA PickConnects ==
  ASSUME WizardAssumption, WaitsInv, ConnectsInv, NEW path \in Checkouts, Pick(path),
         picked' = path, dropped' = (dropped \/ LosesConnection)
  PROVE  ConnectsInv'
  <1>. PICK id : id = Fresh
    OBVIOUS
  <1>1. PICK op \in {"inspect", "clone"}, at \in {"inspecting", "clone_starting"} :
          Seek(at, op, path) /\ wizard.at \notin Connecting
    BY DEF Pick, InspectCheckout, CloneRepository, FormShown, Connecting
  <1>. PICK new : new = Asked(op, id, path)
    OBVIOUS
  <1>2. wizard \in Wizards /\ RoomForRequest /\ at \in Statuses
    BY <1>1 DEF WaitsInv, TypeOK, Seek, Statuses, Mutating
  <1>3. id \in Ids /\ \A c \in calls : c.id # id
    BY <1>2, FreshIsFree
  <1>4. new.op = op /\ new.id = id /\ new.answer = "none" /\ new.path = path
    BY DEF Asked
  <1>5. calls' = calls \cup {new} /\ saved' = saved
    BY <1>1 DEF Seek, Call, backendVars
  <1>6. /\ wizard'.at = at /\ wizard'.request = id /\ wizard'.root = path
        /\ wizard'.replaced = wizard.replaced
    <2>1. Plain(at, id) \in Wizards /\ Plain(at, id).at = at /\ Plain(at, id).request = id
          /\ Plain(at, id).replaced = wizard.replaced
      BY <1>2, <1>3, PlainMade
    <2>. QED BY <1>1, <2>1 DEF Seek, Seeking, Wizards
  <1>7. ~dropped' => ~dropped
    BY DEF WaitsInv, TypeOK
  <1>8. ~dropped => \A c \in calls : c.op # "connect"
    BY <1>1 DEF ConnectsInv, ConnectionOK, Connecting
  <1>9. PickedOK'
    BY <1>3, <1>4, <1>5, <1>6 DEF PickedOK, Awaits
  <1>10. GoesOnWithThePicked' /\ ShownIsSaved'
    BY <1>6 DEF GoesOnWithThePicked, ShownIsSaved
  <1>11. ~dropped' => ConnectionOK'
    BY <1>4, <1>5, <1>7, <1>8 DEF ConnectionOK
  <1>12. ASSUME ~dropped' PROVE RemembersOK'
    <2>1. wizard.replaced # None => wizard.replaced = saved
      BY <1>1, <1>7, <1>12, ReplacedIsSaved
    <2>. QED BY <1>5, <1>6, <2>1 DEF RemembersOK, Awaits
  <1>. QED BY <1>9, <1>10, <1>11, <1>12 DEF ConnectsInv

\* What the backend answers, but for a connection.
LEMMA ServeStands ==
  ASSUME WaitsInv, NEW c \in calls, Serve(c), c.op # "connect"
  PROVE  CallsStand
  <1>1. calls \subseteq Calls
    BY BackendTyped
  <1>2. ASSUME c.op \in {"auth", "restoring auth", "begin", "cancel", "cancel replacement", "logout", "clone"},
               NEW answer, Served(c, answer), UNCHANGED saved
        PROVE  CallsStand
    <2>1. PICK new : new = [c EXCEPT !.answer = answer]
      OBVIOUS
    <2>2. new.op = c.op
      BY <1>1, <2>1, AnswerMade
    <2>3. calls' = (calls \ {c}) \cup {new}
      BY <1>2, <2>1 DEF Served
    <2>4. Harmless(new)
      BY <1>2, <2>2 DEF Harmless
    <2>. QED BY <1>2, <2>3, <2>4 DEF CallsStand
  <1>3. CASE ServeAuth(c)
    BY <1>2, <1>3 DEF ServeAuth, backendVars
  <1>4. CASE ServeRestore(c)
    <2>1. PICK new : /\ calls' = (calls \ {c}) \cup {new} /\ new.op = "restore"
                     /\ new.answer # "error" /\ new.path # None => new.path = saved
      <3>1. CASE Served(c, "error")
        <4>1. PICK new : new = [c EXCEPT !.answer = "error"]
          OBVIOUS
        <4>2. new.op = "restore" /\ new.answer = "error"
          BY <1>1, <1>4, <4>1, AnswerMade DEF ServeRestore
        <4>. QED BY <3>1, <4>1, <4>2 DEF Served
      <3>2. ASSUME NEW path \in {saved, None},
                   calls' = (calls \ {c}) \cup {[c EXCEPT !.answer = "ok", !.path = path]}
            PROVE  \E new : /\ calls' = (calls \ {c}) \cup {new} /\ new.op = "restore"
                            /\ new.answer # "error" /\ new.path # None => new.path = saved
        <4>1. PICK new : new = [c EXCEPT !.answer = "ok", !.path = path]
          OBVIOUS
        <4>2. new.op = "restore" /\ new.path = path
          BY <1>1, <1>4, <4>1 DEF ServeRestore, Calls
        <4>. QED BY <3>2, <4>1, <4>2
      <3>. QED BY <1>4, <3>1, <3>2 DEF ServeRestore
    <2>2. Harmless(new)
      BY <2>1 DEF Harmless
    <2>. QED BY <1>4, <2>1, <2>2 DEF CallsStand, ServeRestore, backendVars
  <1>5. CASE ServeBegin(c)
    BY <1>2, <1>5 DEF ServeBegin
  <1>6. CASE ServeCancel(c)
    <2>1. ASSUME NEW b \in calls, b.op = "begin",
                 calls' = (calls \ {b, c}) \cup {[b EXCEPT !.answer = "ok"], [c EXCEPT !.answer = "ok"]}
          PROVE  CallsStand
      <3>1. PICK b2, c2 : b2 = [b EXCEPT !.answer = "ok"] /\ c2 = [c EXCEPT !.answer = "ok"]
        OBVIOUS
      <3>2. b2.op = "begin" /\ c2.op = c.op /\ c.op \in {"cancel", "cancel replacement"}
        <4>1. b2.op = b.op
          BY <1>1, <3>1, AnswerMade
        <4>2. c2.op = c.op
          BY <1>1, <3>1, AnswerMade
        <4>. QED BY <1>6, <2>1, <4>1, <4>2 DEF ServeCancel
      <3>3. Harmless(b2) /\ Harmless(c2)
        BY <3>2 DEF Harmless
      <3>4. calls' = (calls \ {b, c}) \cup {b2, c2} /\ UNCHANGED saved
        BY <1>6, <2>1, <3>1 DEF ServeCancel
      <3>. QED BY <2>1, <3>2, <3>3, <3>4 DEF CallsStand
    <2>. QED BY <1>2, <1>6, <2>1 DEF ServeCancel
  <1>7. CASE ServeLogout(c)
    BY <1>2, <1>7 DEF ServeLogout
  <1>8. CASE ServeClone(c)
    BY <1>2, <1>8 DEF ServeClone
  <1>9. CASE ServeConnect(c)
    BY <1>9 DEF ServeConnect
  <1>. QED BY <1>3, <1>4, <1>5, <1>6, <1>7, <1>8, <1>9 DEF Serve

\* A connection that is made saves the workspace it is waited for.
LEMMA ServeConnectStep ==
  ASSUME WaitsInv, ConnectsInv, HistoryKept, NEW c \in calls, ServeConnect(c),
         c.answer = "none", UNCHANGED windowVars
  PROVE  ConnectsInv'
  <1>1. PICK answer \in {"ok", "error"} :
          /\ Served(c, answer) /\ (answer = "ok" => saved' = c.path) /\ (answer = "error" => saved' = saved)
    BY DEF ServeConnect
  <1>2. PICK new : new = [c EXCEPT !.answer = answer]
    OBVIOUS
  <1>3. /\ new.op = "connect" /\ c.op = "connect" /\ new.id = c.id /\ new.path = c.path
        /\ new.answer = answer
    <2>1. c \in Calls /\ c.op = "connect"
      BY BackendTyped DEF ServeConnect
    <2>. QED BY <1>2, <2>1, AnswerMade
  <1>4. calls' = (calls \ {c}) \cup {new} /\ wizard' = wizard
    BY <1>1, <1>2 DEF Served, windowVars
  <1>5. ~dropped' => ~dropped
    BY DEF HistoryKept, WaitsInv, TypeOK
  <1>6. ~dropped => /\ wizard.at \in Connecting /\ wizard.request = c.id
                    /\ \A d \in calls : d.op = "connect" => c = d
    BY <1>3 DEF ConnectsInv, ConnectionOK, Connecting
  <1>7. PickedOK'
    BY <1>3, <1>4 DEF ConnectsInv, PickedOK, Awaits
  <1>8. GoesOnWithThePicked'
    BY <1>4 DEF GoesOnWithThePicked, ConnectsInv, HistoryKept
  <1>9. ~dropped' => ConnectionOK'
    BY <1>1, <1>3, <1>4, <1>5, <1>6 DEF ConnectionOK, Connecting
  <1>10. ASSUME ~dropped' PROVE RemembersOK'
    <2>1. wizard'.at # "loading"
      BY <1>4, <1>5, <1>6, <1>10 DEF Connecting
    <2>2. CASE answer = "ok"
      BY <1>3, <1>4, <2>1, <2>2 DEF RemembersOK, Awaits
    <2>3. CASE answer = "error"
      <3>1. wizard.replaced # None =>
              wizard.replaced = saved \/ \E d \in calls : d.op = "connect" /\ d.answer = "ok"
        BY <1>5, <1>10 DEF ConnectsInv, RemembersOK
      <3>2. wizard.replaced # None => wizard.replaced = saved
        BY <1>5, <1>6, <1>10, <3>1
      <3>. QED BY <1>1, <1>4, <2>1, <2>3, <3>2 DEF RemembersOK, Awaits
    <2>. QED BY <2>2, <2>3
  <1>11. ShownIsSaved'
    BY <1>4, <1>5, <1>6 DEF ShownIsSaved, Connecting
  <1>. QED BY <1>7, <1>8, <1>9, <1>10, <1>11 DEF ConnectsInv

LEMMA BackendStepConnects ==
  ASSUME WaitsInv, ConnectsInv, HistoryKept, BackendSteps
  PROVE  ConnectsInv'
  <1>1. ASSUME NEW c \in calls, Serve(c) PROVE ConnectsInv'
    <2>1. UNCHANGED windowVars /\ wizard' = wizard
      BY <1>1 DEF Serve, windowVars
    <2>2. CASE c.op = "connect"
      <3>1. ServeConnect(c)
        BY <1>1, <2>2 DEF Serve, ServeAuth, ServeRestore, ServeBegin, ServeCancel, ServeLogout, ServeClone
      <3>. QED BY <1>1, <2>1, <3>1, ServeConnectStep DEF Serve
    <2>3. CASE c.op # "connect"
      BY <1>1, <2>1, <2>3, ServeStands, StandStep
    <2>. QED BY <2>2, <2>3
  <1>2. ASSUME LoginEnds \/ SignInRefused \/ (\E id \in clones : CloneEnds(id)) PROVE ConnectsInv'
    <2>1. UNCHANGED <<wizard, calls, saved>>
      BY <1>2 DEF LoginEnds, SignInRefused, CloneEnds, windowVars
    <2>2. CallsStand
      BY <2>1 DEF CallsStand
    <2>. QED BY <2>1, <2>2, StandStep
  <1>. QED BY <1>1, <1>2 DEF BackendSteps

\* An answer the wizard hears of where it is not connecting.
LEMMA GoneOn ==
  ASSUME WaitsInv, ConnectsInv, HistoryKept, UNCHANGED backendVars, NEW d, d.op # "connect", Answered(d),
         NEW at \in Statuses \ Connecting, NEW next, WizardGoes(d, at, next),
         wizard.at = at /\ Awaits(d, at) /\ wizard' = next => WizardMoves
  PROVE  ConnectsInv'
  <1>1. CallsStand
    BY AnsweredStands
  <1>2. wizard' = wizard \/ WizardMoves
    BY DEF WizardGoes, Awaits
  <1>. QED BY <1>1, <1>2, StandStep

\* The answers that concern the wizard alone.
LEMMA QuietConnects ==
  ASSUME WaitsInv, ConnectsInv, HistoryKept, UNCHANGED backendVars, NEW c \in calls, NEW d \in Answers(c),
         RestoreAnswered(d) \/ ListAnswered(d) \/ InspectAnswered(d) \/ CloneAnswered(d)
           \/ WorkspaceAnswered(d) \/ PreviewAnswered(d) \/ InitializeAnswered(d)
  PROVE  ConnectsInv'
  <1>1. /\ wizard \in Wizards /\ wizard.root \in MaybeCheckout /\ None \in MaybeCheckout
        /\ "none" \in Operations
    BY DEF WaitsInv, TypeOK, Wizards, MaybeCheckout, Operations
  <1>2. /\ d.op = c.op /\ d.id = c.id /\ d.path = c.path /\ d.path \in MaybeCheckout
        /\ d.op = "restore" => d = c
        /\ d.op = "workspace" => d.answer \in {"ready", "initialization_required", "invalid", "error"}
    BY AnswersMade
  <1>3. CASE RestoreAnswered(d)
    <2>. DEFINE next == IF d.answer = "error" THEN Plain("auth_error", 0)
                        ELSE IF d.path # None THEN Connected(d.path)
                        ELSE Plain("repositories_new", 0)
    <2>1. d.op = "restore" /\ Answered(d) /\ WizardGoes(d, "loading", next)
      BY <1>3 DEF RestoreAnswered, Quietly
    <2>2. "loading" \in Statuses \ Connecting /\ {"auth_error", "repositories_new"} \subseteq Statuses
      BY DEF Statuses, Errors, Connecting
    <2>3. ASSUME wizard.at = "loading", Awaits(d, "loading"), wizard' = next PROVE WizardMoves
      <3>1. CASE wizard' = Plain("auth_error", 0) \/ wizard' = Plain("repositories_new", 0)
        BY <1>1, <2>2, <3>1, PlainMoves
      <3>2. CASE d.answer # "error" /\ d.path # None /\ wizard' = Connected(d.path)
        <4>1. ~dropped => d.path = saved
          BY <1>2, <2>1, <2>3, <3>2 DEF ConnectsInv, RemembersOK
        <4>. QED BY <1>2, <2>2, <2>3, <3>2, <4>1, ConnectedMoves
      <3>. QED BY <2>3, <3>1, <3>2
    <2>. HIDE DEF next
    <2>. QED BY <2>1, <2>2, <2>3, GoneOn
  <1>4. CASE ListAnswered(d)
    <2>. PICK to : to = IF d.answer = "ok" THEN "repositories_idle" ELSE "repositories_error"
      OBVIOUS
    <2>1. d.op = "list" /\ Answered(d) /\ WizardGoes(d, "repositories_loading", Plain(to, 0))
      BY <1>4 DEF ListAnswered, Quietly
    <2>2. "repositories_loading" \in Statuses \ Connecting /\ to \in Statuses
          /\ to \notin {"inspecting", "connected", "loading"}
      BY DEF Statuses, Errors, Connecting
    <2>3. wizard' = Plain(to, 0) => WizardMoves
      BY <1>1, <2>2, PlainMoves
    <2>. QED BY <2>1, <2>2, <2>3, GoneOn
  <1>5. CASE InspectAnswered(d)
    <2>. DEFINE next == IF d.answer = "ok" THEN LocalIdle(d.path, "none")
                        ELSE Failing("local_error", "inspection")
    <2>1. d.op = "inspect" /\ Answered(d) /\ WizardGoes(d, "inspecting", next)
      BY <1>5 DEF InspectAnswered, Quietly
    <2>2. "inspecting" \in Statuses \ Connecting /\ "local_error" \in Statuses
          /\ "inspection" \in Operations
      BY DEF Statuses, Errors, Connecting, Operations
    <2>3. ASSUME wizard.at = "inspecting", Awaits(d, "inspecting"), wizard' = next PROVE WizardMoves
      <3>1. d.path = wizard.root
        BY <1>2, <2>1, <2>3 DEF ConnectsInv, PickedOK, Awaits
      <3>2. CASE wizard' = LocalIdle(d.path, "none")
        BY <1>1, <1>2, <2>2, <2>3, <3>1, <3>2, LocalIdleMade, OnwardMoves
      <3>3. CASE wizard' = Failing("local_error", "inspection")
        BY <1>1, <2>2, <2>3, <3>3, FailingMade, OnwardMoves
      <3>. QED BY <2>3, <3>2, <3>3
    <2>. HIDE DEF next
    <2>. QED BY <2>1, <2>2, <2>3, GoneOn
  <1>6. CASE CloneAnswered(d)
    <2>. DEFINE next == IF d.answer = "ok" THEN [wizard EXCEPT !.at = "cloning"]
                        ELSE Failing("local_error", "clone")
    <2>1. d.op = "clone" /\ Answered(d) /\ WizardGoes(d, "clone_starting", next)
      BY <1>6 DEF CloneAnswered, Quietly
    <2>2. "clone_starting" \in Statuses \ Connecting /\ {"local_error", "cloning"} \subseteq Statuses
          /\ "clone" \in Operations
      BY DEF Statuses, Errors, Mutating, Connecting, Operations
    <2>3. ASSUME wizard.at = "clone_starting", wizard' = next PROVE WizardMoves
      <3>1. CASE wizard' = [wizard EXCEPT !.at = "cloning"]
        <4>1. wizard'.at = "cloning" /\ wizard'.root = wizard.root /\ wizard'.replaced = wizard.replaced
          BY <1>1, <3>1 DEF Wizards
        <4>. QED BY <2>2, <2>3, <4>1, OnwardMoves
      <3>2. CASE wizard' = Failing("local_error", "clone")
        BY <1>1, <2>2, <2>3, <3>2, FailingMade, OnwardMoves
      <3>. QED BY <2>3, <3>1, <3>2
    <2>. HIDE DEF next
    <2>. QED BY <2>1, <2>2, <2>3, GoneOn
  <1>7. CASE WorkspaceAnswered(d)
    <2>. DEFINE next == CASE d.answer = "error" -> Failing("local_error", "repository")
                          [] d.answer = "invalid" -> Reached("validation_failed")
                          [] OTHER -> LocalIdle(wizard.root, d.answer)
    <2>1. d.op = "workspace" /\ Answered(d) /\ WizardGoes(d, "workspace_inspecting", next)
      BY <1>7 DEF WorkspaceAnswered, Quietly
    <2>2. "workspace_inspecting" \in Statuses \ Connecting
          /\ {"local_error", "validation_failed"} \subseteq Statuses /\ "repository" \in Operations
      BY DEF Statuses, Errors, Connecting, Operations
    <2>3. ASSUME wizard.at = "workspace_inspecting", wizard' = next PROVE WizardMoves
      <3>1. CASE wizard' = Failing("local_error", "repository")
        BY <1>1, <2>2, <2>3, <3>1, FailingMade, OnwardMoves
      <3>2. CASE wizard' = Reached("validation_failed")
        BY <1>1, <2>2, <2>3, <3>2, ReachedMade, OnwardMoves
      <3>3. CASE d.answer \in {"ready", "initialization_required"} /\ wizard' = LocalIdle(wizard.root, d.answer)
        <4>1. d.answer \in {"none", "ready", "initialization_required"}
          BY <3>3
        <4>. QED BY <1>1, <2>2, <2>3, <3>3, <4>1, LocalIdleMade, OnwardMoves
      <3>. QED BY <1>2, <2>1, <2>3, <3>1, <3>2, <3>3
    <2>. HIDE DEF next
    <2>. QED BY <2>1, <2>2, <2>3, GoneOn
  <1>8. CASE PreviewAnswered(d)
    <2>. DEFINE next == IF d.answer = "ok" THEN Reached("preview") ELSE Failing("local_error", "preview")
    <2>1. d.op = "preview" /\ Answered(d) /\ WizardGoes(d, "preview_loading", next)
      BY <1>8 DEF PreviewAnswered, Quietly
    <2>2. "preview_loading" \in Statuses \ Connecting /\ {"local_error", "preview"} \subseteq Statuses
          /\ "preview" \in Operations
      BY DEF Statuses, Errors, Connecting, Operations
    <2>3. ASSUME wizard.at = "preview_loading", wizard' = next PROVE WizardMoves
      <3>1. CASE wizard' = Failing("local_error", "preview")
        BY <1>1, <2>2, <2>3, <3>1, FailingMade, OnwardMoves
      <3>2. CASE wizard' = Reached("preview")
        BY <1>1, <2>2, <2>3, <3>2, ReachedMade, OnwardMoves
      <3>. QED BY <2>3, <3>1, <3>2
    <2>. HIDE DEF next
    <2>. QED BY <2>1, <2>2, <2>3, GoneOn
  <1>9. CASE InitializeAnswered(d)
    <2>. DEFINE next == CASE d.answer = "pushed" -> Reached("ready_to_connect")
                          [] d.answer = "drafted" -> Reached("draft_review")
                          [] d.answer = "changed" -> Failing("local_error", "preview")
                          [] OTHER -> Failing("initialize_error", "initialization")
    <2>1. d.op = "initialize" /\ Answered(d) /\ WizardGoes(d, "initializing", next)
      BY <1>9 DEF InitializeAnswered, Quietly
    <2>2. "initializing" \in Statuses \ Connecting
          /\ {"ready_to_connect", "draft_review", "local_error", "initialize_error"} \subseteq Statuses
          /\ {"preview", "initialization"} \subseteq Operations
      BY DEF Statuses, Errors, Mutating, Connecting, Operations
    <2>3. ASSUME wizard.at = "initializing", wizard' = next PROVE WizardMoves
      <3>1. CASE wizard' = Reached("ready_to_connect") \/ wizard' = Reached("draft_review")
        BY <1>1, <2>2, <2>3, <3>1, ReachedMade, OnwardMoves
      <3>2. CASE wizard' = Failing("local_error", "preview")
        BY <1>1, <2>2, <2>3, <3>2, FailingMade, OnwardMoves
      <3>3. CASE wizard' = Failing("initialize_error", "initialization")
        BY <1>1, <2>2, <2>3, <3>3, FailingMade, OnwardMoves
      <3>. QED BY <2>3, <3>1, <3>2, <3>3
    <2>. HIDE DEF next
    <2>. QED BY <2>1, <2>2, <2>3, GoneOn
  <1>. QED BY <1>3, <1>4, <1>5, <1>6, <1>7, <1>8, <1>9

\* The answers the account hears too.
LEMMA AuthConnects ==
  ASSUME WaitsInv, ConnectsInv, HistoryKept, UNCHANGED backendVars, NEW c \in calls, NEW d \in Answers(c),
         AuthAnswered(d)
  PROVE  ConnectsInv'
  <1>1. d.op \in AuthOps
    BY DEF AuthAnswered, AuthOps
  <1>2. d = c /\ d.answer \in AuthAnswers \ {"none"} /\ d.id \in Ids /\ wizard \in Wizards
    BY <1>1, AnswersMade DEF WaitsInv, TypeOK
  <1>3. CASE ~(d.op = "restoring auth" /\ d.answer = "authenticated")
    <2>. PICK to : to = CASE d.answer = "authenticated" -> "repositories_new"
                          [] d.answer = "error" -> "auth_error"
                          [] d.answer = "signed_out" -> "idle"
                          [] OTHER -> "reauthentication_required"
      OBVIOUS
    <2>1. Answered(d) /\ WizardGoes(d, "loading", Plain(to, 0))
      BY <1>3 DEF AuthAnswered
    <2>2. to \in {"repositories_new", "auth_error", "idle", "reauthentication_required"}
      BY <1>2 DEF AuthAnswers
    <2>3. /\ "loading" \in Statuses \ Connecting /\ to \in Statuses
          /\ to \notin {"inspecting", "connected", "loading"}
      BY <2>2 DEF Statuses, Errors, Connecting
    <2>4. wizard' = Plain(to, 0) => WizardMoves
      BY <1>2, <2>3, PlainMoves
    <2>5. d.op # "connect"
      BY <1>1 DEF AuthOps
    <2>. QED BY <2>1, <2>3, <2>4, <2>5, GoneOn
  <1>4. CASE d.op = "restoring auth" /\ d.answer = "authenticated"
    <2>. PICK new : new = Asked("restore", d.id, None)
      OBVIOUS
    <2>1. calls' = (calls \ {d}) \cup {new} /\ wizard' = wizard /\ UNCHANGED saved
      BY <1>4 DEF AuthAnswered, backendVars
    <2>2. Harmless(new)
      BY DEF Asked, Harmless
    <2>3. CallsStand
      BY <1>4, <2>1, <2>2 DEF CallsStand
    <2>. QED BY <2>1, <2>3, StandStep
  <1>. QED BY <1>3, <1>4

LEMMA AccountAnswerConnects ==
  ASSUME WaitsInv, ConnectsInv, HistoryKept, UNCHANGED backendVars, NEW d, d.id \in Ids,
         BeginAnswered(d) \/ LogoutAnswered(d) \/ CancelAnswered(d)
  PROVE  ConnectsInv'
  <1>1. wizard \in Wizards /\ wizard.replaced \in MaybeCheckout
    BY DEF WaitsInv, TypeOK, Wizards
  <1>2. /\ {"login_beginning", "waiting_for_user", "auth_error", "idle"} \subseteq Statuses
        /\ "login_beginning" \notin Connecting
    BY DEF Statuses, LoggingIn, Errors, Connecting
  <1>3. CASE BeginAnswered(d)
    <2>. DEFINE next == IF d.answer = "ok" THEN Plain("waiting_for_user", d.id) ELSE Plain("auth_error", 0)
    <2>1. d.op = "begin" /\ Answered(d) /\ WizardGoes(d, "login_beginning", next)
      BY <1>3 DEF BeginAnswered
    <2>2. ASSUME wizard.at = "login_beginning", wizard' = next PROVE WizardMoves
      <3>1. CASE wizard' = Plain("waiting_for_user", d.id)
        BY <1>1, <1>2, <2>2, <3>1, PlainMoves
      <3>2. CASE wizard' = Plain("auth_error", 0)
        BY <1>1, <1>2, <3>2, PlainMoves
      <3>. QED BY <2>2, <3>1, <3>2
    <2>. HIDE DEF next
    <2>. QED BY <1>2, <2>1, <2>2, GoneOn
  <1>4. CASE LogoutAnswered(d)
    <2>1. d.op = "logout" /\ Answered(d) /\ wizard' \in {Blank, wizard}
      BY <1>4 DEF LogoutAnswered
    <2>2. wizard' = Blank => WizardMoves
      BY BlankMade DEF WizardMoves
    <2>. QED BY <2>1, <2>2, AnsweredStands, StandStep
  <1>5. CASE CancelAnswered(d)
    <2>1. d.op \in {"cancel", "cancel replacement"} /\ Answered(d)
      BY <1>5 DEF CancelAnswered
    <2>2. CASE CanCancelReplacement /\ wizard' = Connected(wizard.replaced)
      <3>1. wizard.replaced # None /\ wizard.at \notin Connecting
        BY <2>2 DEF CanCancelReplacement, Mutating, Connecting
      <3>2. WizardMoves
        BY <1>1, <2>2, <3>1, ConnectedMoves, ReplacedIsSaved
      <3>. QED BY <2>1, <3>2, AnsweredStands, StandStep
    <2>3. CASE wizard' = Plain("idle", 0)
      <3>1. WizardMoves
        BY <1>1, <1>2, <2>3, PlainMoves
      <3>. QED BY <2>1, <3>1, AnsweredStands, StandStep
    <2>4. CASE wizard' = wizard
      BY <2>1, <2>4, AnsweredStands, StandStep
    <2>. QED BY <1>5, <2>2, <2>3, <2>4 DEF CancelAnswered
  <1>. QED BY <1>3, <1>4, <1>5

\* The answer about a connection: heard by the wizard that waits for it, or no longer of
\* any concern.
LEMMA ConnectAnswerConnects ==
  ASSUME WaitsInv, ConnectsInv, HistoryKept, UNCHANGED backendVars, NEW c \in calls, ConnectAnswered(c)
  PROVE  ConnectsInv'
  <1>1. /\ wizard \in Wizards /\ c.path \in MaybeCheckout
        /\ {"local_error", "initialize_error"} \subseteq Statuses /\ "connection" \in Operations
    BY BackendTyped DEF WaitsInv, TypeOK, Calls, Statuses, Errors, Operations
  <1>2. c.op = "connect" /\ Answered(c) /\ saved' = saved
    BY DEF ConnectAnswered, Quietly, backendVars
  <1>3. calls' \subseteq calls /\ \A d \in calls' : d.op = "connect" => d # c
    BY <1>2 DEF Answered
  <1>4. ~dropped' => ~dropped
    BY DEF HistoryKept, WaitsInv, TypeOK
  <1>5. ~dropped => /\ wizard.at \in Connecting /\ wizard.request = c.id
                    /\ c.answer = "ok" => saved = c.path
                    /\ \A d \in calls : d.op = "connect" => c = d
    BY <1>2 DEF ConnectsInv, ConnectionOK, Connecting
  <1>6. ~dropped' => \A d \in calls' : d.op # "connect"
    BY <1>3, <1>4, <1>5
  <1>7. ~dropped' /\ wizard.replaced # None => wizard.replaced = saved \/ c.answer = "ok"
    <2>. SUFFICES ASSUME ~dropped', wizard.replaced # None PROVE wizard.replaced = saved \/ c.answer = "ok"
      OBVIOUS
    <2>1. wizard.replaced = saved \/ \E d \in calls : d.op = "connect" /\ d.answer = "ok"
      BY <1>4 DEF ConnectsInv, RemembersOK
    <2>. QED BY <1>4, <1>5, <2>1
  <1>8. CASE wizard' = wizard /\ dropped
    <2>1. dropped'
      BY <1>4, <1>8
    <2>. QED BY <1>3, <1>8, <2>1
         DEF ConnectsInv, PickedOK, Awaits, GoesOnWithThePicked, HistoryKept, ShownIsSaved
  <1>9. ASSUME wizard.at \in Connecting, c.answer = "ok", wizard' = Connected(c.path)
        PROVE  ConnectsInv'
    <2>1. wizard'.at = "connected" /\ wizard'.root = None /\ wizard'.replaced = None
          /\ wizard'.shown = c.path
      BY <1>1, <1>9, ConnectedMade
    <2>2. PickedOK' /\ GoesOnWithThePicked'
      BY <2>1 DEF PickedOK, GoesOnWithThePicked, Awaits
    <2>3. ~dropped' => ConnectionOK' /\ RemembersOK'
      BY <1>6, <2>1 DEF ConnectionOK, RemembersOK, Awaits
    <2>4. ShownIsSaved'
      BY <1>2, <1>4, <1>5, <1>9, <2>1 DEF ShownIsSaved
    <2>. QED BY <2>2, <2>3, <2>4 DEF ConnectsInv
  <1>10. ASSUME NEW at \in {"local_error", "initialize_error"}, c.answer # "ok",
                wizard' = Failing(at, "connection")
         PROVE  ConnectsInv'
    <2>1. wizard'.at \in {"local_error", "initialize_error"} /\ wizard'.root = wizard.root
          /\ wizard'.replaced = wizard.replaced
      BY <1>1, <1>10, FailingMade
    <2>2. PickedOK' /\ ShownIsSaved'
      BY <2>1 DEF PickedOK, ShownIsSaved, Awaits
    <2>3. GoesOnWithThePicked'
      BY <2>1 DEF ConnectsInv, GoesOnWithThePicked, HistoryKept
    <2>4. ~dropped' => ConnectionOK'
      BY <1>6 DEF ConnectionOK
    <2>5. ~dropped' => RemembersOK'
      BY <1>2, <1>7, <1>10, <2>1 DEF RemembersOK, Awaits
    <2>. QED BY <2>2, <2>3, <2>4, <2>5 DEF ConnectsInv
  <1>11. \/ wizard' = wizard /\ ~(wizard.at \in Connecting /\ wizard.request = c.id)
         \/ wizard.at \in Connecting /\ c.answer = "ok" /\ wizard' = Connected(c.path)
         \/ c.answer # "ok" /\ wizard' = Failing("local_error", "connection")
         \/ c.answer # "ok" /\ wizard' = Failing("initialize_error", "connection")
    BY DEF ConnectAnswered, Awaits, Connecting
  <1>. QED BY <1>5, <1>8, <1>9, <1>10, <1>11

\* Whichever answer arrives.
LEMMA ReceiveConnects ==
  ASSUME WaitsInv, ConnectsInv, HistoryKept, NEW c \in calls, NEW d \in Answers(c), Receive(d)
  PROVE  ConnectsInv'
  <1>1. UNCHANGED backendVars /\ d.id \in Ids
    BY AnswersMade DEF Receive
  <1>2. CASE AuthAnswered(d)
    BY <1>1, <1>2, AuthConnects
  <1>3. CASE BeginAnswered(d) \/ LogoutAnswered(d) \/ CancelAnswered(d)
    BY <1>1, <1>3, AccountAnswerConnects
  <1>4. CASE ConnectAnswered(d)
    <2>1. d = c
      BY <1>4, AnswersMade DEF ConnectAnswered
    <2>. QED BY <1>1, <1>4, <2>1, ConnectAnswerConnects
  <1>5. CASE \/ RestoreAnswered(d) \/ ListAnswered(d) \/ InspectAnswered(d) \/ CloneAnswered(d)
             \/ WorkspaceAnswered(d) \/ PreviewAnswered(d) \/ InitializeAnswered(d)
    BY <1>1, <1>5, QuietConnects
  <1>. QED BY <1>2, <1>3, <1>4, <1>5 DEF Receive

\* Whichever event arrives.
LEMMA DeliverConnects ==
  ASSUME WizardAssumption, WaitsInv, ConnectsInv, HistoryKept, NEW e \in events, Deliver(e)
  PROVE  ConnectsInv'
  <1>1. /\ wizard \in Wizards /\ wizard.root \in MaybeCheckout /\ None \in MaybeCheckout
        /\ UNCHANGED saved
    BY DEF WaitsInv, TypeOK, Wizards, MaybeCheckout, Deliver
  <1>2. CASE AuthEventReceived(e)
    <2>1. {"reauthentication_required", "loading", "auth_error", "idle"} \subseteq Statuses
      BY DEF Statuses, Errors
    <2>2. \A at \in {"reauthentication_required", "auth_error", "idle"} :
            wizard' = Plain(at, 0) => WizardMoves
      BY <1>1, <2>1, PlainMoves
    <2>3. CASE UNCHANGED calls /\ (wizard' = wizard \/ WizardMoves)
      BY <1>1, <2>3, StandStep DEF CallsStand
    <2>4. CASE /\ e.kind = "authenticated" /\ LoginAwaited(e.id)
               /\ \E id \in UnusedAfter(e) :
                    /\ wizard' = Plain("loading", id)
                    /\ calls' = calls \cup {Asked("restore", id, None)}
      <3>1. PICK id \in UnusedAfter(e) : /\ wizard' = Plain("loading", id)
                                        /\ calls' = calls \cup {Asked("restore", id, None)}
        BY <2>4
      <3>2. id \in Ids /\ \A c \in calls : c.id # id
        BY FreshAfter
      <3>3. wizard.at \notin Connecting
        BY <2>4 DEF LoginAwaited, LoggingIn, Connecting
      <3>4. WizardMoves
        BY <1>1, <2>1, <3>1, <3>2, <3>3, PlainMoves
      <3>5. PICK new : new = Asked("restore", id, None)
        OBVIOUS
      <3>6. Harmless(new)
        BY <3>5 DEF Asked, Harmless
      <3>7. CallsStand
        BY <1>1, <3>1, <3>5, <3>6 DEF CallsStand
      <3>. QED BY <3>4, <3>7, StandStep
    <2>5. \/ /\ e.kind = "authenticated" /\ LoginAwaited(e.id)
             /\ \E id \in UnusedAfter(e) :
                  /\ wizard' = Plain("loading", id)
                  /\ calls' = calls \cup {Asked("restore", id, None)}
          \/ UNCHANGED calls /\ wizard' \in {wizard, Plain("reauthentication_required", 0),
                                             Plain("auth_error", 0), Plain("idle", 0)}
      BY <1>2 DEF AuthEventReceived, WizardHears
    <2>. QED BY <2>2, <2>3, <2>4, <2>5
  <1>3. CASE CloneEventReceived(e)
    <2>1. UNCHANGED calls
      BY <1>3 DEF CloneEventReceived
    <2>2. CallsStand
      BY <1>1, <2>1 DEF CallsStand
    <2>3. CASE ~CloneAwaited(e.id)
      BY <1>3, <2>2, <2>3, StandStep DEF CloneEventReceived
    <2>4. CASE CloneAwaited(e.id)
      <3>1. wizard.at \notin Connecting
        BY <2>4 DEF CloneAwaited, Connecting
      <3>2. wizard' \in {LocalIdle(wizard.root, "none"), Failing("local_error", "clone"),
                         LocalIdle(None, "none")}
        BY <1>3, <2>4 DEF CloneEventReceived
      <3>3. "local_error" \in Statuses /\ "clone" \in Operations
        BY DEF Statuses, Errors, Operations
      <3>4. CASE wizard' = LocalIdle(wizard.root, "none")
        <4>1. WizardMoves
          BY <1>1, <3>1, <3>4, LocalIdleMade, OnwardMoves
        <4>. QED BY <2>2, <4>1, StandStep
      <3>5. CASE wizard' = LocalIdle(None, "none")
        <4>1. WizardMoves
          BY <1>1, <3>1, <3>5, LocalIdleMade, OnwardMoves
        <4>. QED BY <2>2, <4>1, StandStep
      <3>6. CASE wizard' = Failing("local_error", "clone")
        <4>1. WizardMoves
          BY <1>1, <3>1, <3>3, <3>6, FailingMade, OnwardMoves
        <4>. QED BY <2>2, <4>1, StandStep
      <3>. QED BY <3>2, <3>4, <3>5, <3>6
    <2>. QED BY <2>3, <2>4
  <1>. QED BY <1>2, <1>3 DEF Deliver

LEMMA WindowStepConnects ==
  ASSUME WizardAssumption, WaitsInv, ConnectsInv, HistoryKept, WindowSteps
  PROVE  ConnectsInv'
  <1>1. ASSUME NEW c \in calls, NEW d \in Answers(c), Receive(d) PROVE ConnectsInv'
    BY <1>1, ReceiveConnects
  <1>2. ASSUME NEW e \in events, Deliver(e) PROVE ConnectsInv'
    BY <1>2, DeliverConnects
  <1>3. ASSUME NEW id \in clones, CloneProgressReceived(id) PROVE ConnectsInv'
    <2>1. /\ wizard.at = "clone_starting" /\ wizard \in Wizards
          /\ wizard' = [wizard EXCEPT !.at = "cloning"] /\ UNCHANGED <<calls, saved>>
      BY <1>3 DEF CloneProgressReceived, backendVars, WaitsInv, TypeOK
    <2>2. wizard'.at = "cloning" /\ wizard'.root = wizard.root /\ wizard'.replaced = wizard.replaced
      BY <2>1 DEF Wizards
    <2>3. CallsStand /\ WizardMoves
      BY <2>1, <2>2, OnwardMoves DEF CallsStand, Connecting
    <2>. QED BY <2>3, StandStep
  <1>. QED BY <1>1, <1>2, <1>3 DEF WindowSteps

LEMMA ConnectsAtStart ==
  ASSUME WizardAssumption, Init
  PROVE  ConnectsInv
  <1>1. /\ wizard = [Blank EXCEPT !.at = "loading", !.request = 1]
        /\ calls = {Asked("restoring auth", 1, None)} /\ ~dropped
    BY DEF Init
  <1>2. wizard.at = "loading" /\ wizard.root = None /\ wizard.replaced = None
    BY <1>1 DEF Blank
  <1>3. \A c \in calls : c.op = "restoring auth"
    <2>. PICK first : first = Asked("restoring auth", 1, None)
      OBVIOUS
    <2>1. first.op = "restoring auth"
      BY DEF Asked
    <2>2. calls = {first}
      BY <1>1
    <2>. QED BY <2>1, <2>2
  <1>. QED BY <1>2, <1>3
       DEF ConnectsInv, PickedOK, GoesOnWithThePicked, ConnectionOK, RemembersOK, ShownIsSaved

LEMMA ConnectsNext ==
  ASSUME WizardAssumption, WaitsInv, ConnectsInv, [Next]_vars
  PROVE  ConnectsInv'
  <1>1. ASSUME NEW path \in Checkouts, Pick(path), picked' = path, dropped' = (dropped \/ LosesConnection)
        PROVE  ConnectsInv'
    BY <1>1, PickConnects
  <1>2. ASSUME UserSteps \/ BackendSteps \/ WindowSteps, HistoryKept PROVE ConnectsInv'
    BY <1>2, UserStepConnects, BackendStepConnects, WindowStepConnects
  <1>3. CASE Next
    BY <1>1, <1>2, <1>3 DEF Next, HistoryKept
  <1>4. CASE UNCHANGED vars
    BY <1>4 DEF vars, windowVars, backendVars, ConnectsInv, PickedOK, GoesOnWithThePicked,
                ConnectionOK, RemembersOK, ShownIsSaved, Awaits
  <1>. QED BY <1>3, <1>4

\* The inductive invariant of the connection (connection-reducer.ts, settings/service.rs):
\* the inspection awaited is the picked directory's, the one connection under way is the
\* one the wizard waits for, and what it replaces or restores is what was saved last.
THEOREM ConnectsHold == WizardAssumption /\ Spec => []ConnectsInv
  <1>. SUFFICES ASSUME WizardAssumption PROVE Spec => []ConnectsInv
    OBVIOUS
  <1>1. Init => ConnectsInv
    BY ConnectsAtStart
  <1>2. WaitsInv /\ ConnectsInv /\ [Next]_vars => ConnectsInv'
    BY ConnectsNext
  <1>3. Spec => []WaitsInv
    BY WaitsHold
  <1>. QED BY <1>1, <1>2, <1>3, PTL DEF Spec

\* Whatever answers come late, the wizard goes on with the directory the user gave last
\* (connection-reducer.ts).
THEOREM GoesOnAsPicked == WizardAssumption /\ Spec => []GoesOnWithThePicked
  <1>1. ConnectsInv => GoesOnWithThePicked
    BY DEF ConnectsInv
  <1>. QED BY <1>1, ConnectsHold, PTL

\* A workspace shown as connected is the one local settings remember
\* (connection-reducer.ts, settings/service.rs).
THEOREM ConnectedIsSaved == WizardAssumption /\ Spec => []ShownIsSaved
  <1>1. ConnectsInv => ShownIsSaved
    BY DEF ConnectsInv
  <1>. QED BY <1>1, ConnectsHold, PTL

====
