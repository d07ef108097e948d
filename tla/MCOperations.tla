----------------------------- MODULE MCOperations -----------------------------
(***************************************************************************)
(* The operations that take long, go through several steps, may be stopped *)
(* at any of them and must end: the initialization of a workspace, the     *)
(* clone of a repository, AI tasks and terminals.  They share no state; a  *)
(* behaviour is one of the kind that is named by `part`, while the others  *)
(* stand still.                                                            *)
(***************************************************************************)
EXTENDS WorkspaceInitialization

CONSTANTS
  Targets, Nothing,   \* of clones
  Callers, Shells,    \* who asks for clones and tasks at the same time, and for terminals
  MaxForeign, MaxLogouts, MaxOutput

VARIABLES part,
  jobs, clone, staging, targets, appeared, told, promised, account, logout, foreigns,
  running, task, flag, asked, sessions, term

Clones == INSTANCE RepositoryClone WITH Requests <- Callers
Ai == INSTANCE AiSessions WITH Tasks <- Callers, Terminals <- Shells

ASSUME OperationsAssumption == Clones!RepositoryCloneAssumption /\ Ai!AiSessionsAssumption

-----------------------------------------------------------------------------
Still == 0
OperationsInit ==
  /\ part \in {"initialization", "clone", "tasks", "terminals"}
  /\ IF part = "initialization" THEN Init
     ELSE /\ pending = Still /\ registry = Still /\ previews = Still /\ data = Still
          /\ cmd = Still /\ local = Still /\ made = Still /\ tree = Still /\ remote = Still
          /\ prs = Still /\ disk = Still /\ auth = Still /\ expired = Still /\ done = Still
          /\ count = Still
  /\ IF part = "clone" THEN Clones!Init
     ELSE /\ jobs = Still /\ clone = Still /\ staging = Still /\ targets = Still
          /\ appeared = Still /\ told = Still /\ promised = Still /\ account = Still
          /\ logout = Still /\ foreigns = Still
  /\ IF part \in {"tasks", "terminals"} THEN Ai!Init
     ELSE /\ running = Still /\ task = Still /\ flag = Still /\ asked = Still
          /\ sessions = Still /\ term = Still

cloneVars == <<jobs, clone, staging, targets, appeared, told, promised, account, logout, foreigns>>
aiVars == <<running, task, flag, asked, sessions, term>>

Initialize(A) == part = "initialization" /\ A /\ UNCHANGED <<part, cloneVars, aiVars>>
Clone(A) == part = "clone" /\ A /\ UNCHANGED <<part, vars, aiVars>>
RunTask(A) == part = "tasks" /\ A /\ UNCHANGED <<part, vars, cloneVars>>
RunTerminal(A) == part = "terminals" /\ A /\ UNCHANGED <<part, vars, cloneVars>>

OperationsNext ==
  \/ Initialize(Next) \/ Clone(Clones!Next)
  \/ RunTask(Ai!TaskNext) \/ RunTerminal(Ai!TerminalNext)

allVars == <<part, vars, cloneVars, aiVars>>

\* The fairness of each of the three modules.
OperationsFairness ==
  /\ \A c \in Commands : WF_allVars(Initialize(Step(c)))
  /\ \A r \in Callers : WF_allVars(Clone(Clones!Thread(r)))
  /\ \A t \in Callers : WF_allVars(RunTask(Ai!TaskStep(t))) /\ WF_allVars(RunTask(Ai!Timeout(t)))
  /\ \A s \in Shells :
       WF_allVars(RunTerminal(Ai!TerminalStep(s))) /\ WF_allVars(RunTerminal(Ai!GraceEnds(s)))

OperationsSpec == OperationsInit /\ [][OperationsNext]_allVars /\ OperationsFairness

-----------------------------------------------------------------------------
(***************************************************************************)
(* Properties                                                              *)
(***************************************************************************)

\* What an operation answers, or writes down for its retry, is what happened: an initialization
\* with a result is on GitHub and its attempt files claim no more than what was done, a clone
\* whose cancellation was accepted never appears and a completed one did, a terminal is told to
\* be over once and last (repository/service.rs, initialize; state.rs, JobRegistry;
\* settings/ai_terminal.rs).
OutcomeIsTrue ==
  /\ part = "initialization" => ResultIsTrue /\ AttemptTellsTruth
  /\ part = "clone" => Clones!CancelIsFinal /\ Clones!CompletedIsOwn
  /\ part = "terminals" => Ai!ExitIsLast

\* What must be alone is: a claimed initialization works alone and under the account that
\* previewed it and opens one pull request however often it is repeated, no clone goes on past a
\* logout, one AI task is under way and is the one a cancellation reaches (state.rs,
\* claim_pending_initialization and cancel_all; repository/service.rs; settings/ai_runner.rs).
OneAtATime ==
  /\ part = "initialization" => ClaimHoldsAccount /\ OnePullRequest
  /\ part = "clone" => Clones!LogoutStopsClones
  /\ part = "tasks" => Ai!OneTaskAtATime

\* No operation replaces what somebody else made: an initialization moves no branch that exists,
\* a clone appears whole and only where nothing was (repository/service.rs).
OthersAreSpared ==
  [][/\ part = "initialization" => CreatesOnly
     /\ part = "clone" => Clones!PublishesWhole]_allVars

\* What is begun ends: a claim is released, a clone answered, an AI task over with its program,
\* a stopped terminal told to be over (commands/workspace.rs, settings/ai_runner.rs and
\* ai_terminal.rs).
Begun(a) ==
  CASE part = "initialization" -> registry.active # None
    [] part = "clone" -> Clones!Registered(jobs, a)
    [] part = "tasks" -> task[a].pc = "prepare"
    [] part = "terminals" -> /\ a \in Shells /\ ~term[a].alive
                             /\ term[a].pc \in {"started", "wait", "drain"}
Over(a) ==
  CASE part = "initialization" -> registry.active = None
    [] part = "clone" -> told[a] # "nothing" \/ Clones!At(a, "gone")
    [] part = "tasks" -> task[a].pc = "end" /\ ~task[a].alive
    [] part = "terminals" -> a \in Shells /\ Ai!Contains(term[a].events, "exit")
OperationsEnd == \A a \in Callers : Begun(a) ~> Over(a)
=============================================================================
