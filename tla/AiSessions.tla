----------------------------- MODULE AiSessions -----------------------------
(***************************************************************************)
(* The programs OkHub starts for its user: one AI task at a time, run to   *)
(* its end, to its cancellation or to its timeout, and any number of       *)
(* terminals (src-tauri/src/settings/ai_runner.rs, ai_terminal.rs,         *)
(* commands.rs).                                                           *)
(*                                                                         *)
(* A task is one blocking thread that polls its process; a terminal is     *)
(* three threads - reader, writer and waiter - around one process.  A      *)
(* process may leave children behind that keep its pipe open.              *)
(***************************************************************************)
EXTENDS Integers, Sequences, SequencesExt

CONSTANTS Tasks,       \* calls of run_ai_task
          Terminals,   \* calls of start_ai_terminal
          MaxOutput,   \* bound: chunks a terminal's program writes
          None

VARIABLES running,     \* AiTaskRegistry: the task whose flag it holds
          task,        \* task -> its thread and its process
          flag,        \* task -> its cancel flag
          asked,       \* task -> cancel_ai_task said true while it was the one
          sessions,    \* AiTerminalRegistry: the terminals in its map
          term         \* terminal -> its threads, its process and its events

tasks == <<running, task, flag, asked>>
terminals == <<sessions, term>>
vars == <<tasks, terminals>>

(***************************************************************************)
(* AI tasks.                                                               *)
(***************************************************************************)
TaskPcs == {"new", "refused", "prepare", "poll", "drain", "end"}
Results == {"completed", "cancelled", "timed_out", "error"}
TerminalPcs == {"new", "ready", "failed", "started", "wait", "drain", "end"}

AiSessionsAssumption == None \notin Tasks \cup Results /\ MaxOutput \in Nat

NewTask == [pc |-> "new", alive |-> FALSE, pipe |-> FALSE, late |-> FALSE, result |-> None]
NewTerminal == [pc |-> "new", alive |-> FALSE, pipe |-> 0, written |-> 0, open |-> FALSE,
                reader |-> FALSE, late |-> FALSE, events |-> <<>>]

TaskStates == [pc : TaskPcs, alive : BOOLEAN, pipe : BOOLEAN, late : BOOLEAN,
               result : Results \cup {None}]
TerminalStates == [pc : TerminalPcs, alive : BOOLEAN, pipe : Nat, written : 0 .. MaxOutput,
                   open : BOOLEAN, reader : BOOLEAN, late : BOOLEAN,
                   events : Seq({"output", "exit"})]

TypeOK ==
  /\ running \in Tasks \cup {None}
  /\ flag \in [Tasks -> BOOLEAN] /\ asked \in [Tasks -> BOOLEAN]
  /\ task \in [Tasks -> TaskStates]
  /\ sessions \subseteq Terminals
  /\ term \in [Terminals -> TerminalStates]

(* AiTaskRegistry::begin: a new flag, unless another task holds the place. *)
MayBegin_Always(t) == TRUE
MayBegin(t) == running = None

Begin(t) ==
  /\ task[t].pc = "new"
  /\ IF MayBegin(t)
     THEN /\ running' = t
          /\ task' = [task EXCEPT ![t].pc = "prepare"]
     ELSE /\ task' = [task EXCEPT ![t].pc = "refused"]
          /\ UNCHANGED running
  /\ UNCHANGED <<flag, asked, terminals>>

(* AiTaskRegistry::cancel raises the flag of the task that runs.           *)
Cancel ==
  /\ running # None
  /\ flag' = [flag EXCEPT ![running] = TRUE]
  /\ asked' = [asked EXCEPT ![running] = TRUE]
  /\ UNCHANGED <<running, task, terminals>>

(* The guard is dropped with the blocking call, not with the request.      *)
EndTask(t, result) ==
  /\ task' = [task EXCEPT ![t] = [@ EXCEPT !.pc = "end", !.result = result]]
  /\ running' = None

(* Settings, rules and the prompt's file; any of them may fail, and so may *)
(* the start of the process.                                               *)
Prepare(t) ==
  /\ task[t].pc = "prepare"
  /\ \/ EndTask(t, "error")
     \/ /\ task' = [task EXCEPT ![t] = [@ EXCEPT !.pc = "poll", !.alive = TRUE, !.pipe = TRUE]]
        /\ UNCHANGED running
  /\ UNCHANGED <<flag, asked, terminals>>

(* One turn of run_process's loop: the end of the process comes first, the *)
(* flag second, the clock last.                                            *)
Stop(t, result) ==
  task' = [task EXCEPT ![t] = [@ EXCEPT !.pc = "drain", !.alive = FALSE, !.pipe = FALSE,
                                        !.result = result]]

Poll_NoTimeout(t) ==
  /\ task[t].pc = "poll"
  /\ \/ ~task[t].alive /\ task' = [task EXCEPT ![t] = [@ EXCEPT !.pc = "drain", !.result = "completed"]]
     \/ task[t].alive /\ flag[t] /\ Stop(t, "cancelled")
  /\ UNCHANGED <<running, flag, asked, terminals>>
Poll(t) ==
  /\ task[t].pc = "poll"
  /\ \/ ~task[t].alive /\ task' = [task EXCEPT ![t] = [@ EXCEPT !.pc = "drain", !.result = "completed"]]
     \/ task[t].alive /\ flag[t] /\ Stop(t, "cancelled")
     \/ task[t].alive /\ ~flag[t] /\ task[t].late /\ Stop(t, "timed_out")
  /\ UNCHANGED <<running, flag, asked, terminals>>

(* The clock passes the timeout.                                           *)
Timeout(t) ==
  /\ task[t].pc = "poll" /\ ~task[t].late
  /\ task' = [task EXCEPT ![t].late = TRUE]
  /\ UNCHANGED <<running, flag, asked, terminals>>

(* The process ends by itself; what it started may keep the pipe open.     *)
Exit(t) ==
  /\ task[t].alive
  /\ \E open \in BOOLEAN :
       task' = [task EXCEPT ![t] = [@ EXCEPT !.alive = FALSE, !.pipe = open]]
  /\ UNCHANGED <<running, flag, asked, terminals>>

(* The readers are done, or the grace is over.                             *)
Drained(t) ==
  /\ task[t].pc = "drain"
  /\ EndTask(t, task[t].result)
  /\ UNCHANGED <<flag, asked, terminals>>

(***************************************************************************)
(* Terminals.                                                              *)
(***************************************************************************)
(* prepare_ai_terminal: the command, the connected workspace, the file     *)
(* with the rules; without any of them there is no terminal.               *)
PrepareTerminal(s) ==
  /\ term[s].pc = "new"
  /\ \E pc \in {"ready", "failed"} : term' = [term EXCEPT ![s].pc = pc]
  /\ UNCHANGED <<sessions, tasks>>

(* start: the terminal and its process, which may not come up, and the     *)
(* reader first, then the place in the map ...                             *)
Start(s) ==
  /\ term[s].pc = "ready"
  /\ \/ term' = [term EXCEPT ![s] = [@ EXCEPT !.pc = "started", !.alive = TRUE, !.open = TRUE,
                                              !.reader = TRUE]]
     \/ term' = [term EXCEPT ![s].pc = "failed"]
  /\ UNCHANGED <<sessions, tasks>>

(* ... and the waiter last, when the session can be found.                 *)
Insert(s) ==
  /\ term[s].pc = "started"
  /\ sessions' = sessions \cup {s}
  /\ term' = [term EXCEPT ![s].pc = "wait"]
  /\ UNCHANGED tasks

(* The program writes, and ends; its children may keep the pipe open.      *)
Output(s) ==
  /\ term[s].open /\ term[s].written < MaxOutput
  /\ term' = [term EXCEPT ![s].written = @ + 1, ![s].pipe = @ + 1]
  /\ UNCHANGED <<sessions, tasks>>

ProgramEnds(s) ==
  /\ term[s].alive
  /\ \E open \in BOOLEAN : term' = [term EXCEPT ![s] = [@ EXCEPT !.alive = FALSE, !.open = open]]
  /\ UNCHANGED <<sessions, tasks>>

(* The children end; or the pipe is closed under them.                     *)
ChildrenEnd(s) ==
  /\ ~term[s].alive /\ term[s].open
  /\ term' = [term EXCEPT ![s].open = FALSE]
  /\ UNCHANGED <<sessions, tasks>>

Sent(s, event) == [term EXCEPT ![s].events = Append(@, event)]

(* The reader passes on what is in the pipe until the pipe ends.           *)
ReadOutput(s) ==
  /\ term[s].reader /\ term[s].pipe > 0
  /\ term' = [Sent(s, "output") EXCEPT ![s].pipe = @ - 1]
  /\ UNCHANGED <<sessions, tasks>>

ReaderEnds(s) ==
  /\ term[s].reader /\ term[s].pipe = 0 /\ ~term[s].open
  /\ term' = [term EXCEPT ![s].reader = FALSE]
  /\ UNCHANGED <<sessions, tasks>>

(* stop: whoever takes the session out of the map kills the process.       *)
StopTerminal(s) ==
  /\ s \in sessions
  /\ sessions' = sessions \ {s}
  /\ \E open \in BOOLEAN :
       term' = [term EXCEPT ![s] = [@ EXCEPT !.alive = FALSE, !.open = term[s].open /\ open]]
  /\ UNCHANGED tasks

(* The waiter: the process has ended, the session leaves the map ...       *)
Wait(s) ==
  /\ term[s].pc = "wait" /\ ~term[s].alive
  /\ sessions' = sessions \ {s}
  /\ term' = [term EXCEPT ![s].pc = "drain"]
  /\ UNCHANGED tasks

(* ... and once the reader is done, or the grace is over, the window is    *)
(* told.                                                                   *)
GraceEnds(s) ==
  /\ term[s].pc = "drain" /\ ~term[s].late
  /\ term' = [term EXCEPT ![s].late = TRUE]
  /\ UNCHANGED <<sessions, tasks>>

MayTell_AtOnce(s) == TRUE
MayTell(s) == ~term[s].reader \/ term[s].late

TellExit(s) ==
  /\ term[s].pc = "drain" /\ MayTell(s)
  /\ term' = [Sent(s, "exit") EXCEPT ![s].pc = "end"]
  /\ UNCHANGED <<sessions, tasks>>

Init ==
  /\ running = None
  /\ task = [t \in Tasks |-> NewTask]
  /\ flag = [t \in Tasks |-> FALSE]
  /\ asked = [t \in Tasks |-> FALSE]
  /\ sessions = {}
  /\ term = [s \in Terminals |-> NewTerminal]

TaskStep(t) == Prepare(t) \/ Poll(t) \/ Drained(t)
TerminalStep(s) ==
  Insert(s) \/ Wait(s) \/ TellExit(s) \/ ReadOutput(s) \/ ReaderEnds(s)

\* Tasks and terminals know nothing of each other.
TaskNext == Cancel \/ \E t \in Tasks : Begin(t) \/ Timeout(t) \/ Exit(t) \/ TaskStep(t)
TerminalNext ==
  \E s \in Terminals :
    \/ PrepareTerminal(s) \/ Start(s) \/ Output(s) \/ ProgramEnds(s) \/ ChildrenEnd(s)
    \/ StopTerminal(s) \/ GraceEnds(s) \/ TerminalStep(s)
Next == TaskNext \/ TerminalNext

Spec == Init /\ [][Next]_vars

(* The threads go on and time passes; programs need not end by themselves. *)
Fairness ==
  /\ \A t \in Tasks : WF_vars(TaskStep(t)) /\ WF_vars(Timeout(t))
  /\ \A s \in Terminals : WF_vars(TerminalStep(s)) /\ WF_vars(GraceEnds(s))

FairSpec == Spec /\ Fairness

(***************************************************************************)
(* Properties.                                                             *)
(***************************************************************************)
(* At most one task is under way, it is the one a cancellation reaches,    *)
(* and a task that is reported cancelled is one the user cancelled: a      *)
(* cancellation that comes too late never hits the next task.              *)
OneTaskAtATime ==
  /\ \A t \in Tasks : task[t].pc \in {"prepare", "poll", "drain"} <=> running = t
  /\ \A t \in Tasks : task[t].result = "cancelled" => asked[t]

(* A terminal's window hears of its end once, after the last output unless *)
(* the grace ran out first, and then nothing can be written to it.         *)
Exits(s) == {i \in DOMAIN term[s].events : term[s].events[i] = "exit"}
ExitIsLast ==
  \A s \in Terminals :
    /\ \A i, j \in Exits(s) : i = j
    /\ Exits(s) # {} => ~term[s].alive /\ s \notin sessions
    /\ \A i \in Exits(s) : i = Len(term[s].events) \/ term[s].late

(* Every task that begins is answered, whatever its program does, and the  *)
(* terminal that is stopped, or whose program ends, is told to be over.    *)
EverythingEnds ==
  /\ \A t \in Tasks : task[t].pc = "prepare" ~> task[t].pc = "end" /\ ~task[t].alive
  /\ \A s \in Terminals :
       term[s].pc \in {"started", "wait", "drain"} /\ ~term[s].alive ~> Contains(term[s].events, "exit")
=============================================================================
