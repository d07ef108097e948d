------------------------------- MODULE MCWindow -------------------------------
(***************************************************************************)
(* Small instances of two components of the window that send commands and  *)
(* take their answers late: the drafts, with the files behind them, and    *)
(* the connection wizard, with the backend behind it.  They share no       *)
(* state; a behaviour is one of the component that `part` names, while the *)
(* other one stands at an initial state.                                   *)
(***************************************************************************)
EXTENDS DocumentDrafts, TLC

CONSTANTS Checkouts, None, MaxRequests, MaxRefusals

VARIABLES part,
  wizard, account, calls, events, signed, login, clones, saved, refusals, picked, dropped

Wizard == INSTANCE ConnectionWizard
wizardVars == <<wizard, account, calls, events, signed, login, clones, saved, refusals, picked,
                dropped>>

ASSUME WindowAssumption == Wizard!WizardAssumption

\* The drafts have no directories of this kind: the checkouts are alike.
Symmetry == Permutations(Checkouts)

\* The component that stands still is at one of its initial states.
WindowInit ==
  /\ Init /\ Wizard!Init
  /\ \/ part = "drafts" /\ ~signed /\ saved = None
     \/ part = "connection" /\ \A c \in Changes : records[c] = Absent

WindowNext ==
  \/ part = "drafts" /\ Next /\ UNCHANGED <<part, wizardVars>>
  \/ part = "connection" /\ Wizard!Next /\ UNCHANGED <<part, vars>>

WindowSpec == WindowInit /\ [][WindowNext]_<<part, vars, wizardVars>>

-----------------------------------------------------------------------------
(***************************************************************************)
(* The promises of both, on this instance.                                 *)
(***************************************************************************)

\* The window waits for nothing that nobody will bring: every request of an editor has its
\* one answer under way (document-authoring-reducer.ts), and so has every status of the
\* wizard and of the account that only an answer or an event ends (connection-reducer.ts,
\* account-session.ts).
NothingIsAwaitedInVain == AnswersOwed /\ Wizard!AwaitedIsUnderWay

\* The wizard goes on with the directory the user gave last, and a workspace it shows as
\* connected is the one local settings remember, unless the window had to let go of a
\* connection under way (connection-reducer.ts).
ConnectsThePicked == Wizard!GoesOnWithThePicked /\ Wizard!ShownIsSaved
=============================================================================
