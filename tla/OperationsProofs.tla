--------------------------- MODULE OperationsProofs ---------------------------
(***************************************************************************)
(* What the operations of MCOperations promise, for any number of          *)
(* previews, accounts, commands, clones, targets, tasks and terminals and  *)
(* any number of disturbances.  Each component has an inductive invariant  *)
(* of its own; the last section puts them together.                        *)
(***************************************************************************)
EXTENDS MCOperations, Sequences, TLAPS

(***************************************************************************)
(* The initialization of a workspace: its inductive invariant.             *)
(***************************************************************************)
\* The commands that hold the claim, and how far they got.
Holding == Working \cup {"forgetting"}
AfterCommit == {"noting", "reading", "pushing", "noting_push", "publishing", "creating",
                "removing", "completing"}
AfterPush == {"noting_push", "publishing", "creating", "removing", "completing"}
AfterPublication == {"removing", "completing", "forgetting"}

Known(p) == p \in Previews /\ data[p] # None
\* The initialization of a preview did happen.
Landed(p) ==
  /\ Known(p) /\ remote[Branch(p)] = p
  /\ IF data[p].empty THEN tree.seeded ELSE prs.opened > 0

\* The claim is held by one command, which works for the claimed preview.
ClaimInv ==
  /\ \A c \in Commands :
       cmd[c].pc \in Holding => registry.active = cmd[c].p /\ Known(cmd[c].p)
  /\ \A c, d \in Commands : cmd[c].pc \in Holding /\ cmd[d].pc \in Holding => c = d

\* What can be claimed was previewed.
KnownInv ==
  /\ \A p \in {pending, registry.preview, registry.active} : p = None \/ Known(p)
  /\ \A c \in Commands : cmd[c].pc = "persisting" => Known(cmd[c].p)

\* During a login there is nothing to claim, and a claim that works keeps its account.
LoginInv == auth.login => pending = None /\ registry.preview = None /\ registry.active = None
AccountInv ==
  \A c \in Commands :
    cmd[c].pc \in Working \ {"account"} =>
      auth.user = data[cmd[c].p].author /\ ~auth.login /\ cmd[c].user = auth.user

\* A pull request is opened where none is open.
PrInv ==
  /\ prs.opened <= count.changes + (IF prs.open THEN 1 ELSE 0)
  /\ prs.open => prs.opened > 0
  /\ \A c \in Commands : cmd[c].pc = "creating" => ~prs.open

\* Only what was previewed has an attempt.
FilesInv == \A p \in Previews : data[p] = None => disk[p].files \cap {"committed", "pushed"} = {}

\* The command that works has done what it is past.
PlaceInv ==
  \A c \in Commands :
    /\ cmd[c].pc \in AfterCommit => local[Branch(cmd[c].p)] = cmd[c].p
    /\ cmd[c].pc \in AfterPush => remote[Branch(cmd[c].p)] = cmd[c].p
    /\ cmd[c].pc \in AfterPublication => Landed(cmd[c].p)
    /\ cmd[c].pc = "creating" => ~data[cmd[c].p].empty

\* What is answered, or recorded as completed, has happened.
DoneInv ==
  /\ \A p \in done : Landed(p)
  /\ registry.completed => Landed(registry.preview)

InitializationInv ==
  /\ TypeOK /\ ClaimInv /\ KnownInv /\ LoginInv /\ AccountInv
  /\ PrInv /\ FilesInv /\ AttemptTellsTruth /\ PlaceInv /\ DoneInv

-----------------------------------------------------------------------------
(***************************************************************************)
(* Type correctness.                                                       *)
(***************************************************************************)
LEMMA IdleTyped == Idle \in CommandStates
  BY DEF Idle, CommandStates, Pcs

LEMMA ContextsTyped ==
  /\ Nobody \in Contexts
  /\ \A r \in Contexts :
       /\ Released(r) \in Contexts /\ Completed(r) \in Contexts
       /\ [r EXCEPT !.preview = None, !.completed = FALSE] \in Contexts
       /\ \A p \in Previews, b \in BOOLEAN : [r EXCEPT !.preview = p, !.completed = b] \in Contexts
  BY DEF Nobody, Contexts, Released, Completed

LEMMA GotoTyped ==
  ASSUME TypeOK, NEW c \in Commands
  PROVE  /\ End(c) => cmd' \in [Commands -> CommandStates]
         /\ \A pc \in Pcs : Goto(c, pc) => cmd' \in [Commands -> CommandStates]
  <1>1. cmd \in [Commands -> CommandStates]
    BY DEF TypeOK
  <1>. QED BY <1>1, IdleTyped DEF End, Goto, CommandStates

\* However a command ends, what it leaves to the settings is typed.
LEMMA FailTyped ==
  ASSUME TypeOK, NEW c \in Commands, Fail(c) \/ FailChanged(c)
  PROVE  /\ cmd' \in [Commands -> CommandStates]
         /\ registry' \in Contexts
         /\ UNCHANGED <<pending, previews, done>>
  <1>1. "clearing" \in Pcs
    BY DEF Pcs
  <1>2. registry \in Contexts
    BY DEF TypeOK
  <1>. QED BY <1>1, <1>2, ContextsTyped, GotoTyped DEF Fail, FailChanged

\* The head of the repository, and what is written beside it.
LEMMA HeadTyped == TypeOK => HeadCommit \in Refs
  BY DEF TypeOK, HeadCommit, Refs, Branches, Trees

LEMMA FilesTyped ==
  ASSUME TypeOK
  PROVE  \A p \in Previews :
           /\ \A phase \in Phases : Written(p, phase) \in [Previews -> Attempts]
           /\ Littered(p) \in [Previews -> Attempts]
           /\ \A left \in SUBSET disk[p].files :
                [disk EXCEPT ![p].files = left] \in [Previews -> Attempts]
  <1>1. disk \in [Previews -> Attempts]
    BY DEF TypeOK
  <1>. QED BY <1>1 DEF Written, Littered, Attempts

LEMMA InitTyped == Init => TypeOK
  <1>. SUFFICES ASSUME Init PROVE TypeOK
    OBVIOUS
  <1>1. (CHOOSE user \in Users : TRUE) \in Users
    BY WorkspaceInitializationAssumption
  <1>2. remote \in [Branches -> Refs] /\ local \in [Branches -> Refs]
    BY DEF Init, Refs
  <1>3. auth \in Accounts /\ tree \in Trees /\ prs \in PullRequests /\ count \in Counts
    BY <1>1, WorkspaceInitializationAssumption DEF Init, Accounts, Trees, PullRequests, Counts
  <1>4. disk \in [Previews -> Attempts]
    BY DEF Init, Attempts
  <1>. QED BY <1>2, <1>3, <1>4, IdleTyped, ContextsTyped DEF Init, TypeOK

LEMMA StepsTyped ==
  ASSUME InitializationInv, NEW c \in Commands, Step(c)
  PROVE  TypeOK'
  <1>0. /\ TypeOK
        /\ cmd[c].pc \in Holding =>
             cmd[c].p \in Previews /\ data[cmd[c].p] \in Records
        /\ cmd[c].pc = "persisting" => cmd[c].p \in Previews
        /\ cmd[c].pc \in Working \ {"account"} => cmd[c].user \in Users
    <2>1. cmd[c].pc \in Holding => cmd[c].p \in Previews /\ data[cmd[c].p] \in Records
      BY DEF InitializationInv, TypeOK, ClaimInv, Known
    <2>2. cmd[c].pc \in Working \ {"account"} => cmd[c].user = data[cmd[c].p].author
      BY DEF InitializationInv, AccountInv
    <2>. QED BY <2>1, <2>2 DEF InitializationInv, KnownInv, Known, Holding, Records
  <1>1. CASE Inspect(c)
    <2>1. cmd' \in [Commands -> CommandStates]
      <3>1. cmd \in [Commands -> CommandStates] /\ Unused \subseteq Previews
        BY <1>0, WorkspaceInitializationAssumption DEF TypeOK, Unused
      <3>2. \A p \in Previews : [cmd[c] EXCEPT !.pc = "persisting", !.p = p] \in CommandStates
        BY <3>1 DEF CommandStates, Pcs
      <3>3. CASE End(c)
        BY <1>0, <3>3, GotoTyped
      <3>4. CASE ~End(c)
        <4>1. (CHOOSE p \in Unused : TRUE) \in Previews
          BY <1>1, <3>1, <3>4 DEF Inspect
        <4>. QED BY <1>1, <3>1, <3>2, <3>4, <4>1 DEF Inspect
      <3>. QED BY <3>3, <3>4
    <2>2. data' \in [Previews -> Records \cup {None}]
      <3>1. auth.user # None =>
              [empty |-> RemoteEmpty, head |-> HeadCommit, clean |-> ~Dirty, author |-> auth.user]
                \in Records
        BY <1>0, HeadTyped DEF Records, TypeOK, Accounts, RemoteEmpty, Dirty
      <3>2. data \in [Previews -> Records \cup {None}]
        BY <1>0 DEF TypeOK
      <3>. QED BY <1>1, <3>1, <3>2 DEF Inspect
    <2>. QED BY <1>0, <1>1, <2>1, <2>2, FailTyped DEF Inspect, TypeOK, settingsVars, repoVars, githubVars
  <1>2. CASE Persist(c)
    <2>1. cmd' \in [Commands -> CommandStates]
      BY <1>0, <1>2, GotoTyped, FailTyped DEF Persist, Pcs, Working, TypeOK
    <2>2. registry' \in Contexts /\ pending' \in Previews \cup {None} /\ previews' \subseteq Previews
      <3>1. /\ registry \in Contexts /\ pending \in Previews \cup {None}
            /\ previews \subseteq Previews /\ cmd[c].p \in Previews
        BY <1>0, <1>2 DEF Persist, TypeOK, At
      <3>2. Replaced(cmd[c].p) \in Contexts
        BY <3>1, ContextsTyped DEF Replaced
      <3>. QED BY <1>2, <3>1, <3>2 DEF Persist, settingsVars
    <2>. QED BY <1>0, <1>2, <2>1, <2>2, FailTyped DEF Persist, TypeOK, settingsVars, repoVars, githubVars
  <1>3. CASE Forget(c)
    <2>1. cmd' \in [Commands -> CommandStates]
      BY <1>0, <1>3, GotoTyped, FailTyped DEF Forget, Pcs, Working, TypeOK
    <2>2. /\ registry' \in Contexts /\ pending' \in Previews \cup {None}
         /\ previews' \subseteq Previews /\ done' \subseteq Previews
      BY <1>0, <1>3, ContextsTyped DEF Forget, TypeOK, At, Holding, Working
    <2>. QED BY <1>0, <1>3, <2>1, <2>2, FailTyped DEF Forget, TypeOK, settingsVars, repoVars, githubVars
  <1>4. CASE CheckAccount(c)
    <2>1. cmd' \in [Commands -> CommandStates]
      <3>1. cmd[c].p \in Previews /\ data[cmd[c].p].author \in Users
        BY <1>0, <1>4 DEF CheckAccount, At, Holding, Working, Records
      <3>2. cmd \in [Commands -> CommandStates]
        BY <1>0 DEF TypeOK
      <3>3. CASE Fail(c) \/ End(c)
        BY <1>0, <3>3, FailTyped, GotoTyped
      <3>4. ASSUME NEW empty \in BOOLEAN, NEW old \in BOOLEAN, auth.user \in Users
            PROVE  [cmd EXCEPT ![c] =
                     [@ EXCEPT !.pc = "loading", !.user = auth.user, !.empty = empty,
                               !.expired = old]] \in [Commands -> CommandStates]
        <4>1. [cmd[c] EXCEPT !.pc = "loading", !.user = auth.user, !.empty = empty, !.expired = old]
                \in CommandStates
          BY <3>2, <3>4 DEF CommandStates, Pcs, Working
        <4>. QED BY <3>2, <4>1
      <3>5. CASE ~(Fail(c) \/ End(c))
        <4>. DEFINE empty == RemoteEmpty
                    old == cmd[c].p \in expired
        <4>1. empty \in BOOLEAN /\ old \in BOOLEAN
          BY DEF RemoteEmpty
        <4>2. /\ auth.user \in Users
              /\ cmd' = [cmd EXCEPT ![c] =
                          [@ EXCEPT !.pc = "loading", !.user = auth.user, !.empty = empty,
                                    !.expired = old]]
          BY <1>4, <3>1, <3>5 DEF CheckAccount
        <4>. HIDE DEF empty, old
        <4>. QED BY <3>4, <4>1, <4>2
      <3>. QED BY <3>3, <3>5
    <2>2. registry' \in Contexts /\ pending' \in Previews \cup {None} /\ previews' \subseteq Previews
      BY <1>0, <1>4, ContextsTyped, FailTyped DEF CheckAccount, TypeOK
    <2>. QED BY <1>0, <1>4, <2>1, <2>2, FailTyped DEF CheckAccount, TypeOK, settingsVars, repoVars, githubVars
  <1>5. CASE Load(c)
    <2>1. cmd' \in [Commands -> CommandStates]
      <3>1. disk[cmd[c].p].onBase \in BOOLEAN
        BY <1>0, <1>5 DEF Load, At, Holding, Working, Attempts, TypeOK
      <3>2. cmd \in [Commands -> CommandStates]
        BY <1>0 DEF TypeOK
      <3>3. CASE FailChanged(c)
        BY <1>0, <3>3, FailTyped
      <3>4. ASSUME NEW pushed \in BOOLEAN, NEW pc \in {"reading", "committing"}
            PROVE  [cmd EXCEPT ![c] =
                     [@ EXCEPT !.pushed = pushed, !.onBase = disk[cmd[c].p].onBase, !.pc = pc]]
                       \in [Commands -> CommandStates]
        <4>1. [cmd[c] EXCEPT !.pushed = pushed, !.onBase = disk[cmd[c].p].onBase, !.pc = pc]
                \in CommandStates
          BY <3>1, <3>2 DEF CommandStates, Pcs, Working
        <4>. QED BY <3>2, <4>1
      <3>5. CASE ~FailChanged(c)
        <4>. DEFINE pushed == HasFile(cmd[c].p, "pushed")
                    pc == IF HasFile(cmd[c].p, "committed") \/ HasFile(cmd[c].p, "pushed")
                          THEN "reading" ELSE "committing"
        <4>1. pushed \in BOOLEAN /\ pc \in {"reading", "committing"}
          BY DEF HasFile
        <4>2. cmd' = [cmd EXCEPT ![c] =
                       [@ EXCEPT !.pushed = pushed, !.onBase = disk[cmd[c].p].onBase, !.pc = pc]]
          BY <1>5, <3>5 DEF Load
        <4>. HIDE DEF pushed, pc
        <4>. QED BY <3>4, <4>1, <4>2
      <3>. QED BY <3>3, <3>5
    <2>. QED BY <1>0, <1>5, <2>1, FailTyped DEF Load, TypeOK, settingsVars, repoVars, githubVars
  <1>6. CASE Prepare(c)
    <2>1. cmd' \in [Commands -> CommandStates]
      BY <1>0, <1>6, GotoTyped, FailTyped DEF Prepare, WriteFails, Pcs, Working, TypeOK
    <2>2. disk' \in [Previews -> Attempts]
      <3>1. /\ cmd[c].p \in Previews /\ disk \in [Previews -> Attempts]
            /\ "prepared" \in Phases
        BY <1>0, <1>6 DEF Prepare, At, Holding, Working, TypeOK, Phases
      <3>. QED BY <1>0, <1>6, <3>1, FilesTyped DEF Prepare, WriteFails
    <2>. QED BY <1>0, <1>6, <2>1, <2>2, FailTyped DEF Prepare, WriteFails, TypeOK, settingsVars, repoVars, githubVars
  <1>7. CASE Commit(c)
    <2>1. cmd' \in [Commands -> CommandStates]
      <3>1. cmd \in [Commands -> CommandStates] /\ tree.onBase \in BOOLEAN
        BY <1>0 DEF TypeOK, Trees
      <3>2. CASE Fail(c) \/ FailChanged(c)
        BY <1>0, <3>2, FailTyped
      <3>3. CASE ~(Fail(c) \/ FailChanged(c))
        <4>1. [cmd[c] EXCEPT !.pc = "noting", !.onBase = tree.onBase] \in CommandStates
          BY <3>1 DEF CommandStates, Pcs, Working
        <4>. QED BY <1>7, <3>1, <3>3, <4>1 DEF Commit
      <3>. QED BY <3>2, <3>3
    <2>2. local' \in [Branches -> Refs] /\ made' \in [Previews -> Commits \cup {None}]
      <3>1. [parent |-> HeadCommit, author |-> cmd[c].user] \in Commits /\ cmd[c].p \in Refs
        BY <1>0, <1>7, HeadTyped DEF Commit, At, Holding, Working, Commits, Refs
      <3>2. local \in [Branches -> Refs] /\ made \in [Previews -> Commits \cup {None}]
        BY <1>0 DEF TypeOK
      <3>. QED BY <1>7, <3>1, <3>2 DEF Commit
    <2>. QED BY <1>0, <1>7, <2>1, <2>2, FailTyped DEF Commit, TypeOK, settingsVars, repoVars, githubVars
  <1>8. CASE NoteCommit(c)
    <2>1. cmd' \in [Commands -> CommandStates]
      BY <1>0, <1>8, GotoTyped, FailTyped DEF NoteCommit, WriteFails, Pcs, Working, TypeOK
    <2>2. disk' \in [Previews -> Attempts]
      <3>1. /\ cmd[c].p \in Previews /\ cmd[c].onBase \in BOOLEAN
            /\ disk \in [Previews -> Attempts] /\ "committed" \in Phases
        BY <1>0, <1>8 DEF NoteCommit, At, Holding, Working, TypeOK, Phases, CommandStates
      <3>2. [Written(cmd[c].p, "committed") EXCEPT ![cmd[c].p].onBase = cmd[c].onBase]
              \in [Previews -> Attempts]
        BY <3>1 DEF Written, Attempts
      <3>. QED BY <1>0, <1>8, <3>1, <3>2, FilesTyped DEF NoteCommit, WriteFails
    <2>. QED BY <1>0, <1>8, <2>1, <2>2, FailTyped DEF NoteCommit, WriteFails, TypeOK, settingsVars, repoVars, githubVars
  <1>9. CASE ReadRemote(c)
    <2>1. cmd' \in [Commands -> CommandStates]
      BY <1>0, <1>9, GotoTyped, FailTyped DEF ReadRemote, Pcs, Working, TypeOK
    <2>. QED BY <1>0, <1>9, <2>1, FailTyped DEF ReadRemote, TypeOK, settingsVars, repoVars, githubVars
  <1>10. CASE Push(c)
    <2>1. cmd' \in [Commands -> CommandStates]
      BY <1>0, <1>10, GotoTyped, FailTyped DEF Push, Pcs, Working, TypeOK
    <2>2. remote' \in [Branches -> Refs]
      BY <1>0, <1>10 DEF Push, TypeOK, Refs, Branches, Branch, At, Holding, Working
    <2>. QED BY <1>0, <1>10, <2>1, <2>2, FailTyped DEF Push, TypeOK, settingsVars, repoVars, githubVars
  <1>11. CASE NotePush(c)
    <2>1. cmd' \in [Commands -> CommandStates]
      BY <1>0, <1>11, GotoTyped, FailTyped DEF NotePush, WriteFails, Pcs, Working, TypeOK
    <2>2. disk' \in [Previews -> Attempts]
      <3>1. /\ cmd[c].p \in Previews /\ disk \in [Previews -> Attempts]
            /\ "pushed" \in Phases
        BY <1>0, <1>11 DEF NotePush, At, Holding, Working, TypeOK, Phases
      <3>. QED BY <1>0, <1>11, <3>1, FilesTyped DEF NotePush, WriteFails
    <2>. QED BY <1>0, <1>11, <2>1, <2>2, FailTyped DEF NotePush, WriteFails, TypeOK, settingsVars, repoVars, githubVars
  <1>12. CASE FindPr(c)
    <2>1. cmd' \in [Commands -> CommandStates]
      BY <1>0, <1>12, GotoTyped, FailTyped DEF FindPr, Pcs, Working, TypeOK
    <2>. QED BY <1>0, <1>12, <2>1, FailTyped DEF FindPr, TypeOK, settingsVars, repoVars, githubVars
  <1>13. CASE CreatePr(c)
    <2>1. cmd' \in [Commands -> CommandStates]
      BY <1>0, <1>13, GotoTyped, FailTyped DEF CreatePr, Pcs, Working, TypeOK
    <2>2. prs' \in PullRequests
      <3>1. prs \in PullRequests
        BY <1>0 DEF TypeOK
      <3>2. [open |-> TRUE, opened |-> prs.opened + 1] \in PullRequests
        BY <3>1 DEF PullRequests
      <3>. QED BY <1>13, <3>1, <3>2 DEF CreatePr
    <2>. QED BY <1>0, <1>13, <2>1, <2>2, FailTyped DEF CreatePr, TypeOK, settingsVars, repoVars, githubVars
  <1>14. CASE Checkout(c)
    <2>1. cmd' \in [Commands -> CommandStates]
      BY <1>0, <1>14, GotoTyped, FailTyped DEF Checkout, Pcs, Working, TypeOK
    <2>2. tree' \in Trees
      BY <1>0, <1>14 DEF Checkout, TypeOK, Trees
    <2>. QED BY <1>0, <1>14, <2>1, <2>2, FailTyped DEF Checkout, TypeOK, settingsVars, repoVars, githubVars
  <1>15. CASE Remove(c)
    <2>1. cmd' \in [Commands -> CommandStates]
      BY <1>0, <1>15, GotoTyped, FailTyped DEF Remove, Pcs, Working, TypeOK
    <2>2. disk' \in [Previews -> Attempts] /\ previews' \subseteq Previews
      <3>1. /\ cmd[c].p \in Previews /\ disk \in [Previews -> Attempts]
            /\ previews \subseteq Previews
        BY <1>0, <1>15 DEF Remove, At, Holding, Working, TypeOK
      <3>2. disk' \in [Previews -> Attempts]
        <4>1. CASE disk' = [disk EXCEPT ![cmd[c].p].files = {}]
          BY <3>1, <4>1 DEF Attempts
        <4>2. ASSUME NEW gone, disk' = [disk EXCEPT ![cmd[c].p].files = @ \ gone]
              PROVE  disk' \in [Previews -> Attempts]
          BY <3>1, <4>2 DEF Attempts
        <4>. QED BY <1>15, <4>1, <4>2 DEF Remove
      <3>. QED BY <1>0, <1>15, <3>1, <3>2, FailTyped DEF Remove
    <2>. QED BY <1>0, <1>15, <2>1, <2>2, FailTyped DEF Remove, TypeOK, settingsVars, repoVars, githubVars
  <1>16. CASE Complete(c)
    <2>1. cmd' \in [Commands -> CommandStates]
      BY <1>0, <1>16, GotoTyped, FailTyped DEF Complete, Pcs, Working, TypeOK
    <2>2. registry' \in Contexts /\ pending' \in Previews \cup {None} /\ done' \subseteq Previews
      BY <1>0, <1>16, ContextsTyped DEF Complete, TypeOK, At, Holding, Working
    <2>. QED BY <1>0, <1>16, <2>1, <2>2, FailTyped DEF Complete, TypeOK, settingsVars, repoVars, githubVars
  <1>17. CASE ClearAfterFailure(c)
    <2>1. cmd' \in [Commands -> CommandStates]
      BY <1>0, <1>17, GotoTyped, FailTyped DEF ClearAfterFailure, Pcs, Working, TypeOK
    <2>2. registry' \in Contexts /\ pending' \in Previews \cup {None} /\ previews' \subseteq Previews
      BY <1>0, <1>17, ContextsTyped DEF ClearAfterFailure, TypeOK, ClearPending, settingsVars
    <2>. QED BY <1>0, <1>17, <2>1, <2>2, FailTyped DEF ClearAfterFailure, TypeOK, settingsVars, repoVars, githubVars
  <1>. QED BY <1>1, <1>2, <1>3, <1>4, <1>5, <1>6, <1>7, <1>8, <1>9, <1>10, <1>11, <1>12, <1>13,
              <1>14, <1>15, <1>16, <1>17 DEF Step


\* What happens beside the commands at work.
Asks(c) == AskPreview(c) \/ \E p \in Previews : Claim(c, p)
Disturbances ==
  BeginLogin \/ EndLogin \/ Logout \/ Quit \/ Change \/ \E p \in Previews : Expire(p)

LEMMA CountsTyped ==
  ASSUME TypeOK, MayHappen
  PROVE  /\ [count EXCEPT !.others = @ + 1] \in Counts
         /\ [count EXCEPT !.changes = @ + 1] \in Counts
  BY WorkspaceInitializationAssumption DEF TypeOK, MayHappen, Counts

LEMMA AsksTyped ==
  ASSUME TypeOK, NEW c \in Commands, Asks(c)
  PROVE  TypeOK'
  <1>1. CASE AskPreview(c)
    <2>1. auth.gen \in Nat /\ cmd \in [Commands -> CommandStates]
      BY DEF TypeOK, Accounts
    <2>2. [Idle EXCEPT !.pc = "asking", !.gen = auth.gen] \in CommandStates
      BY <2>1 DEF Idle, CommandStates, Pcs
    <2>. QED BY <1>1, <2>1, <2>2 DEF AskPreview, TypeOK, settingsVars, repoVars, githubVars
  <1>2. ASSUME NEW p \in Previews, Claim(c, p)
        PROVE  TypeOK'
    <2>1. registry \in Contexts /\ cmd \in [Commands -> CommandStates]
      BY DEF TypeOK
    <2>2. registry' \in Contexts
      <3>. DEFINE completed == registry.preview = p /\ registry.completed
      <3>1. completed \in BOOLEAN
        OBVIOUS
      <3>2. registry' = [preview |-> p, active |-> p, completed |-> completed]
        BY <1>2 DEF Claim
      <3>. HIDE DEF completed
      <3>. QED BY <3>1, <3>2 DEF Contexts
    <2>3. \A pc \in {"forgetting", "account"} : [Idle EXCEPT !.p = p, !.pc = pc] \in CommandStates
      BY DEF Idle, CommandStates, Pcs, Working
    <2>4. cmd' \in [Commands -> CommandStates]
      BY <1>2, <2>1, <2>3 DEF Claim
    <2>. QED BY <1>2, <2>2, <2>4 DEF Claim, TypeOK, repoVars, githubVars
  <1>. QED BY <1>1, <1>2 DEF Asks

LEMMA DisturbancesTyped ==
  ASSUME InitializationInv, Disturbances
  PROVE  TypeOK'
  <1>0. /\ TypeOK
        /\ \A c \in Commands : cmd[c].pc \in Holding => cmd[c].p \in Previews
    BY DEF InitializationInv, ClaimInv, Known
  <1>1. CASE BeginLogin
    <2>1. auth \in Accounts
      BY <1>0 DEF TypeOK
    <2>2. auth' \in Accounts
      BY <1>1, <2>1 DEF BeginLogin, Accounts
    <2>. QED BY <1>0, <1>1, <2>2, ContextsTyped, CountsTyped
         DEF BeginLogin, ClearPending, TypeOK, repoVars, githubVars
  <1>2. CASE EndLogin
    <2>1. auth' \in Accounts
      BY <1>0, <1>2 DEF EndLogin, Accounts, TypeOK
    <2>. QED BY <1>0, <1>2, <2>1 DEF EndLogin, TypeOK, settingsVars, repoVars, githubVars
  <1>3. CASE Logout
    <2>1. auth \in Accounts
      BY <1>0 DEF TypeOK
    <2>2. auth' \in Accounts
      BY <1>3, <2>1 DEF Logout, Accounts
    <2>. QED BY <1>0, <1>3, <2>2, ContextsTyped, CountsTyped
         DEF Logout, ClearPending, TypeOK, repoVars, githubVars
  <1>4. CASE Quit
    <2>1. auth' \in Accounts /\ cmd' \in [Commands -> CommandStates]
      BY <1>0, <1>4, IdleTyped DEF Quit, Accounts, TypeOK
    <2>2. disk' \in [Previews -> Attempts]
      <3>1. CASE UNCHANGED disk
        BY <1>0, <3>1 DEF TypeOK
      <3>2. ASSUME NEW c \in Commands, cmd[c].pc \in {"loading", "noting", "noting_push"},
                   disk' = Littered(cmd[c].p)
            PROVE  disk' \in [Previews -> Attempts]
        BY <1>0, <3>2, FilesTyped DEF Holding, Working
      <3>. QED BY <1>4, <3>1, <3>2 DEF Quit, At
    <2>. QED BY <1>0, <1>4, <2>1, <2>2, ContextsTyped, CountsTyped
         DEF Quit, TypeOK, repoVars, githubVars
  <1>5. CASE Change
    <2>1. tree \in Trees /\ prs \in PullRequests
      BY <1>0 DEF TypeOK
    <2>2. tree' \in Trees
      BY <1>5, <2>1 DEF Change, Trees, githubVars
    <2>3. prs' \in PullRequests
      BY <1>5, <2>1 DEF Change, PullRequests, githubVars
    <2>4. local \in [Branches -> Refs] /\ remote \in [Branches -> Refs] /\ Foreign \in Refs
      BY <1>0 DEF TypeOK, Refs
    <2>5. local' \in [Branches -> Refs] /\ remote' \in [Branches -> Refs]
      BY <1>5, <2>4 DEF Change, githubVars
    <2>. QED BY <1>0, <1>5, <2>2, <2>3, <2>5, CountsTyped DEF Change, TypeOK, settingsVars
  <1>6. ASSUME NEW p \in Previews, Expire(p)
        PROVE  TypeOK'
    BY <1>0, <1>6, CountsTyped DEF Expire, TypeOK, settingsVars, repoVars, githubVars
  <1>. QED BY <1>1, <1>2, <1>3, <1>4, <1>5, <1>6 DEF Disturbances

LEMMA NextKinds ==
  Next <=> (\E c \in Commands : Step(c) \/ Asks(c)) \/ Disturbances
  BY DEF Next, Asks, Disturbances

\* Every step of the initialization keeps the types.
LEMMA NextTyped ==
  ASSUME InitializationInv, [Next]_vars
  PROVE  TypeOK'
  <1>1. CASE UNCHANGED vars
    BY <1>1 DEF InitializationInv, TypeOK, vars, settingsVars, repoVars, githubVars
  <1>2. TypeOK
    BY DEF InitializationInv
  <1>. QED BY <1>1, <1>2, NextKinds, StepsTyped, AsksTyped, DisturbancesTyped

-----------------------------------------------------------------------------
(***************************************************************************)
(* What lasts: what was previewed, the branches of the previews, the files *)
(* in the working directory and the pull requests opened.                  *)
(***************************************************************************)
Lasting ==
  /\ \A p \in Previews : data[p] # None => data'[p] = data[p]
  /\ \A b \in Branches, p \in Previews :
       /\ local[b] = p => local'[b] = p
       /\ remote[b] = p => remote'[b] = p
  /\ tree.seeded => tree'.seeded
  /\ prs.opened > 0 => prs'.opened > 0

LEMMA StepsLast ==
  ASSUME InitializationInv, NEW c \in Commands, Step(c)
  PROVE  Lasting
  <1>. USE DEF Lasting, repoVars, githubVars
  <1>0. /\ local \in [Branches -> Refs] /\ remote \in [Branches -> Refs]
        /\ data \in [Previews -> Records \cup {None}]
        /\ tree \in Trees /\ prs \in PullRequests
    BY DEF InitializationInv, TypeOK
  <1>1. CASE Inspect(c)
    <2>1. \A p \in Previews : data[p] # None => data'[p] = data[p]
      BY <1>0, <1>1 DEF Inspect, Unused
    <2>. QED BY <1>1, <2>1 DEF Inspect
  <1>2. CASE Commit(c)
    <2>1. \A b \in Branches, p \in Previews : local[b] = p => local'[b] = p
      BY <1>0, <1>2, WorkspaceInitializationAssumption DEF Commit, MayCreate, HasCommit
    <2>. QED BY <1>2, <2>1 DEF Commit
  <1>3. CASE Push(c)
    <2>1. \A b \in Branches, p \in Previews : remote[b] = p => remote'[b] = p
      BY <1>0, <1>3, WorkspaceInitializationAssumption DEF Push
    <2>. QED BY <1>3, <2>1 DEF Push
  <1>4. CASE CreatePr(c)
    <2>1. prs.opened > 0 => prs'.opened > 0
      BY <1>0, <1>4 DEF CreatePr, PullRequests
    <2>. QED BY <1>4, <2>1 DEF CreatePr
  <1>5. CASE Checkout(c)
    <2>1. tree.seeded => tree'.seeded
      BY <1>0, <1>5 DEF Checkout, Trees
    <2>. QED BY <1>5, <2>1 DEF Checkout
  <1>6. CASE UNCHANGED <<data, local, remote, tree, prs>>
    BY <1>6
  <1>. QED BY <1>1, <1>2, <1>3, <1>4, <1>5, <1>6
       DEF Step, Persist, Forget, CheckAccount, Load, Prepare, NoteCommit, ReadRemote, NotePush,
           FindPr, Remove, Complete, ClearAfterFailure

LEMMA ThingsLast ==
  ASSUME InitializationInv, [Next]_vars
  PROVE  Lasting
  <1>. USE DEF Lasting, repoVars, githubVars
  <1>0. /\ local \in [Branches -> Refs] /\ remote \in [Branches -> Refs]
        /\ tree \in Trees /\ prs \in PullRequests
    BY DEF InitializationInv, TypeOK
  <1>1. CASE UNCHANGED <<data, local, remote, tree, prs>>
    BY <1>1
  <1>2. CASE Change
    <2>1. \A b \in Branches, p \in Previews :
            /\ local[b] = p => local'[b] = p
            /\ remote[b] = p => remote'[b] = p
      BY <1>0, <1>2, WorkspaceInitializationAssumption DEF Change, Branches
    <2>2. tree.seeded => tree'.seeded
      BY <1>0, <1>2 DEF Change, Trees
    <2>3. prs'.opened = prs.opened
      BY <1>0, <1>2 DEF Change, PullRequests
    <2>. QED BY <1>2, <2>1, <2>2, <2>3 DEF Change
  <1>3. CASE Disturbances /\ ~Change
    BY <1>1, <1>3 DEF Disturbances, BeginLogin, EndLogin, Logout, Quit, Expire
  <1>4. CASE \E c \in Commands : Asks(c)
    BY <1>1, <1>4 DEF Asks, AskPreview, Claim
  <1>5. CASE UNCHANGED vars
    BY <1>1, <1>5 DEF vars
  <1>. QED BY <1>2, <1>3, <1>4, <1>5, NextKinds, StepsLast

\* What was previewed stays previewed for its branch, and what has happened stays so.
LEMMA LandedLasts ==
  ASSUME Lasting, NEW p, Known(p)
  PROVE  /\ Known(p)' /\ Branch(p)' = Branch(p) /\ Branch(p) \in Branches
         /\ data'[p] = data[p]
         /\ local[Branch(p)] = p => local'[Branch(p)'] = p
         /\ remote[Branch(p)] = p => remote'[Branch(p)'] = p
         /\ Landed(p) => Landed(p)'
  BY DEF Lasting, Known, Branch, Branches, Landed

(***************************************************************************)
(* What a step of a command does to the commands and to the settings.      *)
(***************************************************************************)
\* The other commands stay as they are; this one keeps its claim or ends, and what it
\* holds from now on it had or has checked.
Moves(c) ==
  /\ \A d \in Commands \ {c} : cmd'[d] = cmd[d]
  /\ cmd'[c].pc \in Holding =>
       /\ cmd[c].pc \in Working /\ cmd'[c].p = cmd[c].p
       /\ cmd'[c].pc # "account" /\ registry'.active = registry.active
  /\ cmd'[c].pc \in Working \ {"account"} =>
       \/ cmd[c].pc \in Working \ {"account"} /\ cmd'[c].user = cmd[c].user
       \/ cmd[c].pc = "account" /\ cmd'[c].user = auth.user /\ auth.user = data[cmd[c].p].author
  /\ cmd'[c].pc = "persisting" => cmd'[c].p \in Previews /\ data'[cmd'[c].p] # None

\* The claim is only ever dropped, by its command; the pending context and the preview
\* in memory are dropped or become the command's own; a result is recorded at the end.
Settles(c) ==
  /\ registry'.active \in {registry.active, None}
  /\ registry'.active # registry.active => cmd[c].pc \in Holding
  /\ pending' # pending =>
       \/ pending' = None
       \/ pending' = cmd[c].p /\ cmd[c].pc = "persisting" /\ SameSession(c)
  /\ registry'.preview # registry.preview =>
       \/ registry'.preview = None
       \/ registry'.preview = cmd[c].p /\ cmd[c].pc = "persisting" /\ SameSession(c)
       \/ registry'.preview = cmd[c].p /\ cmd[c].pc = "completing"
  /\ registry'.completed =>
       \/ registry.completed /\ registry'.preview = registry.preview
       \/ cmd[c].pc = "completing" /\ registry'.preview = cmd[c].p
  /\ done' # done => cmd[c].pc \in {"forgetting", "completing"} /\ done' = done \cup {cmd[c].p}

LEMMA FailMoves ==
  ASSUME InitializationInv, NEW c \in Commands, Fail(c) \/ FailChanged(c) \/ End(c)
  PROVE  Moves(c)
  <1>1. cmd \in [Commands -> CommandStates]
    BY DEF InitializationInv, TypeOK
  <1>2. cmd'[c].pc \in {"idle", "clearing"} /\ \A d \in Commands \ {c} : cmd'[d] = cmd[d]
    BY <1>1 DEF Fail, FailChanged, End, Goto, Idle, CommandStates
  <1>. QED BY <1>2 DEF Moves, Holding, Working

LEMMA GotoMoves ==
  ASSUME InitializationInv, NEW c \in Commands, cmd[c].pc \in Working \ {"account"},
         NEW pc \in Working \ {"account"}, Goto(c, pc), UNCHANGED registry
  PROVE  Moves(c)
  <1>1. cmd \in [Commands -> CommandStates]
    BY DEF InitializationInv, TypeOK
  <1>2. /\ \A d \in Commands \ {c} : cmd'[d] = cmd[d]
        /\ cmd'[c].pc = pc /\ cmd'[c].p = cmd[c].p /\ cmd'[c].user = cmd[c].user
    BY <1>1 DEF Goto, CommandStates
  <1>. QED BY <1>2 DEF Moves, Holding, Working

\* A failure only drops the claim.
LEMMA FailSettles ==
  ASSUME InitializationInv, NEW c \in Commands, cmd[c].pc \in Holding,
         Fail(c) \/ FailChanged(c)
  PROVE  Settles(c)
  <1>1. registry \in Contexts
    BY DEF InitializationInv, TypeOK
  <1>2. registry' = Released(registry) /\ UNCHANGED <<pending, previews, done>>
    BY DEF Fail, FailChanged
  <1>3. registry'.active = None /\ registry'.preview = registry.preview
        /\ registry'.completed = registry.completed
    BY <1>1, <1>2 DEF Contexts, Released
  <1>. QED BY <1>2, <1>3 DEF Settles

LEMMA KeepsSettle ==
  ASSUME NEW c \in Commands, UNCHANGED <<pending, registry, done>>
  PROVE  Settles(c)
  BY DEF Settles

LEMMA StepsMove ==
  ASSUME InitializationInv, NEW c \in Commands, Step(c)
  PROVE  Moves(c)
  <1>0. /\ cmd \in [Commands -> CommandStates]
        /\ data \in [Previews -> Records \cup {None}]
        /\ {"loading", "committing", "noting", "reading", "pushing", "noting_push", "publishing",
            "creating", "removing", "completing"} = Working \ {"account"}
    BY DEF InitializationInv, TypeOK, Working
  <1>1. CASE Inspect(c)
    <2>1. CASE End(c)
      BY <2>1, FailMoves
    <2>2. CASE ~End(c)
      <3>. DEFINE q == CHOOSE p \in Unused : TRUE
      <3>1. Unused # {} /\ Unused \subseteq Previews
        BY <1>1, <2>2, WorkspaceInitializationAssumption DEF Inspect, Unused
      <3>2. q \in Previews
        BY <3>1
      <3>3. data'[q] # None
        <4>1. PICK r \in Records : data' = [data EXCEPT ![q] = r]
          <5>1. auth.user \in Users /\ TypeOK
            BY <1>1, <2>2 DEF Inspect, InitializationInv, TypeOK, Accounts
          <5>2. [empty |-> RemoteEmpty, head |-> HeadCommit, clean |-> ~Dirty, author |-> auth.user]
                  \in Records
            BY <5>1, HeadTyped DEF Records, RemoteEmpty, Dirty, TypeOK
          <5>. QED BY <1>1, <2>2, <5>2 DEF Inspect
        <4>. QED BY <1>0, <3>2, <4>1, WorkspaceInitializationAssumption
      <3>4. cmd' = [cmd EXCEPT ![c] = [@ EXCEPT !.pc = "persisting", !.p = q]]
        BY <1>1, <2>2 DEF Inspect
      <3>. HIDE DEF q
      <3>5. cmd'[c].pc = "persisting" /\ cmd'[c].p = q /\ \A d \in Commands \ {c} : cmd'[d] = cmd[d]
        BY <1>0, <3>4 DEF CommandStates
      <3>. QED BY <3>2, <3>3, <3>5 DEF Moves, Holding, Working
    <2>. QED BY <2>1, <2>2
  <1>2. CASE CheckAccount(c)
    <2>1. CASE End(c) \/ Fail(c)
      BY <2>1, FailMoves
    <2>2. CASE ~(End(c) \/ Fail(c))
      <3>1. PICK empty, old : cmd' = [cmd EXCEPT ![c] = [@ EXCEPT !.pc = "loading",
                                        !.user = auth.user, !.empty = empty, !.expired = old]]
        BY <1>2, <2>2 DEF CheckAccount
      <3>2. /\ cmd'[c].pc = "loading" /\ cmd'[c].p = cmd[c].p /\ cmd'[c].user = auth.user
            /\ \A d \in Commands \ {c} : cmd'[d] = cmd[d]
        BY <1>0, <3>1 DEF CommandStates
      <3>. QED BY <1>2, <2>2, <3>2 DEF CheckAccount, At, Moves, Holding, Working
    <2>. QED BY <2>1, <2>2
  <1>3. CASE Load(c)
    <2>1. CASE FailChanged(c)
      BY <2>1, FailMoves
    <2>2. CASE ~FailChanged(c)
      <3>. DEFINE pushed == HasFile(cmd[c].p, "pushed")
                  onBase == disk[cmd[c].p].onBase
                  pc == IF HasFile(cmd[c].p, "committed") \/ HasFile(cmd[c].p, "pushed")
                        THEN "reading" ELSE "committing"
      <3>1. /\ cmd' = [cmd EXCEPT ![c] = [@ EXCEPT !.pushed = pushed, !.onBase = onBase, !.pc = pc]]
            /\ pc \in {"reading", "committing"}
        BY <1>3, <2>2 DEF Load
      <3>. HIDE DEF pushed, onBase, pc
      <3>2. /\ cmd'[c].pc = pc /\ cmd'[c].p = cmd[c].p /\ cmd'[c].user = cmd[c].user
            /\ \A d \in Commands \ {c} : cmd'[d] = cmd[d]
        BY <1>0, <3>1 DEF CommandStates
      <3>. QED BY <1>3, <2>2, <3>1, <3>2 DEF Load, At, Moves, Holding, Working, settingsVars
    <2>. QED BY <2>1, <2>2
  <1>4. CASE Commit(c)
    <2>1. CASE FailChanged(c) \/ Fail(c)
      BY <2>1, FailMoves
    <2>2. CASE ~(FailChanged(c) \/ Fail(c))
      <3>1. PICK onBase : cmd' = [cmd EXCEPT ![c] = [@ EXCEPT !.pc = "noting", !.onBase = onBase]]
        BY <1>4, <2>2 DEF Commit
      <3>2. /\ cmd'[c].pc = "noting" /\ cmd'[c].p = cmd[c].p /\ cmd'[c].user = cmd[c].user
            /\ \A d \in Commands \ {c} : cmd'[d] = cmd[d]
        BY <1>0, <3>1 DEF CommandStates
      <3>. QED BY <1>4, <2>2, <3>2 DEF Commit, At, Moves, Holding, Working, settingsVars
    <2>. QED BY <2>1, <2>2
  <1>5. CASE Persist(c) \/ Forget(c) \/ Complete(c) \/ ClearAfterFailure(c)
    BY <1>5, FailMoves DEF Persist, Forget, Complete, ClearAfterFailure
  <1>6. CASE Prepare(c)
    BY <1>0, <1>6, FailMoves, GotoMoves DEF Prepare, WriteFails, At, settingsVars
  <1>7. CASE NoteCommit(c)
    BY <1>0, <1>7, FailMoves, GotoMoves DEF NoteCommit, WriteFails, At, settingsVars
  <1>8. CASE ReadRemote(c)
    BY <1>0, <1>8, FailMoves, GotoMoves DEF ReadRemote, At, settingsVars
  <1>9. CASE Push(c)
    BY <1>0, <1>9, FailMoves, GotoMoves DEF Push, At, settingsVars
  <1>10. CASE NotePush(c)
    BY <1>0, <1>10, FailMoves, GotoMoves DEF NotePush, WriteFails, At, settingsVars
  <1>11. CASE FindPr(c)
    BY <1>0, <1>11, FailMoves, GotoMoves DEF FindPr, At, settingsVars
  <1>12. CASE CreatePr(c)
    BY <1>0, <1>12, FailMoves, GotoMoves DEF CreatePr, At, settingsVars
  <1>13. CASE Checkout(c)
    BY <1>0, <1>13, FailMoves, GotoMoves DEF Checkout, At, settingsVars
  <1>14. CASE Remove(c)
    BY <1>0, <1>14, FailMoves, GotoMoves DEF Remove, At, settingsVars
  <1>. QED BY <1>1, <1>2, <1>3, <1>4, <1>5, <1>6, <1>7, <1>8, <1>9, <1>10, <1>11, <1>12, <1>13,
              <1>14 DEF Step

LEMMA StepsSettle ==
  ASSUME InitializationInv, NEW c \in Commands, Step(c)
  PROVE  Settles(c)
  <1>0. registry \in Contexts
    BY DEF InitializationInv, TypeOK
  <1>1. CASE Persist(c)
    <2>1. CASE UNCHANGED settingsVars
      BY <1>1, <2>1, KeepsSettle DEF Persist, settingsVars
    <2>2. CASE ~UNCHANGED settingsVars
      <3>1. /\ SameSession(c) /\ registry' = Replaced(cmd[c].p) /\ pending' = cmd[c].p
            /\ cmd[c].pc = "persisting" /\ done' = done
        BY <1>1, <2>2 DEF Persist, At
      <3>2. registry'.active = registry.active /\ registry'.preview = cmd[c].p
            /\ ~registry'.completed
        BY <1>0, <3>1 DEF Contexts, Replaced
      <3>. QED BY <3>1, <3>2 DEF Settles
    <2>. QED BY <2>1, <2>2
  <1>2. CASE Forget(c)
    <2>1. cmd[c].pc \in Holding /\ cmd[c].pc = "forgetting"
      BY <1>2 DEF Forget, At, Holding
    <2>2. CASE registry' = Released(registry) /\ UNCHANGED <<pending, previews, done>>
      <3>1. registry'.active = None /\ registry'.preview = registry.preview
            /\ registry'.completed = registry.completed
        BY <1>0, <2>2 DEF Contexts, Released
      <3>. QED BY <2>1, <2>2, <3>1 DEF Settles
    <2>3. CASE ~(registry' = Released(registry) /\ UNCHANGED <<pending, previews, done>>)
      <3>1. registry' = Completed(registry) /\ pending' = None /\ done' = done \cup {cmd[c].p}
        BY <1>2, <2>3 DEF Forget
      <3>2. registry'.active = None /\ registry'.preview \in {None, registry.preview}
            /\ ~registry'.completed
        BY <1>0, <3>1 DEF Contexts, Completed, Nobody
      <3>. QED BY <2>1, <3>1, <3>2 DEF Settles
    <2>. QED BY <2>2, <2>3
  <1>3. CASE CheckAccount(c)
    <2>1. cmd[c].pc \in Holding
      BY <1>3 DEF CheckAccount, At, Holding, Working
    <2>2. CASE Fail(c)
      BY <2>1, <2>2, FailSettles
    <2>3. CASE UNCHANGED <<pending, registry, done>>
      BY <2>3, KeepsSettle
    <2>4. CASE pending' = None /\ registry' = Nobody /\ UNCHANGED done
      <3>1. registry'.active = None /\ registry'.preview = None /\ ~registry'.completed
        BY <2>4 DEF Nobody
      <3>. QED BY <2>1, <2>4, <3>1 DEF Settles
    <2>. QED BY <1>3, <2>2, <2>3, <2>4 DEF CheckAccount
  <1>4. CASE Complete(c)
    <2>. DEFINE recorded == [registry EXCEPT !.preview = cmd[c].p, !.completed = TRUE]
    <2>1. cmd[c].pc \in Holding /\ cmd[c].pc = "completing"
      BY <1>4 DEF Complete, At, Holding, Working
    <2>2. /\ recorded.preview = cmd[c].p /\ recorded.completed
          /\ Released(recorded).active = None /\ Released(recorded).preview = cmd[c].p
          /\ Completed(recorded).active = None /\ Completed(recorded).preview \in {None, cmd[c].p}
          /\ ~Completed(recorded).completed
      BY <1>0 DEF Contexts, Released, Completed, Nobody
    <2>3. \/ registry' = Completed(recorded) /\ pending' = None /\ done' = done \cup {cmd[c].p}
          \/ registry' = Released(recorded) /\ UNCHANGED <<pending, done>>
      BY <1>4 DEF Complete
    <2>. HIDE DEF recorded
    <2>. QED BY <2>1, <2>2, <2>3 DEF Settles
  <1>5. CASE ClearAfterFailure(c)
    <2>1. CASE ClearPending
      <3>1. registry'.active = registry.active /\ registry'.preview = None
            /\ ~registry'.completed /\ pending' = None /\ done' = done
        BY <1>0, <1>5, <2>1 DEF ClearAfterFailure, ClearPending, Contexts
      <3>. QED BY <3>1 DEF Settles
    <2>. QED BY <1>5, <2>1, KeepsSettle DEF ClearAfterFailure, settingsVars
  <1>6. CASE cmd[c].pc \in Working /\ (Fail(c) \/ FailChanged(c))
    BY <1>6, FailSettles DEF Holding
  <1>7. CASE UNCHANGED <<pending, registry, done>>
    BY <1>7, KeepsSettle
  <1>8. CASE Inspect(c) \/ FindPr(c) \/ Checkout(c)
    BY <1>6, <1>7, <1>8 DEF Inspect, FindPr, Checkout, settingsVars, At, Working
  <1>9. CASE Load(c) \/ Prepare(c) \/ Commit(c)
    BY <1>6, <1>7, <1>9 DEF Load, Prepare, Commit, WriteFails, settingsVars, At, Working
  <1>10. CASE NoteCommit(c) \/ ReadRemote(c) \/ Push(c) \/ NotePush(c)
    BY <1>6, <1>7, <1>10 DEF NoteCommit, ReadRemote, Push, NotePush, WriteFails, settingsVars, At, Working
  <1>11. CASE CreatePr(c) \/ Remove(c)
    BY <1>6, <1>7, <1>11 DEF CreatePr, Remove, settingsVars, At, Working
  <1>. QED BY <1>1, <1>2, <1>3, <1>4, <1>5, <1>8, <1>9, <1>10, <1>11 DEF Step

\* No step of a command changes the account, the counters or what is expired.
LEMMA StepsLeave ==
  ASSUME NEW c \in Commands, Step(c)
  PROVE  UNCHANGED <<auth, count>>
  BY DEF Step, Inspect, Persist, Forget, CheckAccount, Load, Prepare, Commit, NoteCommit,
         ReadRemote, Push, NotePush, FindPr, CreatePr, Checkout, Remove, Complete,
         ClearAfterFailure

\* The preview of a command that works, and of one that is about to keep its preview.
LEMMA WorksKnown ==
  ASSUME InitializationInv, NEW c \in Commands, cmd[c].pc \in Holding \cup {"persisting"}
  PROVE  /\ Known(cmd[c].p) /\ cmd[c].p \in Previews /\ cmd[c].p # None
         /\ cmd[c].pc \in Holding => registry.active = cmd[c].p
  BY WorkspaceInitializationAssumption DEF InitializationInv, ClaimInv, KnownInv, Known

LEMMA StepsClaim ==
  ASSUME InitializationInv, NEW c \in Commands, Step(c)
  PROVE  ClaimInv' /\ KnownInv'
  <1>1. Moves(c) /\ Settles(c) /\ Lasting
    BY StepsMove, StepsSettle, StepsLast
  <1>2. \A p : Known(p) => p \in Previews /\ data'[p] # None
    BY <1>1 DEF Lasting, Known
  <1>3. ASSUME NEW d \in Commands, cmd'[d].pc \in Holding
        PROVE  /\ cmd[d].pc \in Holding /\ cmd'[d].p = cmd[d].p
               /\ registry'.active = cmd'[d].p /\ Known(cmd[d].p)'
    <2>1. cmd[d].pc \in Holding /\ cmd'[d].p = cmd[d].p
      BY <1>1, <1>3 DEF Moves, Holding
    <2>2. registry.active = cmd[d].p /\ Known(cmd[d].p)
      BY <2>1, WorksKnown
    <2>3. registry'.active = registry.active
      <3>1. CASE d = c
        BY <1>1, <1>3, <3>1 DEF Moves
      <3>2. CASE d # c
        BY <1>1, <2>1, <3>2 DEF Settles, InitializationInv, ClaimInv
      <3>. QED BY <3>1, <3>2
    <2>. QED BY <1>2, <2>1, <2>2, <2>3 DEF Known
  <1>4. ClaimInv'
    BY <1>3 DEF ClaimInv, InitializationInv
  <1>5. \A d \in Commands : cmd'[d].pc = "persisting" => Known(cmd[d].p)'
    <2>. SUFFICES ASSUME NEW d \in Commands, cmd'[d].pc = "persisting"
                  PROVE  Known(cmd[d].p)'
      OBVIOUS
    <2>1. CASE d = c
      BY <1>1, <2>1 DEF Moves, Known
    <2>2. CASE d # c
      BY <1>1, <1>2, <2>2 DEF Moves, InitializationInv, KnownInv, Known
    <2>. QED BY <2>1, <2>2
  <1>6. (\A p \in {pending, registry.preview, registry.active} : p = None \/ Known(p))'
    <2>. DEFINE Stays(p) == p = None \/ (p \in Previews /\ data'[p] # None)
    <2>1. Stays(pending) /\ Stays(registry.preview) /\ Stays(registry.active)
      BY <1>2 DEF InitializationInv, KnownInv
    <2>2. cmd[c].pc \in Holding \cup {"persisting"} => Stays(cmd[c].p)
      BY <1>2, WorksKnown
    <2>3. Stays(None)
      OBVIOUS
    <2>. HIDE DEF Stays
    <2>4. Stays(pending') /\ Stays(registry'.preview) /\ Stays(registry'.active)
      BY <1>1, <2>1, <2>2, <2>3 DEF Settles, Holding, Working
    <2>. QED BY <2>4 DEF Stays, Known
  <1>. QED BY <1>4, <1>5, <1>6 DEF KnownInv

LEMMA StepsKeepAccount ==
  ASSUME InitializationInv, NEW c \in Commands, Step(c)
  PROVE  LoginInv' /\ AccountInv'
  <1>1. Moves(c) /\ Settles(c) /\ Lasting /\ auth' = auth
    BY StepsMove, StepsSettle, StepsLast, StepsLeave
  <1>2. ASSUME NEW d \in Commands, cmd[d].pc \in Holding
        PROVE  ~auth.login /\ data'[cmd[d].p] = data[cmd[d].p]
    BY <1>1, <1>2, WorksKnown DEF InitializationInv, LoginInv, Lasting, Known
  <1>3. LoginInv'
    <2>1. cmd[c].pc = "completing" => ~auth.login
      BY <1>2 DEF Holding, Working
    <2>. QED BY <1>1, <2>1 DEF LoginInv, InitializationInv, Settles, SameSession
  <1>4. AccountInv'
    <2>. SUFFICES ASSUME NEW d \in Commands, cmd'[d].pc \in Working \ {"account"}
                  PROVE  auth.user = data'[cmd'[d].p].author /\ ~auth.login
                         /\ cmd'[d].user = auth.user
      BY <1>1 DEF AccountInv
    <2>1. cmd[d].pc \in Holding /\ cmd'[d].p = cmd[d].p
      BY <1>1 DEF Moves, Holding
    <2>2. ~auth.login /\ data'[cmd[d].p] = data[cmd[d].p]
      BY <1>2, <2>1
    <2>3. auth.user = data[cmd[d].p].author /\ cmd'[d].user = auth.user
      BY <1>1 DEF Moves, InitializationInv, AccountInv
    <2>. QED BY <2>1, <2>2, <2>3
  <1>. QED BY <1>3, <1>4

\* Where a command goes on, and how a command ends.
LEMMA Ends ==
  ASSUME TypeOK, NEW c \in Commands, Fail(c) \/ FailChanged(c) \/ End(c)
  PROVE  cmd'[c].pc \in {"idle", "clearing"}
  <1>1. cmd \in [Commands -> CommandStates]
    BY DEF TypeOK
  <1>. QED BY <1>1 DEF Fail, FailChanged, End, Goto, Idle, CommandStates

LEMMA Goes ==
  ASSUME TypeOK, NEW c \in Commands, NEW pc, Goto(c, pc)
  PROVE  cmd'[c].pc = pc
  <1>1. cmd \in [Commands -> CommandStates]
    BY DEF TypeOK
  <1>. QED BY <1>1 DEF Goto, CommandStates

LEMMA Arrivals ==
  ASSUME TypeOK, NEW c \in Commands
  PROVE  /\ Inspect(c) => End(c) \/ cmd'[c].pc = "persisting"
         /\ CheckAccount(c) => End(c) \/ Fail(c) \/ cmd'[c].pc = "loading"
         /\ Load(c) =>
              \/ FailChanged(c) \/ cmd'[c].pc = "committing"
              \/ /\ cmd'[c].pc = "reading" /\ Trusted(c)
                 /\ HasFile(cmd[c].p, "committed") \/ HasFile(cmd[c].p, "pushed")
         /\ Commit(c) => Fail(c) \/ FailChanged(c) \/ cmd'[c].pc = "noting"
  <1>1. cmd \in [Commands -> CommandStates]
    BY DEF TypeOK
  <1>2. ASSUME Inspect(c), ~End(c) PROVE cmd'[c].pc = "persisting"
    <2>1. PICK p : cmd' = [cmd EXCEPT ![c] = [@ EXCEPT !.pc = "persisting", !.p = p]]
      BY <1>2 DEF Inspect
    <2>. QED BY <1>1, <2>1 DEF CommandStates
  <1>3. ASSUME CheckAccount(c), ~End(c), ~Fail(c) PROVE cmd'[c].pc = "loading"
    <2>1. PICK empty, old : cmd' = [cmd EXCEPT ![c] = [@ EXCEPT !.pc = "loading",
                                      !.user = auth.user, !.empty = empty, !.expired = old]]
      BY <1>3 DEF CheckAccount
    <2>. QED BY <1>1, <2>1 DEF CommandStates
  <1>4. ASSUME Load(c), ~FailChanged(c)
        PROVE  \/ cmd'[c].pc = "committing"
               \/ /\ cmd'[c].pc = "reading" /\ Trusted(c)
                  /\ HasFile(cmd[c].p, "committed") \/ HasFile(cmd[c].p, "pushed")
    <2>. DEFINE pushed == HasFile(cmd[c].p, "pushed")
                onBase == disk[cmd[c].p].onBase
                noted == HasFile(cmd[c].p, "committed") \/ HasFile(cmd[c].p, "pushed")
                pc == IF noted THEN "reading" ELSE "committing"
    <2>1. /\ cmd' = [cmd EXCEPT ![c] = [@ EXCEPT !.pushed = pushed, !.onBase = onBase, !.pc = pc]]
          /\ Trusted(c)
      BY <1>4 DEF Load
    <2>2. pc = "committing" \/ (pc = "reading" /\ noted)
      OBVIOUS
    <2>. HIDE DEF pushed, onBase, pc
    <2>3. cmd'[c].pc = pc
      BY <1>1, <2>1 DEF CommandStates
    <2>. QED BY <2>1, <2>2, <2>3
  <1>5. ASSUME Commit(c), ~Fail(c), ~FailChanged(c) PROVE cmd'[c].pc = "noting"
    <2>1. PICK onBase : cmd' = [cmd EXCEPT ![c] = [@ EXCEPT !.pc = "noting", !.onBase = onBase]]
      BY <1>5 DEF Commit
    <2>. QED BY <1>1, <2>1 DEF CommandStates
  <1>. QED BY <1>2, <1>3, <1>4, <1>5

\* A pull request is only opened by the command that found none.
LEMMA StepsOpenOnce ==
  ASSUME InitializationInv, NEW c \in Commands, Step(c)
  PROVE  PrInv'
  <1>1. Moves(c) /\ count' = count /\ prs \in PullRequests
    BY StepsMove, StepsLeave DEF InitializationInv, TypeOK
  <1>2. cmd \in [Commands -> CommandStates]
    BY DEF InitializationInv, TypeOK
  <1>3. CASE CreatePr(c)
    <2>1. cmd[c].pc = "creating" /\ ~prs.open
      BY <1>3 DEF CreatePr, At, InitializationInv, PrInv
    <2>2. \A d \in Commands : cmd'[d].pc # "creating"
      <3>1. cmd'[c].pc # "creating"
        BY <1>2, <1>3 DEF CreatePr, Goto, Fail, End, Idle, CommandStates
      <3>2. \A d \in Commands \ {c} : cmd[d].pc # "creating"
        BY <2>1 DEF InitializationInv, ClaimInv, Holding, Working
      <3>. QED BY <1>1, <3>1, <3>2 DEF Moves
    <2>3. CASE prs' = prs
      BY <1>1, <2>2, <2>3 DEF PrInv, InitializationInv
    <2>4. CASE prs' = [open |-> TRUE, opened |-> prs.opened + 1]
      <3>1. count.changes \in Nat
        BY WorkspaceInitializationAssumption DEF InitializationInv, TypeOK, Counts
      <3>2. prs'.open /\ prs'.opened = prs.opened + 1 /\ prs.opened \in Nat
        BY <1>1, <2>4 DEF PullRequests
      <3>. QED BY <1>1, <2>1, <2>2, <3>1, <3>2 DEF PrInv, InitializationInv
    <2>. QED BY <1>3, <2>3, <2>4 DEF CreatePr
  <1>4. CASE ~CreatePr(c)
    <2>1. prs' = prs
      BY <1>4, StepsLast DEF Step, Inspect, Persist, Forget, CheckAccount, Load, Prepare, Commit,
             NoteCommit, ReadRemote, Push, NotePush, FindPr, Checkout, Remove, Complete,
             ClearAfterFailure, githubVars
    <2>2. cmd'[c].pc = "creating" => ~prs.open
      <3>1. ASSUME NEW pc \in {"committing", "reading", "noting_push", "publishing", "pushing",
                               "removing", "completing"}, Goto(c, pc)
            PROVE  cmd'[c].pc # "creating"
        BY <1>2, <3>1 DEF Goto, CommandStates
      <3>2. (Fail(c) \/ FailChanged(c) \/ End(c)) => cmd'[c].pc # "creating"
        BY <1>2 DEF Fail, FailChanged, End, Goto, Idle, CommandStates
      <3>3. CASE FindPr(c)
        BY <1>2, <3>1, <3>2, <3>3 DEF FindPr, FoundPr, Goto, CommandStates
      <3>4. CASE Inspect(c) \/ CheckAccount(c) \/ Load(c) \/ Commit(c)
        BY <3>2, <3>4, Arrivals DEF InitializationInv
      <3>5. CASE Persist(c) \/ Forget(c) \/ Complete(c) \/ ClearAfterFailure(c)
        BY <3>2, <3>5 DEF Persist, Forget, Complete, ClearAfterFailure
      <3>6. CASE Prepare(c) \/ NoteCommit(c) \/ ReadRemote(c) \/ Push(c)
        BY <3>1, <3>2, <3>6 DEF Prepare, NoteCommit, ReadRemote, Push, WriteFails
      <3>7. CASE NotePush(c) \/ Checkout(c) \/ Remove(c)
        BY <3>1, <3>2, <3>7 DEF NotePush, Checkout, Remove, WriteFails
      <3>. QED BY <1>4, <3>3, <3>4, <3>5, <3>6, <3>7 DEF Step
    <2>. QED BY <1>1, <2>1, <2>2 DEF PrInv, InitializationInv, Moves
  <1>. QED BY <1>3, <1>4

\* The files of an attempt: only the command that works for it writes its phases, when
\* the commit is on its branch, and on GitHub.
LEMMA StepsNoteTruth ==
  ASSUME InitializationInv, NEW c \in Commands, Step(c)
  PROVE  FilesInv' /\ AttemptTellsTruth'
  <1>1. Lasting /\ Moves(c)
    BY StepsLast, StepsMove
  <1>2. disk \in [Previews -> Attempts]
    BY DEF InitializationInv, TypeOK
  <1>3. \/ \A p \in Previews : disk'[p].files \subseteq disk[p].files \cup {"tmp", "prepared"}
        \/ /\ cmd[c].pc \in {"noting", "noting_push"} /\ cmd[c].p \in Previews
           /\ \A p \in Previews \ {cmd[c].p} : disk'[p].files = disk[p].files
           /\ \/ cmd[c].pc = "noting_push"
              \/ disk'[cmd[c].p].files \subseteq disk[cmd[c].p].files \cup {"committed"}
    <2>0. \A p \in Previews :
            Littered(cmd[c].p)[p].files \subseteq disk[p].files \cup {"tmp"}
      BY <1>2 DEF Littered, Attempts
    <2>1. CASE Prepare(c)
      <3>1. CASE WriteFails(c) \/ UNCHANGED disk
        BY <2>0, <3>1 DEF WriteFails
      <3>2. CASE disk' = Written(cmd[c].p, "prepared")
        BY <1>2, <3>2 DEF Written, Attempts
      <3>. QED BY <2>1, <3>1, <3>2 DEF Prepare
    <2>2. CASE NoteCommit(c)
      <3>1. CASE WriteFails(c)
        BY <2>0, <3>1 DEF WriteFails
      <3>2. CASE ~WriteFails(c)
        <4>1. disk' = [Written(cmd[c].p, "committed") EXCEPT ![cmd[c].p].onBase = cmd[c].onBase]
          BY <2>2, <3>2 DEF NoteCommit
        <4>2. cmd[c].pc = "noting" /\ cmd[c].p \in Previews
          BY <2>2, WorksKnown DEF NoteCommit, At, Holding, Working
        <4>. QED BY <1>2, <4>1, <4>2 DEF Written, Attempts
      <3>. QED BY <3>1, <3>2
    <2>3. CASE NotePush(c)
      <3>1. CASE WriteFails(c)
        BY <2>0, <3>1 DEF WriteFails
      <3>2. CASE ~WriteFails(c)
        <4>1. disk' = Written(cmd[c].p, "pushed")
          BY <2>3, <3>2 DEF NotePush
        <4>2. cmd[c].pc = "noting_push" /\ cmd[c].p \in Previews
          BY <2>3, WorksKnown DEF NotePush, At, Holding, Working
        <4>. QED BY <1>2, <4>1, <4>2 DEF Written, Attempts
      <3>. QED BY <3>1, <3>2
    <2>4. CASE Remove(c)
      <3>1. CASE disk' = [disk EXCEPT ![cmd[c].p].files = {}]
        BY <1>2, <3>1 DEF Attempts
      <3>2. ASSUME NEW gone, disk' = [disk EXCEPT ![cmd[c].p].files = @ \ gone]
            PROVE  \A p \in Previews : disk'[p].files \subseteq disk[p].files
        BY <1>2, <3>2 DEF Attempts
      <3>. QED BY <2>4, <3>1, <3>2 DEF Remove
    <2>5. CASE disk' = disk
      BY <2>5
    <2>. QED BY <2>1, <2>2, <2>3, <2>4, <2>5
         DEF Step, Inspect, Persist, Forget, CheckAccount, Load, Commit, ReadRemote, Push, FindPr,
             CreatePr, Checkout, Complete, ClearAfterFailure
  <1>4. ASSUME NEW p \in Previews, data[p] # None
        PROVE  /\ Branch(p)' = Branch(p)
               /\ local[Branch(p)] = p => local'[Branch(p)'] = p
               /\ remote[Branch(p)] = p => remote'[Branch(p)'] = p
    BY <1>1, <1>4, LandedLasts DEF Known
  <1>5. ASSUME NEW p \in Previews
        PROVE  /\ HasFile(p, "committed")' \/ HasFile(p, "pushed")' =>
                    data[p] # None /\ local[Branch(p)] = p
               /\ HasFile(p, "pushed")' => remote[Branch(p)] = p
    <2>1. CASE disk'[p].files \subseteq disk[p].files \cup {"tmp", "prepared"}
      BY <2>1 DEF HasFile, InitializationInv, AttemptTellsTruth, FilesInv
    <2>2. CASE /\ cmd[c].pc = "noting" /\ cmd[c].p = p
               /\ disk'[p].files \subseteq disk[p].files \cup {"committed"}
      <3>1. data[p] # None /\ local[Branch(p)] = p
        BY <2>2, WorksKnown DEF Holding, Working, Known, InitializationInv, PlaceInv, AfterCommit
      <3>. QED BY <2>2, <3>1 DEF HasFile, InitializationInv, AttemptTellsTruth
    <2>3. CASE cmd[c].pc = "noting_push" /\ cmd[c].p = p
      BY <2>3, WorksKnown DEF Holding, Working, Known, InitializationInv, PlaceInv, AfterCommit, AfterPush
    <2>. QED BY <1>3, <2>1, <2>2, <2>3
  <1>6. \A p \in Previews : data'[p] = None => data[p] = None
    BY <1>1, WorkspaceInitializationAssumption DEF Lasting
  <1>7. FilesInv'
    BY <1>5, <1>6 DEF FilesInv, HasFile
  <1>8. AttemptTellsTruth'
    BY <1>4, <1>5 DEF AttemptTellsTruth
  <1>. QED BY <1>7, <1>8

\* A completed context is only forgotten by the command that claimed it so.
LEMMA StepsForget ==
  ASSUME InitializationInv, NEW c \in Commands, Step(c)
  PROVE  cmd'[c].pc # "forgetting"
  <1>0. TypeOK
    BY DEF InitializationInv
  <1>1. CASE Fail(c) \/ FailChanged(c) \/ End(c)
    BY <1>0, <1>1, Ends
  <1>2. CASE Inspect(c) \/ CheckAccount(c) \/ Load(c) \/ Commit(c)
    BY <1>0, <1>1, <1>2, Arrivals
  <1>3. CASE Persist(c) \/ Forget(c) \/ Complete(c) \/ ClearAfterFailure(c)
    BY <1>1, <1>3 DEF Persist, Forget, Complete, ClearAfterFailure
  <1>4. CASE Prepare(c) \/ NoteCommit(c) \/ ReadRemote(c) \/ Push(c)
    BY <1>0, <1>1, <1>4, Goes DEF Prepare, NoteCommit, ReadRemote, Push, WriteFails
  <1>5. CASE NotePush(c) \/ FindPr(c) \/ CreatePr(c) \/ Checkout(c) \/ Remove(c)
    BY <1>0, <1>1, <1>5, Goes DEF NotePush, FindPr, CreatePr, Checkout, Remove, WriteFails
  <1>. QED BY <1>2, <1>3, <1>4, <1>5 DEF Step

\* How far a command gets by a step: what it has done is where it says.
LEMMA StepsAdvance ==
  ASSUME InitializationInv, NEW c \in Commands, Step(c), NEW p, cmd[c].p = p
  PROVE  /\ cmd'[c].pc \in AfterCommit => cmd[c].pc \in AfterCommit \/ local'[Branch(p)] = p
         /\ cmd'[c].pc \in AfterPush => cmd[c].pc \in AfterPush \/ remote'[Branch(p)] = p
         /\ cmd'[c].pc \in {"removing", "completing"} =>
              \/ cmd[c].pc \in {"removing", "completing"}
              \/ /\ remote[Branch(p)] = p
                 /\ IF data[p].empty THEN tree'.seeded ELSE prs'.opened > 0
         /\ cmd'[c].pc = "creating" => ~data[p].empty
  <1>0. /\ TypeOK /\ local \in [Branches -> Refs] /\ remote \in [Branches -> Refs]
        /\ tree \in Trees /\ prs \in PullRequests /\ PrInv /\ PlaceInv
    BY DEF InitializationInv, TypeOK
  <1>1. CASE Fail(c) \/ FailChanged(c) \/ End(c)
    BY <1>0, <1>1, Ends DEF AfterCommit, AfterPush
  <1>2. CASE cmd'[c].pc \in {"persisting", "loading", "committing"}
    BY <1>2 DEF AfterCommit, AfterPush
  <1>3. cmd[c].pc \in Holding => Branch(p) \in Branches /\ p \in Previews
    BY WorksKnown DEF Branch, Branches
  <1>4. CASE Inspect(c) \/ CheckAccount(c)
    BY <1>0, <1>1, <1>2, <1>4, Arrivals
  <1>5. CASE Load(c)
    <2>1. CASE cmd'[c].pc = "reading" /\ Trusted(c)
               /\ (HasFile(cmd[c].p, "committed") \/ HasFile(cmd[c].p, "pushed"))
      <3>1. local[Branch(p)] = p /\ local' = local
        BY <1>5, <2>1, StepsLast DEF Load, Trusted, IsVerified, HasCommit, repoVars
      <3>. QED BY <2>1, <3>1 DEF AfterCommit, AfterPush
    <2>. QED BY <1>0, <1>1, <1>2, <1>5, <2>1, Arrivals
  <1>6. CASE Prepare(c)
    BY <1>0, <1>1, <1>2, <1>6, Goes DEF Prepare, WriteFails
  <1>7. CASE Commit(c) /\ ~Fail(c) /\ ~FailChanged(c)
    <2>1. cmd'[c].pc = "noting" /\ local' = [local EXCEPT ![Branch(p)] = p]
      BY <1>0, <1>7, Arrivals DEF Commit
    <2>2. local'[Branch(p)] = p
      BY <1>0, <1>3, <1>7, <2>1 DEF Commit, At, Holding, Working
    <2>. QED BY <2>1, <2>2 DEF AfterCommit, AfterPush
  <1>8. CASE NoteCommit(c)
    <2>1. CASE cmd'[c].pc = "reading" /\ cmd[c].pc = "noting"
      BY <2>1 DEF AfterCommit, AfterPush
    <2>. QED BY <1>0, <1>1, <1>8, <2>1, Goes DEF NoteCommit, WriteFails, At
  <1>9. CASE ReadRemote(c)
    <2>1. CASE cmd'[c].pc \in {"publishing", "noting_push"} /\ remote[Branch(p)] = p
      <3>1. remote' = remote /\ cmd[c].pc = "reading"
        BY <1>9 DEF ReadRemote, githubVars, At
      <3>. QED BY <2>1, <3>1 DEF AfterCommit
    <2>2. CASE cmd'[c].pc = "pushing"
      BY <1>9, <2>2 DEF ReadRemote, At, AfterCommit, AfterPush
    <2>. QED BY <1>0, <1>1, <1>9, <2>1, <2>2, Goes DEF ReadRemote, RemoteIs, RemoteBranch
  <1>10. CASE Push(c)
    <2>1. CASE cmd'[c].pc = "noting_push" /\ remote' = [remote EXCEPT ![Branch(p)] = p]
      <3>1. remote'[Branch(p)] = p /\ cmd[c].pc = "pushing"
        BY <1>0, <1>3, <1>10, <2>1 DEF Push, At, Holding, Working
      <3>. QED BY <2>1, <3>1 DEF AfterCommit
    <2>. QED BY <1>0, <1>1, <1>10, <2>1, Goes DEF Push
  <1>11. CASE NotePush(c)
    <2>1. CASE cmd'[c].pc = "publishing" /\ cmd[c].pc = "noting_push"
      BY <2>1 DEF AfterCommit, AfterPush
    <2>. QED BY <1>0, <1>1, <1>11, <2>1, Goes DEF NotePush, WriteFails, At
  <1>12. ASSUME cmd[c].pc \in {"publishing", "creating"}
         PROVE  remote[Branch(p)] = p /\ cmd[c].pc \in AfterCommit /\ cmd[c].pc \in AfterPush
    BY <1>0, <1>12 DEF PlaceInv, AfterCommit, AfterPush
  <1>13. CASE FindPr(c)
    <2>1. CASE cmd'[c].pc = "removing" /\ prs.open
      <3>1. prs'.opened > 0 /\ ~data[p].empty
        BY <1>0, <1>13, <2>1 DEF PrInv, FindPr, githubVars
      <3>. QED BY <1>12, <1>13, <2>1, <3>1 DEF FindPr, At
    <2>2. CASE cmd'[c].pc = "creating"
      BY <1>12, <1>13, <2>2 DEF FindPr, At
    <2>. QED BY <1>0, <1>1, <1>13, <2>1, <2>2, Goes DEF FindPr, FoundPr
  <1>14. CASE CreatePr(c)
    <2>1. CASE cmd'[c].pc = "removing" /\ prs' = [open |-> TRUE, opened |-> prs.opened + 1]
      <3>1. prs'.opened > 0
        BY <1>0, <2>1 DEF PullRequests
      <3>2. ~data[p].empty
        BY <1>0, <1>14 DEF PlaceInv, CreatePr, At
      <3>. QED BY <1>12, <1>14, <2>1, <3>1, <3>2 DEF CreatePr, At
    <2>. QED BY <1>0, <1>1, <1>14, <2>1, Goes DEF CreatePr
  <1>15. CASE Checkout(c)
    <2>1. CASE cmd'[c].pc = "removing" /\ tree' = [tree EXCEPT !.seeded = TRUE]
      <3>1. tree'.seeded
        BY <1>0, <2>1 DEF Trees
      <3>. QED BY <1>12, <1>15, <2>1, <3>1 DEF Checkout, At
    <2>. QED BY <1>0, <1>1, <1>15, <2>1, Goes DEF Checkout
  <1>16. CASE Remove(c)
    <2>1. CASE cmd'[c].pc = "completing" /\ cmd[c].pc = "removing"
      BY <2>1 DEF AfterCommit, AfterPush
    <2>. QED BY <1>0, <1>1, <1>16, <2>1, Goes DEF Remove, At
  <1>17. CASE Persist(c) \/ Forget(c) \/ Complete(c) \/ ClearAfterFailure(c)
    BY <1>1, <1>17 DEF Persist, Forget, Complete, ClearAfterFailure
  <1>. QED BY <1>1, <1>4, <1>5, <1>6, <1>7, <1>8, <1>9, <1>10, <1>11, <1>13, <1>14, <1>15, <1>16,
              <1>17 DEF Step

LEMMA StepsLand ==
  ASSUME InitializationInv, NEW c \in Commands, Step(c)
  PROVE  PlaceInv' /\ DoneInv'
  <1>1. Lasting /\ Moves(c) /\ Settles(c) /\ PlaceInv
    BY StepsLast, StepsMove, StepsSettle DEF InitializationInv
  <1>2. ASSUME NEW p, Known(p)
        PROVE  /\ Branch(p)' = Branch(p) /\ data'[p] = data[p]
               /\ local[Branch(p)] = p => local'[Branch(p)'] = p
               /\ remote[Branch(p)] = p => remote'[Branch(p)'] = p
               /\ Landed(p) => Landed(p)'
               /\ Known(p)'
    BY <1>1, <1>2, LandedLasts
  <1>3. PlaceInv'
    <2>. SUFFICES ASSUME NEW d \in Commands, cmd'[d].pc \in Holding, NEW p, cmd[d].p = p
                  PROVE  /\ cmd'[d].p = p
                         /\ cmd'[d].pc \in AfterCommit => local'[Branch(p)'] = p
                         /\ cmd'[d].pc \in AfterPush => remote'[Branch(p)'] = p
                         /\ cmd'[d].pc \in AfterPublication => Landed(p)'
                         /\ cmd'[d].pc = "creating" => ~data'[p].empty
      BY DEF PlaceInv, Holding, Working, AfterCommit, AfterPush, AfterPublication, Branch, Landed, Known
    <2>1. cmd[d].pc \in Holding /\ cmd'[d].p = p
      BY <1>1 DEF Moves, Holding
    <2>2. Known(p)
      BY <2>1, WorksKnown
    <2>3. CASE d # c
      BY <1>1, <1>2, <2>1, <2>2, <2>3 DEF Moves, PlaceInv
    <2>4. CASE d = c
      <3>0. cmd'[c].pc # "forgetting"
        BY <1>1, <2>4, StepsForget
      <3>1. /\ cmd'[c].pc \in AfterCommit => cmd[c].pc \in AfterCommit \/ local'[Branch(p)] = p
            /\ cmd'[c].pc \in AfterPush => cmd[c].pc \in AfterPush \/ remote'[Branch(p)] = p
            /\ cmd'[c].pc \in {"removing", "completing"} =>
                 \/ cmd[c].pc \in {"removing", "completing"}
                 \/ /\ remote[Branch(p)] = p
                    /\ IF data[p].empty THEN tree'.seeded ELSE prs'.opened > 0
            /\ cmd'[c].pc = "creating" => ~data[p].empty
        BY <2>4, StepsAdvance
      <3>2. cmd'[c].pc \in AfterCommit => local'[Branch(p)'] = p
        BY <1>1, <1>2, <2>2, <2>4, <3>1 DEF PlaceInv
      <3>3. cmd'[c].pc \in AfterPush => remote'[Branch(p)'] = p
        BY <1>1, <1>2, <2>2, <2>4, <3>1 DEF PlaceInv
      <3>4. cmd'[c].pc \in AfterPublication => Landed(p)'
        <4>1. CASE cmd[c].pc \in {"removing", "completing"}
          BY <1>1, <1>2, <2>2, <2>4, <4>1 DEF PlaceInv, AfterPublication
        <4>2. CASE /\ remote[Branch(p)] = p
                   /\ IF data[p].empty THEN tree'.seeded ELSE prs'.opened > 0
          BY <1>2, <2>2, <4>2 DEF Landed
        <4>. QED BY <2>4, <3>0, <3>1, <4>1, <4>2 DEF AfterPublication
      <3>. QED BY <1>2, <2>1, <2>2, <2>4, <3>1, <3>2, <3>3, <3>4
    <2>. QED BY <2>3, <2>4
  <1>4. DoneInv'
    <2>1. \A p : Landed(p) => Landed(p)'
      BY <1>2 DEF Landed
    <2>2. ASSUME NEW p, p = cmd[c].p, cmd[c].pc \in {"forgetting", "completing"}
          PROVE  Landed(p)'
      BY <1>1, <2>1, <2>2 DEF PlaceInv, AfterPublication
    <2>3. (\A p \in done : Landed(p))'
      <3>. SUFFICES ASSUME NEW p, p \in done' PROVE Landed(p)'
        OBVIOUS
      <3>1. p \in done \/ (p = cmd[c].p /\ cmd[c].pc \in {"forgetting", "completing"})
        BY <1>1 DEF Settles
      <3>. QED BY <2>1, <2>2, <3>1 DEF InitializationInv, DoneInv
    <2>4. ASSUME NEW p, p = registry'.preview, registry'.completed
          PROVE  Landed(p)'
      <3>1. \/ registry.completed /\ p = registry.preview
            \/ p = cmd[c].p /\ cmd[c].pc = "completing"
        BY <1>1, <2>4 DEF Settles
      <3>. QED BY <2>1, <2>2, <3>1 DEF InitializationInv, DoneInv
    <2>. QED BY <2>3, <2>4 DEF DoneInv, Landed, Known, Branch
  <1>. QED BY <1>3, <1>4

(***************************************************************************)
(* The window's own actions, logins and logouts, the end of the            *)
(* application and other people's changes.                                 *)
(***************************************************************************)
\* While nothing is claimed no command works.
LEMMA NobodyWorks ==
  ASSUME InitializationInv, registry.active = None
  PROVE  \A c \in Commands : cmd[c].pc \notin Holding
  BY WorksKnown

\* What a step keeps that changes no branch, no file of an attempt and no pull request.
LEMMA ThingsStay ==
  ASSUME InitializationInv,
         UNCHANGED <<data, local, remote, tree, prs, disk>>, count'.changes = count.changes
  PROVE  /\ FilesInv' /\ AttemptTellsTruth'
         /\ \A p : (Landed(p) <=> Landed(p)') /\ (Known(p) <=> Known(p)') /\ Branch(p)' = Branch(p)
  BY DEF InitializationInv, FilesInv, AttemptTellsTruth, HasFile, Branch, Landed, Known

LEMMA AsksKeep ==
  ASSUME InitializationInv, NEW c \in Commands, Asks(c)
  PROVE  InitializationInv'
  <1>0. TypeOK' /\ cmd \in [Commands -> CommandStates] /\ registry \in Contexts
    BY AsksTyped DEF InitializationInv, TypeOK
  <1>1. UNCHANGED <<data, local, made, tree, remote, prs, disk, auth, done, count>>
    BY DEF Asks, AskPreview, Claim, repoVars, githubVars
  <1>2. /\ FilesInv' /\ AttemptTellsTruth'
        /\ \A p : (Landed(p) <=> Landed(p)') /\ (Known(p) <=> Known(p)') /\ Branch(p)' = Branch(p)
    BY <1>1, ThingsStay
  <1>3. CASE AskPreview(c)
    <2>1. cmd'[c].pc = "asking" /\ \A d \in Commands \ {c} : cmd'[d] = cmd[d]
      BY <1>0, <1>3 DEF AskPreview, Idle
    <2>2. UNCHANGED <<pending, registry>>
      BY <1>3 DEF AskPreview, settingsVars
    <2>3. \A d \in Commands : cmd'[d].pc \in Holding \cup {"persisting"} => cmd'[d] = cmd[d]
      BY <2>1 DEF Holding, Working
    <2>4. ClaimInv' /\ KnownInv'
      BY <1>1, <2>2, <2>3 DEF InitializationInv, ClaimInv, KnownInv, Known
    <2>5. LoginInv' /\ AccountInv'
      BY <1>1, <2>2, <2>3 DEF InitializationInv, LoginInv, AccountInv, Holding
    <2>6. PrInv' /\ PlaceInv'
      BY <1>1, <2>3 DEF InitializationInv, PrInv, PlaceInv, Holding, Working, AfterCommit, AfterPush,
                        AfterPublication, Landed, Known, Branch
    <2>7. DoneInv'
      BY <1>1, <2>2 DEF InitializationInv, DoneInv, Landed, Known, Branch
    <2>. QED BY <1>0, <1>2, <2>4, <2>5, <2>6, <2>7 DEF InitializationInv
  <1>4. ASSUME NEW p \in Previews, Claim(c, p)
        PROVE  InitializationInv'
    <2>0. p # None /\ registry.active = None
      BY <1>4, WorkspaceInitializationAssumption DEF Claim, MayClaim
    <2>1. /\ registry'.preview = p /\ registry'.active = p /\ pending' = pending
          /\ registry'.completed => registry.preview = p /\ registry.completed
      <3>. DEFINE completed == registry.preview = p /\ registry.completed
      <3>1. registry' = [preview |-> p, active |-> p, completed |-> completed] /\ pending' = pending
        BY <1>4 DEF Claim
      <3>2. completed => registry.preview = p /\ registry.completed
        OBVIOUS
      <3>3. completed \in BOOLEAN
        OBVIOUS
      <3>. HIDE DEF completed
      <3>. QED BY <3>1, <3>2, <3>3
    <2>2. /\ cmd'[c].p = p /\ cmd'[c].pc \in {"forgetting", "account"}
          /\ cmd'[c].pc = "forgetting" => registry'.completed
          /\ \A d \in Commands \ {c} : cmd'[d] = cmd[d]
      BY <1>0, <1>4 DEF Claim, Idle
    <2>3. Known(p)
      BY <1>4, <2>0 DEF Claim, MayClaim, InitializationInv, KnownInv
    <2>4. \A d \in Commands \ {c} : cmd'[d].pc \notin Holding
      BY <2>0, <2>2, NobodyWorks
    <2>5. ClaimInv'
      BY <1>1, <2>1, <2>2, <2>3, <2>4 DEF ClaimInv, Known
    <2>6. KnownInv'
      BY <1>1, <2>0, <2>1, <2>2, <2>3 DEF InitializationInv, KnownInv, Known
    <2>7. ~auth.login
      BY <1>4, <2>0 DEF Claim, MayClaim, InitializationInv, LoginInv
    <2>8. LoginInv' /\ AccountInv' /\ PrInv'
      BY <1>1, <2>2, <2>4, <2>7 DEF LoginInv, AccountInv, PrInv, InitializationInv, Holding, Working
    <2>9. registry'.completed => Landed(p)
      BY <2>1 DEF InitializationInv, DoneInv
    <2>10. PlaceInv'
      BY <1>1, <2>2, <2>4, <2>9 DEF PlaceInv, Holding, Working, AfterCommit, AfterPush,
                                    AfterPublication, Landed, Known, Branch
    <2>11. DoneInv'
      BY <1>1, <2>1, <2>9 DEF DoneInv, InitializationInv, Landed, Known, Branch
    <2>. QED BY <1>0, <1>2, <2>5, <2>6, <2>8, <2>10, <2>11 DEF InitializationInv
  <1>. QED BY <1>3, <1>4 DEF Asks

LEMMA DisturbancesKeep ==
  ASSUME InitializationInv, Disturbances
  PROVE  InitializationInv'
  <1>0. /\ TypeOK' /\ registry \in Contexts /\ auth \in Accounts /\ count \in Counts
        /\ count.changes \in Nat /\ count.others \in Nat
    BY DisturbancesTyped, WorkspaceInitializationAssumption DEF InitializationInv, TypeOK, Counts
  <1>1. CASE BeginLogin \/ Logout
    <2>1. /\ UNCHANGED <<data, local, remote, tree, prs, disk, cmd, done>>
          /\ registry.active = None /\ pending' = None
          /\ registry' = [registry EXCEPT !.preview = None, !.completed = FALSE]
          /\ count' = [count EXCEPT !.others = @ + 1]
      BY <1>1 DEF BeginLogin, Logout, MayClear, ClearPending, repoVars, githubVars
    <2>2. /\ count'.changes = count.changes /\ registry'.active = None
          /\ registry'.preview = None /\ ~registry'.completed
      BY <1>0, <2>1 DEF Contexts, Counts
    <2>3. /\ FilesInv' /\ AttemptTellsTruth'
      BY <2>1, <2>2, ThingsStay
    <2>4. \A c \in Commands : cmd'[c].pc \notin Holding
      BY <2>1, NobodyWorks
    <2>5. ClaimInv' /\ KnownInv' /\ LoginInv' /\ AccountInv'
      BY <2>1, <2>2, <2>4 DEF InitializationInv, ClaimInv, KnownInv, LoginInv, AccountInv, Known, Holding
    <2>6. PrInv' /\ PlaceInv'
      BY <2>1, <2>2, <2>4 DEF InitializationInv, PrInv, PlaceInv, Holding, Working, AfterCommit,
                              AfterPush, AfterPublication
    <2>7. DoneInv'
      BY <2>1, <2>2 DEF InitializationInv, DoneInv, Landed, Known, Branch
    <2>. QED BY <1>0, <2>3, <2>5, <2>6, <2>7 DEF InitializationInv
  <1>2. CASE EndLogin
    <2>1. /\ UNCHANGED <<pending, registry, data, local, remote, tree, prs, disk, cmd, done, count>>
          /\ auth.login
      BY <1>2 DEF EndLogin, settingsVars, repoVars, githubVars
    <2>2. ~auth'.login
      BY <1>0, <1>2 DEF EndLogin, Accounts
    <2>3. \A c \in Commands : cmd[c].pc \notin Holding
      BY <2>1, NobodyWorks DEF InitializationInv, LoginInv
    <2>4. FilesInv' /\ AttemptTellsTruth'
      BY <2>1, ThingsStay
    <2>5. ClaimInv' /\ KnownInv' /\ LoginInv' /\ AccountInv'
      BY <2>1, <2>2, <2>3 DEF InitializationInv, ClaimInv, KnownInv, LoginInv, AccountInv, Known, Holding
    <2>6. PrInv' /\ PlaceInv' /\ DoneInv'
      BY <2>1 DEF InitializationInv, PrInv, PlaceInv, DoneInv, Landed, Known, Branch
    <2>. QED BY <1>0, <2>4, <2>5, <2>6 DEF InitializationInv
  <1>3. CASE Quit
    <2>1. /\ UNCHANGED <<pending, data, local, remote, tree, prs, done>>
          /\ registry' = Nobody /\ cmd' = [c \in Commands |-> Idle]
          /\ auth' = [auth EXCEPT !.login = FALSE] /\ count' = [count EXCEPT !.others = @ + 1]
      BY <1>3 DEF Quit, repoVars, githubVars
    <2>2. /\ registry'.active = None /\ registry'.preview = None /\ ~registry'.completed
          /\ \A c \in Commands : cmd'[c].pc = "idle"
          /\ ~auth'.login /\ count'.changes = count.changes
      BY <1>0, <2>1 DEF Nobody, Idle, Accounts, Counts
    <2>3. ClaimInv' /\ KnownInv' /\ LoginInv' /\ AccountInv' /\ PrInv' /\ PlaceInv' /\ DoneInv'
      BY <2>1, <2>2 DEF InitializationInv, ClaimInv, KnownInv, LoginInv, AccountInv, PrInv, PlaceInv,
             DoneInv, Known, Holding, Working, AfterCommit, AfterPush, AfterPublication, Landed, Branch
    <2>4. \A p \in Previews : disk'[p].files \subseteq disk[p].files \cup {"tmp"}
      <3>1. disk \in [Previews -> Attempts]
        BY DEF InitializationInv, TypeOK
      <3>2. CASE UNCHANGED disk
        BY <3>2
      <3>3. ASSUME NEW c \in Commands, disk' = Littered(cmd[c].p)
            PROVE  \A p \in Previews : disk'[p].files \subseteq disk[p].files \cup {"tmp"}
        BY <3>1, <3>3 DEF Littered, Attempts
      <3>. QED BY <1>3, <3>2, <3>3 DEF Quit
    <2>5. FilesInv' /\ AttemptTellsTruth'
      BY <2>1, <2>4 DEF FilesInv, AttemptTellsTruth, HasFile, InitializationInv, Branch
    <2>. QED BY <1>0, <2>3, <2>5 DEF InitializationInv
  <1>4. CASE Change
    <2>1. /\ UNCHANGED <<pending, registry, data, cmd, disk, auth, done>>
          /\ count' = [count EXCEPT !.changes = @ + 1]
      BY <1>4 DEF Change, settingsVars
    <2>2. Lasting
      BY <1>4, ThingsLast DEF Next
    <2>3. ASSUME NEW p, Known(p)
          PROVE  /\ Known(p)' /\ Branch(p)' = Branch(p) /\ data'[p] = data[p]
                 /\ local[Branch(p)] = p => local'[Branch(p)'] = p
                 /\ remote[Branch(p)] = p => remote'[Branch(p)'] = p
                 /\ Landed(p) => Landed(p)'
      BY <2>2, <2>3, LandedLasts
    <2>4. ClaimInv' /\ KnownInv' /\ LoginInv' /\ AccountInv' /\ FilesInv'
      BY <2>1 DEF InitializationInv, ClaimInv, KnownInv, LoginInv, AccountInv, FilesInv, Known
    <2>5. AttemptTellsTruth'
      BY <2>1, <2>3 DEF InitializationInv, AttemptTellsTruth, FilesInv, HasFile, Known
    <2>6. DoneInv'
      <3>1. (\A p \in done : Landed(p))'
        BY <2>1, <2>3 DEF InitializationInv, DoneInv, Landed
      <3>2. registry.completed => Landed(registry.preview)'
        BY <2>1, <2>3 DEF InitializationInv, DoneInv, Landed, Known, Branch
      <3>. QED BY <2>1, <3>1, <3>2 DEF DoneInv
    <2>7. PlaceInv'
      <3>. SUFFICES ASSUME NEW c \in Commands, NEW p, cmd[c].p = p, cmd[c].pc \in Holding
                    PROVE  /\ cmd[c].pc \in AfterCommit => local'[Branch(p)'] = p
                           /\ cmd[c].pc \in AfterPush => remote'[Branch(p)'] = p
                           /\ cmd[c].pc \in AfterPublication => Landed(p)'
                           /\ cmd[c].pc = "creating" => ~data'[p].empty
        BY <2>1 DEF PlaceInv, Holding, Working, AfterCommit, AfterPush, AfterPublication, Branch,
                    Landed, Known
      <3>1. Known(p)
        BY WorksKnown
      <3>. QED BY <2>3, <3>1 DEF InitializationInv, PlaceInv
    <2>8. PrInv'
      <3>1. prs \in PullRequests /\ prs' \in {prs, [prs EXCEPT !.open = FALSE]}
        BY <1>4 DEF Change, githubVars, InitializationInv, TypeOK
      <3>2. prs'.opened = prs.opened /\ prs.opened \in Nat /\ (prs'.open => prs.open)
        BY <3>1 DEF PullRequests
      <3>3. count'.changes = count.changes + 1
        BY <1>0, <2>1 DEF Counts
      <3>4. \A c \in Commands : cmd'[c].pc = "creating" => ~prs'.open
        BY <2>1, <3>2 DEF InitializationInv, PrInv
      <3>5. prs'.opened <= count'.changes
        BY <1>0, <3>2, <3>3 DEF InitializationInv, PrInv
      <3>. QED BY <1>0, <3>2, <3>3, <3>4, <3>5 DEF InitializationInv, PrInv
    <2>. QED BY <1>0, <2>4, <2>5, <2>6, <2>7, <2>8 DEF InitializationInv
  <1>5. ASSUME NEW p \in Previews, Expire(p)
        PROVE  InitializationInv'
    <2>1. /\ UNCHANGED <<pending, registry, data, local, remote, tree, prs, disk, cmd, auth, done>>
          /\ count' = [count EXCEPT !.others = @ + 1]
      BY <1>5 DEF Expire, settingsVars, repoVars, githubVars
    <2>2. count'.changes = count.changes
      BY <1>0, <2>1 DEF Counts
    <2>. QED BY <1>0, <2>1, <2>2, ThingsStay DEF InitializationInv, ClaimInv, KnownInv, LoginInv,
           AccountInv, PrInv, PlaceInv, DoneInv, Landed, Known, Branch
  <1>. QED BY <1>1, <1>2, <1>3, <1>4, <1>5 DEF Disturbances

\* The invariant of the initialization holds at first and every step keeps it.
LEMMA InitializationHolds ==
  /\ Init => InitializationInv
  /\ InitializationInv /\ [Next]_vars => InitializationInv'
  <1>1. ASSUME Init PROVE InitializationInv
    <2>1. TypeOK
      BY <1>1, InitTyped
    <2>2. /\ pending = None /\ registry = Nobody /\ data = [p \in Previews |-> None]
          /\ cmd = [c \in Commands |-> Idle] /\ prs = [open |-> FALSE, opened |-> 0]
          /\ disk = [p \in Previews |-> [files |-> {}, onBase |-> FALSE]] /\ done = {}
          /\ ~auth.login /\ count.changes = 0
      BY <1>1 DEF Init
    <2>3. /\ registry.active = None /\ registry.preview = None /\ ~registry.completed
          /\ \A c \in Commands : cmd[c].pc = "idle"
          /\ prs.opened = 0 /\ ~prs.open
          /\ \A p \in Previews : disk[p].files = {}
      BY <2>2 DEF Nobody, Idle
    <2>4. ClaimInv /\ KnownInv /\ LoginInv /\ AccountInv
      BY <2>2, <2>3 DEF ClaimInv, KnownInv, LoginInv, AccountInv, Holding, Working
    <2>5. PrInv /\ FilesInv /\ AttemptTellsTruth
      BY <2>2, <2>3 DEF PrInv, FilesInv, AttemptTellsTruth, HasFile
    <2>6. PlaceInv /\ DoneInv
      BY <2>2, <2>3 DEF PlaceInv, DoneInv, AfterCommit, AfterPush, AfterPublication
    <2>. QED BY <2>1, <2>4, <2>5, <2>6 DEF InitializationInv
  <1>2. ASSUME InitializationInv, UNCHANGED vars PROVE InitializationInv'
    BY <1>2 DEF vars, settingsVars, repoVars, githubVars, InitializationInv, TypeOK, ClaimInv,
         KnownInv, LoginInv, AccountInv, PrInv, FilesInv, AttemptTellsTruth, PlaceInv, DoneInv,
         Landed, Known, Branch, HasFile
  <1>3. ASSUME InitializationInv, NEW c \in Commands, Step(c) PROVE InitializationInv'
    BY <1>3, StepsTyped, StepsClaim, StepsKeepAccount, StepsOpenOnce, StepsNoteTruth, StepsLand
       DEF InitializationInv
  <1>. QED BY <1>1, <1>2, <1>3, AsksKeep, DisturbancesKeep, NextKinds

(***************************************************************************)
(* What the initialization promises follows from its invariant.            *)
(***************************************************************************)
LEMMA InitializationPromises ==
  InitializationInv => ResultIsTrue /\ AttemptTellsTruth /\ ClaimHoldsAccount /\ OnePullRequest
  <1>. SUFFICES ASSUME InitializationInv
                PROVE  ResultIsTrue /\ AttemptTellsTruth /\ ClaimHoldsAccount /\ OnePullRequest
    OBVIOUS
  <1>1. ResultIsTrue
    BY DEF InitializationInv, DoneInv, Landed, ResultIsTrue
  <1>2. ClaimHoldsAccount
    BY DEF InitializationInv, ClaimInv, AccountInv, ClaimHoldsAccount, Holding
  <1>3. OnePullRequest
    <2>1. prs.opened \in Nat /\ count.changes \in Nat
      BY WorkspaceInitializationAssumption DEF InitializationInv, TypeOK, PullRequests, Counts
    <2>. QED BY <2>1 DEF InitializationInv, PrInv, OnePullRequest
  <1>. QED BY <1>1, <1>2, <1>3 DEF InitializationInv

\* Only the commit of a command and its push move a branch, and neither moves one that
\* stands at something else.
LEMMA InitializationCreates ==
  ASSUME InitializationInv, [Next]_vars
  PROVE  CreatesOnly
  <1>0. /\ local \in [Branches -> Refs] /\ remote \in [Branches -> Refs]
        /\ count \in Counts /\ count.changes \in Nat
    BY WorkspaceInitializationAssumption DEF InitializationInv, TypeOK, Counts
  <1>1. ASSUME NEW c \in Commands, Step(c) PROVE CreatesOnly
    <2>1. CASE Commit(c)
      <3>1. \A b \in Branches : local'[b] # local[b] => local[b] = None
        BY <1>0, <2>1 DEF Commit, MayCreate, HasCommit
      <3>. QED BY <2>1, <3>1 DEF Commit, CreatesOnly, githubVars
    <2>2. CASE Push(c)
      <3>1. \A b \in Branches : remote'[b] # remote[b] => remote[b] = None
        BY <1>0, <2>2 DEF Push
      <3>. QED BY <2>2, <3>1 DEF Push, CreatesOnly, repoVars
    <2>3. CASE UNCHANGED <<local, remote>>
      BY <2>3 DEF CreatesOnly
    <2>. QED BY <1>1, <2>1, <2>2, <2>3
         DEF Step, Inspect, Persist, Forget, CheckAccount, Load, Prepare, NoteCommit, ReadRemote,
             NotePush, FindPr, CreatePr, Checkout, Remove, Complete, ClearAfterFailure,
             repoVars, githubVars
  <1>2. CASE Change
    <2>1. count'.changes # count.changes
      BY <1>0, <1>2 DEF Change, Counts
    <2>. QED BY <2>1 DEF CreatesOnly
  <1>3. CASE UNCHANGED <<local, remote>>
    BY <1>3 DEF CreatesOnly
  <1>. QED BY <1>1, <1>2, <1>3, NextKinds
       DEF Asks, AskPreview, Claim, Disturbances, BeginLogin, EndLogin, Logout, Quit, Expire,
           vars, repoVars, githubVars

-----------------------------------------------------------------------------
(***************************************************************************)
(* Clones: the inductive invariant, for each request and for the targets.  *)
(***************************************************************************)
CloneThread == Clones!Pcs \ {"unused", "telling", "over", "gone"}
Publishing == {"checking", "renaming", "verifying", "inspecting"}

\* A job is registered while its thread works, completing from its publication on, and
\* running only if no logout came since.
JobInv(r) ==
  /\ clone[r].pc \in CloneThread <=> jobs[r] # "free"
  /\ jobs[r] = "completing" => clone[r].pc \in Publishing \cup {"ended"}
  /\ clone[r].pc \in Publishing => jobs[r] = "completing"
  /\ jobs[r] = "running" => clone[r].since = account.outs

\* An accepted cancellation stays with the job, then with its thread, until it is told.
PromiseInv(r) ==
  /\ r \in promised =>
       \/ jobs[r] = "cancelling"
       \/ clone[r].pc = "telling" /\ clone[r].terminal = "cancelled"
       \/ clone[r].pc = "over" /\ told[r] = "cancelled"
  /\ jobs[r] = "cancelling" => r \in promised
  /\ clone[r].pc = "telling" =>
       /\ clone[r].terminal # "already_terminal"
       /\ clone[r].terminal = "cancelled" => r \in promised
  /\ told[r] = "cancelled" => r \in promised
  /\ told[r] # "nothing" => clone[r].pc = "over"

\* A clone appears only past its publication, which no cancellation reaches; its result
\* says so.
AppearInv(r) ==
  /\ r \in appeared =>
       /\ r \notin promised
       /\ clone[r].pc \in {"verifying", "inspecting", "ended", "telling", "over", "gone"}
       /\ clone[r].pc = "ended" => jobs[r] = "completing"
  /\ clone[r].pc \in {"finalizing", "checking", "renaming"} => staging[r] # "partial"
  /\ clone[r].pc = "inspecting" => r \in appeared
  /\ clone[r].result = "ok" /\ clone[r].pc \in {"ended", "telling", "over"} => r \in appeared
  /\ told[r] = "completed" => r \in appeared

\* What bears a clone's mark at a target is that clone.
TargetInv == \A t \in Targets, r \in Callers :
               targets[t] \in [by : {r}, is : Clones!Dirs] => r \in appeared

CloneInv ==
  /\ Clones!TypeOK
  /\ \A r \in Callers : JobInv(r) /\ PromiseInv(r) /\ AppearInv(r)
  /\ TargetInv

LEMMA CloneAssumption ==
  /\ Nothing \notin Callers \cup Clones!Dirs \cup Clones!Clones
  /\ Foreign \notin Callers \cup Clones!Dirs \cup Clones!Clones \cup {Nothing}
  /\ MaxForeign \in Nat
  BY OperationsAssumption DEF Clones!RepositoryCloneAssumption

\* How a thread goes on, and how it ends.
LEMMA CloneGoes ==
  ASSUME Clones!TypeOK, NEW r \in Callers, NEW pc \in Clones!Pcs, Clones!Goto(r, pc)
  PROVE  /\ clone' \in [Callers -> Clones!Threads]
         /\ \A q \in Callers \ {r} : clone'[q] = clone[q]
         /\ clone'[r].pc = pc /\ clone'[r].target = clone[r].target
         /\ clone'[r].result = clone[r].result /\ clone'[r].terminal = clone[r].terminal
         /\ clone'[r].since = clone[r].since
  <1>1. clone \in [Callers -> Clones!Threads]
    BY DEF Clones!TypeOK
  <1>. QED BY <1>1 DEF Clones!Goto, Clones!Threads

LEMMA CloneEnds ==
  ASSUME Clones!TypeOK, NEW r \in Callers, NEW result \in Clones!Results,
         Clones!EndWith(r, result)
  PROVE  /\ clone' \in [Callers -> Clones!Threads]
         /\ \A q \in Callers \ {r} : clone'[q] = clone[q]
         /\ clone'[r].pc = "ended" /\ clone'[r].target = clone[r].target
         /\ clone'[r].result = result /\ clone'[r].terminal = clone[r].terminal
         /\ clone'[r].since = clone[r].since
  <1>1. clone \in [Callers -> Clones!Threads] /\ "ended" \in Clones!Pcs
    BY DEF Clones!TypeOK, Clones!Pcs
  <1>. QED BY <1>1 DEF Clones!EndWith, Clones!Threads

\* A request whose own things a step leaves alone keeps what is said of it.
LEMMA OthersKeep ==
  ASSUME NEW r, JobInv(r), PromiseInv(r), AppearInv(r),
         clone'[r] = clone[r], jobs'[r] = jobs[r], told'[r] = told[r],
         staging'[r] = staging[r], account'.outs = account.outs,
         r \in promised' <=> r \in promised, r \in appeared' <=> r \in appeared
  PROVE  JobInv(r)' /\ PromiseInv(r)' /\ AppearInv(r)'
  BY DEF JobInv, PromiseInv, AppearInv

\* A step of the thread that fails, wherever it is before its publication or in it.
LEMMA CloneFails ==
  ASSUME CloneInv, NEW r \in Callers, clone[r].pc \in CloneThread \ {"ended"},
         Clones!EndWith(r, "failed"),
         UNCHANGED <<jobs, told, promised, account, appeared>>
  PROVE  /\ clone' \in [Callers -> Clones!Threads]
         /\ \A q \in Callers \ {r} : clone'[q] = clone[q]
         /\ JobInv(r)' /\ PromiseInv(r)' /\ AppearInv(r)'
  <1>1. Clones!TypeOK /\ JobInv(r) /\ PromiseInv(r) /\ AppearInv(r) /\ "failed" \in Clones!Results
    BY DEF CloneInv, Clones!Results
  <1>2. /\ clone' \in [Callers -> Clones!Threads]
        /\ \A q \in Callers \ {r} : clone'[q] = clone[q]
        /\ clone'[r].pc = "ended" /\ clone'[r].result = "failed" /\ clone'[r].since = clone[r].since
    BY <1>1, CloneEnds
  <1>3. JobInv(r)'
    BY <1>1, <1>2 DEF JobInv, CloneThread, Publishing, Clones!Pcs
  <1>4. PromiseInv(r)'
    BY <1>1, <1>2 DEF PromiseInv, CloneThread
  <1>5. AppearInv(r)'
    BY <1>1, <1>2 DEF AppearInv, JobInv, CloneThread, Publishing
  <1>. QED BY <1>2, <1>3, <1>4, <1>5

\* A step of the thread that goes on, without ending or telling.
LEMMA CloneAdvances ==
  ASSUME CloneInv, NEW r \in Callers, clone[r].pc \in CloneThread \ {"ended"},
         NEW pc \in CloneThread \ {"ended"}, Clones!Goto(r, pc),
         UNCHANGED <<told, promised, account>>,
         \/ jobs' = jobs /\ (pc \in Publishing <=> clone[r].pc \in Publishing)
         \/ pc \in Publishing /\ jobs' = [jobs EXCEPT ![r] = "completing"] /\ jobs[r] # "cancelling",
         \/ appeared' = appeared /\ (r \in appeared => pc \in Publishing \ {"checking", "renaming"})
         \/ pc = "verifying" /\ appeared' \in {appeared, appeared \cup {r}},
         pc \in {"finalizing", "checking", "renaming"} => staging'[r] # "partial",
         pc = "inspecting" => r \in appeared
  PROVE  /\ clone' \in [Callers -> Clones!Threads] /\ jobs' \in [Callers -> Clones!JobPhases]
         /\ \A q \in Callers \ {r} : clone'[q] = clone[q] /\ jobs'[q] = jobs[q]
         /\ JobInv(r)' /\ PromiseInv(r)' /\ AppearInv(r)'
  <1>1. /\ Clones!TypeOK /\ JobInv(r) /\ PromiseInv(r) /\ AppearInv(r)
        /\ pc \in Clones!Pcs /\ jobs \in [Callers -> Clones!JobPhases]
    BY DEF CloneInv, CloneThread, Clones!TypeOK
  <1>2. /\ clone' \in [Callers -> Clones!Threads]
        /\ \A q \in Callers \ {r} : clone'[q] = clone[q]
        /\ clone'[r].pc = pc /\ clone'[r].result = clone[r].result
        /\ clone'[r].since = clone[r].since
    BY <1>1, CloneGoes
  <1>3. /\ jobs' \in [Callers -> Clones!JobPhases]
        /\ \A q \in Callers \ {r} : jobs'[q] = jobs[q]
        /\ jobs'[r] = jobs[r] \/ (jobs'[r] = "completing" /\ jobs[r] # "cancelling" /\ pc \in Publishing)
    BY <1>1 DEF Clones!JobPhases
  <1>4. jobs[r] # "free" /\ clone[r].pc \notin {"telling", "over", "ended"} /\ pc \notin {"telling", "over", "ended"}
    BY <1>1 DEF JobInv, CloneThread
  <1>5. JobInv(r)'
    BY <1>1, <1>2, <1>3, <1>4 DEF JobInv, CloneThread, Clones!Pcs, Publishing
  <1>6. PromiseInv(r)'
    BY <1>1, <1>2, <1>3, <1>4 DEF PromiseInv
  <1>7. r \in appeared' => r \notin promised
    <2>1. CASE r \in appeared
      BY <1>1, <2>1 DEF AppearInv
    <2>2. CASE r \notin appeared /\ r \in appeared'
      <3>1. pc \in Publishing /\ jobs'[r] = "completing"
        BY <1>2, <1>5, <2>2 DEF JobInv, Publishing
      <3>. QED BY <1>2, <1>4, <1>6, <3>1 DEF PromiseInv, Publishing
    <2>. QED BY <2>1, <2>2
  <1>8. AppearInv(r)'
    BY <1>1, <1>2, <1>4, <1>7 DEF AppearInv, Publishing
  <1>. QED BY <1>2, <1>3, <1>5, <1>6, <1>8

\* What a thread works on of its own.
ThreadMoves(r) ==
  /\ clone' \in [Callers -> Clones!Threads] /\ jobs' \in [Callers -> Clones!JobPhases]
  /\ \A q \in Callers \ {r} :
       clone'[q] = clone[q] /\ jobs'[q] = jobs[q] /\ told'[q] = told[q] /\ staging'[q] = staging[q]
  /\ JobInv(r)' /\ PromiseInv(r)' /\ AppearInv(r)'

LEMMA ThreadsMove ==
  ASSUME CloneInv, NEW r \in Callers, Clones!Thread(r)
  PROVE  ThreadMoves(r)
  <1>0. /\ Clones!TypeOK /\ JobInv(r) /\ PromiseInv(r) /\ AppearInv(r)
        /\ jobs \in [Callers -> Clones!JobPhases] /\ clone \in [Callers -> Clones!Threads]
        /\ staging \in [Callers -> Clones!Dirs \cup {Nothing, Foreign}]
        /\ "cloning" \in CloneThread \ {"ended"}
    BY DEF CloneInv, Clones!TypeOK, CloneThread, Clones!Pcs
  <1>. USE DEF ThreadMoves, Clones!accountVars, Clones!diskVars
  <1>1. CASE clone[r].pc \in CloneThread \ {"ended"} /\ Clones!EndWith(r, "failed")
             /\ UNCHANGED <<jobs, told, promised, account, appeared>>
             /\ \A q \in Callers \ {r} : staging'[q] = staging[q]
    BY <1>0, <1>1, CloneFails
  <1>2. CASE Clones!Resolve(r)
    <2>1. CASE Clones!Goto(r, "token")
      <3>1. /\ clone[r].pc \in CloneThread \ {"ended"} /\ "token" \in CloneThread \ {"ended"}
            /\ r \notin appeared /\ "token" \notin Publishing /\ clone[r].pc \notin Publishing
        BY <1>0, <1>2 DEF Clones!Resolve, Clones!At, CloneThread, Clones!Pcs, AppearInv, Publishing
      <3>. QED BY <1>0, <1>2, <2>1, <3>1, CloneAdvances DEF Clones!Resolve
    <2>. QED BY <1>1, <1>2, <2>1 DEF Clones!Resolve, Clones!At, CloneThread, Clones!Pcs
  <1>3. CASE Clones!ObtainToken(r)
    <2>1. CASE Clones!Goto(r, "reserving")
      <3>1. /\ clone[r].pc \in CloneThread \ {"ended"} /\ "reserving" \in CloneThread \ {"ended"}
            /\ r \notin appeared /\ "reserving" \notin Publishing /\ clone[r].pc \notin Publishing
        BY <1>0, <1>3 DEF Clones!ObtainToken, Clones!At, CloneThread, Clones!Pcs, AppearInv, Publishing
      <3>. QED BY <1>0, <1>3, <2>1, <3>1, CloneAdvances DEF Clones!ObtainToken
    <2>. QED BY <1>1, <1>3, <2>1 DEF Clones!ObtainToken, Clones!At, CloneThread, Clones!Pcs
  <1>4. CASE Clones!SeeCancellation(r)
    BY <1>1, <1>4 DEF Clones!SeeCancellation, Clones!At, CloneThread, Clones!Pcs
  <1>5. CASE Clones!Reserve(r)
    <2>1. CASE staging' = [staging EXCEPT ![r] = "partial"] /\ Clones!Goto(r, "cloning")
      <3>1. /\ clone[r].pc \in CloneThread \ {"ended"} /\ r \notin appeared
            /\ "cloning" \notin Publishing /\ clone[r].pc \notin Publishing
        BY <1>0, <1>5 DEF Clones!Reserve, Clones!At, CloneThread, Clones!Pcs, AppearInv, Publishing
      <3>. QED BY <1>0, <1>5, <2>1, <3>1, CloneAdvances DEF Clones!Reserve
    <2>. QED BY <1>1, <1>5, <2>1 DEF Clones!Reserve, Clones!At, CloneThread, Clones!Pcs
  <1>6. CASE Clones!FetchFails(r)
    <2>1. \A q \in Callers \ {r} : staging'[q] = staging[q]
      BY <1>0, <1>6 DEF Clones!FetchFails
    <2>. QED BY <1>1, <1>6, <2>1 DEF Clones!FetchFails, Clones!At, CloneThread, Clones!Pcs
  <1>7. CASE Clones!Fetch(r)
    <2>0. \A q \in Callers \ {r} : staging'[q] = staging[q]
      BY <1>0, <1>7 DEF Clones!Fetch
    <2>1. CASE Clones!Goto(r, "finalizing")
      <3>1. /\ clone[r].pc \in CloneThread \ {"ended"} /\ "finalizing" \in CloneThread \ {"ended"}
            /\ r \notin appeared /\ "finalizing" \notin Publishing /\ clone[r].pc \notin Publishing
        BY <1>0, <1>7 DEF Clones!Fetch, Clones!At, CloneThread, Clones!Pcs, AppearInv, Publishing
      <3>2. staging'[r] # "partial"
        BY <1>0, <1>7 DEF Clones!Fetch, Clones!Fetched
      <3>. QED BY <1>0, <1>7, <2>0, <2>1, <3>1, <3>2, CloneAdvances DEF Clones!Fetch
    <2>. QED BY <1>1, <1>7, <2>0, <2>1 DEF Clones!Fetch, Clones!At, CloneThread, Clones!Pcs
  <1>8. CASE Clones!Finalize(r)
    <2>1. CASE Clones!MayComplete(jobs, r)
      <3>1. /\ clone[r].pc \in CloneThread \ {"ended"} /\ "checking" \in CloneThread \ {"ended"}
            /\ r \notin appeared /\ "checking" \in Publishing
            /\ jobs' = [jobs EXCEPT ![r] = "completing"] /\ jobs[r] # "cancelling"
            /\ staging'[r] # "partial" /\ Clones!Goto(r, "checking")
        BY <1>0, <1>8, <2>1 DEF Clones!Finalize, Clones!At, CloneThread, Clones!Pcs, AppearInv,
             Publishing, Clones!MayComplete, Clones!Completing
      <3>. QED BY <1>0, <1>8, <3>1, CloneAdvances DEF Clones!Finalize
    <2>. QED BY <1>1, <1>8, <2>1 DEF Clones!Finalize, Clones!At, CloneThread, Clones!Pcs
  <1>9. CASE Clones!CheckStaging(r)
    <2>1. CASE Clones!Goto(r, "renaming")
      <3>1. /\ clone[r].pc \in CloneThread \ {"ended"} /\ "renaming" \in CloneThread \ {"ended"}
            /\ r \notin appeared /\ "renaming" \in Publishing /\ clone[r].pc \in Publishing
            /\ staging[r] # "partial"
        BY <1>0, <1>9 DEF Clones!CheckStaging, Clones!At, CloneThread, Clones!Pcs, AppearInv, Publishing
      <3>. QED BY <1>0, <1>9, <2>1, <3>1, CloneAdvances DEF Clones!CheckStaging
    <2>. QED BY <1>1, <1>9, <2>1 DEF Clones!CheckStaging, Clones!At, CloneThread, Clones!Pcs
  <1>10. CASE Clones!Rename(r)
    <2>1. CASE Clones!EndWith(r, "failed") /\ UNCHANGED Clones!diskVars
      BY <1>1, <1>10, <2>1 DEF Clones!Rename, Clones!At, CloneThread, Clones!Pcs
    <2>2. CASE ~(Clones!EndWith(r, "failed") /\ UNCHANGED Clones!diskVars)
      <3>1. /\ clone[r].pc \in CloneThread \ {"ended"} /\ "verifying" \in CloneThread \ {"ended"}
            /\ r \notin appeared /\ "verifying" \in Publishing /\ clone[r].pc \in Publishing
            /\ appeared' \in {appeared, appeared \cup {r}} /\ Clones!Goto(r, "verifying")
            /\ staging' = [staging EXCEPT ![r] = Nothing]
        BY <1>0, <1>10, <2>2 DEF Clones!Rename, Clones!At, CloneThread, Clones!Pcs, AppearInv, Publishing
      <3>. QED BY <1>0, <1>10, <3>1, CloneAdvances DEF Clones!Rename
    <2>. QED BY <2>1, <2>2
  <1>11. CASE Clones!CheckTarget(r)
    <2>1. CASE Clones!Goto(r, "inspecting") /\ Clones!IsMine(r)
      <3>1. clone[r].target \in Targets
        BY <1>0 DEF Clones!Threads
      <3>2. r \in appeared
        BY <2>1, <3>1 DEF CloneInv, TargetInv, Clones!IsMine
      <3>3. /\ clone[r].pc \in CloneThread \ {"ended"} /\ "inspecting" \in CloneThread \ {"ended"}
            /\ "inspecting" \in Publishing \ {"checking", "renaming"} /\ clone[r].pc \in Publishing
        BY <1>11 DEF Clones!CheckTarget, Clones!At, CloneThread, Clones!Pcs, Publishing
      <3>. QED BY <1>0, <1>11, <2>1, <3>2, <3>3, CloneAdvances DEF Clones!CheckTarget
    <2>. QED BY <1>1, <1>11, <2>1 DEF Clones!CheckTarget, Clones!At, CloneThread, Clones!Pcs
  <1>12. CASE Clones!Inspect(r)
    <2>1. CASE Clones!EndWith(r, "ok")
      <3>1. /\ clone[r].pc = "inspecting" /\ jobs[r] = "completing" /\ r \in appeared
            /\ r \notin promised
        BY <1>0, <1>12 DEF Clones!Inspect, Clones!At, JobInv, AppearInv, Publishing
      <3>2. /\ clone' \in [Callers -> Clones!Threads]
            /\ \A q \in Callers \ {r} : clone'[q] = clone[q]
            /\ clone'[r].pc = "ended" /\ clone'[r].result = "ok" /\ clone'[r].since = clone[r].since
        BY <1>0, <2>1, CloneEnds DEF Clones!Results
      <3>3. JobInv(r)' /\ PromiseInv(r)' /\ AppearInv(r)'
        BY <1>0, <1>12, <3>1, <3>2 DEF Clones!Inspect, JobInv, PromiseInv, AppearInv, CloneThread,
             Publishing, Clones!Pcs
      <3>. QED BY <1>0, <1>12, <3>2, <3>3 DEF Clones!Inspect
    <2>. QED BY <1>1, <1>12, <2>1 DEF Clones!Inspect, Clones!At, CloneThread, Clones!Pcs
  <1>13. CASE Clones!Finish(r)
    <2>1. /\ clone[r].pc = "ended" /\ jobs[r] \in {"running", "cancelling", "completing"}
      BY <1>0, <1>13 DEF Clones!Finish, Clones!At, JobInv, CloneThread, Clones!Pcs, Clones!JobPhases
    <2>2. /\ Clones!Terminal(jobs, r) \in {"completed", "cancelled"}
          /\ Clones!Terminal(jobs, r) = "cancelled" <=> jobs[r] = "cancelling"
      BY <2>1 DEF Clones!Terminal
    <2>3. PICK terminal \in {"completed", "cancelled"} :
            /\ clone' = [clone EXCEPT ![r] = [@ EXCEPT !.pc = "telling", !.terminal = terminal]]
            /\ terminal = "cancelled" <=> jobs[r] = "cancelling"
      BY <1>13, <2>2 DEF Clones!Finish
    <2>4. /\ clone' \in [Callers -> Clones!Threads]
          /\ \A q \in Callers \ {r} : clone'[q] = clone[q]
          /\ clone'[r].pc = "telling" /\ clone'[r].terminal = terminal
          /\ clone'[r].result = clone[r].result
      BY <1>0, <2>3 DEF Clones!Threads, Clones!Pcs, Clones!Terminals
    <2>5. /\ jobs' \in [Callers -> Clones!JobPhases] /\ jobs'[r] = "free"
          /\ \A q \in Callers \ {r} : jobs'[q] = jobs[q]
      BY <1>0, <1>13 DEF Clones!Finish, Clones!Finished, Clones!JobPhases
    <2>6. JobInv(r)'
      BY <2>4, <2>5 DEF JobInv, CloneThread, Publishing
    <2>7. PromiseInv(r)'
      BY <1>0, <1>13, <2>1, <2>3, <2>4, <2>5 DEF PromiseInv, Clones!Finish
    <2>8. AppearInv(r)'
      BY <1>0, <1>13, <2>1, <2>4 DEF AppearInv, Clones!Finish
    <2>. QED BY <1>0, <1>13, <2>4, <2>5, <2>6, <2>7, <2>8 DEF Clones!Finish
  <1>14. CASE Clones!Tell(r)
    <2>1. /\ clone[r].pc = "telling" /\ jobs[r] = "free" /\ told[r] = "nothing"
          /\ clone[r].terminal # "already_terminal" /\ told' = [told EXCEPT ![r] = Clones!EventFor(r)]
          /\ Clones!Goto(r, "over") /\ "over" \in Clones!Pcs
          /\ told \in [Callers -> {"nothing", "completed", "failed", "cancelled"}]
      BY <1>0, <1>14 DEF Clones!Tell, Clones!At, JobInv, PromiseInv, CloneThread, Clones!Pcs, Clones!TypeOK
    <2>2. /\ told'[r] = Clones!EventFor(r) /\ Clones!EventFor(r) \in {"completed", "failed", "cancelled"}
          /\ Clones!EventFor(r) = "cancelled" <=> clone[r].terminal = "cancelled"
          /\ Clones!EventFor(r) = "completed" => clone[r].result = "ok"
          /\ \A q \in Callers \ {r} : told'[q] = told[q]
      BY <2>1 DEF Clones!EventFor
    <2>3. /\ clone' \in [Callers -> Clones!Threads]
          /\ \A q \in Callers \ {r} : clone'[q] = clone[q]
          /\ clone'[r].pc = "over" /\ clone'[r].result = clone[r].result
      BY <1>0, <2>1, CloneGoes
    <2>4. JobInv(r)'
      BY <1>0, <1>14, <2>1, <2>3 DEF Clones!Tell, JobInv, CloneThread, Publishing
    <2>5. PromiseInv(r)'
      BY <1>0, <1>14, <2>1, <2>2, <2>3 DEF Clones!Tell, PromiseInv
    <2>6. AppearInv(r)'
      BY <1>0, <1>14, <2>1, <2>2, <2>3 DEF Clones!Tell, AppearInv
    <2>. QED BY <1>0, <1>14, <2>2, <2>3, <2>4, <2>5, <2>6 DEF Clones!Tell
  <1>. QED BY <1>2, <1>3, <1>4, <1>5, <1>6, <1>7, <1>8, <1>9, <1>10, <1>11, <1>12, <1>13, <1>14
       DEF Clones!Thread

LEMMA ThreadsKeep ==
  ASSUME CloneInv, NEW r \in Callers, Clones!Thread(r)
  PROVE  CloneInv'
  <1>0. /\ Clones!TypeOK /\ ThreadMoves(r)
        /\ staging \in [Callers -> Clones!Dirs \cup {Nothing, Foreign}]
        /\ targets \in [Targets -> Clones!Clones \cup {Nothing, Foreign}]
        /\ told \in [Callers -> {"nothing", "completed", "failed", "cancelled"}]
        /\ clone \in [Callers -> Clones!Threads] /\ clone[r].target \in Targets
    BY ThreadsMove DEF CloneInv, Clones!TypeOK, Clones!Threads
  <1>1. /\ UNCHANGED <<promised, account, logout, foreigns>>
        /\ Clones!Tell(r) \/ told' = told
        /\ Clones!Rename(r) \/ UNCHANGED <<targets, appeared>>
    BY DEF Clones!Thread, Clones!Resolve, Clones!ObtainToken, Clones!SeeCancellation, Clones!Reserve,
           Clones!FetchFails, Clones!Fetch, Clones!Finalize, Clones!CheckStaging, Clones!Rename,
           Clones!CheckTarget, Clones!Inspect, Clones!Finish, Clones!Tell, Clones!diskVars,
           Clones!accountVars
  <1>2. told' \in [Callers -> {"nothing", "completed", "failed", "cancelled"}]
    <2>1. CASE Clones!Tell(r)
      <3>1. Clones!EventFor(r) \in {"nothing", "completed", "failed", "cancelled"}
        BY <1>0 DEF Clones!EventFor
      <3>. QED BY <1>0, <2>1, <3>1 DEF Clones!Tell
    <2>. QED BY <1>0, <1>1, <2>1
  <1>3. staging' \in [Callers -> Clones!Dirs \cup {Nothing, Foreign}]
    <2>1. CASE UNCHANGED staging
      BY <1>0, <2>1
    <2>2. CASE Clones!Reserve(r) \/ Clones!Rename(r) \/ Clones!FetchFails(r) \/ Clones!Fetch(r)
      <3>1. Clones!Fetched(r) \in Clones!Dirs \cup {Nothing, Foreign} /\ "partial" \in Clones!Dirs
        BY <1>0 DEF Clones!Fetched, Clones!Dirs
      <3>. QED BY <1>0, <2>2, <3>1 DEF Clones!Reserve, Clones!Rename, Clones!FetchFails, Clones!Fetch,
             Clones!diskVars
    <2>. QED BY <2>1, <2>2 DEF Clones!Thread, Clones!Resolve, Clones!ObtainToken, Clones!SeeCancellation,
           Clones!Finalize, Clones!CheckStaging, Clones!CheckTarget, Clones!Inspect, Clones!Finish,
           Clones!Tell, Clones!diskVars
  <1>4. /\ targets' \in [Targets -> Clones!Clones \cup {Nothing, Foreign}]
        /\ appeared \subseteq appeared' /\ appeared' \subseteq appeared \cup {r}
        /\ TargetInv'
    <2>1. CASE UNCHANGED <<targets, appeared>>
      BY <1>0, <2>1 DEF CloneInv, TargetInv
    <2>2. CASE Clones!Rename(r) /\ ~UNCHANGED <<targets, appeared>>
      <3>1. /\ targets' = [targets EXCEPT ![clone[r].target] = Clones!Moved(r)]
            /\ appeared' = appeared \cup (IF staging[r] \in Clones!Dirs THEN {r} ELSE {})
            /\ staging[r] # Nothing
        BY <2>2 DEF Clones!Rename, Clones!diskVars, Clones!RenameWorks
      <3>2. \/ staging[r] \in Clones!Dirs /\ Clones!Moved(r) = [by |-> r, is |-> staging[r]]
            \/ staging[r] \notin Clones!Dirs /\ Clones!Moved(r) = Foreign
        BY <1>0, <3>1 DEF Clones!Moved
      <3>3. \A q \in Callers : [by : {q}, is : Clones!Dirs] \subseteq Clones!Clones
        BY DEF Clones!Clones
      <3>4. /\ Clones!Moved(r) \in Clones!Clones \cup {Foreign}
            /\ \A q \in Callers : Clones!Moved(r) \in [by : {q}, is : Clones!Dirs] =>
                 q = r /\ staging[r] \in Clones!Dirs
        BY <3>2, <3>3, CloneAssumption DEF Clones!Clones
      <3>. QED BY <1>0, <3>1, <3>4 DEF CloneInv, TargetInv
    <2>. QED BY <1>1, <2>1, <2>2
  <1>5. \A q \in Callers : JobInv(q)' /\ PromiseInv(q)' /\ AppearInv(q)'
    <2>. SUFFICES ASSUME NEW q \in Callers PROVE JobInv(q)' /\ PromiseInv(q)' /\ AppearInv(q)'
      OBVIOUS
    <2>1. CASE q = r
      BY <1>0, <2>1 DEF ThreadMoves
    <2>2. CASE q # r
      BY <1>0, <1>1, <1>4, <2>2, OthersKeep DEF ThreadMoves, CloneInv
    <2>. QED BY <2>1, <2>2
  <1>. QED BY <1>0, <1>1, <1>2, <1>3, <1>4, <1>5 DEF CloneInv, Clones!TypeOK, ThreadMoves

\* Cancellations, by the window of one clone and by a logout of all that run.
LEMMA CancellationsKeep ==
  ASSUME CloneInv, NEW won \in SUBSET {r \in Callers : jobs[r] = "running"},
         jobs' = Clones!WithCancelled(jobs, won), promised' = promised \cup won,
         UNCHANGED <<clone, staging, targets, appeared, told, foreigns>>,
         account'.outs = account.outs \/ won = {r \in Callers : jobs[r] = "running"},
         account' \in Clones!SignIns, logout' \in {"idle", "cancelled"}
  PROVE  CloneInv'
  <1>0. Clones!TypeOK /\ jobs \in [Callers -> Clones!JobPhases]
    BY DEF CloneInv, Clones!TypeOK
  <1>1. /\ jobs' \in [Callers -> Clones!JobPhases]
        /\ \A r \in Callers : jobs'[r] = IF r \in won THEN "cancelling" ELSE jobs[r]
    BY <1>0 DEF Clones!WithCancelled, Clones!JobPhases
  <1>2. ASSUME NEW r \in Callers
        PROVE  JobInv(r)' /\ PromiseInv(r)' /\ AppearInv(r)'
    <2>0. JobInv(r) /\ PromiseInv(r) /\ AppearInv(r)
      BY DEF CloneInv
    <2>1. CASE r \in won
      <3>1. jobs[r] = "running" /\ jobs'[r] = "cancelling" /\ r \in promised'
        BY <1>1, <2>1
      <3>2. JobInv(r)' /\ PromiseInv(r)'
        BY <2>0, <3>1 DEF JobInv, PromiseInv
      <3>3. r \notin appeared
        BY <2>0, <3>1 DEF AppearInv, JobInv, Publishing, CloneThread
      <3>4. AppearInv(r)'
        BY <2>0, <3>3 DEF AppearInv
      <3>. QED BY <3>2, <3>4
    <2>2. CASE r \notin won
      <3>1. jobs'[r] = jobs[r] /\ (r \in promised' <=> r \in promised)
        BY <1>1, <2>2
      <3>2. jobs[r] = "running" => account'.outs = account.outs
        BY <2>2
      <3>. QED BY <2>0, <3>1, <3>2 DEF JobInv, PromiseInv, AppearInv
    <2>. QED BY <2>1, <2>2
  <1>3. promised' \subseteq Callers
    BY <1>0 DEF Clones!TypeOK
  <1>. QED BY <1>0, <1>1, <1>2, <1>3 DEF CloneInv, TargetInv, Clones!TypeOK

LEMMA CloneSurroundingsKeep ==
  ASSUME CloneInv, Clones!Next, ~ \E r \in Callers : Clones!Thread(r)
  PROVE  CloneInv'
  <1>0. /\ Clones!TypeOK /\ jobs \in [Callers -> Clones!JobPhases]
        /\ clone \in [Callers -> Clones!Threads] /\ account \in Clones!SignIns
        /\ staging \in [Callers -> Clones!Dirs \cup {Nothing, Foreign}]
        /\ targets \in [Targets -> Clones!Clones \cup {Nothing, Foreign}]
        /\ Clones!Won(jobs) = {r \in Callers : jobs[r] = "running"}
    BY DEF CloneInv, Clones!TypeOK, Clones!Won, Clones!MayCancel
  <1>. USE DEF Clones!diskVars, Clones!accountVars
  <1>1. ASSUME NEW r \in Callers, Clones!Register(r) PROVE CloneInv'
    <2>1. /\ jobs' = [jobs EXCEPT ![r] = "running"] /\ jobs[r] = "free" /\ clone[r].pc = "unused"
          /\ clone' = [clone EXCEPT ![r] = [@ EXCEPT !.pc = "resolving", !.since = account.outs]]
          /\ UNCHANGED <<staging, targets, appeared, told, promised, account, logout, foreigns>>
      BY <1>1 DEF Clones!Register, Clones!At, Clones!Inserted, Clones!MayInsert
    <2>2. /\ clone' \in [Callers -> Clones!Threads]
          /\ \A q \in Callers \ {r} : clone'[q] = clone[q]
          /\ clone'[r].pc = "resolving" /\ clone'[r].since = account.outs
      BY <1>0, <2>1 DEF Clones!Threads, Clones!SignIns, Clones!Pcs
    <2>3. /\ jobs' \in [Callers -> Clones!JobPhases] /\ jobs'[r] = "running"
          /\ \A q \in Callers \ {r} : jobs'[q] = jobs[q]
      BY <1>0, <2>1 DEF Clones!JobPhases
    <2>4. JobInv(r)' /\ PromiseInv(r)' /\ AppearInv(r)'
      BY <2>1, <2>2, <2>3 DEF CloneInv, JobInv, PromiseInv, AppearInv, CloneThread, Publishing, Clones!Pcs
    <2>5. \A q \in Callers \ {r} : JobInv(q)' /\ PromiseInv(q)' /\ AppearInv(q)'
      BY <2>1, <2>2, <2>3, OthersKeep DEF CloneInv
    <2>. QED BY <1>0, <2>1, <2>2, <2>3, <2>4, <2>5 DEF CloneInv, TargetInv, Clones!TypeOK
  <1>2. ASSUME NEW r \in Callers, Clones!CancelClone(r) PROVE CloneInv'
    <2>1. {r} \in SUBSET {q \in Callers : jobs[q] = "running"}
      BY <1>2 DEF Clones!CancelClone, Clones!MayCancel
    <2>. QED BY <1>0, <1>2, <2>1, CancellationsKeep DEF Clones!CancelClone, Clones!TypeOK
  <1>3. ASSUME NEW r \in Callers, Clones!ForeignStaging(r) PROVE CloneInv'
    <2>1. PICK new \in {Nothing, Foreign} : staging' = [staging EXCEPT ![r] = new]
      BY <1>3 DEF Clones!ForeignStaging
    <2>2. /\ foreigns' \in 0..MaxForeign
          /\ UNCHANGED <<jobs, clone, targets, appeared, told, promised, account, logout>>
      BY <1>0, <1>3, CloneAssumption DEF Clones!ForeignStaging, Clones!TypeOK
    <2>3. \A q \in Callers : staging'[q] = "partial" => staging[q] = "partial"
      BY <1>0, <2>1, CloneAssumption DEF Clones!Dirs
    <2>4. \A q \in Callers : JobInv(q)' /\ PromiseInv(q)' /\ AppearInv(q)'
      BY <2>2, <2>3 DEF CloneInv, JobInv, PromiseInv, AppearInv
    <2>. QED BY <1>0, <2>1, <2>2, <2>4 DEF CloneInv, TargetInv, Clones!TypeOK
  <1>4. CASE Clones!LogoutCancels
    <2>1. account' \in Clones!SignIns
      BY <1>0, <1>4 DEF Clones!LogoutCancels, Clones!SignIns
    <2>. QED BY <1>0, <1>4, <2>1, CancellationsKeep DEF Clones!LogoutCancels
  <1>5. CASE Clones!LogoutEnds \/ Clones!SignIn
    <2>1. account' \in Clones!SignIns /\ account'.outs = account.outs
      <3>1. CASE Clones!SignIn
        BY <1>0, <3>1 DEF Clones!SignIn, Clones!SignIns
      <3>2. CASE Clones!LogoutEnds
        <4>. DEFINE stays(out) == account.signedIn /\ ~out
        <4>1. PICK out \in BOOLEAN : account' = [account EXCEPT !.signedIn = stays(out)]
          BY <3>2 DEF Clones!LogoutEnds
        <4>2. stays(out) \in BOOLEAN
          OBVIOUS
        <4>. HIDE DEF stays
        <4>. QED BY <1>0, <4>1, <4>2 DEF Clones!SignIns
      <3>. QED BY <1>5, <3>1, <3>2
    <2>2. UNCHANGED <<jobs, clone, staging, targets, appeared, told, promised, foreigns>>
          /\ logout' \in {"idle", "cancelled"}
      BY <1>0, <1>5 DEF Clones!LogoutEnds, Clones!SignIn, Clones!TypeOK
    <2>. QED BY <1>0, <2>1, <2>2 DEF CloneInv, TargetInv, Clones!TypeOK, JobInv, PromiseInv, AppearInv
  <1>6. CASE Clones!Quit
    <2>1. /\ UNCHANGED <<staging, targets, appeared, told, account, foreigns>>
          /\ jobs' = [r \in Callers |-> "free"] /\ logout' = "idle"
          /\ promised' = {r \in promised : clone[r].pc = "over"}
      BY <1>6 DEF Clones!Quit, Clones!At
    <2>2. clone' \in [Callers -> Clones!Threads]
      BY <1>0, <1>6 DEF Clones!Quit, Clones!Threads, Clones!Pcs
    <2>3. \A r \in Callers :
            IF clone[r].pc \in {"unused", "over"} THEN clone'[r] = clone[r]
            ELSE clone'[r].pc = "gone"
      BY <1>0, <1>6 DEF Clones!Quit, Clones!At, Clones!Threads
    <2>4. ASSUME NEW r \in Callers PROVE JobInv(r)' /\ PromiseInv(r)' /\ AppearInv(r)'
      <3>0. JobInv(r) /\ PromiseInv(r) /\ AppearInv(r) /\ jobs'[r] = "free"
        BY <2>1 DEF CloneInv
      <3>1. CASE clone[r].pc = "over"
        <4>1. clone'[r] = clone[r] /\ (r \in promised' <=> r \in promised)
          BY <2>1, <2>3, <3>1
        <4>. QED BY <2>1, <3>0, <3>1, <4>1 DEF JobInv, PromiseInv, AppearInv, CloneThread, Publishing
      <3>2. CASE clone[r].pc = "unused"
        <4>1. clone'[r] = clone[r] /\ r \notin promised'
          BY <2>1, <2>3, <3>2
        <4>. QED BY <2>1, <3>0, <3>2, <4>1 DEF JobInv, PromiseInv, AppearInv, CloneThread, Publishing
      <3>3. CASE clone[r].pc \notin {"over", "unused"}
        <4>1. clone'[r].pc = "gone" /\ r \notin promised' /\ told[r] = "nothing"
          BY <2>1, <2>3, <3>0, <3>3, <1>0 DEF PromiseInv, Clones!TypeOK
        <4>. QED BY <2>1, <3>0, <4>1 DEF JobInv, PromiseInv, AppearInv, CloneThread, Publishing
      <3>. QED BY <3>1, <3>2, <3>3
    <2>5. jobs' \in [Callers -> Clones!JobPhases]
      BY <2>1 DEF Clones!JobPhases
    <2>. QED BY <1>0, <2>1, <2>2, <2>4, <2>5 DEF CloneInv, TargetInv, Clones!TypeOK
  <1>7. ASSUME NEW t \in Targets, Clones!ForeignTarget(t) PROVE CloneInv'
    <2>1. PICK new \in {Nothing, Foreign} : targets' = [targets EXCEPT ![t] = new]
      BY <1>7 DEF Clones!ForeignTarget
    <2>2. /\ foreigns' \in 0..MaxForeign
          /\ UNCHANGED <<jobs, clone, staging, appeared, told, promised, account, logout>>
      BY <1>0, <1>7, CloneAssumption DEF Clones!ForeignTarget, Clones!TypeOK
    <2>3. \A r \in Callers : new \notin [by : {r}, is : Clones!Dirs]
      <3>1. \A r \in Callers : [by : {r}, is : Clones!Dirs] \subseteq Clones!Clones
        BY DEF Clones!Clones
      <3>. QED BY <2>1, <3>1, CloneAssumption
    <2>4. TargetInv' /\ targets' \in [Targets -> Clones!Clones \cup {Nothing, Foreign}]
      BY <1>0, <2>1, <2>2, <2>3 DEF CloneInv, TargetInv
    <2>5. \A q \in Callers : JobInv(q)' /\ PromiseInv(q)' /\ AppearInv(q)'
      BY <2>2 DEF CloneInv, JobInv, PromiseInv, AppearInv
    <2>. QED BY <1>0, <2>2, <2>4, <2>5 DEF CloneInv, Clones!TypeOK
  <1>. QED BY <1>1, <1>2, <1>3, <1>4, <1>5, <1>6, <1>7 DEF Clones!Next

\* The invariant of the clones holds at first and every step keeps it.
LEMMA ClonesHold ==
  /\ Clones!Init => CloneInv
  /\ CloneInv /\ [Clones!Next]_cloneVars => CloneInv'
  <1>1. ASSUME Clones!Init PROVE CloneInv
    <2>1. clone \in [Callers -> Clones!Threads] /\ \A r \in Callers : clone[r].pc = "unused" /\ clone[r].result = "none"
      BY <1>1 DEF Clones!Init, Clones!Threads, Clones!Pcs, Clones!Results
    <2>2. \A r \in Callers : [by : {r}, is : Clones!Dirs] \subseteq Clones!Clones
      BY DEF Clones!Clones
    <2>3. TargetInv
      BY <1>1, <2>2, CloneAssumption DEF Clones!Init, TargetInv
    <2>4. \A r \in Callers : JobInv(r) /\ PromiseInv(r) /\ AppearInv(r)
      BY <1>1, <2>1 DEF Clones!Init, JobInv, PromiseInv, AppearInv, CloneThread, Publishing
    <2>5. Clones!TypeOK
      BY <1>1, <2>1, CloneAssumption DEF Clones!Init, Clones!TypeOK, Clones!JobPhases, Clones!SignIns
    <2>. QED BY <2>3, <2>4, <2>5 DEF CloneInv
  <1>2. ASSUME CloneInv, UNCHANGED cloneVars PROVE CloneInv'
    BY <1>2 DEF cloneVars, CloneInv, TargetInv, Clones!TypeOK, JobInv, PromiseInv, AppearInv
  <1>. QED BY <1>1, <1>2, ThreadsKeep, CloneSurroundingsKeep

LEMMA ClonesPromise ==
  CloneInv => Clones!CancelIsFinal /\ Clones!CompletedIsOwn /\ Clones!LogoutStopsClones
  <1>. SUFFICES ASSUME CloneInv
                PROVE  Clones!CancelIsFinal /\ Clones!CompletedIsOwn /\ Clones!LogoutStopsClones
    OBVIOUS
  <1>1. Clones!LogoutStopsClones
    BY DEF CloneInv, JobInv, Clones!LogoutStopsClones
  <1>2. Clones!CompletedIsOwn
    BY DEF CloneInv, AppearInv, Clones!CompletedIsOwn
  <1>3. ASSUME NEW r \in Callers, r \in promised
        PROVE  told[r] \in {"nothing", "cancelled"} /\ r \notin appeared
    BY <1>3 DEF CloneInv, PromiseInv, AppearInv, JobInv, CloneThread, Clones!Pcs
  <1>. QED BY <1>1, <1>2, <1>3 DEF CloneInv, PromiseInv, Clones!CancelIsFinal

\* Only a thread that has its whole clone, and nothing at its target, changes the target.
LEMMA ClonesPublish ==
  ASSUME CloneInv, [Clones!Next]_cloneVars
  PROVE  Clones!PublishesWhole
  <1>1. ASSUME NEW r \in Callers, Clones!Rename(r) PROVE Clones!PublishesWhole
    <2>1. CASE UNCHANGED targets
      BY <2>1 DEF Clones!PublishesWhole
    <2>2. CASE ~UNCHANGED targets
      <3>1. /\ targets' = [targets EXCEPT ![clone[r].target] = Clones!Moved(r)]
            /\ targets[clone[r].target] = Nothing /\ staging[r] # Nothing
            /\ clone[r].pc = "renaming" /\ AppearInv(r) /\ Clones!TypeOK
        BY <1>1, <2>2 DEF Clones!Rename, Clones!diskVars, Clones!RenameWorks, Clones!TargetFree,
             Clones!At, CloneInv
      <3>2. staging[r] \in {"whole", Foreign}
        BY <3>1 DEF AppearInv, Clones!TypeOK, Clones!Dirs
      <3>3. Clones!Moved(r) \in [by : Callers, is : {"whole"}] \cup {Foreign}
        BY <3>2, CloneAssumption DEF Clones!Moved, Clones!Dirs
      <3>4. targets \in [Targets -> Clones!Clones \cup {Nothing, Foreign}]
        BY <3>1 DEF Clones!TypeOK
      <3>. QED BY <3>1, <3>3, <3>4 DEF Clones!PublishesWhole
    <2>. QED BY <2>1, <2>2
  <1>2. CASE foreigns' # foreigns
    BY <1>2 DEF Clones!PublishesWhole
  <1>3. CASE UNCHANGED targets
    BY <1>3 DEF Clones!PublishesWhole
  <1>4. ASSUME NEW t \in Targets, Clones!ForeignTarget(t) PROVE foreigns' # foreigns
    <2>1. foreigns \in Nat
      BY CloneAssumption DEF CloneInv, Clones!TypeOK
    <2>. QED BY <1>4, <2>1 DEF Clones!ForeignTarget
  <1>. QED BY <1>1, <1>2, <1>3, <1>4
       DEF Clones!Next, Clones!Thread, Clones!Register, Clones!CancelClone, Clones!ForeignStaging,
           Clones!LogoutCancels, Clones!LogoutEnds, Clones!SignIn, Clones!Quit,
           Clones!Resolve, Clones!ObtainToken, Clones!SeeCancellation, Clones!Reserve,
           Clones!FetchFails, Clones!Fetch, Clones!Finalize, Clones!CheckStaging,
           Clones!CheckTarget, Clones!Inspect, Clones!Finish, Clones!Tell, Clones!diskVars,
           Clones!accountVars, cloneVars

-----------------------------------------------------------------------------
(***************************************************************************)
(* AI tasks and terminals.                                                 *)
(***************************************************************************)
\* The task under way is the one whose flag is held, and a flag is raised by its user.
TaskInv ==
  /\ \A t \in Callers : task[t].pc \in {"prepare", "poll", "drain"} <=> running = t
  /\ \A t \in Callers : flag[t] => asked[t]
  /\ \A t \in Callers : task[t].result = "cancelled" => asked[t]

\* What a terminal told its window, and what is left of it then.
ToldInv(s) ==
  /\ \A i \in 1..Len(term[s].events) :
       term[s].events[i] = "exit" =>
         /\ term[s].pc = "end"
         /\ i = Len(term[s].events) \/ term[s].late
         /\ \A j \in 1..Len(term[s].events) : term[s].events[j] = "exit" => j = i
  /\ term[s].pc = "end" => ~term[s].reader \/ term[s].late
ProgramInv(s) ==
  /\ s \in sessions => term[s].pc = "wait"
  /\ term[s].pc \in {"new", "ready", "failed", "drain", "end"} => ~term[s].alive

AiInv ==
  /\ Ai!TypeOK
  /\ TaskInv
  /\ \A s \in Shells : ToldInv(s) /\ ProgramInv(s)

LEMMA AiAssumption == None \notin Callers \cup Ai!Results /\ MaxOutput \in Nat
  BY OperationsAssumption DEF Ai!AiSessionsAssumption

LEMMA TasksKeep ==
  ASSUME AiInv, Ai!TaskNext
  PROVE  AiInv'
  <1>0. /\ running \in Callers \cup {None} /\ task \in [Callers -> Ai!TaskStates]
        /\ flag \in [Callers -> BOOLEAN] /\ asked \in [Callers -> BOOLEAN]
        /\ UNCHANGED <<sessions, term>>
    BY DEF AiInv, Ai!TypeOK, Ai!TaskNext, Ai!TaskStep, Ai!Cancel, Ai!Begin, Ai!Timeout, Ai!Exit,
           Ai!Prepare, Ai!Poll, Ai!Drained, Ai!terminals
  <1>1. ASSUME NEW t \in Callers, UNCHANGED <<flag, asked>>, task' \in [Callers -> Ai!TaskStates],
               \A q \in Callers \ {t} : task'[q] = task[q],
               running' \in {running, t, None},
               running' = t <=> task'[t].pc \in {"prepare", "poll", "drain"},
               running' # running => running \in {t, None},
               task'[t].result = "cancelled" => asked[t]
        PROVE  AiInv'
    <2>1. TaskInv'
      BY <1>0, <1>1, AiAssumption DEF AiInv, TaskInv
    <2>2. Ai!TypeOK'
      BY <1>0, <1>1 DEF AiInv, Ai!TypeOK
    <2>. QED BY <1>0, <2>1, <2>2 DEF AiInv, ToldInv, ProgramInv
  <1>2. ASSUME NEW t \in Callers, Ai!Begin(t) PROVE AiInv'
    <2>1. \A pc \in {"prepare", "refused"} : [task EXCEPT ![t].pc = pc] \in [Callers -> Ai!TaskStates]
      BY <1>0 DEF Ai!TaskStates, Ai!TaskPcs
    <2>2. /\ task' \in [Callers -> Ai!TaskStates]
          /\ \A q \in Callers \ {t} : task'[q] = task[q]
          /\ task'[t].result = task[t].result
      BY <1>0, <1>2, <2>1 DEF Ai!Begin, Ai!TaskStates
    <2>3. \/ running = None /\ running' = t /\ task'[t].pc = "prepare"
          \/ running' = running /\ task'[t].pc = "refused"
      BY <1>0, <1>2 DEF Ai!Begin, Ai!MayBegin, Ai!TaskStates
    <2>4. task[t].pc = "new" /\ running # t
      BY <1>2 DEF Ai!Begin, AiInv, TaskInv
    <2>. QED BY <1>0, <1>1, <1>2, <2>2, <2>3, <2>4 DEF Ai!Begin, AiInv, TaskInv
  <1>3. CASE Ai!Cancel
    <2>1. /\ running \in Callers /\ flag' = [flag EXCEPT ![running] = TRUE]
          /\ asked' = [asked EXCEPT ![running] = TRUE] /\ UNCHANGED <<running, task>>
      BY <1>0, <1>3 DEF Ai!Cancel
    <2>2. TaskInv' /\ flag' \in [Callers -> BOOLEAN] /\ asked' \in [Callers -> BOOLEAN]
      BY <1>0, <2>1 DEF AiInv, TaskInv
    <2>. QED BY <1>0, <2>1, <2>2 DEF AiInv, Ai!TypeOK, ToldInv, ProgramInv
  <1>4. ASSUME NEW t \in Callers, NEW result \in Ai!Results \cup {None}, Ai!EndTask(t, result),
               task[t].pc \in {"prepare", "drain"}, UNCHANGED <<flag, asked>>,
               result = "cancelled" => asked[t]
        PROVE  AiInv'
    <2>1. /\ task' \in [Callers -> Ai!TaskStates] /\ \A q \in Callers \ {t} : task'[q] = task[q]
          /\ task'[t].pc = "end" /\ task'[t].result = result
      BY <1>0, <1>4 DEF Ai!EndTask, Ai!TaskStates, Ai!TaskPcs
    <2>2. running = t /\ running' = None
      BY <1>4 DEF Ai!EndTask, AiInv, TaskInv
    <2>. QED BY <1>1, <1>4, <2>1, <2>2, AiAssumption
  <1>5. ASSUME NEW t \in Callers, Ai!Prepare(t) PROVE AiInv'
    <2>1. CASE Ai!EndTask(t, "error")
      BY <1>4, <1>5, <2>1 DEF Ai!Prepare, Ai!Results
    <2>2. CASE ~Ai!EndTask(t, "error")
      <3>1. task' = [task EXCEPT ![t] = [@ EXCEPT !.pc = "poll", !.alive = TRUE, !.pipe = TRUE]]
            /\ running' = running /\ task[t].pc = "prepare"
        BY <1>5, <2>2 DEF Ai!Prepare
      <3>2. /\ task' \in [Callers -> Ai!TaskStates] /\ \A q \in Callers \ {t} : task'[q] = task[q]
            /\ task'[t].pc = "poll" /\ task'[t].result = task[t].result
        BY <1>0, <3>1 DEF Ai!TaskStates, Ai!TaskPcs
      <3>. QED BY <1>1, <1>5, <3>1, <3>2 DEF Ai!Prepare, AiInv, TaskInv
    <2>. QED BY <2>1, <2>2
  <1>6. ASSUME NEW t \in Callers, Ai!Poll(t) PROVE AiInv'
    <2>0. /\ running = t /\ running' = running /\ UNCHANGED <<flag, asked>>
          /\ task[t] \in Ai!TaskStates
      BY <1>0, <1>6 DEF Ai!Poll, AiInv, TaskInv
    <2>1. ASSUME NEW now \in Ai!TaskStates, task' = [task EXCEPT ![t] = now], now.pc = "drain",
                 now.result = "cancelled" => flag[t]
          PROVE  AiInv'
      <3>1. /\ task' \in [Callers -> Ai!TaskStates] /\ \A q \in Callers \ {t} : task'[q] = task[q]
            /\ task'[t] = now
        BY <1>0, <2>1
      <3>. QED BY <1>1, <2>0, <2>1, <3>1 DEF AiInv, TaskInv
    <2>2. CASE task' = [task EXCEPT ![t] = [@ EXCEPT !.pc = "drain", !.result = "completed"]]
      <3>. DEFINE now == [task[t] EXCEPT !.pc = "drain", !.result = "completed"]
      <3>1. now \in Ai!TaskStates /\ now.pc = "drain" /\ now.result = "completed"
        BY <2>0 DEF Ai!TaskStates, Ai!TaskPcs, Ai!Results
      <3>2. task' = [task EXCEPT ![t] = now]
        BY <1>0, <2>2
      <3>. HIDE DEF now
      <3>. QED BY <2>1, <3>1, <3>2
    <2>3. ASSUME NEW result \in {"cancelled", "timed_out"}, Ai!Stop(t, result),
                 result = "cancelled" => flag[t]
          PROVE  AiInv'
      <3>. DEFINE now == [task[t] EXCEPT !.pc = "drain", !.alive = FALSE, !.pipe = FALSE,
                                         !.result = result]
      <3>1. now \in Ai!TaskStates /\ now.pc = "drain" /\ now.result = result
        BY <2>0 DEF Ai!TaskStates, Ai!TaskPcs, Ai!Results
      <3>2. task' = [task EXCEPT ![t] = now]
        BY <1>0, <2>3 DEF Ai!Stop
      <3>. HIDE DEF now
      <3>. QED BY <2>1, <2>3, <3>1, <3>2
    <2>. QED BY <1>6, <2>2, <2>3 DEF Ai!Poll
  <1>7. ASSUME NEW t \in Callers, Ai!Timeout(t) \/ Ai!Exit(t) PROVE AiInv'
    <2>1. /\ task' \in [Callers -> Ai!TaskStates] /\ \A q \in Callers \ {t} : task'[q] = task[q]
          /\ task'[t].pc = task[t].pc /\ task'[t].result = task[t].result
      <3>1. CASE Ai!Timeout(t)
        BY <1>0, <3>1 DEF Ai!Timeout, Ai!TaskStates
      <3>2. CASE Ai!Exit(t)
        <4>1. PICK open \in BOOLEAN : task' = [task EXCEPT ![t] = [@ EXCEPT !.alive = FALSE, !.pipe = open]]
          BY <3>2 DEF Ai!Exit
        <4>. QED BY <1>0, <4>1 DEF Ai!TaskStates
      <3>. QED BY <1>7, <3>1, <3>2
    <2>. QED BY <1>0, <1>1, <1>7, <2>1 DEF Ai!Timeout, Ai!Exit, AiInv, TaskInv
  <1>8. ASSUME NEW t \in Callers, Ai!Drained(t) PROVE AiInv'
    <2>1. task[t].result \in Ai!Results \cup {None}
      BY <1>0 DEF Ai!TaskStates
    <2>. QED BY <1>4, <1>8, <2>1 DEF Ai!Drained, AiInv, TaskInv
  <1>. QED BY <1>2, <1>3, <1>5, <1>6, <1>7, <1>8 DEF Ai!TaskNext, Ai!TaskStep

\* A step that adds one event to a terminal's, an exit only as the first and the last.
LEMMA EventsAppend ==
  ASSUME NEW events \in Seq({"output", "exit"}), NEW event \in {"output", "exit"}
  PROVE  LET more == Append(events, event) IN
         /\ more \in Seq({"output", "exit"}) /\ Len(more) = Len(events) + 1
         /\ \A i \in 1..Len(events) : more[i] = events[i]
         /\ more[Len(more)] = event
  OBVIOUS

\* A terminal whose events stay the same keeps what is said of them.
LEMMA ToldKeeps ==
  ASSUME NEW s, ToldInv(s), term'[s].events = term[s].events,
         term[s].pc = "end" => term'[s].pc = "end",
         term[s].late => term'[s].late,
         term'[s].pc = "end" => ~term'[s].reader \/ term'[s].late
  PROVE  ToldInv(s)'
  BY DEF ToldInv

LEMMA TerminalsKeep ==
  ASSUME AiInv, Ai!TerminalNext
  PROVE  AiInv'
  <1>0. /\ term \in [Shells -> Ai!TerminalStates] /\ sessions \subseteq Shells
        /\ UNCHANGED <<running, task, flag, asked>>
    BY DEF AiInv, Ai!TypeOK, Ai!TerminalNext, Ai!TerminalStep, Ai!PrepareTerminal, Ai!Start,
           Ai!Output, Ai!ProgramEnds, Ai!ChildrenEnd, Ai!StopTerminal, Ai!GraceEnds, Ai!Insert,
           Ai!Wait, Ai!TellExit, Ai!ReadOutput, Ai!ReaderEnds, Ai!tasks
  <1>1. ASSUME NEW s \in Shells, NEW now \in Ai!TerminalStates, term' = [term EXCEPT ![s] = now],
               sessions' \subseteq Shells, \A q \in Shells \ {s} : q \in sessions' => q \in sessions,
               s \in sessions' => now.pc = "wait",
               now.pc \in {"new", "ready", "failed", "drain", "end"} => ~now.alive,
               ToldInv(s)'
        PROVE  AiInv'
    <2>1. term' \in [Shells -> Ai!TerminalStates] /\ term'[s] = now
          /\ \A q \in Shells \ {s} : term'[q] = term[q]
      BY <1>0, <1>1
    <2>2. ASSUME NEW q \in Shells PROVE ToldInv(q)' /\ ProgramInv(q)'
      <3>1. CASE q = s
        BY <1>1, <2>1, <3>1 DEF ProgramInv
      <3>2. CASE q # s
        BY <1>1, <2>1, <3>2 DEF AiInv, ToldInv, ProgramInv
      <3>. QED BY <3>1, <3>2
    <2>. QED BY <1>0, <1>1, <2>1, <2>2 DEF AiInv, Ai!TypeOK, TaskInv
  <1>2. ASSUME NEW s \in Shells, NEW now \in Ai!TerminalStates, term' = [term EXCEPT ![s] = now],
               now.events = term[s].events, term[s].pc = "end" => now.pc = "end",
               term[s].late => now.late, now.pc = "end" => ~now.reader \/ now.late,
               sessions' \subseteq Shells, \A q \in Shells \ {s} : q \in sessions' => q \in sessions,
               s \in sessions' => now.pc = "wait",
               now.pc \in {"new", "ready", "failed", "drain", "end"} => ~now.alive
        PROVE  AiInv'
    <2>1. term'[s] = now
      BY <1>0, <1>2
    <2>2. ToldInv(s)'
      BY <1>2, <2>1, ToldKeeps DEF AiInv
    <2>. QED BY <1>1, <1>2, <2>2
  <1>3. SUFFICES ASSUME NEW s \in Shells,
                        \/ Ai!PrepareTerminal(s) \/ Ai!Start(s) \/ Ai!Output(s) \/ Ai!ProgramEnds(s)
                        \/ Ai!ChildrenEnd(s) \/ Ai!StopTerminal(s) \/ Ai!GraceEnds(s)
                        \/ Ai!TerminalStep(s)
                 PROVE  AiInv'
    BY DEF Ai!TerminalNext
  <1>4. /\ term[s] \in Ai!TerminalStates /\ ToldInv(s) /\ ProgramInv(s)
        /\ \A q \in Shells : q \in sessions => term[q].pc = "wait"
    BY <1>0 DEF AiInv, ProgramInv
  <1>5. CASE Ai!PrepareTerminal(s)
    <2>1. PICK pc \in {"ready", "failed"} : term' = [term EXCEPT ![s].pc = pc]
      BY <1>5 DEF Ai!PrepareTerminal
    <2>. DEFINE now == [term[s] EXCEPT !.pc = pc]
    <2>2. now \in Ai!TerminalStates /\ now.pc = pc /\ now.events = term[s].events
          /\ now.alive = term[s].alive /\ now.late = term[s].late
      BY <1>4, <2>1 DEF Ai!TerminalStates, Ai!TerminalPcs
    <2>3. term' = [term EXCEPT ![s] = now] /\ sessions' = sessions /\ term[s].pc = "new"
      BY <1>0, <1>5, <2>1 DEF Ai!PrepareTerminal
    <2>. HIDE DEF now
    <2>. QED BY <1>0, <1>2, <1>4, <2>1, <2>2, <2>3 DEF ProgramInv
  <1>6. CASE Ai!Start(s)
    <2>0. sessions' = sessions /\ term[s].pc = "ready"
      BY <1>6 DEF Ai!Start
    <2>1. CASE term' = [term EXCEPT ![s] = [@ EXCEPT !.pc = "started", !.alive = TRUE, !.open = TRUE,
                                                     !.reader = TRUE]]
      <3>. DEFINE now == [term[s] EXCEPT !.pc = "started", !.alive = TRUE, !.open = TRUE, !.reader = TRUE]
      <3>1. now \in Ai!TerminalStates /\ now.pc = "started" /\ now.events = term[s].events
            /\ now.late = term[s].late
        BY <1>4 DEF Ai!TerminalStates, Ai!TerminalPcs
      <3>2. term' = [term EXCEPT ![s] = now]
        BY <1>0, <2>1
      <3>. HIDE DEF now
      <3>. QED BY <1>0, <1>2, <1>4, <2>0, <3>1, <3>2 DEF ProgramInv
    <2>2. CASE term' = [term EXCEPT ![s].pc = "failed"]
      <3>. DEFINE now == [term[s] EXCEPT !.pc = "failed"]
      <3>1. now \in Ai!TerminalStates /\ now.pc = "failed" /\ now.events = term[s].events
            /\ now.alive = term[s].alive /\ now.late = term[s].late
        BY <1>4 DEF Ai!TerminalStates, Ai!TerminalPcs
      <3>2. term' = [term EXCEPT ![s] = now]
        BY <1>0, <2>2
      <3>. HIDE DEF now
      <3>. QED BY <1>0, <1>2, <1>4, <2>0, <3>1, <3>2 DEF ProgramInv
    <2>. QED BY <1>6, <2>1, <2>2 DEF Ai!Start
  <1>7. CASE Ai!Insert(s)
    <2>. DEFINE now == [term[s] EXCEPT !.pc = "wait"]
    <2>1. now \in Ai!TerminalStates /\ now.pc = "wait" /\ now.events = term[s].events
          /\ now.late = term[s].late
      BY <1>4 DEF Ai!TerminalStates, Ai!TerminalPcs
    <2>2. term' = [term EXCEPT ![s] = now] /\ sessions' = sessions \cup {s} /\ term[s].pc = "started"
      BY <1>0, <1>7 DEF Ai!Insert
    <2>. HIDE DEF now
    <2>. QED BY <1>0, <1>2, <1>4, <2>1, <2>2
  <1>8. CASE Ai!Output(s)
    <2>. DEFINE now == [term[s] EXCEPT !.written = term[s].written + 1, !.pipe = term[s].pipe + 1]
    <2>1. term[s].written \in 0..MaxOutput /\ term[s].written < MaxOutput /\ term[s].pipe \in Nat
      BY <1>4, <1>8 DEF Ai!Output, Ai!TerminalStates
    <2>2. term[s].written + 1 \in 0..MaxOutput /\ term[s].pipe + 1 \in Nat
      BY <2>1, AiAssumption
    <2>3. now \in Ai!TerminalStates /\ now.pc = term[s].pc /\ now.events = term[s].events
          /\ now.late = term[s].late /\ now.alive = term[s].alive /\ now.reader = term[s].reader
      BY <1>4, <2>2 DEF Ai!TerminalStates
    <2>4. term' = [term EXCEPT ![s] = now] /\ sessions' = sessions
      BY <1>0, <1>4, <1>8 DEF Ai!Output, Ai!TerminalStates
    <2>. HIDE DEF now
    <2>. QED BY <1>0, <1>2, <1>4, <2>3, <2>4 DEF ProgramInv, ToldInv
  <1>9. ASSUME NEW open \in BOOLEAN, term' = [term EXCEPT ![s] = [@ EXCEPT !.alive = FALSE, !.open = open]],
               sessions' \subseteq sessions
        PROVE  AiInv'
    <2>. DEFINE now == [term[s] EXCEPT !.alive = FALSE, !.open = open]
    <2>1. now \in Ai!TerminalStates /\ now.pc = term[s].pc /\ now.events = term[s].events
          /\ now.late = term[s].late /\ ~now.alive /\ now.reader = term[s].reader
      BY <1>4 DEF Ai!TerminalStates
    <2>2. term' = [term EXCEPT ![s] = now]
      BY <1>0, <1>9
    <2>. HIDE DEF now
    <2>3. /\ now.pc = "end" => ~now.reader \/ now.late
          /\ \A q \in Shells : q \in sessions' => q \in sessions
          /\ sessions' \subseteq Shells /\ (s \in sessions' => now.pc = "wait")
      BY <1>0, <1>4, <1>9, <2>1 DEF ToldInv
    <2>. QED BY <1>2, <2>1, <2>2, <2>3
  <1>10. CASE Ai!ProgramEnds(s)
    BY <1>9, <1>10 DEF Ai!ProgramEnds
  <1>11. CASE Ai!ChildrenEnd(s)
    <2>. DEFINE now == [term[s] EXCEPT !.open = FALSE]
    <2>1. now \in Ai!TerminalStates /\ now.pc = term[s].pc /\ now.events = term[s].events
          /\ now.late = term[s].late /\ now.alive = term[s].alive /\ now.reader = term[s].reader
      BY <1>4 DEF Ai!TerminalStates
    <2>2. term' = [term EXCEPT ![s] = now] /\ sessions' = sessions
      BY <1>0, <1>11 DEF Ai!ChildrenEnd
    <2>. HIDE DEF now
    <2>. QED BY <1>0, <1>2, <1>4, <2>1, <2>2 DEF ProgramInv, ToldInv
  <1>12. CASE Ai!StopTerminal(s)
    <2>. DEFINE stays(open) == term[s].open /\ open
    <2>1. PICK open \in BOOLEAN :
            term' = [term EXCEPT ![s] = [@ EXCEPT !.alive = FALSE, !.open = stays(open)]]
      BY <1>0, <1>12 DEF Ai!StopTerminal
    <2>2. stays(open) \in BOOLEAN /\ sessions' \subseteq sessions
      BY <1>12 DEF Ai!StopTerminal
    <2>. HIDE DEF stays
    <2>. QED BY <1>9, <2>1, <2>2
  <1>13. CASE Ai!Wait(s)
    <2>. DEFINE now == [term[s] EXCEPT !.pc = "drain"]
    <2>1. now \in Ai!TerminalStates /\ now.pc = "drain" /\ now.events = term[s].events
          /\ now.late = term[s].late /\ now.alive = term[s].alive
      BY <1>4 DEF Ai!TerminalStates, Ai!TerminalPcs
    <2>2. term' = [term EXCEPT ![s] = now] /\ sessions' = sessions \ {s} /\ ~term[s].alive
          /\ term[s].pc = "wait"
      BY <1>0, <1>13 DEF Ai!Wait
    <2>. HIDE DEF now
    <2>. QED BY <1>0, <1>2, <1>4, <2>1, <2>2
  <1>14. CASE Ai!GraceEnds(s)
    <2>. DEFINE now == [term[s] EXCEPT !.late = TRUE]
    <2>1. now \in Ai!TerminalStates /\ now.pc = term[s].pc /\ now.events = term[s].events
          /\ now.late /\ now.alive = term[s].alive
      BY <1>4 DEF Ai!TerminalStates
    <2>2. term' = [term EXCEPT ![s] = now] /\ sessions' = sessions
      BY <1>0, <1>14 DEF Ai!GraceEnds
    <2>. HIDE DEF now
    <2>. QED BY <1>0, <1>2, <1>4, <2>1, <2>2 DEF ProgramInv
  <1>15. CASE Ai!ReaderEnds(s)
    <2>. DEFINE now == [term[s] EXCEPT !.reader = FALSE]
    <2>1. now \in Ai!TerminalStates /\ now.pc = term[s].pc /\ now.events = term[s].events
          /\ now.late = term[s].late /\ now.alive = term[s].alive /\ ~now.reader
      BY <1>4 DEF Ai!TerminalStates
    <2>2. term' = [term EXCEPT ![s] = now] /\ sessions' = sessions
      BY <1>0, <1>15 DEF Ai!ReaderEnds
    <2>. HIDE DEF now
    <2>. QED BY <1>0, <1>2, <1>4, <2>1, <2>2 DEF ProgramInv
  <1>16. CASE Ai!ReadOutput(s)
    <2>. DEFINE events == term[s].events
                more == Append(events, "output")
                now == [term[s] EXCEPT !.events = more, !.pipe = term[s].pipe - 1]
    <2>1. /\ events \in Seq({"output", "exit"}) /\ term[s].pipe - 1 \in Nat
          /\ term[s].reader /\ sessions' = sessions
      BY <1>4, <1>16 DEF Ai!ReadOutput, Ai!TerminalStates
    <2>2. /\ more \in Seq({"output", "exit"}) /\ Len(more) = Len(events) + 1 /\ Len(events) \in Nat
          /\ \A i \in 1..Len(events) : more[i] = events[i]
          /\ more[Len(more)] = "output"
      BY <2>1, EventsAppend
    <2>3. term' = [term EXCEPT ![s] = now]
      BY <1>0, <1>16 DEF Ai!ReadOutput, Ai!Sent
    <2>4. now \in Ai!TerminalStates /\ now.pc = term[s].pc /\ now.events = more
          /\ now.late = term[s].late /\ now.alive = term[s].alive /\ now.reader = term[s].reader
      <3>. HIDE DEF more
      <3>. QED BY <1>4, <2>1, <2>2 DEF Ai!TerminalStates
    <2>. HIDE DEF now, more
    <2>5. term'[s] = now
      BY <1>0, <2>3
    <2>6. term[s].pc = "end" => term[s].late
      BY <1>4, <2>1 DEF ToldInv
    <2>7. ToldInv(s)'
      <3>1. ASSUME NEW i \in 1..Len(more), more[i] = "exit"
            PROVE  /\ i \in 1..Len(events) /\ events[i] = "exit"
        BY <2>2, <3>1
      <3>. QED BY <1>4, <2>2, <2>4, <2>5, <2>6, <3>1 DEF ToldInv
    <2>. QED BY <1>0, <1>1, <1>4, <2>1, <2>3, <2>4, <2>7 DEF ProgramInv
  <1>17. CASE Ai!TellExit(s)
    <2>. DEFINE events == term[s].events
                more == Append(events, "exit")
                now == [term[s] EXCEPT !.events = more, !.pc = "end"]
    <2>1. /\ events \in Seq({"output", "exit"}) /\ term[s].pc = "drain" /\ sessions' = sessions
          /\ ~term[s].reader \/ term[s].late
      BY <1>4, <1>17 DEF Ai!TellExit, Ai!MayTell, Ai!TerminalStates
    <2>2. /\ more \in Seq({"output", "exit"}) /\ Len(more) = Len(events) + 1 /\ Len(events) \in Nat
          /\ \A i \in 1..Len(events) : more[i] = events[i]
          /\ more[Len(more)] = "exit"
      BY <2>1, EventsAppend
    <2>3. term' = [term EXCEPT ![s] = now]
      BY <1>0, <1>17 DEF Ai!TellExit, Ai!Sent
    <2>4. now \in Ai!TerminalStates /\ now.pc = "end" /\ now.events = more
          /\ now.late = term[s].late /\ now.alive = term[s].alive /\ now.reader = term[s].reader
      <3>. HIDE DEF more
      <3>. QED BY <1>4, <2>1, <2>2 DEF Ai!TerminalStates, Ai!TerminalPcs
    <2>. HIDE DEF now, more
    <2>5. term'[s] = now
      BY <1>0, <2>3
    <2>6. \A i \in 1..Len(events) : events[i] # "exit"
      BY <1>4, <2>1 DEF ToldInv
    <2>7. ToldInv(s)'
      <3>1. ASSUME NEW i \in 1..Len(more), more[i] = "exit"
            PROVE  i = Len(more)
        BY <2>2, <2>6, <3>1
      <3>. QED BY <2>1, <2>4, <2>5, <3>1 DEF ToldInv
    <2>. QED BY <1>0, <1>1, <1>4, <2>1, <2>3, <2>4, <2>7 DEF ProgramInv
  <1>. QED BY <1>3, <1>5, <1>6, <1>7, <1>8, <1>10, <1>11, <1>12, <1>13, <1>14, <1>15, <1>16, <1>17
       DEF Ai!TerminalStep

\* The invariant of the tasks and terminals holds at first and every step keeps it.
LEMMA AiHolds ==
  /\ Ai!Init => AiInv
  /\ AiInv /\ [Ai!Next]_aiVars => AiInv'
  <1>1. ASSUME Ai!Init PROVE AiInv
    <2>1. Ai!NewTask \in Ai!TaskStates
      BY DEF Ai!NewTask, Ai!TaskStates, Ai!TaskPcs
    <2>2. Ai!NewTerminal \in Ai!TerminalStates
      BY AiAssumption DEF Ai!NewTerminal, Ai!TerminalStates, Ai!TerminalPcs
    <2>3. Ai!TypeOK
      BY <1>1, <2>1, <2>2 DEF Ai!Init, Ai!TypeOK
    <2>4. TaskInv
      BY <1>1, AiAssumption DEF Ai!Init, Ai!NewTask, TaskInv, Ai!Results
    <2>5. \A s \in Shells : term[s].pc = "new" /\ ~term[s].alive /\ term[s].events = <<>> /\ s \notin sessions
      BY <1>1 DEF Ai!Init, Ai!NewTerminal
    <2>. QED BY <2>3, <2>4, <2>5 DEF AiInv, ToldInv, ProgramInv
  <1>2. ASSUME AiInv, UNCHANGED aiVars PROVE AiInv'
    BY <1>2 DEF aiVars, AiInv, Ai!TypeOK, TaskInv, ToldInv, ProgramInv
  <1>. QED BY <1>1, <1>2, TasksKeep, TerminalsKeep DEF Ai!Next

LEMMA AiPromises ==
  AiInv => Ai!OneTaskAtATime /\ Ai!ExitIsLast
  <1>. SUFFICES ASSUME AiInv PROVE Ai!OneTaskAtATime /\ Ai!ExitIsLast
    OBVIOUS
  <1>1. Ai!OneTaskAtATime
    BY DEF AiInv, TaskInv, Ai!OneTaskAtATime
  <1>2. ASSUME NEW s \in Shells
        PROVE  /\ \A i, j \in Ai!Exits(s) : i = j
               /\ Ai!Exits(s) # {} => ~term[s].alive /\ s \notin sessions
               /\ \A i \in Ai!Exits(s) : i = Len(term[s].events) \/ term[s].late
    <2>1. /\ ToldInv(s) /\ ProgramInv(s)
          /\ Ai!Exits(s) = {i \in 1..Len(term[s].events) : term[s].events[i] = "exit"}
      <3>1. term[s].events \in Seq({"output", "exit"})
        BY DEF AiInv, Ai!TypeOK, Ai!TerminalStates
      <3>. QED BY <3>1 DEF AiInv, Ai!Exits
    <2>. QED BY <2>1 DEF ToldInv, ProgramInv
  <1>. QED BY <1>1, <1>2 DEF Ai!ExitIsLast

-----------------------------------------------------------------------------
(***************************************************************************)
(* The operations together.                                                *)
(***************************************************************************)
\* Each kind of operation keeps its own invariant, and a behaviour is of one kind.
OperationsInv ==
  /\ part = "initialization" => InitializationInv
  /\ part = "clone" => CloneInv
  /\ part \in {"tasks", "terminals"} => AiInv

LEMMA OperationsHold ==
  /\ OperationsInit => OperationsInv
  /\ OperationsInv /\ [OperationsNext]_allVars => OperationsInv'
  <1>1. OperationsInit => OperationsInv
    BY InitializationHolds, ClonesHold, AiHolds DEF OperationsInit, OperationsInv
  <1>2. ASSUME OperationsInv, [OperationsNext]_allVars
        PROVE  OperationsInv' /\ part' = part
               /\ (part = "initialization" => [Next]_vars)
               /\ (part = "clone" => [Clones!Next]_cloneVars)
               /\ (part \in {"tasks", "terminals"} => [Ai!Next]_aiVars)
    <2>1. /\ part' = part
          /\ part = "initialization" => [Next]_vars
          /\ part = "clone" => [Clones!Next]_cloneVars
          /\ part \in {"tasks", "terminals"} => [Ai!Next]_aiVars
      BY <1>2 DEF OperationsNext, allVars, Initialize, Clone, RunTask, RunTerminal, Ai!Next
    <2>. QED BY <1>2, <2>1, InitializationHolds, ClonesHold, AiHolds DEF OperationsInv
  <1>. QED BY <1>1, <1>2

LEMMA OperationsPromise ==
  OperationsInv => OutcomeIsTrue /\ OneAtATime
  BY InitializationPromises, ClonesPromise, AiPromises
     DEF OperationsInv, OutcomeIsTrue, OneAtATime

LEMMA OperationsSpare ==
  ASSUME OperationsInv, [OperationsNext]_allVars
  PROVE  /\ part = "initialization" => CreatesOnly
         /\ part = "clone" => Clones!PublishesWhole
  <1>1. /\ part = "initialization" => [Next]_vars
        /\ part = "clone" => [Clones!Next]_cloneVars
    BY DEF OperationsNext, allVars, Initialize, Clone, RunTask, RunTerminal
  <1>. QED BY <1>1, InitializationCreates, ClonesPublish DEF OperationsInv

\* Whatever fails, is cancelled, repeated or ends with the application: an initialization
\* answered with a result is on GitHub and its files claim no more than was done, a clone
\* whose cancellation was accepted never appears and one reported completed did, and a
\* terminal is told to be over once and last (RepositoryService::initialize and clone,
\* JobRegistry, ai_terminal.rs).
THEOREM OutcomesAreTrue == OperationsSpec => []OutcomeIsTrue
  <1>. QED BY OperationsHold, OperationsPromise, PTL DEF OperationsSpec

\* A claimed initialization works alone, under the account that previewed it, and opens no
\* second pull request unless the first was closed; no clone runs on past a logout; one AI
\* task is under way, and only it is reached by a cancellation (state.rs,
\* claim_pending_initialization and cancel_all; ai_runner.rs).
THEOREM OneWorksAtATime == OperationsSpec => []OneAtATime
  <1>. QED BY OperationsHold, OperationsPromise, PTL DEF OperationsSpec

\* No step of an initialization moves a branch that exists, here or on GitHub, and no step
\* of a clone changes a target where something is or makes one appear in part
\* (commit_initialization, push_branch, publish_owned_clone).
THEOREM OthersStaySpared == OperationsSpec => OthersAreSpared
  <1>. QED BY OperationsHold, OperationsSpare, PTL DEF OperationsSpec, OthersAreSpared
=============================================================================
