------------------------------ MODULE MCServices ------------------------------
(***************************************************************************)
(* Instances of the components that work for themselves: none calls        *)
(* another one or shares state with it.  A behaviour is one of the         *)
(* component that is named by `part`, while the others stand still, so the *)
(* states are those of each component added up.  What several components   *)
(* promise alike is stated once, with one conjunct for each of them.       *)
(***************************************************************************)
EXTENDS Naturals, Sequences, TLC

CONSTANTS
  None, Nobody, Corrupt, NoPath, NoId,
  DocPaths, DocIds,  \* of documents, interchangeable ones
  Guide, Journal,    \* two documents whose paths are not
  Calls, Page,       \* requests at the same time
  GithubProjects,    \* that can be linked
  Main, Workers,     \* threads
  Labels,            \* what a setting or a document id can say
  MaxBatches,                                                        \* DocumentSearch
  FileEdits, FileEntries,                                            \* WorkspaceInspection
  MaxEdits, MaxPicks, MaxLags,                                       \* DocumentSelection
  Interval, SlowBy, CodeLife, AccessLife, RefreshLife, Timeout, Window, Horizon, \* DeviceFlow
  ItemsPerPage, ItemPages, FirstSubs, SubsPerPage, SubPages, Budget, ReposPerPage,\* GithubPages
  OwnersShown, ProjectsShown, MaxInstalls, MaxRepositories, MaxOwners, MaxProjects,
  MaxAsset, MaxGrown, MaxWrites                                                   \* AssetReads

VARIABLES part,
  treeProject, board,                                                       \* IssueTree
  config, linkCall, boards, older,                                          \* WorkspaceProjects
  settings, memory, lock, thread,                                           \* LocalSettings
  op, pagesProject, installs, owners, pc, read, listed,                     \* GithubPages
  now, github, login, getter, tokens, handed,                               \* DeviceFlow
  document, folders, preview, folderEdits,                                  \* WorkspaceInspection
  files, edits, runtime, wire, lags, result, ui, picks, query, calls, reads,\* DocumentSelection
  commits, head, catalog, session, call, window, left,                      \* DocumentReads
  file,                                                                     \* MarkdownReading
  roots, treeFiles, summaries, treeChanges,                                 \* DocumentTree
  documents, index, answer, searchChanges,                                  \* DocumentSearch
  size, assetCatalog, assetSession, assetCall, shown, assetChanges          \* AssetReads

-----------------------------------------------------------------------------
(***************************************************************************)
(* The instances                                                           *)
(***************************************************************************)
Issues == INSTANCE IssueTree WITH
  Items <- 3, MaxSubs <- 2, MaxDepth <- 1, MaxNodes <- 3, project <- treeProject

Linked == INSTANCE WorkspaceProjects WITH
  Projects <- GithubProjects, call <- linkCall, cached <- boards

Settings == INSTANCE LocalSettings WITH
  Projects <- GithubProjects, Blocking <- Workers, Values <- Labels,
  disk <- settings, cached <- memory

Pages == INSTANCE GithubPages WITH
  MaxItems <- 3, MaxSubs <- 4, MaxLacking <- 1, project <- pagesProject

Device == INSTANCE DeviceFlow

Inspection == INSTANCE WorkspaceInspection WITH
  MaxEdits <- FileEdits, MaxEntries <- FileEntries, disk <- folders, edits <- folderEdits

Selection == INSTANCE DocumentSelection WITH
  Paths <- DocPaths, Ids <- DocIds

\* Many pages of one history, HEAD going back between two, or many reads with little history.
ReadsBounds ==
  {[commits |-> 2, reads |-> 1, pages |-> 3, resets |-> 0, sessions |-> 0],
   [commits |-> 2, reads |-> 1, pages |-> 2, resets |-> 1, sessions |-> 0],
   [commits |-> 0, reads |-> 3, pages |-> 1, resets |-> 0, sessions |-> 1]}
Reads == INSTANCE DocumentReads WITH
  Paths <- {Guide, Journal}, Markdown <- {Guide, Journal}, Ids <- Labels, PageLimit <- 1,
  Bounds <- ReadsBounds

Markdown == INSTANCE MarkdownReading WITH MaxBytes <- 14, MaxLines <- 5

\* Roots that overlap in both orders, one written with a dot, one outside the repository.
TreeDocuments == {<<"a">>, <<"docs", "b">>, <<"docs", "sub", "c">>, <<"docs", ".git", "d">>}
TreeRoots ==
  {<<<<"docs">>>>, <<<<"docs">>, <<"docs", "sub">>>>, <<<<"docs", "sub">>, <<".", "docs">>>>,
   <<<<"..">>, <<"docs">>>>, <<<<"docs", ".git">>>>}
Tree == INSTANCE DocumentTree WITH
  Documents <- TreeDocuments, Files <- TreeDocuments \cup {<<"docs", "sub", "text">>},
  RootLists <- TreeRoots, MaxChanges <- 5,
  disk <- treeFiles, rows <- summaries, changes <- treeChanges

\* Words of one and two characters, with other text between them or in another order.
TextOf(path) == path
Search == INSTANCE DocumentSearch WITH
  Paths <- {<<"x", "-", "y">>, <<"z">>}, PathText <- TextOf,
  Titles <- {<<"x", " ", "y">>, <<"x">>},
  Bodies <- {<<>>, <<"y", "-", "x">>, <<"y", "x", " ", "y">>},
  Queries <- {<<"x">>, <<"y", "x">>, <<"x", " ", "y">>, <<"y", " ", "x">>, <<"x", "-", "y">>},
  Limits <- {0, 1, 2}, MaxChanges <- MaxBatches, changes <- searchChanges

\* A document at the top and one below, pictures beside them, a link to one of them, a link that
\* leads out of the repository and a file of git.
AssetFiles == {<<"a.png">>, <<"docs", "a.png">>, <<"docs", "text">>, <<".git", "a.png">>}
LeadsTo(path) ==
  CASE path \in AssetFiles -> path
    [] path = <<"docs", "link.png">> -> <<"a.png">>
    [] path = <<"docs", "git.png">> -> <<".git", "a.png">>
    [] path = <<"docs", "out.png">> -> <<"..">>
    [] path = <<"docs">> -> <<"docs">>
    [] OTHER -> <<>>
Assets == INSTANCE AssetReads WITH
  Documents <- {<<"note.md">>, <<"docs", "note.md">>}, Files <- AssetFiles,
  Pictures <- AssetFiles \ {<<"docs", "text">>}, Canonical <- LeadsTo,
  References <-
    {<<>>, <<"a.png">>, <<".", "docs", "..", "a.png">>, <<"..", "a.png">>,
     <<"..", "..", "a.png">>, <<"text">>, <<"link.png">>, <<"git.png">>, <<"out.png">>,
     <<"docs", "..", "..", "a.png">>, <<"..", ".git", "a.png">>, <<"docs">>},
  MaxBytes <- MaxAsset, MaxSize <- MaxGrown, MaxChanges <- MaxWrites,
  catalog <- assetCatalog, session <- assetSession, call <- assetCall, changes <- assetChanges

ASSUME ServicesAssumption ==
  /\ Settings!LocalSettingsAssumption /\ Pages!GithubPagesAssumption
  /\ Inspection!WorkspaceInspectionAssumption /\ Selection!SelectionAssumption
  /\ Reads!DocumentReadsAssumption /\ Markdown!MarkdownReadingAssumption
  /\ Tree!DocumentTreeAssumption /\ Search!DocumentSearchAssumption
  /\ Assets!AssetReadsAssumption /\ Device!DeviceFlowAssumption

-----------------------------------------------------------------------------
(***************************************************************************)
(* One part moves, the others stand still at a value nothing reads.        *)
(***************************************************************************)
Still == 0
Init ==
  /\ part \in {"issues", "linked", "settings", "pages", "device", "inspection", "selection",
               "reads", "markdown", "tree", "search", "assets"}
  /\ IF part = "issues" THEN Issues!Init ELSE treeProject = Still /\ board = Still
  /\ IF part = "linked" THEN Linked!Init
     ELSE config = Still /\ linkCall = Still /\ boards = Still /\ older = Still
  /\ IF part = "settings" THEN Settings!Init
     ELSE settings = Still /\ memory = Still /\ lock = Still /\ thread = Still
  /\ IF part = "pages" THEN Pages!Init
     ELSE /\ op = Still /\ pagesProject = Still /\ installs = Still /\ owners = Still
          /\ pc = Still /\ read = Still /\ listed = Still
  /\ IF part = "device" THEN Device!Init
     ELSE /\ now = Still /\ github = Still /\ login = Still /\ getter = Still
          /\ tokens = Still /\ handed = Still
  /\ IF part = "inspection" THEN Inspection!Init
     ELSE document = Still /\ folders = Still /\ preview = Still /\ folderEdits = Still
  /\ IF part = "selection" THEN Selection!Init
     ELSE /\ files = Still /\ edits = Still /\ runtime = Still /\ wire = Still /\ lags = Still
          /\ result = Still /\ ui = Still /\ picks = Still /\ query = Still /\ calls = Still
          /\ reads = Still
  /\ IF part = "reads" THEN Reads!Init
     ELSE /\ commits = Still /\ head = Still /\ catalog = Still /\ session = Still
          /\ call = Still /\ window = Still /\ left = Still
  /\ IF part = "markdown" THEN Markdown!Init ELSE file = Still
  /\ IF part = "tree" THEN Tree!Init
     ELSE roots = Still /\ treeFiles = Still /\ summaries = Still /\ treeChanges = Still
  /\ IF part = "search" THEN Search!Init
     ELSE documents = Still /\ index = Still /\ answer = Still /\ searchChanges = Still
  /\ IF part = "assets" THEN Assets!Init
     ELSE /\ size = Still /\ assetCatalog = Still /\ assetSession = Still
          /\ assetCall = Still /\ shown = Still /\ assetChanges = Still

OthersStandStill ==
  /\ IF part = "issues" THEN TRUE ELSE UNCHANGED <<treeProject, board>>
  /\ IF part = "linked" THEN TRUE ELSE UNCHANGED <<config, linkCall, boards, older>>
  /\ IF part = "settings" THEN TRUE ELSE UNCHANGED <<settings, memory, lock, thread>>
  /\ IF part = "pages" THEN TRUE ELSE UNCHANGED <<op, pagesProject, installs, owners, pc, read, listed>>
  /\ IF part = "device" THEN TRUE ELSE UNCHANGED <<now, github, login, getter, tokens, handed>>
  /\ IF part = "inspection" THEN TRUE ELSE UNCHANGED <<document, folders, preview, folderEdits>>
  /\ IF part = "selection" THEN TRUE ELSE UNCHANGED <<files, edits, runtime, wire, lags, result, ui, picks, query, calls, reads>>
  /\ IF part = "reads" THEN TRUE ELSE UNCHANGED <<commits, head, catalog, session, call, window, left>>
  /\ IF part = "markdown" THEN TRUE ELSE UNCHANGED file
  /\ IF part = "tree" THEN TRUE ELSE UNCHANGED <<roots, treeFiles, summaries, treeChanges>>
  /\ IF part = "search" THEN TRUE ELSE UNCHANGED <<documents, index, answer, searchChanges>>
  /\ IF part = "assets" THEN TRUE ELSE UNCHANGED <<size, assetCatalog, assetSession, assetCall, shown, assetChanges>>
  /\ UNCHANGED part

Next ==
  \/ part = "issues" /\ Issues!Next /\ OthersStandStill
  \/ part = "linked" /\ Linked!Next /\ OthersStandStill
  \/ part = "settings" /\ Settings!Next /\ OthersStandStill
  \/ part = "pages" /\ Pages!Next /\ OthersStandStill
  \/ part = "device" /\ Device!Next /\ OthersStandStill
  \/ part = "inspection" /\ Inspection!Next /\ OthersStandStill
  \/ part = "selection" /\ Selection!Next /\ OthersStandStill
  \/ part = "reads" /\ Reads!Next /\ OthersStandStill
  \/ part = "markdown" /\ Markdown!Next /\ OthersStandStill
  \/ part = "tree" /\ Tree!Next /\ OthersStandStill
  \/ part = "search" /\ Search!Next /\ OthersStandStill
  \/ part = "assets" /\ Assets!Next /\ OthersStandStill

vars ==
  <<part, treeProject, board, config, linkCall, boards, older, settings, memory, lock,
    thread, op, pagesProject, installs, owners, pc, read, listed, now, github, login,
    getter, tokens, handed, document, folders, preview, folderEdits, files, edits,
    runtime, wire, lags, result, ui, picks, query, calls, reads, commits, head, catalog,
    session, call, window, left, file, roots, treeFiles, summaries, treeChanges,
    documents, index, answer, searchChanges, size, assetCatalog, assetSession,
    assetCall, shown, assetChanges>>

Spec == Init /\ [][Next]_vars

Symmetry == Permutations(DocPaths) \cup Permutations(DocIds) \cup Permutations(Calls)

-----------------------------------------------------------------------------
(***************************************************************************)
(* Properties                                                              *)
(***************************************************************************)

\* What is left out is said to be.  A board counts every issue it hides and marks the one whose
\* children it hides.  A list of a Project's items that does not say it is truncated has every usable
\* item with its usable sub-issues, and the number of the others, wherever the pages ended: but for
\* the sub-issues of an issue deleted while they are followed, and for null nodes, which are not
\* counted (client.rs:1145, 998).  No version is missing between two listed ones of a history; that
\* a history without a further page has reached its beginning is not claimed (history.rs:165)
\* (commands/project_board.rs, github/client.rs, documents/history.rs).
WhatIsMissingIsSaid ==
  /\ part = "issues" => Issues!HiddenIsCounted /\ Issues!HiddenChildrenAreMarked
  /\ part = "pages" => Pages!ListIsHonest
  /\ part = "reads" => Reads!HistoryIsWhole

\* What the code keeps or decides twice is the same both times: the two validators of workspace.yml
\* differ in nothing but the scalars that the parser takes for a text and the raw checks do not, and
\* the raw checks name a place in what the parser refuses; the documents and their search index; the
\* settings in memory, when they are read, and in the file (workspace/validation.rs with
\* diagnostics.rs and model.rs, documents/cache.rs, settings/store_adapter.rs).
CopiesAgree ==
  /\ part = "inspection" => Inspection!ValidatorsAgree /\ Inspection!RefusalIsExplained
  /\ part = "search" => Search!IndexMirrorsDocuments
  /\ part = "settings" => Settings!ReadsAreSaved

\* What the window shows is there, is there once, and is what it was asked for.  The tree of a warm
\* start is that of a cold one, with no document under two roots; the readers of the front matter
\* see the same one, and no id of a heading comes twice; what opens after a preview is what it
\* promised, and no document is reported twice; every version of the program finds the same
\* project active, and no board grows without end; a listed version can be read; a result marks
\* the words that were typed and no document that has them is left out; a picture is the file its
\* reference means (documents/discovery.rs with indexer.rs, documents/frontmatter.rs with reader.rs
\* and search_text.rs, workspace/initialization.rs, references.rs and model.rs,
\* commands/project_board.rs, documents/history.rs, documents/cache.rs, documents/reader.rs).
WhatIsShownIsThere ==
  /\ part = "tree" => Tree!CachedMatchesCold /\ Tree!EachDocumentOnce
  /\ part = "markdown" => Markdown!ReadersAgree /\ Markdown!IdsAreUnique
  /\ part = "inspection" => Inspection!InitializedIsSound /\ Inspection!ReportedOnce
  /\ part = "linked" => Linked!VersionsAgree
  /\ part = "issues" => Issues!BoardIsBounded
  /\ part = "reads" => Reads!ListedCanBeRead
  /\ part = "search" => Search!SpansAreReal /\ Search!TypedTextIsFound
  /\ part = "assets" => Assets!ReferenceIsFollowed

\* What is read is true, however many steps it takes and whatever others do between them: the
\* selected document is one of the tree on screen and one that loads has a call that will answer
\* it; the pages give every repository and none twice, and all the Projects unless the list says
\* otherwise (documents-reducer.ts, DocumentsProvider.tsx, github/client.rs).
ReadsAreTrue ==
  /\ part = "selection" => Selection!SelectionIsListed /\ Selection!LoadingHasCall
  /\ part = "pages" => Pages!EveryRepositoryOnce /\ Pages!ProjectsAreWhole

\* The limits are kept: GitHub's distance between two polls, the life of a device code and of an
\* access token, the requests that one list may cost, the bytes of a picture, which is whole or
\* refused (auth/service.rs, github/client.rs, documents/reader.rs).
LimitsAreKept ==
  /\ part = "device" => /\ Device!PollsKeepTheirDistance /\ Device!LoginEndsWithItsCode
                        /\ Device!TokenIsAlive
  /\ part = "pages" => Pages!RequestsAreBounded
  /\ part = "assets" => Assets!NothingIsCut

\* What the user chose stays until the user chooses again: a late answer opens no document over
\* a later one and does not leave the home of the documents, and remembering a folder forgets no
\* other (commands/documents.rs, documents-reducer.ts, settings/service.rs).
ChoicesStay ==
  [][/\ part = "settings" => Settings!KeepsFolders
     /\ part = "selection" => Selection!KeepsHome
     /\ part = "reads" => Reads!OpensAskedLast]_vars
=============================================================================
