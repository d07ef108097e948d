----------------------------- MODULE DocumentTree -----------------------------
(***************************************************************************)
(* The tree of documents, which is built in two ways: a cold start walks   *)
(* the directories (documents/discovery.rs), a warm one arranges what the  *)
(* cache remembers (documents/indexer.rs, catalog_from_summaries), while   *)
(* files come and go and the document roots are configured anew.           *)
(*                                                                         *)
(* A path is a sequence of names.  There are no symbolic links; the order  *)
(* of the entries and what a document says are left out.                   *)
(***************************************************************************)
EXTENDS Naturals, Sequences, FiniteSets, Functions

CONSTANTS
  Files,       \* the paths that may exist
  Documents,   \* those whose name ends in .md
  RootLists,   \* the lists of roots that may be configured, as they are written
  MaxChanges   \* bound of the model: changes of the files and of the roots

Here == "."
Up == ".."
Git == ".git"

DocumentTreeAssumption ==
  /\ Documents \subseteq Files /\ MaxChanges \in Nat
  /\ \A f \in Files : f # <<>> /\ {Here, Up} \cap Range(f) = {}

VARIABLES
  roots,    \* document_roots of the workspace
  disk,     \* the files there are
  rows,     \* the paths of the cached summaries
  changes

vars == <<roots, disk, rows, changes>>

Under(path, root) == Len(path) > Len(root) /\ SubSeq(path, 1, Len(root)) = root
Folder(path) == SubSeq(path, 1, Len(path) - 1)

-----------------------------------------------------------------------------
(***************************************************************************)
(* A tree is the set of its documents, each with the root it was put under *)
(* and the path the folder that holds it goes by.                          *)
(***************************************************************************)

Names(root) == SelectSeq(root, LAMBDA name : name # Here)
\* resolve_root fails on a root outside the repository or one that does not exist;
\* catalog_from_summaries leaves out what it cannot normalize.
Resolves(root) ==
  /\ Up \notin Range(root)
  /\ Names(root) = <<>> \/ \E f \in disk : Under(f, Names(root))
Known(list) == [i \in 1..Len(list) |-> Names(list[i])]
IsKept(root) == Up \notin Range(root) /\ Git \notin Range(root)

\* The first of the roots a document is under takes it.
Takes_Each(list, path) == {i \in 1..Len(list) : Under(path, list[i])}
Takes(list, path) ==
  {i \in 1..Len(list) : Under(path, list[i]) /\ \A j \in 1..i - 1 : ~Under(path, list[j])}
Assigned(list, docs) ==
  {<<list[x[1]], x[2]>> : x \in {y \in (1..Len(list)) \X docs : y[1] \in Takes(list, y[2])}}
Kept == Known(SelectSeq(roots, IsKept))

\* discover_documents: a directory goes by its path in the repository.
ColdFolder(path) == Folder(path)
Found == {f \in disk \cap Documents : Git \notin Range(f)}
Cold ==
  {[root |-> a[1], folder |-> ColdFolder(a[2]), document |-> a[2]] :
     a \in Assigned(Kept, Found)}

\* catalog_from_summaries: FolderNode joins the path of the root and the names below it.
CachedFolder_Below(root, path) == SubSeq(path, Len(root) + 1, Len(path) - 1)
CachedFolder(root, path) ==
  IF root = <<>> /\ Folder(path) # <<>> THEN <<"">> \o Folder(path) ELSE Folder(path)
Remembered == {f \in rows \cap Documents : Git \notin Range(f)}
Cached ==
  {[root |-> a[1], folder |-> CachedFolder(a[1], a[2]), document |-> a[2]] :
     a \in Assigned(Kept, Remembered)}

DocumentsOf(tree) == {entry.document : entry \in tree}

-----------------------------------------------------------------------------
Init ==
  /\ roots \in RootLists
  /\ disk = {} /\ rows = {} /\ changes = 0

Change == changes < MaxChanges /\ changes' = changes + 1
Create(f) == Change /\ f \notin disk /\ disk' = disk \cup {f} /\ UNCHANGED <<roots, rows>>
Delete(f) == Change /\ f \in disk /\ disk' = disk \ {f} /\ UNCHANGED <<roots, rows>>
Configure(list) == Change /\ list # roots /\ roots' = list /\ UNCHANGED <<disk, rows>>

\* A scan that finds every root replaces what the cache remembers.
Scan ==
  /\ \A i \in 1..Len(roots) : Resolves(roots[i])
  /\ rows' = DocumentsOf(Cold)
  /\ UNCHANGED <<roots, disk, changes>>

\* start_owned: a warm start forgets the rows that are under no root (reconcile_metadata).
Warm == rows # {} /\ rows' = DocumentsOf(Cached) /\ UNCHANGED <<roots, disk, changes>>

Next ==
  \/ \E f \in Files : Create(f) \/ Delete(f)
  \/ \E list \in RootLists : Configure(list)
  \/ Scan
  \/ Warm

Spec == Init /\ [][Next]_vars

-----------------------------------------------------------------------------
(***************************************************************************)
(* Properties                                                              *)
(***************************************************************************)

\* Both trees hold a document once, whatever the order of roots that overlap: under one root, in
\* one folder (documents/discovery.rs, seen_documents; documents/indexer.rs, assigned).
EachDocumentOnce ==
  \A tree \in {Cold, Cached} : Cardinality(tree) = Cardinality(DocumentsOf(tree))

\* When nothing changed since the scan, the tree of a warm start is that of a cold one: every
\* document under the same root and in a folder with the same path.  The test
\* cached_catalog_matches_cold_tree_order_and_assigns_overlapping_roots_once
\* (documents/indexer.rs) says it.
CachedMatchesCold == rows = DocumentsOf(Cold) => Cached = Cold
=============================================================================
