------------------------------ MODULE AssetReads ------------------------------
(***************************************************************************)
(* The picture a document refers to (commands/documents.rs,                *)
(* read_document_asset; documents/reader.rs, read_asset): the reference is *)
(* resolved against the document, the file is opened, measured and read,   *)
(* and the answer is published while its session is the active one.  Other *)
(* programs write the file meanwhile, the catalog changes and the session  *)
(* is replaced.                                                            *)
(*                                                                         *)
(* A path is a sequence of names below the repository.  Links lead to a    *)
(* fixed place.  An opened file may grow, but does not shrink before it is *)
(* read: a file that is replaced is another one.                           *)
(***************************************************************************)
EXTENDS Integers, Sequences, FiniteSets

CONSTANTS
  Documents,    \* the paths of documents
  References,   \* what documents refer to: sequences of names, Here and Up
  Canonical(_), \* where a path leads, or Nowhere: a file, a directory or a link's target
  Files,        \* the regular files, by canonical path; others are directories
  Pictures,     \* those with the extension of a picture
  MaxBytes,     \* MAX_ASSET_BYTES
  MaxSize,      \* bounds of the model: the size of a file,
  MaxChanges    \* changes of others

Here == "."
Up == ".."
Git == ".git"
Outside == <<"..">>
Nowhere == <<>>

AssetReadsAssumption == MaxBytes \in Nat /\ MaxSize \in Nat /\ MaxChanges \in Nat

VARIABLES
  size,     \* of each file
  catalog,  \* the documents the session knows
  session,
  call,     \* the read under way
  shown,    \* the last asset the window got
  changes

vars == <<size, catalog, session, call, shown, changes>>

-----------------------------------------------------------------------------
(***************************************************************************)
(* resolve_asset_path: a stack of names, which Up pops.                    *)
(***************************************************************************)
Front(path) == SubSeq(path, 1, Len(path) - 1)
Failure == "failed"

\* What is left of a stack after one more name.
Step_Stays(stack, name) ==
  IF name = Here THEN stack
  ELSE IF name # Up THEN Append(stack, name)
  ELSE IF stack = <<>> THEN stack ELSE Front(stack)
Step(stack, name) ==
  IF stack = <<Failure>> \/ name = Here THEN stack
  ELSE IF name # Up THEN Append(stack, name)
  ELSE IF stack = <<>> THEN <<Failure>> ELSE Front(stack)

Resolved(document, reference) ==
  LET Walk[n \in 0..Len(reference)] ==
        IF n = 0 THEN Front(document) ELSE Step(Walk[n - 1], reference[n])
      path == Walk[Len(reference)]
  IN IF reference = <<>> \/ path = <<>> THEN <<Failure>> ELSE path

\* validate_relative_path and resolve_existing_file.
Names(path) == {path[i] : i \in 1..Len(path)}
Readable(path) ==
  /\ path # <<Failure>> /\ Git \notin Names(path)
  /\ Canonical(path) \notin {Nowhere, Outside}
  /\ Git \notin Names(Canonical(path))
  /\ Canonical(path) \in Files

-----------------------------------------------------------------------------
NoCall == [step |-> "idle", session |-> 0, document |-> <<>>, reference |-> <<>>, path |-> <<>>,
           bytes |-> 0, sizes |-> {}]
NoAsset == NoCall

Init ==
  /\ size = [f \in Files |-> 0]
  /\ catalog = Documents /\ session = 1
  /\ call = NoCall /\ shown = NoAsset /\ changes = 0

Fail == call' = [call EXCEPT !.step = "failed"]

\* active_context, require_current_document, resolve_asset_path.
Ask(document, reference) ==
  /\ call.step = "idle"
  /\ LET path == Resolved(document, reference)
         asked == [NoCall EXCEPT !.session = session, !.document = document,
                                 !.reference = reference, !.path = path]
     IN call' = [asked EXCEPT !.step =
                   IF document \in catalog /\ path # <<Failure>> THEN "resolved" ELSE "failed"]
  /\ UNCHANGED <<size, catalog, session, shown, changes>>

\* The file is opened and its length checked.
Open ==
  /\ call.step = "resolved"
  /\ IF Readable(call.path) /\ size[Canonical(call.path)] <= MaxBytes
     THEN LET file == Canonical(call.path)
          IN call' = [call EXCEPT !.step = "opened", !.path = file, !.sizes = {size[file]}]
     ELSE Fail
  /\ UNCHANGED <<size, catalog, session, shown, changes>>

\* take(MAX_ASSET_BYTES).read_to_end.
Read ==
  /\ call.step = "opened"
  /\ LET bytes == IF size[call.path] < MaxBytes THEN size[call.path] ELSE MaxBytes
     IN call' = [call EXCEPT !.step = "read", !.bytes = bytes]
  /\ UNCHANGED <<size, catalog, session, shown, changes>>

\* One more byte is asked for, and then the type is looked at.
IsAll_Full(bytes, path) == bytes <= MaxBytes
IsAll(bytes, path) == size[path] <= bytes
Check ==
  /\ call.step = "read"
  /\ IF IsAll(call.bytes, call.path) /\ call.path \in Pictures
     THEN call' = [call EXCEPT !.step = "done"] ELSE Fail
  /\ UNCHANGED <<size, catalog, session, shown, changes>>

\* ensure_active_context under the lock of mutations.
Publish ==
  /\ call.step \in {"done", "failed"}
  /\ shown' = IF call.step = "done" /\ call.session = session THEN call ELSE NoAsset
  /\ call' = NoCall
  /\ UNCHANGED <<size, catalog, session, changes>>

-----------------------------------------------------------------------------
Change == changes < MaxChanges /\ changes' = changes + 1
Write(f, n) ==
  /\ Change /\ size[f] # n
  /\ LET isOpen == call.step \in {"opened", "read"} /\ call.path = f
     IN /\ isOpen => n > size[f]
        /\ call' = IF isOpen THEN [call EXCEPT !.sizes = @ \cup {n}] ELSE call
  /\ size' = [size EXCEPT ![f] = n]
  /\ UNCHANGED <<catalog, session, shown>>
Refresh(docs) ==
  Change /\ catalog # docs /\ catalog' = docs /\ UNCHANGED <<size, session, call, shown>>
Restart == Change /\ session' = session + 1 /\ UNCHANGED <<size, catalog, call, shown>>

Next ==
  \/ \E d \in Documents, r \in References : Ask(d, r)
  \/ Open \/ Read \/ Check \/ Publish
  \/ \E f \in Files, n \in 0..MaxSize : Write(f, n)
  \/ \E docs \in SUBSET Documents : Refresh(docs)
  \/ Restart

Spec == Init /\ [][Next]_vars

-----------------------------------------------------------------------------
(***************************************************************************)
(* Properties                                                              *)
(***************************************************************************)

\* An asset that is shown is a file of the repository, not of .git, and the one its reference
\* means: the names that no later Up takes back, where no part of the reference leads above the
\* repository (commands/documents.rs, resolve_asset_path; documents/reader.rs).
ReferenceIsFollowed ==
  shown # NoAsset =>
    LET all == Front(shown.document) \o shown.reference
        Depth(i, j) == Cardinality({k \in i..j : all[k] \notin {Here, Up}})
                       - Cardinality({k \in i..j : all[k] = Up})
        stays == {i \in 1..Len(all) : /\ all[i] \notin {Here, Up}
                                      /\ \A j \in i..Len(all) : Depth(i, j) > 0}
        rank(i) == Cardinality({k \in stays : k <= i})
        meant == [n \in 1..Cardinality(stays) |-> all[CHOOSE i \in stays : rank(i) = n]]
    IN /\ \A j \in 1..Len(all) : Depth(1, j) >= 0
       /\ shown.path = Canonical(meant)
       /\ shown.path \in Files /\ Git \notin Names(meant) \cup Names(shown.path)

\* An asset that is shown is whole and within the limit: it has as many bytes as the file had at
\* some moment of the read, also when the file grew between its measuring and its reading
\* (documents/reader.rs, read_asset).
NothingIsCut == shown # NoAsset => shown.bytes \in shown.sizes /\ shown.bytes <= MaxBytes
=============================================================================
