---------------------------- MODULE DocumentSearch ----------------------------
(***************************************************************************)
(* The search of a session's cache (documents/cache.rs): the table of      *)
(* documents and the table of the full-text index, which are changed       *)
(* together, and a search over both, whose answer the window gets          *)
(* (commands/documents.rs).                                                *)
(*                                                                         *)
(* A text is a sequence of characters.  Each transaction is one step: it   *)
(* is done under the lock of the runtime, or not at all.                   *)
(***************************************************************************)
EXTENDS Integers, Sequences, FiniteSets, SequencesExt

CONSTANTS
  Paths,       \* the paths of documents
  PathText(_), \* a path as the text it is
  Titles,      \* the texts documents may have
  Bodies,
  Queries,
  Limits,      \* how many results are asked for
  MaxChanges   \* bound of the model: batches and deletions

Space == " "
DocumentSearchAssumption == Limits \subseteq Nat /\ MaxChanges \in Nat

VARIABLES
  documents,  \* the rows of "documents": row id, path, title and body
  index,      \* the rows of "document_search": the same
  answer,     \* the last search, with the documents it was asked of
  changes

vars == <<documents, index, answer, changes>>

Row(id, path, title, body) == [id |-> id, path |-> path, title |-> title, body |-> body]
RowOf(path) == {r \in documents : r.path = path}

-----------------------------------------------------------------------------
(***************************************************************************)
(* Where a text matches a query: its words follow one another, whatever is *)
(* between them.                                                           *)
(***************************************************************************)

OccursAt(part, text, i) == i + Len(part) - 1 <= Len(text) /\ SubSeq(text, i, i + Len(part) - 1) = part
HasText(text, part) == \E i \in 1..Len(text) : OccursAt(part, text, i)

\* split_whitespace.
Words(query) ==
  LET starts == {i \in 1..Len(query) : query[i] # Space /\ (i = 1 \/ query[i - 1] = Space)}
      end(i) == CHOOSE j \in i..Len(query) :
                  /\ \A k \in i..j : query[k] # Space
                  /\ j = Len(query) \/ query[j + 1] = Space
      ordered == SetToSortSeq(starts, LAMBDA i, j : i < j)
  IN [n \in 1..Len(ordered) |-> SubSeq(query, ordered[n], end(ordered[n]))]

\* match_span: each word is looked for behind the one before.  <<0, 0>> is no match.
NoSpan == <<0, 0>>
First(part, text, from) ==
  LET hits == {i \in from..Len(text) : OccursAt(part, text, i)}
  IN IF hits = {} THEN 0 ELSE CHOOSE i \in hits : \A j \in hits : i <= j
Span_EachFromStart(text, query) ==
  LET words == Words(query)
      at(n) == First(words[n], text, 1)
      last == Len(words)
  IN IF \E n \in 1..last : at(n) = 0 THEN NoSpan ELSE <<at(1), at(last) + Len(words[last]) - 1>>
Span(text, query) ==
  LET Find(span, word) ==
        LET i == First(word, text, span[2] + 1)
        IN IF span = NoSpan \/ i = 0 THEN NoSpan
           ELSE <<IF span[2] = 0 THEN i ELSE span[1], i + Len(word) - 1>>
  IN FoldLeft(Find, <<1, 0>>, Words(query))
Matches(text, query) == Span(text, query) # NoSpan

\* match_rank, okhub_match_rank.
Rank(row, query) ==
  IF row.title = query THEN 0
  ELSE IF Matches(row.title, query) THEN 1
  ELSE IF Matches(PathText(row.path), query) THEN 2
  ELSE IF Matches(row.body, query) THEN 3 ELSE 4

(***************************************************************************)
(* search: three characters and more ask the full-text index for the query *)
(* as it is written, besides the paths; fewer are looked for everywhere.   *)
(***************************************************************************)
InIndex(query) ==
  {i.id : i \in {x \in index : HasText(x.title, query) \/ HasText(x.body, query)}}
Hits_IndexOnly(query) ==
  {r \in documents : Rank(r, query) < 4 /\ (Len(query) >= 3 => r.id \in InIndex(query))}
Hits(query) ==
  {r \in documents :
     /\ Rank(r, query) < 4
     /\ Len(query) >= 3 => r.id \in InIndex(query) \/ Matches(PathText(r.path), query)}
\* ORDER BY match_rank, path.
Ranked(rows, query) ==
  LET order == SetToSeq(Paths)
      place(p) == CHOOSE i \in 1..Len(order) : order[i] = p
  IN SetToSortSeq(rows, LAMBDA r, s :
       \/ Rank(r, query) < Rank(s, query)
       \/ Rank(r, query) = Rank(s, query) /\ place(r.path) < place(s.path))

\* search_result.
Result(row, query) ==
  LET field == IF Matches(row.title, query) THEN row.title
               ELSE IF Matches(PathText(row.path), query) THEN PathText(row.path) ELSE row.body
  IN [path |-> row.path, text |-> field, span |-> Span(field, query)]
Results(query, limit) ==
  LET ranked == Ranked(Hits(query), query)
      shown == IF Len(ranked) < limit THEN Len(ranked) ELSE limit
  IN [i \in 1..shown |-> Result(ranked[i], query)]

-----------------------------------------------------------------------------
NoAnswer == [query |-> <<>>, limit |-> 0, items |-> <<>>, of |-> {}]
Init == documents = {} /\ index = {} /\ answer = NoAnswer /\ changes = 0
Change == changes < MaxChanges /\ changes' = changes + 1

\* SQLite gives the next id after the greatest there is: one that was deleted may come again.
NewId == Max({0} \cup {r.id : r \in documents}) + 1

\* apply_batch, one document of it: an update keeps the row and replaces its words.
Indexed_Added(row) == index \cup {row}
Indexed(row) == {i \in index : i.id # row.id} \cup {row}
Put(path, title, body) ==
  /\ Change
  /\ LET id == IF RowOf(path) = {} THEN NewId ELSE (CHOOSE r \in RowOf(path) : TRUE).id
         row == Row(id, path, title, body)
     IN /\ documents' = (documents \ RowOf(path)) \cup {row}
        /\ index' = Indexed(row)
  /\ UNCHANGED answer

\* apply_batch and reconcile_metadata, the rows of paths that are gone.
Unindexed_Kept(rows) == index
Unindexed(rows) == {i \in index : \A r \in rows : i.id # r.id}
Forget(paths) ==
  /\ Change
  /\ LET gone == {r \in documents : r.path \in paths}
     IN gone # {} /\ documents' = documents \ gone /\ index' = Unindexed(gone)
  /\ UNCHANGED answer

\* search_documents: the query is trimmed, and an empty one has no results.
Search(query, limit) ==
  /\ answer' = [query |-> query, limit |-> limit, of |-> documents,
                items |-> IF limit = 0 THEN <<>> ELSE Results(query, limit)]
  /\ UNCHANGED <<documents, index, changes>>

Next ==
  \/ \E path \in Paths, title \in Titles, body \in Bodies : Put(path, title, body)
  \/ \E paths \in SUBSET Paths : Forget(paths)
  \/ \E query \in Queries, limit \in Limits : Search(query, limit)

Spec == Init /\ [][Next]_vars

-----------------------------------------------------------------------------
(***************************************************************************)
(* Properties                                                              *)
(***************************************************************************)

\* The two tables agree: the words of a document are indexed once, under the id of its row, and
\* an id that comes again after a deletion brings no words of the deleted document back
\* (documents/cache.rs, apply_batch and reconcile_metadata).
IndexMirrorsDocuments == index = documents

\* A result shows where the query is: the part of the field that is marked starts with the first
\* word of the query, ends with the last, and never ends before it starts, which would make the
\* slice of search_result panic (documents/cache.rs, match_span and search_result).
SpansAreReal ==
  \A i \in 1..Len(answer.items) :
    LET item == answer.items[i]
        words == Words(answer.query)
        marked == SubSeq(item.text, item.span[1], item.span[2])
    IN /\ item.span # NoSpan /\ item.span[1] <= item.span[2]
       /\ OccursAt(words[1], marked, 1)
       /\ OccursAt(words[Len(words)], marked, Len(marked) - Len(words[Len(words)]) + 1)
       /\ \A n \in 1..Len(words) - 1 : Len(words[n]) < Len(marked)

\* A document that has the query in its title, path or text, as it was typed, is found, as long
\* as the limit leaves room: no length of the query, and nothing the index leaves out, hides it
\* (documents/cache.rs, search).
TypedTextIsFound ==
  LET has(r) == \E text \in {r.title, r.body, PathText(r.path)} : HasText(text, answer.query)
      listed == {answer.items[i].path : i \in 1..Len(answer.items)}
  IN /\ Len(answer.items) <= answer.limit
     /\ Len(answer.items) < answer.limit => \A r \in answer.of : has(r) => r.path \in listed
=============================================================================
