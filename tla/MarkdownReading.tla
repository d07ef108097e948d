--------------------------- MODULE MarkdownReading ---------------------------
(***************************************************************************)
(* What is read out of one Markdown file.  Three pieces of code look for   *)
(* its front matter, each with a loop of its own: the metadata of the      *)
(* catalog (documents/frontmatter.rs, which stops after MaxBytes), the     *)
(* properties of an opened document (documents/reader.rs) and the text     *)
(* that is searched (documents/search_text.rs).  The table of contents     *)
(* names each heading (documents/reader.rs).                               *)
(*                                                                         *)
(* A file is a sequence of lines, and its states are all the short files.  *)
(***************************************************************************)
EXTENDS Naturals, Sequences, FiniteSets, SequencesExt

CONSTANTS
  MaxBytes,  \* MAX_UNTERMINATED_FRONTMATTER_BYTES
  MaxLines   \* bound of the model: lines of a file

MarkdownReadingAssumption == MaxBytes \in Nat \ {0} /\ MaxLines \in Nat

VARIABLE file

-----------------------------------------------------------------------------
(***************************************************************************)
(* Lines.  Its size counts the line break.  A line may start with the      *)
(* three characters of a delimiter and go on, as "---: 1", which is an     *)
(* entry.  A line that starts with "#" is a comment in YAML and a heading  *)
(* in Markdown.                                                            *)
(***************************************************************************)
Line(text, size, starts) == [text |-> text, size |-> size, starts |-> starts]
Dashes == Line("---", 4, "---")
Dots   == Line("...", 4, "...")
Title  == Line("title", 5, "tit")
Id     == Line("okf_hub_id", 6, "okf")
Dashed == Line("---: 1", 7, "---")
Broken == Line("[", 2, "[")
Once   == Line("# a", 4, "# a")
Twice  == Line("# a 2", 6, "# a")
Lines == {Dashes, Dots, Title, Id, Dashed, Broken, Once, Twice}
Entries == {Title, Id, Dashed}

\* The front matter parses as a mapping: no key comes twice and every line is one.
Texts(lines) == {lines[i].text : i \in 1..Len(lines)}
Parses(lines) == Broken.text \notin Texts(lines) /\ Dots.text \notin Texts(lines)
Keys(lines) == {l \in Entries : l.text \in Texts(lines)}
Size(lines) == FoldLeft(LAMBDA total, line : total + line.size, 0, lines)

(***************************************************************************)
(* frontmatter.rs: a line is read up to the bytes that are left, and what  *)
(* was read is compared with the delimiters.                               *)
(***************************************************************************)
Read(line, left) ==
  IF left = 3 /\ line.size > 3 THEN line.starts
  ELSE IF left + 1 >= line.size THEN line.text ELSE "part"
Opens(f) == f # <<>> /\ Read(f[1], MaxBytes) = Dashes.text
Before(f, i) == SubSeq(f, 2, i - 1)
Closes(f, i) == Read(f[i], MaxBytes - Size(Before(f, i))) \in {Dashes.text, Dots.text}
Exceeds(f, i) == Size(Before(f, i + 1)) >= MaxBytes

Metadata(f) ==
  LET stops == {i \in 2..Len(f) : Closes(f, i) \/ Exceeds(f, i)}
      stop == CHOOSE i \in stops : \A j \in stops : i <= j
      invalid(line) == [status |-> "invalid", line |-> line, keys |-> {}]
  IN CASE ~Opens(f) -> [status |-> "missing", line |-> 0, keys |-> {}]
       [] Opens(f) /\ stops = {} -> invalid(Len(f) + 1)
       [] Opens(f) /\ stops # {} /\ ~Closes(f, stop) -> invalid(stop)
       [] OTHER -> IF Parses(Before(f, stop))
                   THEN [status |-> "valid", line |-> 0, keys |-> Keys(Before(f, stop))]
                   ELSE invalid(1)

\* frontmatter_properties and markdown_body: whole lines, and no limit.
End(f) ==
  LET ends == {i \in 2..Len(f) : f[i] \in {Dashes, Dots}}
  IN IF ends = {} THEN 0 ELSE CHOOSE i \in ends : \A j \in ends : i <= j
Fenced(f) == f # <<>> /\ f[1] = Dashes
Properties(f) ==
  IF Fenced(f) /\ End(f) # 0 /\ Parses(Before(f, End(f))) THEN Keys(Before(f, End(f))) ELSE {}
Body_DashesOnly(f) ==
  LET ends == {i \in 2..Len(f) : f[i] = Dashes}
      end == CHOOSE i \in ends : \A j \in ends : i <= j
  IN IF ~Fenced(f) THEN f ELSE IF ends = {} THEN <<>> ELSE SubSeq(f, end + 1, Len(f))
Body(f) ==
  IF ~Fenced(f) THEN f ELSE IF End(f) = 0 THEN <<>> ELSE SubSeq(f, End(f) + 1, Len(f))

(***************************************************************************)
(* table_of_contents.  A slug is a sequence of words, and the id of its    *)
(* n-th occurrence has n as one more word: the second "a" and the first    *)
(* "a 2" ask for the same id.                                              *)
(***************************************************************************)
Slug(line) == IF line = Once THEN <<"a">> ELSE <<"a", 2>>
\* The Markdown library skips a front matter that is closed.
Headings(f) ==
  SelectSeq(IF Fenced(f) /\ End(f) # 0 THEN Body(f) ELSE f, LAMBDA l : l \in {Once, Twice})
Candidate(slug, n) == IF n = 1 THEN slug ELSE Append(slug, n)
Occurrence_Next(used, slug, count) == count + 1
Occurrence(used, slug, count) ==
  CHOOSE n \in count + 1..count + 1 + Cardinality(used) :
    /\ Candidate(slug, n) \notin used
    /\ \A m \in count + 1..n - 1 : Candidate(slug, m) \in used
Contents(f) ==
  LET Add(toc, line) ==
        LET slug == Slug(line)
            n == Occurrence(ToSet(toc.ids), slug, toc.count[slug])
        IN [ids |-> Append(toc.ids, Candidate(slug, n)), count |-> [toc.count EXCEPT ![slug] = n]]
      none == [ids |-> <<>>, count |-> [s \in {<<"a">>, <<"a", 2>>} |-> 0]]
  IN FoldLeft(Add, none, Headings(f)).ids

-----------------------------------------------------------------------------
Init == file = <<>>

\* The front matter of a file names each key once.
Write(line) ==
  /\ Len(file) < MaxLines
  /\ line \in Entries => line \notin ToSet(file)
  /\ file' = Append(file, line)

Next == \E line \in Lines : Write(line)
Spec == Init /\ [][Next]_file

-----------------------------------------------------------------------------
(***************************************************************************)
(* Properties                                                              *)
(***************************************************************************)

\* The three readers of the front matter agree on where it is: what the catalog calls valid has
\* the same keys as the properties and is left out of the searched text, a file without front
\* matter is searched whole, and one whose front matter is never closed has no text and no
\* properties.  Up to MaxBytes, that is: only the catalog gives up there
\* (documents/frontmatter.rs, read_frontmatter; documents/reader.rs, frontmatter_properties;
\* documents/search_text.rs, markdown_body).
WithinLimit(f) ==
  IF End(f) = 0 THEN Size(Tail(f)) < MaxBytes ELSE Size(SubSeq(f, 2, End(f))) <= MaxBytes
ReadersAgree ==
  file # <<>> /\ WithinLimit(file) =>
    LET meta == Metadata(file) IN
    /\ meta.keys = Properties(file)
    /\ meta.status = "missing" <=> Body(file) = file
    /\ meta.status = "valid" =>
         \E i \in 2..Len(file) : Closes(file, i) /\ Body(file) = SubSeq(file, i + 1, Len(file))
                                /\ \A j \in 2..i - 1 : ~Closes(file, j)
    /\ meta.status = "invalid" /\ meta.line > Len(file) => Body(file) = <<>>

\* No two headings of a document have the same id, also when a heading's own words look like the
\* numbered id of another: a link in the table of contents leads to one place
\* (documents/reader.rs, table_of_contents).
IdsAreUnique == LET ids == Contents(file) IN Cardinality(ToSet(ids)) = Len(ids)
=============================================================================
