------------------------- MODULE WorkspaceInspection -------------------------
(***************************************************************************)
(* What a folder says of its workspace: .okf/workspace.yml as it is read   *)
(* (workspace/inspection.rs), the two checks of its content - of the       *)
(* parsed configuration (validation.rs), and of the raw YAML of one that   *)
(* does not parse (diagnostics.rs) -, the repository keys the documents    *)
(* refer to (references.rs), and the preview of the files that initialize  *)
(* a workspace (initialization.rs).                                        *)
(*                                                                         *)
(* People edit the file and the folders between the calls.  A text is      *)
(* known by what the checks tell apart.  "digits", such as 42, and "true"  *)
(* are plain scalars of another type than a string: the configuration      *)
(* takes them for their text, the raw checks do not.  "mistyped" is what   *)
(* neither takes, such as a list.  A value left empty is not modelled.  A  *)
(* diagnostic is the place and the problem that its code names.            *)
(***************************************************************************)
EXTENDS Naturals, Sequences, FiniteSets, SequencesExt

CONSTANTS
  MaxEdits,   \* bound of the model: edits of the file and of the folders
  MaxEntries  \* bound of the model: entries of a list in the file

WorkspaceInspectionAssumption == MaxEdits \in Nat /\ MaxEntries \in Nat \ {0}

VARIABLES
  document,    \* the content of workspace.yml
  disk,        \* the folders, and the documents in them
  preview,     \* the last preview, while the folders are as it saw them
  edits        \* edits so far

vars == <<document, disk, preview, edits>>

-----------------------------------------------------------------------------
(***************************************************************************)
(* The file's content.                                                     *)
(***************************************************************************)

Absent == [kind |-> "absent"]
Null == [kind |-> "null"]
Scalar == [kind |-> "scalar"]
List(items) == [kind |-> "list", items |-> items]
Lists(S) == {List(s) : s \in BoundedSeq(S, MaxEntries)}
\* What no field takes for a text, and the scalars that are no strings.
Mute == {"absent", "mistyped"}
Plain == {"digits", "true"}
Texts == Mute \cup {"digits", "blank", "text"}

Identity(id, name) == [kind |-> "mapping", id |-> id, name |-> name]
Root(path) == [kind |-> "mapping", path |-> path]
Repository(key, label, id, name) ==
  [kind |-> "mapping", key |-> key, label |-> label,
   github |-> [kind |-> "mapping", id |-> id, full_name |-> name]]
Project(id) == [kind |-> "mapping", id |-> id, owner |-> "text", number |-> "number"]
Documents(roots) == [kind |-> "mapping", roots |-> roots]
Github(project, projects, active) ==
  [kind |-> "mapping", project |-> project, projects |-> projects, active |-> active]

\* generated_workspace_content.
Generated ==
  [version |-> "1", workspace |-> Identity("v4", "text"),
   documents |-> Documents(List(<<Root("docs")>>)),
   repositories |-> List(<<>>), github |-> Absent]
Full ==
  [Generated EXCEPT !.repositories = List(<<Repository("k1", "l1", "text", "text")>>),
                    !.github = Github(Project("p1"), List(<<Project("p1")>>), "p1")]

Folders == {"docs", "docs/sub"}
\* "link" leads to docs/sub, "out" out of the repository.
Named == {Root(p) : p \in {"..", "docs", "docs/sub", "link", "out"}}
Odd == {Root(p) : p \in Mute \cup {"digits", "blank"}} \cup {Scalar}
Ids == Mute \cup {"digits", "blank", "p1", "p2"}
AllKeys == Mute \cup Plain \cup {"blank", "ill", "k1", "k2"}
Projects ==
  {Project(id) : id \in Ids} \cup {[Project("p1") EXCEPT !.owner = o] : o \in Texts}
    \cup {[Project("p1") EXCEPT !.number = n] : n \in {"absent", "mistyped"}}
Good == Repository("k1", "l1", "text", "text")
Repositories ==
  {Repository(k, "l2", "text", "text") : k \in AllKeys}
    \cup {Repository("k2", l, "text", "text") : l \in Mute \cup {"digits", "l1"}}
    \cup {Repository("k2", "l2", id, "text") : id \in Texts}
    \cup {Repository("k2", "l2", "text", name) : name \in Texts}
    \cup {[Good EXCEPT !.github = g] : g \in {Absent, Scalar}} \cup {Scalar}

-----------------------------------------------------------------------------
(***************************************************************************)
(* Which content deserializes (WorkspaceDocument::parse): a list of the    *)
(* file is taken only when every entry is, and a String field takes any    *)
(* scalar.  The id is a Uuid and the number a u64: no other scalar is one. *)
(***************************************************************************)

RootParses(r) == r.kind = "mapping" /\ r.path \notin Mute
RepositoryParses(r) ==
  /\ r.kind = "mapping" /\ r.key \notin Mute /\ r.label \notin Mute
  /\ r.github.kind = "mapping" /\ r.github.id \notin Mute /\ r.github.full_name \notin Mute
ProjectParses(p) ==
  /\ p.kind = "mapping" /\ p.id \notin Mute /\ p.owner \notin Mute /\ p.number = "number"

RootsParse(list) == list.kind = "list" /\ \A r \in Range(list.items) : RootParses(r)
RepositoriesParse(list) ==
  \/ list.kind = "absent"
  \/ list.kind = "list" /\ \A r \in Range(list.items) : RepositoryParses(r)
ProjectsParse(list) ==
  \/ list.kind = "absent"
  \/ list.kind = "list" /\ \A p \in Range(list.items) : ProjectParses(p)

Parses(d) ==
  /\ d.workspace.kind = "mapping"
  /\ d.workspace.id \in {"v1", "v4"} /\ d.workspace.name \notin Mute
  /\ d.documents.kind = "mapping" /\ RootsParse(d.documents.roots)
  /\ RepositoriesParse(d.repositories)
  /\ \/ d.github.kind \in {"absent", "null"}
     \/ /\ d.github.kind = "mapping" /\ d.github.active # "mistyped"
        /\ d.github.project.kind \in {"absent", "null"} \/ ProjectParses(d.github.project)
        /\ ProjectsParse(d.github.projects)

Items(list) == IF list.kind = "list" THEN list.items ELSE <<>>
\* all_projects: the list, and the single project of older files.
AllProjects(g) ==
  {p \in Range(Items(g.projects)) \cup {g.project} : p.kind = "mapping"}

-----------------------------------------------------------------------------
(***************************************************************************)
(* validate_workspace: the checks of a configuration that parsed.          *)
(***************************************************************************)

\* An entry whose value an earlier entry has: insert of a set of the values seen.
Repeated(values, i) == \E j \in 1..(i - 1) : values[j] = values[i]
Key(r) == IF r.kind = "mapping" THEN r.key ELSE "absent"
Label(r) == IF r.kind = "mapping" THEN r.label ELSE "absent"
KeysOf(items) == [i \in DOMAIN items |-> Key(items[i])]
LabelsOf(items) == [i \in DOMAIN items |-> Label(items[i])]

\* is_outside_repository_path.
Outside(path) == path = ".."
PathProblem(path) ==
  IF path = "blank" THEN {"empty"} ELSE IF Outside(path) THEN {"outside"} ELSE {}
\* is_valid_repository_key: a key starts with a letter.
KeyProblem(key) ==
  IF key = "blank" THEN {"empty"} ELSE IF key \in {"ill", "digits"} THEN {"invalid"} ELSE {}
AtEntry(place, i, problems) == {<<place, i, problem>> : problem \in problems}
At(place, problems) == AtEntry(place, 0, problems)
If(condition, problem) == IF condition THEN {problem} ELSE {}

RepositoryProblems(items, i) ==
  LET r == items[i] IN
  AtEntry("key", i, KeyProblem(r.key) \cup If(Repeated(KeysOf(items), i), "duplicate"))
    \cup AtEntry("label", i, If(Repeated(LabelsOf(items), i), "duplicate"))
    \cup AtEntry("github id", i, If(r.github.id = "blank", "missing"))

ProjectProblems_ListOnly(g) ==
  At("project id", If(\E p \in Range(Items(g.projects)) : p.id = "blank", "missing"))
ProjectProblems(g) ==
  At("project id", If(\E p \in AllProjects(g) : p.id = "blank", "missing"))
ActiveProblems(g) ==
  At("active project", If(/\ g.active \notin {"absent", "null"}
                          /\ g.active \notin {p.id : p \in AllProjects(g)}, "unknown"))

Validate(d) ==
  LET roots == d.documents.roots.items
      repositories == Items(d.repositories)
  IN At("id", If(d.workspace.id # "v4", "not v4"))
       \cup At("name", If(d.workspace.name = "blank", "empty"))
       \cup At("roots", If(roots = <<>>, "missing"))
       \cup (UNION {AtEntry("path", i, PathProblem(roots[i].path)) : i \in DOMAIN roots})
       \cup (UNION {RepositoryProblems(repositories, i) : i \in DOMAIN repositories})
       \cup (IF d.github.kind = "mapping"
             THEN ProjectProblems(d.github) \cup ActiveProblems(d.github) ELSE {})

-----------------------------------------------------------------------------
(***************************************************************************)
(* structural_diagnostics: the checks of the raw values.                   *)
(***************************************************************************)

\* diagnose_required_string.
Required(place, i, value, blankIsMissing) ==
  AtEntry(place, i, If(value = "absent" \/ (blankIsMissing /\ value = "blank"), "missing")
                      \cup If(value \in {"mistyped"} \cup Plain, "type"))
Mistyped(place, i) == AtEntry(place, i, {"type"})

RawWorkspace(w) ==
  CASE w.kind = "absent" -> At("id", {"missing"}) \cup At("name", {"missing"})
    [] w.kind = "scalar" -> Mistyped("workspace", 0)
    [] OTHER -> Required("id", 0, w.id, FALSE) \cup Required("name", 0, w.name, FALSE)
                  \cup At("id", If(w.id \in {"garbage", "v1"}, "not v4"))
                  \cup At("name", If(w.name = "blank", "empty"))

RawRoot(i, r) ==
  IF r.kind # "mapping" THEN Mistyped("root", i)
  ELSE Required("path", i, r.path, FALSE) \cup AtEntry("path", i, PathProblem(r.path))

RawDocuments(d) ==
  IF d.kind = "absent" THEN At("roots", {"missing"})
  ELSE IF d.kind = "scalar" THEN Mistyped("documents", 0)
  ELSE IF d.roots.kind = "absent" THEN At("roots", {"missing"})
  ELSE IF d.roots.kind = "scalar" THEN Mistyped("roots", 0)
  ELSE At("roots", If(d.roots.items = <<>>, "missing"))
         \cup UNION {RawRoot(i, d.roots.items[i]) : i \in DOMAIN d.roots.items}

RawGithub(i, g) ==
  CASE g.kind = "absent" -> AtEntry("github", i, {"missing"}) \cup AtEntry("github id", i, {"missing"})
                              \cup AtEntry("full name", i, {"missing"})
    [] g.kind = "scalar" -> Mistyped("github", i)
    [] OTHER -> Required("github id", i, g.id, TRUE)
                  \cup Required("full name", i, g.full_name, FALSE)

\* Value::String.
IsText(value) == value \notin Mute \cup Plain
RawRepository(items, i) ==
  LET r == items[i] IN
  IF r.kind # "mapping" THEN Mistyped("repository", i)
  ELSE Required("key", i, r.key, FALSE) \cup Required("label", i, r.label, FALSE)
         \cup (IF ~IsText(r.key) THEN {}
               ELSE AtEntry("key", i, KeyProblem(r.key) \cup If(Repeated(KeysOf(items), i), "duplicate")))
         \cup AtEntry("label", i, If(IsText(r.label) /\ Repeated(LabelsOf(items), i), "duplicate"))
         \cup RawGithub(i, r.github)

RawRepositories(list) ==
  CASE list.kind = "absent" -> {}
    [] list.kind = "list" -> UNION {RawRepository(list.items, i) : i \in DOMAIN list.items}
    [] OTHER -> Mistyped("repositories", 0)

RawProject(p) ==
  CASE p.kind \in {"absent", "null"} -> {}
    [] p.kind = "scalar" -> Mistyped("project", 0)
    [] OTHER -> Required("project id", 0, p.id, TRUE) \cup Required("owner", 0, p.owner, FALSE)
                  \cup Required("number", 0, p.number, FALSE)

RawProjects_Mappings(list) ==
  UNION {RawProject(list.items[i]) : i \in {j \in DOMAIN Items(list) : list.items[j].kind = "mapping"}}
RawProjects(list) ==
  CASE list.kind \in {"absent", "null"} -> {}
    [] list.kind = "list" -> UNION {RawProject(list.items[i]) : i \in DOMAIN list.items}
    [] OTHER -> Mistyped("projects", 0)

RawGithubProjects(g) ==
  CASE g.kind \in {"absent", "null"} -> {}
    [] g.kind = "scalar" -> Mistyped("github", 0)
    [] OTHER -> RawProject(g.project) \cup RawProjects(g.projects)
                  \cup At("active project", If(g.active \in {"mistyped"} \cup Plain, "type"))

Raw(d) ==
  RawWorkspace(d.workspace) \cup RawDocuments(d.documents)
    \cup RawRepositories(d.repositories) \cup RawGithubProjects(d.github)

-----------------------------------------------------------------------------
(***************************************************************************)
(* The references: the documents below the roots are read, each once.      *)
(***************************************************************************)

\* The configuration holds the text of every scalar, the raw file is asked for its strings.
Taken(d, value) == Parses(d) \/ IsText(value)
\* The keys that documents may refer to.
Keys(d) == {key \in {Key(r) : r \in Range(Items(d.repositories))} : Taken(d, key)}
\* The roots whose path is a text.
RootPaths(d) ==
  IF d.documents.kind # "mapping" THEN <<>>
  ELSE LET HasPath(r) == r.kind = "mapping" /\ Taken(d, r.path)
       IN [i \in DOMAIN SelectSeq(Items(d.documents.roots), HasPath) |->
             SelectSeq(Items(d.documents.roots), HasPath)[i].path]

\* Where a root's path leads: nowhere, out of the repository, to a folder; or it
\* cannot be resolved.  No folder is called by digits.
Target(path) ==
  IF path \in {"blank", "digits"} \/ Outside(path) THEN "nowhere"
  ELSE IF path = "out" THEN "outside"
  ELSE IF path = "link" /\ disk.docs = "filled" THEN "docs/sub"
  ELSE IF path = "link" THEN "unreadable"
  ELSE IF disk.docs = "outside" THEN (IF path = "docs" THEN "outside" ELSE "nowhere")
  ELSE IF disk.docs = "dangling" THEN (IF path = "docs" THEN "unreadable" ELSE "nowhere")
  ELSE IF disk.docs = "file" THEN (IF path = "docs" THEN "nowhere" ELSE "unreadable")
  ELSE IF disk.docs = "absent" THEN "nowhere"
  ELSE IF disk.docs = "empty" /\ path = "docs/sub" THEN "nowhere"
  ELSE path
Below(folder) == IF folder = "docs" THEN {"docs", "docs/sub"} ELSE {folder} \cap Folders

\* scan_directory passes links and other files over, scan_reference_file documents
\* without readable front matter; collect_code_link_references takes what is below
\* code_links.
Read(folder) == disk.notes[folder].kind = "document" /\ disk.notes[folder].linked
Fresh_Always(folder, scanned) == TRUE
Fresh(folder, scanned) == folder \notin scanned
ScanFolder(keys, scan, folder) ==
  LET files == {f \in Below(folder) : Read(f) /\ Fresh(f, scan.scanned)}
      unknown == {f \in files : disk.notes[f].key \notin keys}
  IN [scan EXCEPT !.scanned = @ \cup files, !.reported = @ \o SetToSeq(unknown)]
ScanRoot(keys, scan, path) ==
  CASE Target(path) = "outside" -> [scan EXCEPT !.outside = TRUE]
    [] Target(path) = "unreadable" -> [scan EXCEPT !.failed = TRUE]
    [] Target(path) = "nowhere" -> scan
    [] OTHER -> ScanFolder(keys, scan, Target(path))
NoScan == [scanned |-> {}, reported |-> <<>>, outside |-> FALSE, failed |-> FALSE]
References(d) ==
  LET Step(scan, path) == ScanRoot(Keys(d), scan, path)
  IN FoldLeft(Step, NoScan, RootPaths(d))

-----------------------------------------------------------------------------
(***************************************************************************)
(* The inspection.                                                         *)
(***************************************************************************)

Answer(status) == [status |-> status, problems |-> {}]
Invalid(problems) == [status |-> "invalid", problems |-> problems]
Directories == {"empty", "filled", "linked"}

Content(d) ==
  LET scan == References(d)
      found == (IF Parses(d) THEN Validate(d) ELSE Raw(d) \cup At("file", {"structure"}))
                 \cup At("root", If(scan.outside, "outside"))
                 \cup UNION {At(folder, {"unknown key"}) : folder \in Range(scan.reported)}
  IN IF scan.failed THEN Answer("failed")
     ELSE IF found = {} THEN Answer("ready") ELSE Invalid(found)

Inspection ==
  IF disk.okf = "file" THEN Answer("failed")
  ELSE IF disk.okf \in {"absent", "dangling"} \/ disk.config = "absent" THEN Answer("initialization required")
  ELSE IF disk.config = "directory" THEN Invalid(At("file", {"not a file"}))
  ELSE IF disk.config = "dangling" THEN Answer("failed")
  ELSE IF "outside" \in {disk.okf, disk.config} THEN Invalid(At("file", {"outside"}))
  ELSE IF document.version = "broken" THEN Invalid(At("file", {"yaml"}))
  ELSE IF document.version = "2" THEN Answer("unsupported")
  ELSE IF document.version # "1" THEN Invalid(At("version", {"invalid"}))
  ELSE Content(document)

-----------------------------------------------------------------------------
(***************************************************************************)
(* The preview of an initialization.                                       *)
(***************************************************************************)

\* validate_preview_path over the parts of a path that exist.
PathIsSafe_Unresolved(parts) ==
  LET exists(i) == \A j \in 1..i : parts[j] # "absent"
  IN \A i \in DOMAIN parts : exists(i) /\ i < Len(parts) => parts[i] # "file"
PathIsSafe(parts) ==
  LET exists(i) == \A j \in 1..i : parts[j] # "absent"
  IN \A i \in DOMAIN parts : exists(i) =>
       /\ parts[i] \notin {"outside", "dangling"}
       /\ i < Len(parts) => parts[i] \in Directories
SafePaths ==
  /\ PathIsSafe(<<disk.okf, disk.config>>)
  /\ PathIsSafe(<<disk.okf, disk.templates, "absent">>)
  /\ PathIsSafe(<<disk.docs, "absent">>)

\* push_missing_file, push_marker_for_empty_directory.
NeedsMarker(kind) == kind \in {"absent", "empty"}
PreviewFiles ==
  If(disk.okf = "absent" \/ disk.config = "absent", "config")
    \cup If(disk.okf = "absent" \/ NeedsMarker(disk.templates), "templates")
    \cup If(NeedsMarker(disk.docs), "docs")

\* No inspection is asked first: the preview of a workspace lacks the file it has.
NoPreview == [files |-> {}, applied |-> FALSE]
CreatePreview ==
  /\ SafePaths
  /\ preview' = [files |-> PreviewFiles, applied |-> FALSE]
  /\ UNCHANGED <<document, disk, edits>>

\* RepositoryService::initialize and the checkout of its commit: the folders must be as
\* they were, and their paths as safe (validate_preview_paths).
Apply ==
  /\ preview.files # {} /\ ~preview.applied /\ SafePaths
  /\ document' = IF "config" \in preview.files THEN Generated ELSE document
  /\ disk' = [disk EXCEPT
                !.okf = IF @ = "absent" THEN "filled" ELSE @,
                !.config = IF "config" \in preview.files THEN "file" ELSE @,
                !.templates = IF "templates" \in preview.files THEN "filled" ELSE @,
                !.docs = IF "docs" \in preview.files THEN "filled" ELSE @]
  /\ preview' = [preview EXCEPT !.applied = TRUE]
  /\ UNCHANGED edits

-----------------------------------------------------------------------------
(***************************************************************************)
(* What people do to the file and the folders.                             *)
(***************************************************************************)

NoNote == [kind |-> "none", key |-> "k1", linked |-> FALSE]
Notes == [kind : {"document", "link", "other"}, key : {"k1", "true"}, linked : BOOLEAN]
\* A preview of other folders is refused (stale_preview_error).
Edited == edits < MaxEdits /\ edits' = edits + 1 /\ preview' = NoPreview
Write(field, value) ==
  /\ Edited /\ disk.config = "file"
  /\ document' = [document EXCEPT ![field] = value] /\ UNCHANGED disk

EditVersion == \E v \in {"broken", "none", "0", "1", "2"} : Write("version", v)
EditWorkspace ==
  \E w \in {Absent, Scalar} \cup {Identity(id, name) :
              id \in Mute \cup {"garbage", "v1", "v4"}, name \in Texts} :
     Write("workspace", w)
EditDocuments ==
  \E d \in {Absent, Scalar} \cup {Documents(roots) :
              roots \in {Absent, Scalar} \cup Lists(Named) \cup {List(<<r>>) : r \in Odd}
                          \cup {List(<<Root("docs"), r>>) : r \in Odd}} :
     Write("documents", d)
EditRepositories ==
  \E r \in {Absent, Scalar, List(<<>>)} \cup {List(<<x>>) : x \in Repositories}
             \cup {List(<<Good, x>>) : x \in Repositories} : Write("repositories", r)
EditGithub ==
  \/ \E g \in {Absent, Null, Scalar} : Write("github", g)
  \/ \E active \in {"absent", "null", "mistyped", "digits", "p1", "p2"} :
       \/ \E project \in {Absent, Null, Scalar} \cup Projects :
            Write("github", Github(project, Absent, active))
       \/ \E project \in {Absent, Project("p2")}, projects \in {Null, Scalar} :
            Write("github", Github(project, projects, active))
       \/ \E project \in {Absent, Project("p2")},
             other \in {Null, Scalar} \cup Projects :
            Write("github", Github(project, List(<<other>>), active))
EditDisk ==
  /\ Edited /\ UNCHANGED document
  /\ \/ \E kind \in {"absent", "empty", "linked", "file", "outside", "dangling"} :
           disk' = [disk EXCEPT !.okf = kind, !.templates = IF kind = "linked" THEN @ ELSE "absent",
                                !.config = IF kind \in {"linked", "outside"} THEN @ ELSE "absent"]
     \/ /\ disk.okf \in Directories
        /\ \/ \E kind \in {"absent", "file", "directory", "outside", "dangling"} :
                 disk' = [disk EXCEPT !.config = kind, !.okf = "filled"]
           \/ \E kind \in Directories \cup {"absent", "file", "outside", "dangling"} :
                 disk' = [disk EXCEPT !.templates = kind, !.okf = "filled"]
     \/ \E kind \in Directories \cup {"absent", "file", "outside", "dangling"} :
           disk' = [disk EXCEPT !.docs = kind, !.notes = [f \in Folders |-> NoNote]]
     \/ \E folder \in Folders, note \in Notes :
           /\ disk.docs = "filled"
           /\ disk' = [disk EXCEPT !.notes[folder] = note]

-----------------------------------------------------------------------------
Init ==
  /\ document = Full
  /\ \E config \in {"absent", "file"} :
       disk = [okf |-> "filled", config |-> config, templates |-> "empty", docs |-> "filled",
               notes |-> [f \in Folders |-> NoNote]]
  /\ preview = NoPreview /\ edits = 0

Next ==
  \/ CreatePreview \/ Apply
  \/ EditVersion \/ EditWorkspace \/ EditDocuments \/ EditRepositories \/ EditGithub \/ EditDisk

Spec == Init /\ [][Next]_vars

-----------------------------------------------------------------------------
TypeOK ==
  /\ Inspection.status \in {"failed", "initialization required", "invalid", "unsupported", "ready"}
  /\ preview.files \subseteq {"config", "templates", "docs"} /\ preview.applied \in BOOLEAN
  /\ edits \in 0..MaxEdits

(***************************************************************************)
(* The same rules are written twice, in validate_workspace and in          *)
(* structural_diagnostics.  Where a file parses, all that the raw checks   *)
(* find besides is a scalar that is no string in a field that holds a      *)
(* text, and all that they miss is at the place of such a scalar.  For     *)
(* nothing else is a file refused that would pass once an unrelated error  *)
(* is repaired, nor the reverse.  Only the raw checks do not know the      *)
(* active project.                                                         *)
(***************************************************************************)
TextFields ==
  {"name", "path", "key", "label", "github id", "full name", "project id", "owner", "active project"}
LooseType(problem) == problem[3] = "type" /\ problem[1] \in TextFields
SamePlace(problem, other) == problem[1] = other[1] /\ problem[2] = other[2]
Agree(raw, valid) ==
  /\ \A problem \in raw : LooseType(problem) \/ problem \in valid
  /\ \A problem \in valid :
       problem \in raw \/ \E loose \in raw : LooseType(loose) /\ SamePlace(problem, loose)
ValidatorsAgree ==
  Parses(document) =>
    Agree(Raw(document), Validate(document) \ At("active project", {"unknown"}))

(***************************************************************************)
(* A file that does not deserialize is never refused without a diagnostic  *)
(* that names the place, but for a null list of projects or a null entry   *)
(* of it, which the raw checks pass over and the configuration does not.   *)
(***************************************************************************)
RefusalIsExplained ==
  \/ Parses(document) \/ Raw(document) # {}
  \/ /\ document.github.kind = "mapping"
     /\ Null \in {document.github.projects} \cup Range(Items(document.github.projects))

(***************************************************************************)
(* However the roots overlap, by nesting, by repetition or through a link, *)
(* a document with an unknown repository key is reported once.             *)
(***************************************************************************)
ReportedOnce ==
  LET reported == References(document).reported
  IN \A i, j \in DOMAIN reported : i # j => reported[i] # reported[j]

(***************************************************************************)
(* A folder initialized from a preview is a workspace that opens, whatever *)
(* the folders held: all that can be wrong with it are repository keys     *)
(* that documents below docs named before.                                 *)
(***************************************************************************)
InitializedIsSound ==
  preview.applied /\ "config" \in preview.files =>
    /\ Inspection.status \in {"ready", "invalid"}
    /\ \A problem \in Inspection.problems : problem[3] = "unknown key"
=============================================================================
