----------------------------- MODULE Extraction -----------------------------
(***************************************************************************)
(* extract_to: the entries of an open archive are written, one after       *)
(* another, below an output directory.  Each entry's parent directories    *)
(* are checked or made one by one, the target is checked, opened and       *)
(* filled.  Others may create files and directories there between any two  *)
(* of these steps.                                                         *)
(*                                                                         *)
(* A path is the sequence of its components below the output directory.    *)
(* Links exist only from the start and lead to directories elsewhere.      *)
(* Reading an entry is ArchiveReader's business: here it gives all bytes   *)
(* of the entry, or fails after some of them.                              *)
(***************************************************************************)
EXTENDS Integers, Sequences, FiniteSets

CONSTANTS
  Archives,     \* for each archive the stored paths of its entries, split at separators
  Paths,        \* the paths below the output directory
  Occupied      \* Occupied[p]: the kinds of node that may be at p before anything is extracted

Node(kind, of, whole) == [kind |-> kind, of |-> of, whole |-> whole]

\* `of` is the entry a file was opened for, 0 for a file of someone else;
\* `whole` whether all its bytes are there.
Nodes == [kind : {"absent", "dir", "file", "link"}, of : Nat, whole : BOOLEAN]
Absent    == Node("absent", 0, FALSE)
Directory == Node("dir", 0, FALSE)
Theirs(kind) == Node(kind, 0, kind = "file")

\* resolve_relative_path on the parts of a stored path that names no "..",
\* when the archive is opened; sanitize_path again when it is extracted.
ResolveRelativePath(parts) ==
  LET clean == SelectSeq(parts, LAMBDA part : part \notin {"", "."})
  IN  IF clean = <<>> THEN <<".">> ELSE clean

SanitizePath(parts) == SelectSeq(parts, LAMBDA part : part # ".")

Relative(raw) == SanitizePath(ResolveRelativePath(raw))

Parent(p) == SubSeq(p, 1, Len(p) - 1)

\* Paths holds the directories on the way to each of its paths.
ASSUME ExtractionAssumption ==
  /\ Archives \subseteq Seq(Seq(STRING))
  /\ Paths \subseteq Seq(STRING) \ {<<>>}
  /\ \A p \in Paths : \A d \in 1 .. Len(p) : SubSeq(p, 1, d) \in Paths
  /\ \A a \in Archives : \A e \in DOMAIN a :
       Relative(a[e]) # <<>> => Relative(a[e]) \in Paths
  /\ \A p \in Paths : Occupied[p] \subseteq {"dir", "file", "link"}

VARIABLES
  arc,          \* the archive
  tree,         \* what is below the output directory
  overwrite,    \* ExtractOptions::overwrite
  pc,           \* where extract_to is
  current,      \* the entry it is at
  depth,        \* how many components of its path are checked
  mine,         \* history: the targets this call has opened
  files,        \* ExtractionReport::files
  result        \* of the last call: "none", "ok" or "failed"

vars == <<arc, tree, overwrite, pc, current, depth, mine, files, result>>

\* The directory p is to be created in; a link stands for the directory behind it.
CanCreateIn(t, p) == Len(p) > 1 => t[Parent(p)].kind \in {"dir", "link"}
InDirectory(t, p) == Len(p) > 1 => t[Parent(p)].kind = "dir"

Init ==
  /\ arc \in Archives
  /\ tree \in [Paths -> {Absent} \cup {Theirs(k) : k \in UNION {Occupied[p] : p \in Paths}}]
  /\ \A p \in Paths :
       tree[p] # Absent => tree[p].kind \in Occupied[p] /\ InDirectory(tree, p)
  /\ overwrite = FALSE
  /\ pc = "idle" /\ current = 0 /\ depth = 0
  /\ mine = {} /\ files = 0 /\ result = "none"

\* Somebody else creates a file or a directory.
SomeoneCreates(p) ==
  /\ tree[p] = Absent /\ InDirectory(tree, p)
  /\ \E kind \in Occupied[p] \ {"link"} : tree' = [tree EXCEPT ![p] = Theirs(kind)]
  /\ UNCHANGED <<arc, overwrite, pc, current, depth, mine, files, result>>

-----------------------------------------------------------------------------
Return(r) == pc' = "idle" /\ depth' = 0 /\ result' = r

Goto(label) == pc' = label /\ UNCHANGED <<depth, result>>

Target == Relative(arc[current])
Prefix == SubSeq(Target, 1, depth)

ExtractTo(over) ==
  /\ pc = "idle"
  /\ overwrite' = over
  /\ current' = 1 /\ mine' = {} /\ files' = 0
  /\ pc' = "entry" /\ depth' = 0 /\ result' = "none"
  /\ UNCHANGED <<arc, tree>>

NextEntry ==
  /\ pc = "entry"
  /\ IF current > Len(arc) THEN Return("ok")
     ELSE IF Target = <<>> THEN Return("failed")
     ELSE pc' = "parent" /\ depth' = 1 /\ UNCHANGED result
  /\ UNCHANGED <<arc, tree, overwrite, current, mine, files>>

\* Mutant: whatever is there is taken for a directory.
CheckParentExists ==
  /\ pc = "parent"
  /\ IF depth = Len(Target) THEN Goto("target")
     ELSE IF tree[Prefix] = Absent THEN Goto("mkdir")
     ELSE depth' = depth + 1 /\ UNCHANGED <<pc, result>>
  /\ UNCHANGED <<arc, tree, overwrite, current, mine, files>>

CheckParent ==
  /\ pc = "parent"
  /\ IF depth = Len(Target) THEN Goto("target")
     ELSE CASE tree[Prefix].kind = "dir"    -> depth' = depth + 1 /\ UNCHANGED <<pc, result>>
            [] tree[Prefix].kind = "absent" -> Goto("mkdir")
            [] OTHER                        -> Return("failed")
  /\ UNCHANGED <<arc, tree, overwrite, current, mine, files>>

\* create_dir fails on anything that has appeared in between.
MakeParent ==
  /\ pc = "mkdir"
  /\ IF tree[Prefix] = Absent
     THEN /\ tree' = [tree EXCEPT ![Prefix] = Directory]
          /\ pc' = "parent" /\ depth' = depth + 1 /\ UNCHANGED result
     ELSE Return("failed") /\ UNCHANGED tree
  /\ UNCHANGED <<arc, overwrite, current, mine, files>>

CheckTarget ==
  /\ pc = "target"
  /\ IF tree[Target].kind \in {"link", "dir"} \/ (tree[Target].kind = "file" /\ ~overwrite)
     THEN Return("failed") ELSE Goto("open")
  /\ UNCHANGED <<arc, tree, overwrite, current, mine, files>>

\* Mutant: the check of the target is relied on, the file is created as with overwrite.
OpenTargetTrusting ==
  /\ pc = "open"
  /\ IF tree[Target].kind \in {"absent", "file"} /\ CanCreateIn(tree, Target)
     THEN /\ tree' = [tree EXCEPT ![Target] = Node("file", current, FALSE)]
          /\ mine' = mine \cup {Target}
          /\ Goto("read")
     ELSE Return("failed") /\ UNCHANGED <<tree, mine>>
  /\ UNCHANGED <<arc, overwrite, current, files>>

\* File::create truncates a file that is there; create_new refuses it.
OpenTarget ==
  /\ pc = "open"
  /\ IF /\ \/ tree[Target] = Absent
           \/ overwrite /\ tree[Target].kind = "file"
        /\ CanCreateIn(tree, Target)
     THEN /\ tree' = [tree EXCEPT ![Target] = Node("file", current, FALSE)]
          /\ mine' = mine \cup {Target}
          /\ Goto("read")
     ELSE Return("failed") /\ UNCHANGED <<tree, mine>>
  /\ UNCHANGED <<arc, overwrite, current, files>>

ReadEntry ==
  /\ pc = "read"
  /\ tree' = [tree EXCEPT ![Target].whole = TRUE]
  /\ files' = files + 1 /\ current' = current + 1
  /\ Goto("entry")
  /\ UNCHANGED <<arc, overwrite, mine>>

\* Mutant: an entry that cannot be read is skipped.
FailsSkipping ==
  /\ pc # "idle"
  /\ IF pc = "read" THEN Goto("entry") /\ current' = current + 1
                    ELSE Return("failed") /\ UNCHANGED current
  /\ UNCHANGED <<arc, tree, overwrite, mine, files>>

\* read_entry_to fails, after some or no bytes, or a call to the file system does.
Fails ==
  /\ pc # "idle"
  /\ Return("failed")
  /\ UNCHANGED <<arc, tree, overwrite, current, mine, files>>

Next ==
  \/ \E p \in Paths : SomeoneCreates(p)
  \/ \E over \in BOOLEAN : ExtractTo(over)
  \/ NextEntry
  \/ CheckParent
  \/ MakeParent
  \/ CheckTarget
  \/ OpenTarget
  \/ ReadEntry
  \/ Fails

Spec == Init /\ [][Next]_vars

-----------------------------------------------------------------------------
(* Properties *)

\* Everything is in a real directory: nothing is ever extracted through a link
\* or below a file.
TypeOK ==
  /\ arc \in Archives
  /\ tree \in [Paths -> Nodes]
  /\ \A p \in Paths : tree[p] # Absent => InDirectory(tree, p)
  /\ overwrite \in BOOLEAN
  /\ pc \in {"idle", "entry", "parent", "mkdir", "target", "open", "read"}
  /\ current \in 0 .. Len(arc) + 1 /\ depth \in Nat
  /\ mine \subseteq Paths /\ files \in Nat
  /\ result \in {"none", "ok", "failed"}

\* Directories and links are left alone, and so are the files of others unless
\* overwriting was asked for, no matter when they appear.
LeavesOthersAlone ==
  [][ \A p \in Paths :
        tree[p] # Absent /\ tree'[p] # tree[p] =>
          /\ tree[p].kind = "file" /\ tree'[p].kind = "file"
          /\ overwrite \/ p \in mine
          /\ \E e \in DOMAIN arc : p = Relative(arc[e]) ]_vars

\* Of the files a call has opened only the current entry's may be incomplete,
\* however the call ends; the entries before it are there in full, except where
\* a later entry has the same path.  A call that returns Ok has extracted and
\* counted them all.
ExtractedInOrder ==
  /\ \A p \in mine : tree[p].whole \/ tree[p].of = current
  /\ \A e \in DOMAIN arc :
       e < current =>
         LET p == Relative(arc[e])
         IN  p \in mine /\ tree[p].of >= e /\ Relative(arc[tree[p].of]) = p
  /\ result = "ok" =>
       /\ current = Len(arc) + 1 /\ files = Len(arc)
       /\ \A p \in mine : tree[p].whole
=============================================================================
