-------------------------- MODULE ExtractionProofs --------------------------
(***************************************************************************)
(* What holds of an extraction for every archive, every tree it starts     *)
(* from and everything others create meanwhile.                            *)
(***************************************************************************)
EXTENDS Extraction, SequenceTheorems, TLAPS

-----------------------------------------------------------------------------
(* The inductive invariant *)

\* Where the call is, and what it knows there: the entry it is at, the
\* component of its path that is next, and that everything above is a real
\* directory.
CallShape ==
  /\ pc # "idle" => current >= 1 /\ files = current - 1 /\ result = "none"
  /\ pc \notin {"idle", "entry"} =>
       /\ current \in DOMAIN arc /\ Target \in Paths
       /\ depth \in 1 .. Len(Target)
       /\ \A d \in 1 .. depth - 1 : tree[SubSeq(Target, 1, d)].kind = "dir"
  /\ pc = "mkdir" => depth < Len(Target)
  /\ pc \in {"target", "open", "read"} => depth = Len(Target)

\* What the files of this call are: each was opened for an entry reached so
\* far that has this path, and while no entry is being filled all are whole.
OpenedFiles ==
  /\ \A p \in mine :
       /\ tree[p].kind = "file"
       /\ tree[p].of \in DOMAIN arc /\ tree[p].of <= current
       /\ Relative(arc[tree[p].of]) = p
  /\ pc \notin {"idle", "read"} =>
       \A p \in mine : tree[p].whole /\ tree[p].of < current
  /\ pc = "read" => Target \in mine /\ tree[Target].of = current

IInv == TypeOK /\ CallShape /\ OpenedFiles /\ ExtractedInOrder

-----------------------------------------------------------------------------
(* Paths, nodes and the tree *)

\* A path has components, and the directories on the way to it are paths.
LEMMA PathFacts ==
  ASSUME NEW p \in Paths
  PROVE  /\ p \in Seq(STRING) /\ Len(p) \in Nat \ {0}
         /\ Len(p) > 1 => Parent(p) \in Paths
<1>1. p \in Seq(STRING) /\ p # <<>>
  BY ExtractionAssumption
<1>2. Len(p) \in Nat \ {0}
  BY <1>1, EmptySeq
<1>3. ASSUME Len(p) > 1 PROVE Parent(p) \in Paths
  <2>1. Len(p) - 1 \in 1 .. Len(p)
    BY <1>2, <1>3
  <2>2. QED
    BY <2>1, ExtractionAssumption DEF Parent
<1>4. QED
  BY <1>1, <1>2, <1>3

\* The prefix of d components is a path, and the one before it its parent.
LEMMA PrefixFacts ==
  ASSUME NEW p \in Paths, NEW d \in 1 .. Len(p)
  PROVE  /\ SubSeq(p, 1, d) \in Paths /\ Len(SubSeq(p, 1, d)) = d
         /\ Parent(SubSeq(p, 1, d)) = SubSeq(p, 1, d - 1)
         /\ SubSeq(p, 1, Len(p)) = p
<1>1. p \in Seq(STRING) /\ Len(p) \in Nat \ {0}
  BY PathFacts
<1> DEFINE q == SubSeq(p, 1, d)
<1>2. q \in Paths
  BY ExtractionAssumption
<1>3. /\ q \in Seq(STRING) /\ Len(q) = d
      /\ \A i \in 1 .. d : q[i] = p[i]
  BY <1>1, SMT
<1>4. SubSeq(q, 1, d - 1) = SubSeq(p, 1, d - 1)
  <2>1. /\ SubSeq(q, 1, d - 1) \in Seq(STRING) /\ SubSeq(p, 1, d - 1) \in Seq(STRING)
        /\ Len(SubSeq(q, 1, d - 1)) = d - 1 /\ Len(SubSeq(p, 1, d - 1)) = d - 1
        /\ \A i \in 1 .. d - 1 : SubSeq(q, 1, d - 1)[i] = q[i] /\ SubSeq(p, 1, d - 1)[i] = p[i]
    BY <1>1, <1>3, SMT
  <2>2. QED
    BY <2>1, <1>3, SeqEqual
<1>5. SubSeq(p, 1, Len(p)) = p
  BY <1>1, SubSeqFull
<1>6. QED
  BY <1>2, <1>3, <1>4, <1>5 DEF Parent

\* Putting a node, a file again where a file is or anything but nothing where
\* nothing is, into a real directory leaves everything in a real directory and
\* every directory where it was.
LEMMA PutNode ==
  ASSUME tree \in [Paths -> Nodes],
         \A p \in Paths : tree[p] # Absent => InDirectory(tree, p),
         NEW q \in Paths, InDirectory(tree, q), tree[q].kind # "dir",
         NEW node \in Nodes, tree' = [tree EXCEPT ![q] = node]
  PROVE  /\ tree' \in [Paths -> Nodes]
         /\ \A p \in Paths : tree'[p] # Absent => InDirectory(tree', p)
         /\ \A p \in Paths : p # q => tree'[p] = tree[p]
         /\ tree'[q] = node
         /\ \A p \in Paths : tree[p].kind = "dir" => tree'[p] = tree[p]
<1>1. /\ tree' \in [Paths -> Nodes]
      /\ \A p \in Paths : p # q => tree'[p] = tree[p]
      /\ tree'[q] = node
  OBVIOUS
<1>2. \A p \in Paths : tree[p].kind = "dir" => tree'[p] = tree[p]
  BY <1>1
<1>3. ASSUME NEW p \in Paths, tree'[p] # Absent, Len(p) > 1
      PROVE  tree'[Parent(p)].kind = "dir"
  <2>1. InDirectory(tree, p)
    BY <1>1, <1>3
  <2>2. tree[Parent(p)].kind = "dir" /\ Parent(p) \in Paths
    BY <2>1, <1>3, PathFacts DEF InDirectory
  <2>3. QED
    BY <2>2, <1>2
<1>4. QED
  BY <1>1, <1>2, <1>3 DEF InDirectory

\* Completing a file changes nothing else about it.
LEMMA CompletedNode ==
  ASSUME NEW t \in [Paths -> Nodes], NEW q \in Paths
  PROVE  LET node == [t[q] EXCEPT !.whole = TRUE]
         IN  /\ [t EXCEPT ![q].whole = TRUE] = [t EXCEPT ![q] = node]
             /\ node \in Nodes
             /\ node.kind = t[q].kind /\ node.of = t[q].of /\ node.whole
<1> DEFINE node == [t[q] EXCEPT !.whole = TRUE]
<1>1. t[q] \in Nodes
  OBVIOUS
<1>2. node \in Nodes /\ node.kind = t[q].kind /\ node.of = t[q].of /\ node.whole
  BY <1>1 DEF Nodes
<1>3. [t EXCEPT ![q].whole = TRUE] = [t EXCEPT ![q] = node]
  OBVIOUS
<1>4. QED
  BY <1>2, <1>3

\* What the archive of a well-typed state gives.
LEMMA ArchiveFacts ==
  ASSUME TypeOK
  PROVE  /\ arc \in Seq(Seq(STRING)) /\ Len(arc) \in Nat /\ DOMAIN arc = 1 .. Len(arc)
         /\ current \in Nat
         /\ \A e \in DOMAIN arc : Relative(arc[e]) # <<>> => Relative(arc[e]) \in Paths
<1>1. arc \in Archives /\ current \in 0 .. Len(arc) + 1
  BY DEF TypeOK
<1>2. arc \in Seq(Seq(STRING))
  BY <1>1, ExtractionAssumption
<1>3. Len(arc) \in Nat /\ DOMAIN arc = 1 .. Len(arc)
  BY <1>2, LenProperties
<1>4. QED
  BY <1>1, <1>2, <1>3, ExtractionAssumption

\* From the first component checked to the last byte written, the path of the
\* current entry is in a real directory as far as it is checked.
LEMMA CheckedPrefix ==
  ASSUME TypeOK, CallShape, pc \notin {"idle", "entry"}
  PROVE  /\ Target \in Paths /\ Prefix \in Paths
         /\ InDirectory(tree, Prefix)
         /\ depth = Len(Target) => Prefix = Target
<1>1. Target \in Paths /\ depth \in 1 .. Len(Target)
      /\ \A d \in 1 .. depth - 1 : tree[SubSeq(Target, 1, d)].kind = "dir"
  BY DEF CallShape
<1>2. /\ Prefix \in Paths /\ Len(Prefix) = depth
      /\ Parent(Prefix) = SubSeq(Target, 1, depth - 1)
      /\ depth = Len(Target) => Prefix = Target
  BY <1>1, PrefixFacts DEF Prefix
<1>3. depth > 1 => depth - 1 \in 1 .. depth - 1
  BY <1>1, PathFacts
<1>4. QED
  BY <1>1, <1>2, <1>3 DEF InDirectory

-----------------------------------------------------------------------------
(* Each action keeps the invariant *)

\* Before the first call nothing is extracted.
LEMMA InitIInv == Init => IInv
<1> SUFFICES ASSUME Init PROVE IInv
  OBVIOUS
<1>1. tree \in [Paths -> Nodes]
  <2>1. Absent \in Nodes
    BY DEF Absent, Node, Nodes
  <2>2. ASSUME NEW p \in Paths, NEW k \in Occupied[p] PROVE Theirs(k) \in Nodes
    BY ExtractionAssumption DEF Theirs, Node, Nodes
  <2>3. {Theirs(k) : k \in UNION {Occupied[p] : p \in Paths}} \subseteq Nodes
    BY <2>2
  <2>4. QED
    BY <2>1, <2>3 DEF Init
<1>2. \A p \in Paths : tree[p] # Absent => InDirectory(tree, p)
  BY DEF Init
<1>3. arc \in Archives /\ arc \in Seq(Seq(STRING)) /\ Len(arc) \in Nat /\ DOMAIN arc = 1 .. Len(arc)
  BY ExtractionAssumption, LenProperties DEF Init
<1>4. TypeOK
  <2>1. /\ overwrite = FALSE /\ pc = "idle" /\ current = 0 /\ depth = 0
        /\ mine = {} /\ files = 0 /\ result = "none"
    BY DEF Init
  <2>2. current \in 0 .. Len(arc) + 1 /\ arc \in Archives
    BY <1>3, <2>1
  <2>3. QED
    BY <1>1, <1>2, <2>1, <2>2 DEF TypeOK, InDirectory
<1>5. CallShape /\ OpenedFiles
  BY DEF Init, CallShape, OpenedFiles
<1>6. ExtractedInOrder
  BY <1>3 DEF Init, ExtractedInOrder
<1>7. QED
  BY <1>4, <1>5, <1>6 DEF IInv

\* A step of the call that puts no node: the tree, its files and the entry
\* stay, and the call is still as it was or has failed.
LEMMA ControlStep ==
  ASSUME IInv, CallShape', UNCHANGED <<arc, tree, overwrite, current, mine, files>>,
         pc \notin {"idle", "read"} \/ pc' = "idle", pc' \in {"idle", "parent", "mkdir", "target", "open"},
         depth' \in Nat, result' \in {"none", "ok", "failed"},
         result' = "ok" => pc = "entry" /\ current > Len(arc)
  PROVE  IInv'
<1> USE DEF IInv
<1>1. TypeOK'
  BY DEF TypeOK, InDirectory
<1>2. OpenedFiles'
  BY DEF OpenedFiles
<1>3. ASSUME result' = "ok"
      PROVE  current = Len(arc) + 1 /\ files = Len(arc) /\ \A p \in mine : tree[p].whole
  <2>1. current \in 0 .. Len(arc) + 1 /\ Len(arc) \in Nat
    BY ArchiveFacts DEF TypeOK
  <2>2. files = current - 1
    BY <1>3 DEF CallShape
  <2>3. \A p \in mine : tree[p].whole
    BY <1>3 DEF OpenedFiles
  <2>4. QED
    BY <1>3, <2>1, <2>2, <2>3
<1>4. ExtractedInOrder'
  BY <1>3 DEF ExtractedInOrder
<1>5. QED
  BY <1>1, <1>2, <1>4

\* NextEntry ends the call behind the last entry, or starts on a path below the output.
LEMMA NextEntryIInv ==
  ASSUME IInv, NextEntry PROVE IInv'
<1>1. TypeOK /\ CallShape
  BY DEF IInv
<1>2. ASSUME current <= Len(arc), Target # <<>>
      PROVE  current \in DOMAIN arc /\ Target \in Paths /\ 1 \in 1 .. Len(Target)
  <2>1. current \in 1 .. Len(arc)
    BY <1>1, <1>2, ArchiveFacts DEF NextEntry, CallShape
  <2>2. Target \in Paths
    BY <1>1, <1>2, <2>1, ArchiveFacts DEF Target
  <2>3. QED
    BY <1>1, <2>1, <2>2, ArchiveFacts, PathFacts
<1>3. Target' = Target
  BY DEF NextEntry, Target
<1>4. current \in Nat /\ Len(arc) \in Nat
  BY <1>1, ArchiveFacts
<1>5. CallShape'
  BY <1>1, <1>2, <1>3, <1>4 DEF NextEntry, CallShape, Return
<1>6. /\ pc' \in {"idle", "parent"} /\ depth' \in Nat /\ result' \in {"none", "ok", "failed"}
      /\ result' = "ok" => current > Len(arc)
  BY <1>1 DEF NextEntry, CallShape, Return
<1>7. pc = "entry" /\ UNCHANGED <<arc, tree, overwrite, current, mine, files>>
  BY DEF NextEntry
<1>8. QED
  BY <1>5, <1>6, <1>7, ControlStep

\* CheckParent looks, one component at a time, and touches nothing.
LEMMA CheckParentIInv ==
  ASSUME IInv, CheckParent PROVE IInv'
<1>1. TypeOK /\ CallShape /\ pc = "parent"
  BY DEF IInv, CheckParent
<1>2. Target' = Target
  BY DEF CheckParent, Target
<1>3. Target \in Paths /\ depth \in 1 .. Len(Target) /\ Len(Target) \in Nat
  BY <1>1, PathFacts DEF CallShape
<1>4. ASSUME depth # Len(Target), tree[Prefix].kind = "dir"
      PROVE  \A d \in 1 .. depth : tree[SubSeq(Target, 1, d)].kind = "dir"
  BY <1>1, <1>3, <1>4 DEF CallShape, Prefix
<1>5. CallShape'
  BY <1>1, <1>2, <1>3, <1>4 DEF CheckParent, CallShape, Return, Goto
<1>6. pc' \in {"idle", "parent", "mkdir", "target"} /\ depth' \in Nat /\ result' \in {"none", "failed"}
  BY <1>1, <1>3 DEF CheckParent, CallShape, Return, Goto
<1>7. QED
  BY <1>1, <1>5, <1>6, ControlStep DEF CheckParent

\* CheckTarget looks, and touches nothing.
LEMMA CheckTargetIInv ==
  ASSUME IInv, CheckTarget PROVE IInv'
<1>1. TypeOK /\ CallShape /\ pc = "target"
  BY DEF IInv, CheckTarget
<1>2. Target' = Target
  BY DEF CheckTarget, Target
<1>3. CallShape'
  BY <1>1, <1>2 DEF CheckTarget, CallShape, Return, Goto
<1>4. pc' \in {"idle", "open"} /\ depth' \in Nat /\ result' \in {"none", "failed"}
  BY <1>1 DEF CheckTarget, CallShape, TypeOK, Return, Goto
<1>5. QED
  BY <1>1, <1>3, <1>4, ControlStep DEF CheckTarget

\* Fails: the call ends and touches nothing.
LEMMA FailsIInv ==
  ASSUME IInv, Fails PROVE IInv'
<1>1. CallShape'
  BY DEF Fails, CallShape, Return
<1>2. QED
  BY <1>1, ControlStep DEF Fails, Return

\* ExtractTo starts a call that has opened nothing yet.
LEMMA ExtractToIInv ==
  ASSUME IInv, NEW over \in BOOLEAN, ExtractTo(over) PROVE IInv'
<1>1. TypeOK
  BY DEF IInv
<1>2. Len(arc) \in Nat /\ DOMAIN arc = 1 .. Len(arc)
  BY <1>1, ArchiveFacts
<1>3. TypeOK'
  BY <1>1, <1>2 DEF ExtractTo, TypeOK, InDirectory
<1>4. CallShape' /\ OpenedFiles'
  BY DEF ExtractTo, CallShape, OpenedFiles
<1>5. ExtractedInOrder'
  BY <1>2 DEF ExtractTo, ExtractedInOrder
<1>6. QED
  BY <1>3, <1>4, <1>5 DEF IInv

\* A node put where nothing is belongs to no file of the call.
LEMMA PutElsewhere ==
  ASSUME IInv, NEW q \in Paths, tree[q] = Absent, InDirectory(tree, q),
         NEW kind \in {"dir", "file"}, tree' = [tree EXCEPT ![q] = Theirs(kind)],
         UNCHANGED <<arc, overwrite, current, mine, files>>
  PROVE  /\ tree' \in [Paths -> Nodes]
         /\ \A p \in Paths : tree'[p] # Absent => InDirectory(tree', p)
         /\ \A p \in Paths : tree[p].kind = "dir" => tree'[p] = tree[p]
         /\ \A p \in mine : tree'[p] = tree[p]
         /\ tree'[q].kind = kind
<1>1. Theirs(kind) \in Nodes /\ Theirs(kind).kind = kind
  BY DEF Theirs, Node, Nodes
<1>2. tree[q].kind = "absent"
  BY DEF Absent, Node
<1>3. tree \in [Paths -> Nodes] /\ \A p \in Paths : tree[p] # Absent => InDirectory(tree, p)
  BY DEF IInv, TypeOK
<1>4. /\ tree' \in [Paths -> Nodes]
      /\ \A p \in Paths : tree'[p] # Absent => InDirectory(tree', p)
      /\ \A p \in Paths : p # q => tree'[p] = tree[p]
      /\ tree'[q] = Theirs(kind)
      /\ \A p \in Paths : tree[p].kind = "dir" => tree'[p] = tree[p]
  BY <1>1, <1>2, <1>3, PutNode
<1>5. q \notin mine /\ mine \subseteq Paths
  BY <1>2 DEF IInv, TypeOK, OpenedFiles
<1>6. QED
  BY <1>1, <1>4, <1>5

\* With the call's files as they were, what is known of them still holds.
LEMMA FilesStay ==
  ASSUME IInv, UNCHANGED <<arc, current, mine, files>>, \A p \in mine : tree'[p] = tree[p],
         \/ pc' = pc /\ result' = result
         \/ pc \notin {"idle", "read"} /\ pc' # "read" /\ result' # "ok"
         \/ pc' = "idle" /\ result' # "ok"
  PROVE  OpenedFiles' /\ ExtractedInOrder'
<1>1. Target' = Target
  BY DEF Target
<1>2. OpenedFiles'
  BY <1>1 DEF IInv, OpenedFiles
<1>3. ExtractedInOrder'
  BY DEF IInv, ExtractedInOrder
<1>4. QED
  BY <1>2, <1>3

\* SomeoneCreates puts something only where nothing was.
LEMMA SomeoneCreatesIInv ==
  ASSUME IInv, NEW q \in Paths, SomeoneCreates(q) PROVE IInv'
<1>1. PICK kind \in Occupied[q] \ {"link"} : tree' = [tree EXCEPT ![q] = Theirs(kind)]
  BY DEF SomeoneCreates
<1>2. kind \in {"dir", "file"}
  BY <1>1, ExtractionAssumption
<1>3. /\ tree' \in [Paths -> Nodes]
      /\ \A p \in Paths : tree'[p] # Absent => InDirectory(tree', p)
      /\ \A p \in Paths : tree[p].kind = "dir" => tree'[p] = tree[p]
      /\ \A p \in mine : tree'[p] = tree[p]
  BY <1>1, <1>2, PutElsewhere DEF SomeoneCreates
<1>4. TypeOK'
  BY <1>3 DEF SomeoneCreates, IInv, TypeOK
<1>5. CallShape'
  <2>1. Target' = Target
    BY DEF SomeoneCreates, Target
  <2>2. ASSUME pc \notin {"idle", "entry"}, NEW d \in 1 .. depth - 1
        PROVE  tree'[SubSeq(Target, 1, d)].kind = "dir"
    <3>1. /\ Target \in Paths /\ depth \in 1 .. Len(Target)
          /\ tree[SubSeq(Target, 1, d)].kind = "dir"
      BY <2>2 DEF IInv, CallShape
    <3>2. SubSeq(Target, 1, d) \in Paths
      <4>1. d \in 1 .. Len(Target)
        BY <3>1, PathFacts
      <4>2. QED
        BY <3>1, <4>1, PrefixFacts
    <3>3. QED
      BY <1>3, <3>1, <3>2
  <2>3. QED
    BY <2>1, <2>2 DEF SomeoneCreates, IInv, CallShape
<1>6. OpenedFiles' /\ ExtractedInOrder'
  BY <1>3, FilesStay DEF SomeoneCreates
<1>7. QED
  BY <1>4, <1>5, <1>6 DEF IInv

\* MakeParent creates a directory where nothing is, or ends the call.
LEMMA MakeParentIInv ==
  ASSUME IInv, MakeParent PROVE IInv'
<1>1. TypeOK /\ CallShape /\ pc = "mkdir"
  BY DEF IInv, MakeParent
<1>2. Target' = Target
  BY DEF MakeParent, Target
<1>3. Target \in Paths /\ Prefix \in Paths /\ InDirectory(tree, Prefix)
  BY <1>1, CheckedPrefix
<1>4. /\ depth \in 1 .. Len(Target) /\ Len(Target) \in Nat /\ depth < Len(Target)
      /\ \A d \in 1 .. depth - 1 : tree[SubSeq(Target, 1, d)].kind = "dir"
  BY <1>1, <1>3, PathFacts DEF CallShape
<1>5. CASE tree[Prefix] # Absent
  <2>1. pc' = "idle" /\ depth' = 0 /\ result' = "failed"
        /\ UNCHANGED <<arc, tree, overwrite, current, mine, files>>
    BY <1>5 DEF MakeParent, Return
  <2>2. CallShape'
    BY <2>1 DEF CallShape
  <2>3. QED
    BY <2>1, <2>2, ControlStep
<1>6. CASE tree[Prefix] = Absent
  <2>1. /\ tree' = [tree EXCEPT ![Prefix] = Theirs("dir")]
        /\ pc' = "parent" /\ depth' = depth + 1 /\ result' = result
        /\ UNCHANGED <<arc, overwrite, current, mine, files>>
    BY <1>6 DEF MakeParent, Directory, Theirs, Node
  <2>2. /\ tree' \in [Paths -> Nodes]
        /\ \A p \in Paths : tree'[p] # Absent => InDirectory(tree', p)
        /\ \A p \in Paths : tree[p].kind = "dir" => tree'[p] = tree[p]
        /\ \A p \in mine : tree'[p] = tree[p]
        /\ tree'[Prefix].kind = "dir"
    BY <1>3, <1>6, <2>1, PutElsewhere
  <2>3. TypeOK'
    <3>1. overwrite \in BOOLEAN /\ current \in 0 .. Len(arc) + 1 /\ arc \in Archives
          /\ mine \subseteq Paths /\ files \in Nat /\ result \in {"none", "ok", "failed"}
      BY <1>1 DEF TypeOK
    <3>2. depth + 1 \in Nat
      BY <1>4
    <3>3. QED
      BY <2>1, <2>2, <3>1, <3>2 DEF TypeOK, InDirectory
  <2>4. ASSUME NEW d \in 1 .. depth PROVE tree'[SubSeq(Target, 1, d)].kind = "dir"
    <3>1. CASE d = depth
      BY <2>2, <3>1 DEF Prefix
    <3>2. CASE d \in 1 .. depth - 1
      <4>1. d \in 1 .. Len(Target)
        BY <1>4, <3>2
      <4>2. SubSeq(Target, 1, d) \in Paths
        BY <1>3, <4>1, PrefixFacts
      <4>3. QED
        BY <1>4, <2>2, <3>2, <4>2
    <3>3. QED
      BY <1>4, <3>1, <3>2
  <2>5. CallShape'
    BY <1>1, <1>2, <1>3, <1>4, <2>1, <2>4 DEF CallShape
  <2>6. OpenedFiles' /\ ExtractedInOrder'
    <3>1. result = "none"
      BY <1>1 DEF CallShape
    <3>2. QED
      BY <1>1, <2>1, <2>2, <3>1, FilesStay
  <2>7. QED
    BY <2>3, <2>5, <2>6 DEF IInv
<1>7. QED
  BY <1>5, <1>6

\* OpenTarget opens the file of the current entry, or ends the call.
LEMMA OpenTargetIInv ==
  ASSUME IInv, OpenTarget PROVE IInv'
<1>1. TypeOK /\ CallShape /\ OpenedFiles /\ ExtractedInOrder /\ pc = "open"
  BY DEF IInv, OpenTarget
<1>2. Target' = Target /\ Relative(arc[current]) = Target
  BY DEF OpenTarget, Target
<1>3. Target \in Paths /\ InDirectory(tree, Target)
  BY <1>1, CheckedPrefix DEF CallShape
<1>4. /\ depth \in 1 .. Len(Target) /\ Len(Target) \in Nat /\ depth = Len(Target)
      /\ \A d \in 1 .. depth - 1 : tree[SubSeq(Target, 1, d)].kind = "dir"
      /\ current \in DOMAIN arc /\ current \in Nat /\ result = "none"
  BY <1>1, <1>3, PathFacts, ArchiveFacts DEF CallShape
<1>5. CASE pc' # "idle"
  <2> DEFINE node == Node("file", current, FALSE)
  <2>1. /\ tree[Target] = Absent \/ tree[Target].kind = "file"
        /\ tree' = [tree EXCEPT ![Target] = node] /\ mine' = mine \cup {Target}
        /\ pc' = "read" /\ depth' = depth /\ result' = result
        /\ UNCHANGED <<arc, overwrite, current, files>>
    BY <1>5 DEF OpenTarget, Return, Goto
  <2>2. /\ node \in Nodes /\ node.kind = "file" /\ node.of = current /\ tree[Target].kind # "dir"
    BY <1>4, <2>1 DEF Node, Nodes, Absent
  <2>3. /\ tree' \in [Paths -> Nodes]
        /\ \A p \in Paths : tree'[p] # Absent => InDirectory(tree', p)
        /\ \A p \in Paths : p # Target => tree'[p] = tree[p]
        /\ tree'[Target] = node
        /\ \A p \in Paths : tree[p].kind = "dir" => tree'[p] = tree[p]
    BY <1>1, <1>3, <2>1, <2>2, PutNode DEF TypeOK
  <2>4. TypeOK'
    BY <1>1, <1>3, <2>1, <2>3 DEF TypeOK, InDirectory
  <2>5. ASSUME NEW d \in 1 .. depth - 1 PROVE tree'[SubSeq(Target, 1, d)].kind = "dir"
    <3>1. d \in 1 .. Len(Target)
      BY <1>4
    <3>2. SubSeq(Target, 1, d) \in Paths
      BY <1>3, <3>1, PrefixFacts
    <3>3. QED
      BY <1>4, <2>3, <3>2
  <2>6. CallShape'
    BY <1>1, <1>2, <1>3, <1>4, <2>1, <2>5 DEF CallShape
  <2>7. \A p \in mine : p # Target => tree'[p] = tree[p] /\ tree[p].whole /\ tree[p].of < current
    BY <1>1, <2>3 DEF TypeOK, OpenedFiles
  <2>8. OpenedFiles'
    <3>1. ASSUME NEW p \in mine'
          PROVE  /\ tree'[p].kind = "file" /\ tree'[p].of \in DOMAIN arc' /\ tree'[p].of <= current'
                 /\ Relative(arc'[tree'[p].of]) = p
      <4>1. CASE p = Target
        <5>1. tree'[p].kind = "file" /\ tree'[p].of = current
          BY <2>2, <2>3, <4>1
        <5>2. arc' = arc /\ current' = current
          BY <2>1
        <5>3. QED
          BY <1>2, <1>4, <4>1, <5>1, <5>2
      <4>2. CASE p \in mine /\ p # Target
        BY <1>1, <2>1, <2>7, <4>2 DEF OpenedFiles
      <4>3. QED
        BY <2>1, <4>1, <4>2
    <3>2. Target' \in mine' /\ tree'[Target'].of = current'
      BY <1>2, <2>1, <2>2, <2>3
    <3>3. QED
      BY <2>1, <3>1, <3>2 DEF OpenedFiles
  <2>9. ExtractedInOrder'
    <3>1. \A p \in mine' : tree'[p].whole \/ tree'[p].of = current'
      BY <2>1, <2>2, <2>3, <2>7
    <3>2. ASSUME NEW e \in DOMAIN arc', e < current'
          PROVE  /\ Relative(arc'[e]) \in mine' /\ tree'[Relative(arc'[e])].of >= e
                 /\ Relative(arc'[tree'[Relative(arc'[e])].of]) = Relative(arc'[e])
      <4>1. e \in DOMAIN arc /\ e < current /\ arc' = arc /\ e \in Nat
        BY <1>1, <2>1, <3>2, ArchiveFacts
      <4>2. /\ Relative(arc[e]) \in mine /\ tree[Relative(arc[e])].of >= e
            /\ Relative(arc[tree[Relative(arc[e])].of]) = Relative(arc[e])
        BY <1>1, <4>1 DEF ExtractedInOrder
      <4>3. CASE Relative(arc[e]) = Target
        <5>1. tree'[Target].of = current
          BY <2>2, <2>3
        <5>2. arc' = arc /\ mine' = mine \cup {Target}
          BY <2>1
        <5>3. QED
          BY <1>2, <1>4, <4>1, <4>3, <5>1, <5>2
      <4>4. CASE Relative(arc[e]) # Target
        BY <2>1, <2>7, <4>1, <4>2, <4>4
      <4>5. QED
        BY <4>3, <4>4
    <3>3. result' # "ok"
      BY <1>4, <2>1
    <3>4. QED
      BY <3>1, <3>2, <3>3 DEF ExtractedInOrder
  <2>10. QED
    BY <2>4, <2>6, <2>8, <2>9 DEF IInv
<1>6. CASE pc' = "idle"
  <2>1. depth' = 0 /\ result' = "failed" /\ UNCHANGED <<arc, tree, overwrite, current, mine, files>>
    BY <1>6 DEF OpenTarget, Return, Goto
  <2>2. CallShape'
    BY <1>6, <2>1 DEF CallShape
  <2>3. QED
    BY <1>6, <2>1, <2>2, ControlStep
<1>7. QED
  BY <1>5, <1>6

\* ReadEntry completes the file of the current entry, and counts it.
LEMMA ReadEntryIInv ==
  ASSUME IInv, ReadEntry PROVE IInv'
<1>1. TypeOK /\ CallShape /\ OpenedFiles /\ ExtractedInOrder /\ pc = "read"
  BY DEF IInv, ReadEntry
<1>2. /\ Target \in Paths /\ InDirectory(tree, Target) /\ Target \in mine
      /\ tree[Target].of = current /\ tree[Target].kind = "file"
      /\ Relative(arc[current]) = Target
  BY <1>1, CheckedPrefix DEF CallShape, OpenedFiles, Target
<1>3. /\ current \in DOMAIN arc /\ DOMAIN arc = 1 .. Len(arc) /\ Len(arc) \in Nat /\ current \in Nat
      /\ result = "none" /\ files = current - 1
  BY <1>1, ArchiveFacts DEF CallShape
<1> DEFINE node == [tree[Target] EXCEPT !.whole = TRUE]
<1>4. /\ tree' = [tree EXCEPT ![Target] = node]
      /\ node \in Nodes /\ node.kind = "file" /\ node.of = current /\ node.whole
  BY <1>1, <1>2, CompletedNode DEF ReadEntry, TypeOK
<1>5. /\ pc' = "entry" /\ depth' = depth /\ result' = "none" /\ files' = files + 1
      /\ current' = current + 1 /\ UNCHANGED <<arc, overwrite, mine>>
  BY <1>3 DEF ReadEntry, Goto
<1> HIDE DEF node
<1>6. /\ tree' \in [Paths -> Nodes]
      /\ \A p \in Paths : tree'[p] # Absent => InDirectory(tree', p)
      /\ \A p \in Paths : p # Target => tree'[p] = tree[p]
      /\ tree'[Target] = node
  BY <1>1, <1>2, <1>4, PutNode DEF TypeOK
<1>7. TypeOK'
  <2>1. /\ overwrite \in BOOLEAN /\ arc \in Archives /\ mine \subseteq Paths /\ files \in Nat
        /\ depth \in Nat
    BY <1>1 DEF TypeOK
  <2>2. current + 1 \in 0 .. Len(arc) + 1 /\ files + 1 \in Nat
    BY <1>3, <2>1
  <2>3. QED
    BY <1>5, <1>6, <2>1, <2>2 DEF TypeOK, InDirectory
<1>8. CallShape'
  BY <1>3, <1>5 DEF CallShape
<1>9. \A p \in mine : tree'[p].whole /\ tree'[p].kind = "file" /\ tree'[p].of = tree[p].of
  <2>1. \A p \in mine : p # Target => tree[p].whole
    BY <1>1, <1>2, <1>3 DEF ExtractedInOrder, OpenedFiles, ReadEntry
  <2>2. QED
    BY <1>1, <1>2, <1>4, <1>6, <2>1 DEF TypeOK, OpenedFiles
<1>10. OpenedFiles'
  <2>1. \A p \in mine : tree[p].of \in DOMAIN arc /\ tree[p].of <= current /\ Relative(arc[tree[p].of]) = p
    BY <1>1 DEF OpenedFiles
  <2>2. \A p \in mine : tree[p].of < current + 1
    BY <1>3, <2>1
  <2>3. \A p \in mine : tree[p].of <= current + 1
    BY <1>3, <2>1
  <2>4. QED
    BY <1>5, <1>9, <2>1, <2>2, <2>3 DEF OpenedFiles
<1>11. ExtractedInOrder'
  <2>1. ASSUME NEW e \in DOMAIN arc, e < current + 1
        PROVE  /\ Relative(arc[e]) \in mine /\ tree[Relative(arc[e])].of >= e
               /\ Relative(arc[tree[Relative(arc[e])].of]) = Relative(arc[e])
    <3>1. CASE e = current
      BY <1>2, <1>3, <3>1
    <3>2. CASE e < current
      BY <1>1, <3>2 DEF ExtractedInOrder
    <3>3. QED
      BY <1>3, <2>1, <3>1, <3>2
  <2>2. QED
    BY <1>5, <1>9, <2>1 DEF ExtractedInOrder
<1>12. QED
  BY <1>7, <1>8, <1>10, <1>11 DEF IInv

\* Every step keeps the invariant.
LEMMA NextIInv == IInv /\ [Next]_vars => IInv'
<1> SUFFICES ASSUME IInv, [Next]_vars PROVE IInv'
  OBVIOUS
<1>1. ASSUME NEW p \in Paths, SomeoneCreates(p) PROVE IInv'
  BY <1>1, SomeoneCreatesIInv
<1>2. ASSUME NEW over \in BOOLEAN, ExtractTo(over) PROVE IInv'
  BY <1>2, ExtractToIInv
<1>3. CASE NextEntry
  BY <1>3, NextEntryIInv
<1>4. CASE CheckParent
  BY <1>4, CheckParentIInv
<1>5. CASE MakeParent
  BY <1>5, MakeParentIInv
<1>6. CASE CheckTarget
  BY <1>6, CheckTargetIInv
<1>7. CASE OpenTarget
  BY <1>7, OpenTargetIInv
<1>8. CASE ReadEntry
  BY <1>8, ReadEntryIInv
<1>9. CASE Fails
  BY <1>9, FailsIInv
<1>10. CASE UNCHANGED vars
  BY <1>10 DEF vars, IInv, TypeOK, InDirectory, CallShape, OpenedFiles, ExtractedInOrder, Target
<1>11. QED
  BY <1>1, <1>2, <1>3, <1>4, <1>5, <1>6, <1>7, <1>8, <1>9, <1>10 DEF Next

\* The inductive invariant holds in every state.
LEMMA Invariance == Spec => []IInv
<1>1. Init => IInv
  BY InitIInv
<1>2. IInv /\ [Next]_vars => IInv'
  BY NextIInv
<1>3. QED
  BY <1>1, <1>2, PTL DEF Spec

-----------------------------------------------------------------------------
(* Theorems *)

\* TypeOK, with its promise that whatever is in the tree is in a real
\* directory: nothing is extracted through a link or below a file
\* (Extractor::prepare_parent_directories, prepare_output_path).
THEOREM TypeCorrect == Spec => []TypeOK
<1>1. IInv => TypeOK
  BY DEF IInv
<1>2. QED
  BY <1>1, Invariance, PTL

\* ExtractedInOrder: however a call ends, the entries before the current one
\* are there in full and only the current one's file may be incomplete; Ok is
\* returned when all are there and counted (Extractor::extract_to).
THEOREM InOrder == Spec => []ExtractedInOrder
<1>1. IInv => ExtractedInOrder
  BY DEF IInv
<1>2. QED
  BY <1>1, Invariance, PTL

\* The step that LeavesOthersAlone is about.
LEMMA OthersStep ==
  ASSUME IInv, [Next]_vars, NEW p \in Paths, tree[p] # Absent, tree'[p] # tree[p]
  PROVE  /\ tree[p].kind = "file" /\ tree'[p].kind = "file"
         /\ overwrite \/ p \in mine
         /\ \E e \in DOMAIN arc : p = Relative(arc[e])
<1>1. TypeOK /\ CallShape /\ OpenedFiles
  BY DEF IInv
<1>2. CASE OpenTarget
  <2>1. Target \in Paths /\ current \in DOMAIN arc /\ Target = Relative(arc[current])
    BY <1>1, <1>2 DEF OpenTarget, CallShape, Target
  <2>2. /\ tree[Target] = Absent \/ (overwrite /\ tree[Target].kind = "file")
        /\ tree' = [tree EXCEPT ![Target] = Node("file", current, FALSE)]
    BY <1>2 DEF OpenTarget
  <2>3. p = Target /\ tree'[p] = Node("file", current, FALSE)
    BY <1>1, <2>1, <2>2 DEF TypeOK
  <2>4. QED
    BY <2>1, <2>2, <2>3 DEF Node
<1>3. CASE ReadEntry
  <2>1. /\ Target \in Paths /\ current \in DOMAIN arc /\ Target = Relative(arc[current])
        /\ Target \in mine /\ tree[Target].kind = "file"
    BY <1>1, <1>3 DEF ReadEntry, CallShape, OpenedFiles, Target
  <2> DEFINE node == [tree[Target] EXCEPT !.whole = TRUE]
  <2>2. tree' = [tree EXCEPT ![Target] = node] /\ node.kind = "file"
    BY <1>1, <1>3, <2>1, CompletedNode DEF ReadEntry, TypeOK
  <2> HIDE DEF node
  <2>3. p = Target /\ tree'[p] = node
    BY <1>1, <2>1, <2>2 DEF TypeOK
  <2>4. QED
    BY <2>1, <2>2, <2>3
<1>4. CASE MakeParent
  BY <1>1, <1>4, CheckedPrefix DEF MakeParent, TypeOK
<1>5. ASSUME NEW q \in Paths, SomeoneCreates(q) PROVE FALSE
  BY <1>1, <1>5 DEF SomeoneCreates, TypeOK
<1>6. CASE UNCHANGED tree
  BY <1>6
<1>7. QED
  BY <1>2, <1>3, <1>4, <1>5, <1>6
  DEF Next, vars, ExtractTo, NextEntry, CheckParent, CheckTarget, Fails

\* LeavesOthersAlone: of what is there, whoever put it there and whenever, only
\* files at the path of an entry are written to, and those of others only when
\* overwriting was asked for (prepare_output_path, File::create_new).
THEOREM OthersLeftAlone == Spec => LeavesOthersAlone
<1>1. IInv /\ [Next]_vars =>
        \A p \in Paths :
          tree[p] # Absent /\ tree'[p] # tree[p] =>
            /\ tree[p].kind = "file" /\ tree'[p].kind = "file"
            /\ overwrite \/ p \in mine
            /\ \E e \in DOMAIN arc : p = Relative(arc[e])
  BY OthersStep
<1>2. QED
  BY <1>1, Invariance, PTL DEF Spec, LeavesOthersAlone
=============================================================================
