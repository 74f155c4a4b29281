------------------------- MODULE ArchiveImageProofs -------------------------
(***************************************************************************)
(* What holds of an archive image for every set of files, every content    *)
(* and every way files are replaced or fail meanwhile.                     *)
(***************************************************************************)
EXTENDS ArchiveImage, SequenceTheorems, TLAPS

-----------------------------------------------------------------------------
(* The inductive invariant *)

Distinct == \A v, w \in 0 .. Len(Names) : Target(v) = Target(w) => v = w

\* Where a call may be, and what an image that is at rest or being written
\* has passed: its volumes are as many as its metadata declares and names.
CallShape ==
  /\ disk \in [Paths -> Bytes \cup {Absent}]
  /\ volumes \in Seq(Bytes)
  /\ pc \in {"idle", "open", "write"}
  /\ pc \in {"idle", "write"} /\ volumes # <<>> => CountsAgree(volumes)
  /\ pc = "open" => volumes # <<>> /\ at \in Nat \ {0}
  /\ pc = "write" =>
       /\ volumes # <<>> /\ path \in Paths /\ at \in 0 .. Len(Names) + 1
       /\ \A k \in DOMAIN Names : PathOf[Names[k]] # Nowhere
       /\ result = "none"

\* The volumes before the next one are in their files, unless one of them
\* shares its file with another.
WrittenSoFar ==
  pc = "write" /\ Distinct => \A v \in 0 .. at - 1 : disk[Target(v)] = volumes[v + 1]

IInv == CallShape /\ WrittenSoFar

-----------------------------------------------------------------------------
(* Names and volumes *)

\* The names in an image's main volume, and the files they resolve to.
LEMMA NamesFacts ==
  ASSUME volumes \in Seq(Bytes), volumes # <<>>
  PROVE  /\ volumes[1] \in Bytes /\ Declared[volumes[1]] \in Nat
         /\ Names \in Seq(DOMAIN PathOf) /\ Len(Names) \in Nat /\ DOMAIN Names = 1 .. Len(Names)
         /\ \A k \in DOMAIN Names : PathOf[Names[k]] \in Paths \cup {Nowhere}
<1>1. volumes[1] \in Bytes
  <2>1. Len(volumes) \in Nat \ {0}
    BY EmptySeq
  <2>2. 1 \in 1 .. Len(volumes)
    BY <2>1
  <2>3. QED
    BY <2>2, ElementOfSeq
<1>2. Declared[volumes[1]] \in Nat /\ Names \in Seq(DOMAIN PathOf)
  BY <1>1, ImageAssumption DEF Names
<1>3. Len(Names) \in Nat /\ DOMAIN Names = 1 .. Len(Names)
  BY <1>2, LenProperties
<1>4. \A k \in DOMAIN Names : Names[k] \in DOMAIN PathOf
  BY <1>2, <1>3, ElementOfSeq
<1>5. QED
  BY <1>1, <1>2, <1>3, <1>4, ImageAssumption

\* What is known while an image is written: it has one volume more than names,
\* and each of them has a file.
LEMMA WriteFacts ==
  ASSUME CallShape, pc = "write"
  PROVE  /\ Len(Names) \in Nat /\ DOMAIN Names = 1 .. Len(Names) /\ at \in 0 .. Len(Names) + 1
         /\ \A v \in 0 .. Len(Names) : Target(v) \in Paths /\ volumes[v + 1] \in Bytes
<1>1. /\ volumes \in Seq(Bytes) /\ volumes # <<>> /\ path \in Paths
      /\ at \in 0 .. Len(Names) + 1
      /\ \A k \in DOMAIN Names : PathOf[Names[k]] # Nowhere
      /\ CountsAgree(volumes)
  BY DEF CallShape
<1>2. /\ Len(Names) \in Nat /\ DOMAIN Names = 1 .. Len(Names)
      /\ \A k \in DOMAIN Names : PathOf[Names[k]] \in Paths
  BY <1>1, NamesFacts
<1>3. Len(volumes) = Len(Names) + 1
  BY <1>1 DEF CountsAgree, Names
<1>4. ASSUME NEW v \in 0 .. Len(Names) PROVE Target(v) \in Paths
  <2>1. v # 0 => v \in DOMAIN Names
    BY <1>2
  <2>2. QED
    BY <1>1, <1>2, <2>1 DEF Target
<1>5. ASSUME NEW v \in 0 .. Len(Names) PROVE volumes[v + 1] \in Bytes
  <2>1. v + 1 \in 1 .. Len(volumes)
    BY <1>2, <1>3
  <2>2. QED
    BY <1>1, <2>1, ElementOfSeq
<1>6. QED
  BY <1>1, <1>2, <1>4, <1>5

-----------------------------------------------------------------------------
(* Each action keeps the invariant *)

\* Before the first call no image is held.
LEMMA InitIInv == Init => IInv
BY DEF Init, IInv, CallShape, WrittenSoFar

\* A call that ends leaves an image that is complete, or none.
LEMMA Ends ==
  ASSUME IInv, disk' \in [Paths -> Bytes \cup {Absent}], pc' = "idle",
         volumes' \in Seq(Bytes), volumes' # <<>> => CountsAgree(volumes')
  PROVE  IInv'
BY DEF IInv, CallShape, WrittenSoFar

\* Replaced: another process replaces a file, and nothing of the call.
LEMMA ReplacedIInv ==
  ASSUME IInv, NEW p \in Paths, Replaced(p) PROVE IInv'
<1>1. PICK b \in Holds[p] : disk' = [disk EXCEPT ![p] = b]
  BY DEF Replaced
<1>2. disk' \in [Paths -> Bytes \cup {Absent}]
  BY <1>1, ImageAssumption DEF IInv, CallShape
<1>3. QED
  BY <1>2 DEF Replaced, IInv, CallShape, WrittenSoFar

\* FromVolumes installs a complete image, or fails and leaves the one it had.
LEMMA FromVolumesIInv ==
  ASSUME IInv, NEW image \in Images, FromVolumes(image) PROVE IInv'
<1>1. image \in Seq(Bytes) /\ pc' = "idle" /\ UNCHANGED disk
      /\ volumes' \in {image, volumes} /\ (volumes' = image \/ volumes' = <<>>)
      /\ (volumes' # <<>> => CountsAgree(volumes'))
  BY ImageAssumption DEF FromVolumes, Return
<1>2. QED
  BY <1>1, Ends DEF IInv, CallShape

\* StartOpen loads the main volume, or ends the call.
LEMMA StartOpenIInv ==
  ASSUME IInv, NEW p \in Paths, StartOpen(p) PROVE IInv'
<1>1. CASE disk[p] = Absent
  BY <1>1, Ends DEF StartOpen, Return, IInv, CallShape
<1>2. CASE disk[p] # Absent
  <2>1. disk[p] \in Bytes
    BY <1>2 DEF IInv, CallShape
  <2>2. /\ volumes' = <<disk[p]>> /\ pc' = "open" /\ at' = 1 /\ UNCHANGED disk
    BY <1>2 DEF StartOpen
  <2>3. volumes' \in Seq(Bytes) /\ volumes' # <<>>
    BY <2>1, <2>2
  <2>4. QED
    BY <2>2, <2>3 DEF IInv, CallShape, WrittenSoFar
<1>3. QED
  BY <1>1, <1>2

\* OpenNextVolume loads the next auxiliary volume, or ends the call.
LEMMA OpenNextVolumeIInv ==
  ASSUME IInv, OpenNextVolume PROVE IInv'
<1>1. /\ disk' = disk /\ disk \in [Paths -> Bytes \cup {Absent}] /\ pc = "open"
      /\ volumes \in Seq(Bytes) /\ volumes # <<>> /\ at \in Nat \ {0}
  BY DEF OpenNextVolume, IInv, CallShape
<1>2. CASE pc' = "idle"
  <2>1. volumes' = <<>> \/ (volumes' = volumes /\ CountsAgree(volumes))
    BY <1>1, <1>2 DEF OpenNextVolume
  <2>2. volumes' \in Seq(Bytes) /\ (volumes' # <<>> => CountsAgree(volumes'))
    <3>1. CASE volumes' = <<>>
      BY <3>1, EmptySeq
    <3>2. CASE volumes' = volumes /\ CountsAgree(volumes)
      BY <1>1, <3>2 DEF CountsAgree
    <3>3. QED
      BY <2>1, <3>1, <3>2
  <2>3. QED
    BY <1>1, <1>2, <2>2, Ends
<1>3. CASE pc' # "idle"
  <2> DEFINE p == PathOf[Names[at]]
  <2>1. /\ at <= Len(Names) /\ p # Nowhere /\ disk[p] # Absent
        /\ volumes' = Append(volumes, disk[p]) /\ at' = at + 1 /\ pc' = pc
    <3>1. Len(Names) \in Nat
      BY <1>1, NamesFacts
    <3>2. QED
      BY <1>1, <1>3, <3>1 DEF OpenNextVolume, Return
  <2>2. p \in Paths
    <3>1. at \in DOMAIN Names
      BY <1>1, <2>1, NamesFacts
    <3>2. QED
      BY <1>1, <2>1, <3>1, NamesFacts
  <2>3. disk[p] \in Bytes
    BY <1>1, <2>1, <2>2
  <2>4. volumes' \in Seq(Bytes) /\ volumes' # <<>>
    BY <1>1, <2>1, <2>3
  <2>5. QED
    BY <1>1, <2>1, <2>4 DEF IInv, CallShape, WrittenSoFar
<1>4. QED
  BY <1>2, <1>3

\* A call on an image that writes nothing.
LEMMA SameFiles ==
  ASSUME IInv, UNCHANGED <<disk, volumes>>, pc' = "idle", pc # "open"
  PROVE  IInv'
BY Ends DEF IInv, CallShape, CountsAgree

\* StartWrite goes to the main volume, and only with names that all lead somewhere.
LEMMA StartWriteIInv ==
  ASSUME IInv, NEW p \in Paths, StartWrite(p) PROVE IInv'
<1>1. CASE \E k \in DOMAIN Names : PathOf[Names[k]] = Nowhere
  BY <1>1, SameFiles DEF StartWrite, Return
<1>2. CASE ~\E k \in DOMAIN Names : PathOf[Names[k]] = Nowhere
  <2>1. /\ pc = "idle" /\ volumes # <<>> /\ UNCHANGED <<disk, volumes>>
        /\ pc' = "write" /\ path' = p /\ at' = 0 /\ result' = "none"
    BY <1>2 DEF StartWrite
  <2>2. Names' = Names /\ Len(Names) \in Nat
    BY <2>1, NamesFacts DEF Names, IInv, CallShape
  <2>3. CallShape'
    BY <1>2, <2>1, <2>2 DEF IInv, CallShape, CountsAgree
  <2>4. WrittenSoFar'
    BY <2>1 DEF WrittenSoFar
  <2>5. QED
    BY <2>3, <2>4 DEF IInv
<1>3. QED
  BY <1>1, <1>2

\* WriteVolume fills the file of the volume at the cursor, and goes to the next.
LEMMA WriteVolumeIInv ==
  ASSUME IInv, WriteVolume PROVE IInv'
<1>1. CallShape /\ pc = "write" /\ volumes' = volumes
  BY DEF IInv, WriteVolume
<1>2. /\ Len(Names) \in Nat /\ at \in 0 .. Len(Names) + 1
      /\ \A v \in 0 .. Len(Names) : Target(v) \in Paths /\ volumes[v + 1] \in Bytes
  BY <1>1, WriteFacts
<1>3. CASE at > Len(Names)
  BY <1>1, <1>3, SameFiles DEF WriteVolume, Return
<1>4. CASE at <= Len(Names)
  <2>1. /\ disk' = [disk EXCEPT ![Target(at)] = volumes[at + 1]]
        /\ at' = at + 1 /\ UNCHANGED <<volumes, pc, path, result>>
    BY <1>2, <1>4 DEF WriteVolume
  <2>2. at \in 0 .. Len(Names)
    BY <1>2, <1>4
  <2>3. Names' = Names /\ \A v : Target(v)' = Target(v)
    BY <2>1 DEF Names, Target
  <2>4. /\ disk \in [Paths -> Bytes \cup {Absent}]
        /\ disk' \in [Paths -> Bytes \cup {Absent}]
    BY <1>1, <1>2, <2>1, <2>2 DEF CallShape
  <2>5. CallShape'
    <3>1. at' \in 0 .. Len(Names) + 1
      BY <1>2, <2>1, <2>2
    <3>2. QED
      BY <1>1, <2>1, <2>3, <2>4, <3>1 DEF CallShape, CountsAgree
  <2>6. ASSUME Distinct, NEW v \in 0 .. at PROVE disk'[Target(v)] = volumes[v + 1]
    <3>1. v \in 0 .. Len(Names) /\ Target(v) \in Paths /\ Target(at) \in Paths
      BY <1>2, <2>2
    <3>2. CASE v = at
      BY <2>1, <2>4, <3>1, <3>2
    <3>3. CASE v # at
      <4>1. v \in 0 .. at - 1
        BY <2>2, <3>3
      <4>2. disk[Target(v)] = volumes[v + 1]
        BY <1>1, <2>6, <4>1 DEF IInv, WrittenSoFar
      <4>3. Target(v) # Target(at)
        BY <2>2, <2>6, <3>1, <3>3 DEF Distinct
      <4>4. QED
        BY <2>1, <2>4, <3>1, <4>2, <4>3
    <3>4. QED
      BY <3>2, <3>3
  <2>7. Distinct' => Distinct
    BY <2>3 DEF Distinct
  <2>8. WrittenSoFar'
    <3>1. 0 .. at' - 1 = 0 .. at
      BY <2>1, <2>2
    <3>2. QED
      BY <2>1, <2>3, <2>6, <2>7, <3>1 DEF WrittenSoFar
  <2>9. QED
    BY <2>5, <2>8 DEF IInv
<1>5. QED
  BY <1>2, <1>3, <1>4

\* ReadFails ends a call that loads, and leaves the image it had.
LEMMA ReadFailsIInv ==
  ASSUME IInv, ReadFails PROVE IInv'
BY Ends, EmptySeq DEF ReadFails, Return, IInv, CallShape

\* WriteFails ends a call that writes; the files stay.
LEMMA WriteFailsIInv ==
  ASSUME IInv, WriteFails PROVE IInv'
<1>1. CallShape /\ pc = "write" /\ pc' = "idle" /\ volumes' = volumes
  BY DEF IInv, WriteFails, Return
<1>2. disk' \in [Paths -> Bytes \cup {Absent}]
  BY <1>1, ImageAssumption DEF WriteFails, CallShape
<1>3. volumes' \in Seq(Bytes) /\ CountsAgree(volumes')
  BY <1>1 DEF CallShape, CountsAgree
<1>4. QED
  BY <1>1, <1>2, <1>3, Ends

\* Drop forgets the image and nothing of the disk.
LEMMA DropIInv ==
  ASSUME IInv, Drop PROVE IInv'
BY Ends, EmptySeq DEF Drop, IInv, CallShape

\* Every step keeps the invariant.
LEMMA NextIInv == IInv /\ [Next]_vars => IInv'
<1> SUFFICES ASSUME IInv, [Next]_vars PROVE IInv'
  OBVIOUS
<1>1. ASSUME NEW p \in Paths, Replaced(p) \/ StartOpen(p) \/ StartWrite(p) PROVE IInv'
  BY <1>1, ReplacedIInv, StartOpenIInv, StartWriteIInv
<1>2. ASSUME NEW image \in Images, FromVolumes(image) PROVE IInv'
  BY <1>2, FromVolumesIInv
<1>3. CASE OpenNextVolume
  BY <1>3, OpenNextVolumeIInv
<1>4. CASE WriteVolume
  BY <1>4, WriteVolumeIInv
<1>5. CASE ReadFails
  BY <1>5, ReadFailsIInv
<1>6. CASE WriteFails
  BY <1>6, WriteFailsIInv
<1>7. CASE Drop
  BY <1>7, DropIInv
<1>8. CASE UNCHANGED vars
  BY <1>8 DEF vars, IInv, CallShape, CountsAgree, WrittenSoFar, Distinct, Names, Target
<1>9. QED
  BY <1>1, <1>2, <1>3, <1>4, <1>5, <1>6, <1>7, <1>8 DEF Next

\* Wherever a call may be, and whatever happens to the files meanwhile, the
\* image it works on has the volumes its metadata names, and those before the
\* next one are written.
LEMMA Invariance == Spec => []IInv
<1>1. Init => IInv
  BY InitIInv
<1>2. IInv /\ [Next]_vars => IInv'
  BY NextIInv
<1>3. QED
  BY <1>1, <1>2, PTL DEF Spec

-----------------------------------------------------------------------------
(* Theorems *)

\* A write that returns Ok has passed its last volume.
LEMMA OkStep ==
  ASSUME IInv, [Next]_vars, pc = "write", result' = "ok", Distinct
  PROVE  AllWritten
<1>1. CallShape /\ result = "none"
  BY DEF IInv, CallShape
<1>2. WriteVolume
  BY <1>1 DEF Next, vars, Replaced, StartOpen, StartWrite, FromVolumes, OpenNextVolume,
              ReadFails, WriteFails, Drop, Return
<1>3. /\ at > Len(Names) /\ UNCHANGED disk
  BY <1>1, <1>2 DEF WriteVolume
<1>4. Len(Names) \in Nat /\ at \in 0 .. Len(Names) + 1
  BY <1>1, WriteFacts
<1>5. 0 .. Len(Names) = 0 .. at - 1
  BY <1>3, <1>4
<1>6. \A v \in 0 .. Len(Names) : disk[Target(v)] = volumes[v + 1]
  BY <1>5 DEF IInv, WrittenSoFar
<1>7. QED
  BY <1>3, <1>6 DEF AllWritten

\* WritesDistinctVolumes: whatever is replaced while the image is loaded and
\* wherever an earlier write stopped, write_to_path returns Ok only with every
\* volume in its file, when no two share one.
THEOREM DistinctVolumesWritten == Spec => WritesDistinctVolumes
<1>1. IInv /\ [Next]_vars =>
        (/\ pc = "write" /\ result' = "ok"
         /\ \A v, w \in 0 .. Len(Names) : Target(v) = Target(w) => v = w
         => AllWritten)
  BY OkStep DEF Distinct
<1>2. QED
  BY <1>1, Invariance, PTL DEF Spec, WritesDistinctVolumes

\* BadNameTouchesNothing: write_to_path resolves all names before it creates a
\* file, so an image with an unusable name never gets as far as a write.
THEOREM BadNameIsHarmless == Spec => BadNameTouchesNothing
<1>1. IInv /\ [Next]_vars =>
        (/\ pc # "open" /\ volumes # <<>>
         /\ \E k \in DOMAIN Names : PathOf[Names[k]] = Nowhere
         => UNCHANGED disk)
  <2> SUFFICES ASSUME IInv, [Next]_vars, pc # "open",
                      \E k \in DOMAIN Names : PathOf[Names[k]] = Nowhere
               PROVE  UNCHANGED disk
    OBVIOUS
  <2>1. pc # "write"
    BY DEF IInv, CallShape
  <2>2. QED
    BY <2>1 DEF Next, vars, Replaced, StartOpen, StartWrite, FromVolumes, OpenNextVolume,
                WriteVolume, ReadFails, WriteFails, Drop
<1>2. QED
  BY <1>1, Invariance, PTL DEF Spec, BadNameTouchesNothing

\* An image that is at rest has exactly the volumes its main file declares and
\* names, so write_to_path finds a volume for every name (validate_volume_count).
THEOREM RestingImageIsComplete ==
  Spec => [](pc \in {"idle", "write"} /\ volumes # <<>> => CountsAgree(volumes))
<1>1. IInv => (pc \in {"idle", "write"} /\ volumes # <<>> => CountsAgree(volumes))
  BY DEF IInv, CallShape
<1>2. QED
  BY <1>1, Invariance, PTL
=============================================================================
