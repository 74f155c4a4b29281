---------------------------- MODULE ArchiveImage ----------------------------
(***************************************************************************)
(* ArchiveImage: all volumes of an archive kept undecoded in memory,       *)
(* loaded by open_path (or handed over, from_volumes) and written back by  *)
(* write_to_path.                                                          *)
(*                                                                         *)
(* The bytes of a file are a value; the volume names inside a main file's  *)
(* bytes are NamesIn.  Loading and writing go file by file, and others may *)
(* replace a file in between.                                              *)
(***************************************************************************)
EXTENDS Integers, Sequences

CONSTANTS
  Paths,        \* the files
  Bytes,        \* what a file may hold
  NamesIn,      \* NamesIn[b]: names of the auxiliary volumes in a main file's metadata
  Declared,     \* Declared[b]: its num_archive_files field
  Holds,        \* Holds[p]: what file p may hold at first, or be replaced by
  Images,       \* the volume lists handed to from_volumes
  PathOf,       \* PathOf[n]: the file a name resolves to, Nowhere when it does not
  Torn,         \* what a failed write leaves: not the start of an archive
  Absent, Nowhere

ASSUME ImageAssumption ==
  /\ Absent \notin Bytes /\ Nowhere \notin Paths
  /\ \A b \in Bytes : Declared[b] \in Nat /\ NamesIn[b] \in Seq(DOMAIN PathOf)
  /\ \A n \in DOMAIN PathOf : PathOf[n] \in Paths \cup {Nowhere}
  /\ Images \subseteq Seq(Bytes) /\ \A p \in Paths : Holds[p] \subseteq Bytes
  /\ Torn \in Bytes /\ Declared[Torn] = 0 /\ NamesIn[Torn] = <<>>

VARIABLES
  disk,         \* disk[p]: the bytes of file p, or Absent
  volumes,      \* ArchiveImage::volumes, <<>> while there is no image
  pc, path, at, \* the running call, its path argument, the next volume
  result        \* "none", "ok" or "failed"

vars == <<disk, volumes, pc, path, at, result>>

NoPath == CHOOSE p \in Paths : TRUE

Init ==
  /\ disk \in [Paths -> Bytes \cup {Absent}]
  /\ \A p \in Paths : disk[p] \in Holds[p] \cup {Absent}
  /\ volumes = <<>>
  /\ pc = "idle" /\ path = NoPath /\ at = 0 /\ result = "none"

Return(r) == pc' = "idle" /\ path' = NoPath /\ at' = 0 /\ result' = r

\* Somebody else replaces a file while an image is being loaded.
Replaced(p) ==
  /\ pc = "open"
  /\ disk' \in {[disk EXCEPT ![p] = b] : b \in Holds[p]}
  /\ UNCHANGED <<volumes, pc, path, at, result>>

-----------------------------------------------------------------------------
(* Loading *)

Names == NamesIn[volumes[1]]

\* validate_volume_count
CountsAgree(image) ==
  /\ Declared[image[1]] = Len(NamesIn[image[1]]) + 1
  /\ Len(image) = Declared[image[1]]

FromVolumes(image) ==
  /\ pc = "idle" /\ volumes = <<>>
  /\ IF image # <<>> /\ CountsAgree(image)
     THEN volumes' = image /\ Return("ok")
     ELSE Return("failed") /\ UNCHANGED volumes
  /\ UNCHANGED disk

StartOpen(p) ==
  /\ pc = "idle" /\ volumes = <<>>
  /\ IF disk[p] = Absent THEN Return("failed") /\ UNCHANGED volumes
     ELSE /\ volumes' = <<disk[p]>>
          /\ pc' = "open" /\ path' = p /\ at' = 1 /\ result' = "none"
  /\ UNCHANGED disk

OpenNextVolume ==
  /\ pc = "open"
  /\ IF at > Len(Names)
     THEN IF CountsAgree(volumes) THEN Return("ok") /\ UNCHANGED volumes
                                  ELSE Return("failed") /\ volumes' = <<>>
     ELSE LET p == PathOf[Names[at]]
          IN  IF p = Nowhere THEN Return("failed") /\ volumes' = <<>>
              ELSE IF disk[p] = Absent THEN Return("failed") /\ volumes' = <<>>
              ELSE /\ volumes' = Append(volumes, disk[p])
                   /\ at' = at + 1 /\ UNCHANGED <<pc, path, result>>
  /\ UNCHANGED disk

-----------------------------------------------------------------------------
(* Writing *)

\* Mutant: names are resolved after the main volume is written.
StartWriteLazily(p) ==
  /\ pc = "idle" /\ volumes # <<>>
  /\ IF \E k \in DOMAIN Names : PathOf[Names[k]] = Nowhere
     THEN disk' = [disk EXCEPT ![p] = volumes[1]] /\ Return("failed")
     ELSE UNCHANGED disk /\ pc' = "write" /\ path' = p /\ at' = 0 /\ result' = "none"
  /\ UNCHANGED volumes

\* All names are resolved before anything is created.
StartWrite(p) ==
  /\ pc = "idle" /\ volumes # <<>>
  /\ IF \E k \in DOMAIN Names : PathOf[Names[k]] = Nowhere THEN Return("failed")
     ELSE pc' = "write" /\ path' = p /\ at' = 0 /\ result' = "none"
  /\ UNCHANGED <<disk, volumes>>

Target(v) == IF v = 0 THEN path ELSE PathOf[Names[v]]

\* Mutant: the auxiliary volumes are numbered from one.
WriteVolumeShifted ==
  /\ pc = "write"
  /\ IF at > Len(Names) THEN Return("ok") /\ UNCHANGED disk
     ELSE /\ disk' = [disk EXCEPT ![Target(at)] = volumes[IF at = 0 THEN 1 ELSE at]]
          /\ at' = at + 1 /\ UNCHANGED <<pc, path, result>>
  /\ UNCHANGED volumes

WriteVolume ==
  /\ pc = "write"
  /\ IF at > Len(Names) THEN Return("ok") /\ UNCHANGED disk
     ELSE /\ disk' = [disk EXCEPT ![Target(at)] = volumes[at + 1]]
          /\ at' = at + 1 /\ UNCHANGED <<pc, path, result>>
  /\ UNCHANGED volumes

\* A file cannot be read ...
ReadFails ==
  /\ pc = "open"
  /\ volumes' = <<>>
  /\ Return("failed")
  /\ UNCHANGED disk

\* ... or it cannot be created, or not written to its end.
WriteFails ==
  /\ pc = "write" /\ at <= Len(Names)
  /\ disk' \in {disk, [disk EXCEPT ![Target(at)] = Torn]}
  /\ Return("failed")
  /\ UNCHANGED volumes

\* The caller drops the image.
Drop ==
  /\ pc = "idle" /\ volumes # <<>>
  /\ volumes' = <<>> /\ result' = "none"
  /\ UNCHANGED <<disk, pc, path, at>>

Next ==
  \/ \E p \in Paths : Replaced(p) \/ StartOpen(p) \/ StartWrite(p)
  \/ \E image \in Images : FromVolumes(image)
  \/ OpenNextVolume
  \/ WriteVolume
  \/ ReadFails
  \/ WriteFails
  \/ Drop

Spec == Init /\ [][Next]_vars

-----------------------------------------------------------------------------
(* Properties *)

AllWritten ==
  \A v \in 0 .. Len(Names) : disk'[Target(v)] = volumes[v + 1]

\* "Write every retained volume without changing any byte" (the comment on
\* write_to_path): when it returns Ok, every volume is in its file.
WritesEveryVolume == [][ pc = "write" /\ result' = "ok" => AllWritten ]_vars

\* That much holds when no two volumes go to the same file.
WritesDistinctVolumes ==
  [][ /\ pc = "write" /\ result' = "ok"
      /\ \A v, w \in 0 .. Len(Names) : Target(v) = Target(w) => v = w
      => AllWritten ]_vars

\* "... so an invalid auxiliary path cannot leave a partially rewritten archive
\* behind": with a name among its volumes that leads nowhere, no call on an image touches
\* a file.  A name that leads to a directory is found only when it is written (WriteFails).
BadNameTouchesNothing ==
  [][ /\ pc # "open" /\ volumes # <<>>
      /\ \E k \in DOMAIN Names : PathOf[Names[k]] = Nowhere
      => UNCHANGED disk ]_vars
=============================================================================
