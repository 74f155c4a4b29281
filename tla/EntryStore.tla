----------------------------- MODULE EntryStore -----------------------------
(***************************************************************************)
(* What an open archive promises its caller, without a word about when     *)
(* volumes are resolved or what is cached: reading an entry delivers its   *)
(* chunks in order, and it fails only at a chunk that could not be read    *)
(* from the volumes that were there when the call began.                   *)
(*                                                                         *)
(* Everything is judged afresh here, from the lengths of the volumes, with *)
(* the whole layout computed at once.  The one thing the store remembers   *)
(* is whether the DZ dictionary has been loaded, because from then on the  *)
(* dictionary's bytes are off the workspace of every decoder.              *)
(*                                                                         *)
(* The promise is for volumes that arrive whole.  A volume that is         *)
(* resolved while its file still grows keeps the layout of that moment.    *)
(***************************************************************************)
EXTENDS DzipArchive

CONSTANT Archives

VARIABLES
  arc,        \* the archive
  length,     \* the volumes that are there, by their lengths
  phase,      \* "prepared", "open" or "rejected"
  loaded,     \* whether the dictionary is in memory
  reading,    \* the entry being read, 0 for none
  since,      \* the volumes that were there when that read began
  out,        \* the chunks delivered
  result      \* of the last call: "none", "ok", "failed" or "output"

vars == <<arc, length, phase, loaded, reading, since, out, result>>

Init ==
  /\ arc \in Archives
  /\ length = MainOnly(arc) /\ since = MainOnly(arc)
  /\ phase = "prepared" /\ loaded = FALSE
  /\ reading = 0 /\ out = <<>> /\ result = "none"

-----------------------------------------------------------------------------
(* What can be read from volumes of the given lengths. *)

\* The volume is there and none of its chunks exceeds a limit.
VolumeUsable(v, lengths) ==
  /\ lengths[v] # NoLength
  /\ VolumeWithinLimits(arc, v, ResolveChunkLayout(arc.chunks, lengths))

CommonSize(lengths) ==
  MapThenSumSet(LAMBDA i : ResolveChunkLayout(arc.chunks, lengths)[i], CommonChunks(arc))

DictionaryLoadable(lengths) ==
  /\ \A i \in CommonChunks(arc) :
       LET n == ResolveChunkLayout(arc.chunks, lengths)[i]
       IN  /\ VolumeUsable(FileOf(arc, i), lengths)
           /\ CanReadAt(arc, i, n, lengths[FileOf(arc, i)])
           /\ CommonChunkWellFormed(arc, i, n)
  /\ CommonSize(lengths) <= arc.limits.workspace

\* Workspace left to a decoder: the dictionary's share is gone once it is held.
WorkspaceLeft(lengths, held) ==
  arc.limits.workspace - (IF held THEN CommonSize(lengths) ELSE 0)

Readable(i, lengths, held) ==
  LET n == PayloadReadLength(arc.chunks[i], ResolveChunkLayout(arc.chunks, lengths)[i])
  IN  /\ VolumeUsable(FileOf(arc, i), lengths)
      /\ Compression(arc, i) = "DZ" => held \/ DictionaryLoadable(lengths)
      /\ Compression(arc, i) # "ZERO" =>
           /\ CanReadAt(arc, i, n, lengths[FileOf(arc, i)])
           /\ n <= arc.limits.input
           /\ arc.chunks[i].work
                <= WorkspaceLeft(lengths, held \/ Compression(arc, i) = "DZ")
           /\ DecodeOutcomes(arc, i, n) = {"exact"}

-----------------------------------------------------------------------------
Open ==
  /\ phase = "prepared"
  /\ phase' = IF Admissible(arc) THEN "open" ELSE "rejected"
  /\ UNCHANGED <<arc, length, loaded, reading, since, out, result>>

VolumeArrives(v) ==
  /\ \E n \in arc.lengths[v] : n > length[v] /\ length' = [length EXCEPT ![v] = n]
  /\ UNCHANGED <<arc, phase, loaded, reading, since, out, result>>

\* A call that reads no entry: an unknown id, or resolving volumes in advance.
OtherCall ==
  /\ phase = "open" /\ reading = 0
  /\ result' \in {"none", "ok", "failed"} /\ out' = <<>>
  /\ UNCHANGED <<arc, length, phase, loaded, reading>>
  /\ since' \in {since, length}

BeginRead(e) ==
  /\ phase = "open" /\ reading = 0
  /\ reading' = e /\ since' = length /\ out' = <<>> /\ result' = "none"
  /\ UNCHANGED <<arc, length, phase, loaded>>

NextChunk == arc.entries[reading][Len(out) + 1]

LoadDictionary ==
  /\ reading # 0 /\ Len(out) < Len(arc.entries[reading])
  /\ Compression(arc, NextChunk) = "DZ" /\ ~loaded
  /\ DictionaryLoadable(length)
  /\ loaded' = TRUE
  /\ UNCHANGED <<arc, length, phase, reading, since, out, result>>

\* A DZ chunk is delivered only with the dictionary in memory.
Deliver ==
  /\ reading # 0 /\ Len(out) < Len(arc.entries[reading])
  /\ Compression(arc, NextChunk) = "DZ" => loaded
  /\ Readable(NextChunk, length, loaded)
  /\ out' = Append(out, [chunk |-> NextChunk, content |-> "exact"])
  /\ UNCHANGED <<arc, length, phase, loaded, reading, since, result>>

ReturnOk ==
  /\ reading # 0 /\ Len(out) = Len(arc.entries[reading])
  /\ reading' = 0 /\ result' = "ok"
  /\ UNCHANGED <<arc, length, phase, loaded, since, out>>

\* A read fails at a chunk that was not readable when the read began, or
\* because the writer refused a chunk that is.
ReturnError ==
  /\ reading # 0 /\ Len(out) < Len(arc.entries[reading])
  /\ \/ ~Readable(NextChunk, since, loaded) /\ result' = "failed"
     \/ Readable(NextChunk, length, loaded) /\ result' = "output"
  /\ reading' = 0
  /\ UNCHANGED <<arc, length, phase, loaded, since, out>>

Next ==
  \/ Open
  \/ \E v \in AuxVolumes : VolumeArrives(v)
  \/ OtherCall
  \/ \E e \in DOMAIN arc.entries : BeginRead(e)
  \/ LoadDictionary
  \/ Deliver
  \/ ReturnOk
  \/ ReturnError

Spec == Init /\ [][Next]_vars
=============================================================================
