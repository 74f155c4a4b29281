--------------------------- MODULE ArchiveReader ----------------------------
(***************************************************************************)
(* Archive<R, V>: opening an archive, resolving its auxiliary volumes on   *)
(* first use, loading the shared DZ dictionary on first need, and reading  *)
(* entries chunk by chunk into a caller's writer.                          *)
(*                                                                         *)
(* One call runs at a time (the methods take &mut self), but the files of  *)
(* the auxiliary volumes belong to the outside: they may appear or grow    *)
(* between any two steps of a call.  `pc` is where the running call is:    *)
(*   idle     no call is running                                           *)
(*   volume   read_entry_to is about to resolve the current chunk's volume *)
(*   common   ensure_dz_context resolves the dictionary's volumes          *)
(*   weigh    load_dz_context_with_limits adds up the dictionary's bytes   *)
(*   load     it reads the dictionary and keeps it                         *)
(*   payload  the current chunk is read, decoded and written out           *)
(*   finish   all chunks are written                                       *)
(*   sweep    resolve_all_volumes walks over the volumes                   *)
(***************************************************************************)
EXTENDS DzipArchive

CONSTANT Archives      \* the archives to open

ASSUME ArchivesAssumption == \A a \in Archives : IsArchive(a)

VARIABLES
  arc,          \* the archive's parsed metadata
  length,       \* length[v]: current length of volume v's file, or NoLength
  phase,        \* "prepared", "open" or "rejected"
  sizes,        \* volume_sizes: the lengths of the volumes resolved so far
  resolved,     \* resolved_chunks: the physical length of each record
  dz_context,   \* whether dz_context is Some
  retained,     \* retained_bytes of the dictionary being loaded or loaded
  workspace,    \* codec_limits.max_workspace_size
  decode_buffer,   \* the chunk decoded last, whose memory the next one gets
  pc, entry, part,   \* the running call, its entry and current chunk
  todo,         \* the volumes or dictionary chunks the call has yet to visit
  out,          \* what read_entry_to has written
  result,       \* of the last call: "none", "ok", "failed" or "output"
  since         \* history: the volumes' lengths when the last read began

archiveVars == <<phase, sizes, resolved, dz_context, retained, workspace>>
callVars == <<pc, entry, part, todo, out, result>>
vars == <<arc, length, since, archiveVars, decode_buffer, callVars>>

Pcs == {"idle", "volume", "common", "weigh", "load", "payload", "finish", "sweep"}
Results == {"none", "ok", "failed", "output"}

-----------------------------------------------------------------------------
Init ==
  /\ arc \in Archives
  /\ length = MainOnly(arc) /\ since = MainOnly(arc)
  /\ phase = "prepared"
  /\ sizes = MainOnly(arc)
  /\ resolved = [i \in ChunkIds(arc) |-> 0]
  /\ dz_context = FALSE
  /\ retained = 0
  /\ workspace = arc.limits.workspace
  /\ decode_buffer = <<>>
  /\ pc = "idle" /\ entry = 0 /\ part = 0 /\ todo = {} /\ out = <<>>
  /\ result = "none"

\* ArchivePreparation::open, finish_open.
Open ==
  /\ phase = "prepared"
  /\ IF Admissible(arc)
     THEN /\ phase' = "open"
          /\ resolved' = ResolveChunkLayout(arc.chunks, MainOnly(arc))
     ELSE phase' = "rejected" /\ UNCHANGED resolved
  /\ UNCHANGED <<arc, length, since, decode_buffer, sizes, dz_context, retained, workspace, callVars>>

\* An auxiliary volume's file appears or grows.
VolumeArrives(v) ==
  /\ \E n \in arc.lengths[v] : n > length[v] /\ length' = [length EXCEPT ![v] = n]
  /\ UNCHANGED <<arc, since, decode_buffer, archiveVars, callVars>>

-----------------------------------------------------------------------------
(* The end of a call, with its result. *)
Return(r) ==
  /\ pc' = "idle" /\ entry' = 0 /\ part' = 0 /\ todo' = {} /\ result' = r

CurrentChunk == arc.entries[entry][part]

IsLeast(x, S) == x \in S /\ \A y \in S : x <= y

\* The layout resolve_volume_layout computes for a volume not resolved yet.
LayoutOf(v) == ResolveVolumeChunkLayout(arc.chunks, v, length[v], resolved)

\* resolve_volume_layout returns an error.
ResolutionFails(v) ==
  /\ sizes[v] = NoLength
  /\ length[v] = NoLength \/ ~VolumeWithinLimits(arc, v, LayoutOf(v))

\* Mutant: the size is recorded before the limits are checked.
ResolveVolumeLayoutRecordingFirst(v) ==
  IF sizes[v] # NoLength \/ length[v] = NoLength
  THEN UNCHANGED <<resolved, sizes>>
  ELSE resolved' = LayoutOf(v) /\ sizes' = [sizes EXCEPT ![v] = length[v]]

\* Mutant: a volume that is already resolved is laid out again.
ResolveVolumeLayoutAgain(v) ==
  IF length[v] = NoLength
  THEN UNCHANGED <<resolved, sizes>>
  ELSE /\ resolved' = LayoutOf(v)
       /\ sizes' = IF ResolutionFails(v) THEN sizes ELSE [sizes EXCEPT ![v] = length[v]]

\* Its effect: the layout is written before the limits are checked, the size is
\* recorded only after.
ResolveVolumeLayout(v) ==
  IF sizes[v] # NoLength \/ length[v] = NoLength
  THEN UNCHANGED <<resolved, sizes>>
  ELSE /\ resolved' = LayoutOf(v)
       /\ sizes' = IF ResolutionFails(v) THEN sizes ELSE [sizes EXCEPT ![v] = length[v]]

-----------------------------------------------------------------------------
(* resolve_volume and resolve_all_volumes *)

ResolveVolume(v) ==
  /\ phase = "open" /\ pc = "idle"
  /\ ResolveVolumeLayout(v)
  /\ Return(IF ResolutionFails(v) THEN "failed" ELSE "ok")
  /\ out' = <<>>
  /\ UNCHANGED <<arc, length, since, decode_buffer, phase, dz_context, retained, workspace>>

StartSweep ==
  /\ phase = "open" /\ pc = "idle"
  /\ pc' = "sweep"
  /\ todo' = {FileOf(arc, i) : i \in ChunkIds(arc)}
  /\ out' = <<>> /\ result' = "none"
  /\ UNCHANGED <<arc, length, since, decode_buffer, archiveVars, entry, part>>

\* Mutant: the walk does not move on to the next volume.
SweepVolumeStuck ==
  /\ pc = "sweep"
  /\ IF todo = {} THEN Return("ok") /\ UNCHANGED <<resolved, sizes>>
     ELSE \E v \in todo :
            /\ IsLeast(v, todo)
            /\ ResolveVolumeLayout(v)
            /\ IF ResolutionFails(v) THEN Return("failed")
               ELSE UNCHANGED <<pc, entry, part, todo, result>>
  /\ UNCHANGED <<arc, length, since, decode_buffer, phase, dz_context, retained, workspace, out>>

SweepVolume ==
  /\ pc = "sweep"
  /\ IF todo = {} THEN Return("ok") /\ UNCHANGED <<resolved, sizes>>
     ELSE \E v \in todo :
            /\ IsLeast(v, todo)
            /\ ResolveVolumeLayout(v)
            /\ IF ResolutionFails(v) THEN Return("failed")
               ELSE todo' = todo \ {v} /\ UNCHANGED <<pc, entry, part, result>>
  /\ UNCHANGED <<arc, length, since, decode_buffer, phase, dz_context, retained, workspace, out>>

-----------------------------------------------------------------------------
(* read_entry_to *)

\* On to chunk k of entry e, or the length check after the last one.
ProceedTo(e, k) ==
  /\ part' = k
  /\ pc' = IF k <= Len(arc.entries[e]) THEN "volume" ELSE "finish"

\* Entry 0 stands for an id that is not in the index.
StartRead(e) ==
  /\ phase = "open" /\ pc = "idle"
  /\ out' = <<>>
  /\ IF e = 0 THEN Return("failed")
     ELSE entry' = e /\ ProceedTo(e, 1) /\ result' = "none" /\ UNCHANGED todo
  /\ since' = length
  /\ UNCHANGED <<arc, length, decode_buffer, archiveVars>>

\* Mutant: the dictionary is loaded for every DZ chunk.
ResolveChunkVolumeReloading ==
  /\ pc = "volume"
  /\ ResolveVolumeLayout(FileOf(arc, CurrentChunk))
  /\ IF ResolutionFails(FileOf(arc, CurrentChunk)) THEN Return("failed")
     ELSE /\ IF Compression(arc, CurrentChunk) = "DZ"
             THEN pc' = "common" /\ todo' = CommonChunks(arc)
             ELSE pc' = "payload" /\ todo' = {}
          /\ UNCHANGED <<entry, part, result>>
  /\ UNCHANGED <<arc, length, since, decode_buffer, phase, dz_context, retained, workspace, out>>

\* Mutant: the error of resolve_volume_layout is dropped.
ResolveChunkVolumeIgnoringErrors ==
  /\ pc = "volume"
  /\ ResolveVolumeLayout(FileOf(arc, CurrentChunk))
  /\ IF Compression(arc, CurrentChunk) = "DZ" /\ ~dz_context
     THEN pc' = "common" /\ todo' = CommonChunks(arc)
     ELSE pc' = "payload" /\ todo' = {}
  /\ UNCHANGED <<arc, length, since, decode_buffer, phase, dz_context, retained, workspace,
                 entry, part, out, result>>

ResolveChunkVolume ==
  /\ pc = "volume"
  /\ ResolveVolumeLayout(FileOf(arc, CurrentChunk))
  /\ IF ResolutionFails(FileOf(arc, CurrentChunk)) THEN Return("failed")
     ELSE /\ IF Compression(arc, CurrentChunk) = "DZ" /\ ~dz_context
             THEN pc' = "common" /\ todo' = CommonChunks(arc)
             ELSE pc' = "payload" /\ todo' = {}
          /\ UNCHANGED <<entry, part, result>>
  /\ UNCHANGED <<arc, length, since, decode_buffer, phase, dz_context, retained, workspace, out>>

\* ensure_dz_context resolves every volume that holds a dictionary chunk...
ResolveCommonVolume ==
  /\ pc = "common"
  /\ IF todo = {}
     THEN /\ pc' = "weigh" /\ todo' = CommonChunks(arc) /\ retained' = 0
          /\ UNCHANGED <<resolved, sizes, entry, part, result>>
     ELSE \E i \in todo :
            /\ IsLeast(i, todo)
            /\ ResolveVolumeLayout(FileOf(arc, i))
            /\ IF ResolutionFails(FileOf(arc, i)) THEN Return("failed")
               ELSE todo' = todo \ {i} /\ UNCHANGED <<pc, entry, part, result>>
            /\ UNCHANGED retained
  /\ UNCHANGED <<arc, length, since, decode_buffer, phase, dz_context, workspace, out>>

\* Mutant: the stored lengths are added up.
WeighCommonChunkAsStored ==
  /\ pc = "weigh"
  /\ IF todo = {} THEN pc' = "load" /\ UNCHANGED <<todo, retained>>
     ELSE \E i \in todo :
            /\ IsLeast(i, todo)
            /\ retained' = retained + arc.chunks[i].compressed_length
            /\ todo' = todo \ {i} /\ UNCHANGED pc
  /\ UNCHANGED <<arc, length, since, decode_buffer, phase, sizes, resolved, dz_context, workspace,
                 entry, part, out, result>>

\* ... adds up their physical lengths ...
WeighCommonChunk ==
  /\ pc = "weigh"
  /\ IF todo = {} THEN pc' = "load" /\ UNCHANGED <<todo, retained>>
     ELSE \E i \in todo :
            /\ IsLeast(i, todo)
            /\ retained' = retained + resolved[i]
            /\ todo' = todo \ {i} /\ UNCHANGED pc
  /\ UNCHANGED <<arc, length, since, decode_buffer, phase, sizes, resolved, dz_context, workspace,
                 entry, part, out, result>>

\* Mutant: the sum is not checked against the workspace.
LoadContextUnchecked ==
  /\ pc = "load"
  /\ IF \A i \in CommonChunks(arc) :
          /\ CanReadAt(arc, i, resolved[i], length[FileOf(arc, i)])
          /\ CommonChunkWellFormed(arc, i, resolved[i])
     THEN /\ dz_context' = TRUE
          /\ workspace' = workspace - retained
          /\ pc' = "payload" /\ UNCHANGED <<entry, part, todo, result>>
     ELSE Return("failed") /\ UNCHANGED <<dz_context, workspace>>
  /\ UNCHANGED <<arc, length, since, decode_buffer, phase, sizes, resolved, retained, out>>

\* Mutant: the dictionary's bytes stay available to the decoders.
LoadContextUnpaid ==
  /\ pc = "load"
  /\ IF /\ retained <= workspace
        /\ \A i \in CommonChunks(arc) :
             /\ CanReadAt(arc, i, resolved[i], length[FileOf(arc, i)])
             /\ CommonChunkWellFormed(arc, i, resolved[i])
     THEN dz_context' = TRUE /\ pc' = "payload" /\ UNCHANGED <<entry, part, todo, result>>
     ELSE Return("failed") /\ UNCHANGED dz_context
  /\ UNCHANGED <<arc, length, since, decode_buffer, phase, sizes, resolved, retained, workspace, out>>

\* ... checks the sum against the workspace, reads the chunks, keeps them, and
\* takes their size off the workspace.
LoadContext ==
  /\ pc = "load"
  /\ IF /\ retained <= workspace
        /\ \A i \in CommonChunks(arc) :
             /\ CanReadAt(arc, i, resolved[i], length[FileOf(arc, i)])
             /\ CommonChunkWellFormed(arc, i, resolved[i])
     THEN /\ dz_context' = TRUE
          /\ workspace' = workspace - retained
          /\ pc' = "payload" /\ UNCHANGED <<entry, part, todo, result>>
     ELSE Return("failed") /\ UNCHANGED <<dz_context, workspace>>
  /\ UNCHANGED <<arc, length, since, decode_buffer, phase, sizes, resolved, retained, out>>

ReadLength == PayloadReadLength(arc.chunks[CurrentChunk], resolved[CurrentChunk])

\* The checks around the decoder, and what the decoder gives.
PayloadOutcomes ==
  LET c == arc.chunks[CurrentChunk]
      n == ReadLength
  IN  IF Compression(arc, CurrentChunk) = "ZERO" THEN {"exact"}
      ELSE IF /\ CanReadAt(arc, CurrentChunk, n, length[c.file])
              /\ n <= arc.limits.input
              /\ c.work <= workspace
      THEN DecodeOutcomes(arc, CurrentChunk, n)
      ELSE {"error"}

\* Mutant: what is decoded comes behind what the buffer held.
RefilledBehind(buffer, piece) == Append(buffer, piece)

\* decode_with_buffer: whichever decoder gets the buffer clears it first.
Refilled(buffer, piece) == <<piece>>

\* The buffer is taken out of the archive, and put back when its bytes are written; it is
\* gone when the chunk is refused, or the bytes are.
DeliverPayload ==
  /\ pc = "payload"
  /\ \E o \in PayloadOutcomes :
       IF o = "error" THEN Return("failed") /\ decode_buffer' = <<>> /\ UNCHANGED out
       ELSE /\ decode_buffer' = Refilled(decode_buffer, [chunk |-> CurrentChunk, content |-> o])
            /\ out' = out \o decode_buffer'
            /\ ProceedTo(entry, part + 1)
            /\ UNCHANGED <<entry, todo, result>>
  /\ UNCHANGED <<arc, length, since, archiveVars>>

\* The caller's writer refuses the bytes.
OutputFails ==
  /\ pc = "payload"
  /\ PayloadOutcomes # {"error"}
  /\ Return("output")
  /\ decode_buffer' = <<>>
  /\ UNCHANGED <<arc, length, since, archiveVars, out>>

FinishRead ==
  /\ pc = "finish"
  /\ Return(IF DecodedSize(arc, [k \in DOMAIN out |-> out[k].chunk])
                 = DecodedSize(arc, arc.entries[entry])
            THEN "ok" ELSE "failed")
  /\ UNCHANGED <<arc, length, since, decode_buffer, archiveVars, out>>

-----------------------------------------------------------------------------
\* The steps of a call that is running.
CallStep ==
  \/ SweepVolume
  \/ ResolveChunkVolume
  \/ ResolveCommonVolume
  \/ WeighCommonChunk
  \/ LoadContext
  \/ DeliverPayload
  \/ OutputFails
  \/ FinishRead

Next ==
  \/ Open
  \/ \E v \in AuxVolumes : VolumeArrives(v)
  \/ \E v \in Volumes : ResolveVolume(v)
  \/ StartSweep
  \/ \E e \in 0 .. Len(arc.entries) : StartRead(e)
  \/ CallStep

\* A call that has started runs on: nothing in it waits for anyone.
Spec == Init /\ [][Next]_vars /\ WF_vars(CallStep)

-----------------------------------------------------------------------------
(* Properties *)

\* Every variable has its type.  For the workspace that says something: taking a
\* dictionary off it never has to saturate.
TypeOK ==
  /\ arc \in Archives
  /\ length \in [Volumes -> Nat \cup {NoLength}]
  /\ since \in [Volumes -> Nat \cup {NoLength}]
  /\ phase \in {"prepared", "open", "rejected"}
  /\ sizes \in [Volumes -> Nat \cup {NoLength}]
  /\ resolved \in [ChunkIds(arc) -> Nat]
  /\ dz_context \in BOOLEAN
  /\ retained \in Nat
  /\ workspace \in Nat
  /\ pc \in Pcs
  /\ entry \in 0 .. Len(arc.entries)
  /\ part \in Nat
  /\ todo \subseteq Nat
  /\ decode_buffer \in Seq([chunk : ChunkIds(arc), content : {"exact", "garbled"}])
  /\ out \in Seq([chunk : ChunkIds(arc), content : {"exact", "garbled"}])
  /\ result \in Results

\* Volume v's records carry the layout they would have if v's file had size n.
LaidOutFor(v, n) ==
  LET whole == ResolveChunkLayout(arc.chunks, [sizes EXCEPT ![v] = n])
  IN  \A i \in ChunkIds(arc) : FileOf(arc, i) = v => resolved[i] = whole[i]

\* Resolving volume by volume, in any order and with failures in between, gives
\* what one pass over the whole table would give from the sizes recorded so
\* far.  Only a volume that was refused for its limits keeps the layout of the
\* attempt, and that one is still counted as not resolved.
ResolvedAgrees ==
  phase = "open" =>
    \A v \in Volumes :
      \/ LaidOutFor(v, sizes[v])
      \/ /\ sizes[v] = NoLength
         /\ \E n \in arc.lengths[v] : LaidOutFor(v, n)
         /\ ~VolumeWithinLimits(arc, v, resolved)

\* A volume's size is recorded only once every record of it respects the limits.
RecordedVolumesWithinLimits ==
  phase = "open" =>
    \A v \in Volumes : sizes[v] # NoLength => VolumeWithinLimits(arc, v, resolved)

\* The dictionary is paid for exactly once: what the decoders may use and what
\* the dictionary holds always add up to the configured workspace.
WorkspaceAccounted ==
  IF dz_context THEN workspace + retained = arc.limits.workspace
                ELSE workspace = arc.limits.workspace

\* A loaded dictionary holds every common-buffer chunk at its resolved length:
\* none was weighed by the stored length of a volume nobody had opened yet.
DictionaryWhole ==
  dz_context =>
    /\ \A i \in CommonChunks(arc) : sizes[FileOf(arc, i)] # NoLength
    /\ retained = MapThenSumSet(LAMBDA i : resolved[i], CommonChunks(arc))

\* No payload is read by a stale or a guessed length: when the reader gets to
\* a chunk's bytes, its volume's size is known, its buffer is within what the
\* limits allow, and a DZ chunk has its dictionary.
PayloadPrepared ==
  pc = "payload" =>
    /\ sizes[FileOf(arc, CurrentChunk)] # NoLength
    /\ ReadLength <= arc.limits.input \/ ReadLength <= arc.limits.output
    /\ Compression(arc, CurrentChunk) = "DZ" => dz_context

\* The archives whose DZ streams are whole when their volumes are.
PackerLaid ==
  LET full == [v \in Volumes |-> IF arc.lengths[v] = {} THEN NoLength ELSE Max(arc.lengths[v])]
      whole == ResolveChunkLayout(arc.chunks, full)
  IN  \A i \in ChunkIds(arc) : Compression(arc, i) = "DZ" => whole[i] >= arc.chunks[i].need

\* What a read writes is a prefix of the entry, chunk by chunk in order; nothing of an
\* earlier chunk or read that is still in the decode buffer is written again.  Wrong
\* bytes can only come from a DZ chunk of a volume that was resolved before its
\* file was complete.
DeliveredInOrder ==
  entry # 0 =>
    \A k \in DOMAIN out :
      /\ k < part
      /\ out[k].chunk = arc.entries[entry][k]
      /\ out[k].content = "garbled" /\ PackerLaid =>
           LET v == FileOf(arc, out[k].chunk)
           IN  \E n \in arc.lengths[v] : sizes[v] < n

\* Once a volume's size is recorded, neither the size nor the layout of its
\* chunks changes again, and a loaded dictionary is never loaded a second time.
ResolutionIsFinal ==
  [][ /\ \A v \in Volumes :
           phase = "open" /\ sizes[v] # NoLength =>
             /\ sizes'[v] = sizes[v]
             /\ \A i \in ChunkIds(arc) : FileOf(arc, i) = v => resolved'[i] = resolved[i]
      /\ dz_context => dz_context' /\ workspace' = workspace /\ retained' = retained ]_vars

\* Every call returns, whatever happens to the volumes meanwhile.
CallsReturn == pc # "idle" ~> pc = "idle"

-----------------------------------------------------------------------------
(* What the reader promises its caller *)

\* Volumes are put in place in one go.
ArrivesWhole == \A v \in Volumes : \A m, n \in arc.lengths[v] : m = n

\* The store promises nothing for volumes that are resolved while they grow, nor
\* for a DZ stream that its own volume cuts short: it is never opened for them.
Promised == ArrivesWhole /\ PackerLaid
IfPromised(value, initial) == IF Promised THEN value ELSE initial

Store == INSTANCE EntryStore WITH
  length  <- IfPromised(length, MainOnly(arc)),
  since   <- IfPromised(since, MainOnly(arc)),
  phase   <- IfPromised(phase, "prepared"),
  loaded  <- IfPromised(dz_context, FALSE),
  reading <- IfPromised(entry, 0),
  out     <- IfPromised(out, <<>>),
  result  <- IfPromised(result, "none")

\* The lazy reader, with its caches, its staging and its partial failures,
\* behaves as a store that judges every chunk afresh from the volumes present.
ImplementsEntryStore == Store!Spec
=============================================================================
