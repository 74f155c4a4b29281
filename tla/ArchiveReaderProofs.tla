------------------------ MODULE ArchiveReaderProofs -------------------------
(***************************************************************************)
(* What holds of the reader for every archive, every sequence of calls and *)
(* every way the volumes may arrive.                                       *)
(***************************************************************************)
EXTENDS ArchiveReader, Sums

-----------------------------------------------------------------------------
(* Spans and layouts *)

\* The least element the layout code takes as the next offset exists.
LEMMA MinOfNaturals ==
  ASSUME NEW S, S \subseteq Nat, S # {}
  PROVE  Min(S) \in S
<1>1. PICK m \in S : \A y \in S : ~(<<y, m>> \in OpToRel(<, Nat))
  BY WFMin, NatLessThanWellFounded
<1>2. \A y \in S : ~(y < m)
  BY <1>1, Zenon DEF OpToRel
<1>3. \A y \in S : m <= y
  BY <1>2, SMT
<1>4. QED
  BY <1>3, Zenon DEF Min

\* A record of a well-formed chunk table has its fields in their types.
LEMMA ChunkFields ==
  ASSUME NEW chunks \in Seq(Chunk), NEW i \in DOMAIN chunks
  PROVE  /\ chunks[i] \in Chunk
         /\ chunks[i].offset \in Nat
         /\ chunks[i].compressed_length \in Nat
         /\ chunks[i].decompressed_length \in Nat
         /\ chunks[i].file \in Nat
<1>1. chunks[i] \in Chunk
  BY ElementOfSeq
<1>2. QED
  BY <1>1 DEF Chunk

\* A resolved span is a length.
LEMMA SpanIsLength ==
  ASSUME NEW c \in Chunk, NEW end \in Nat
  PROVE  SpanUpTo(c, end) \in Nat
BY MaxU32Assumption DEF SpanUpTo, Chunk

\* The span of a record that another one follows ends at an offset.
LEMMA NextOffsetIsLength ==
  ASSUME NEW chunks \in Seq(Chunk), NEW i \in DOMAIN chunks, Followers(chunks, i) # {}
  PROVE  NextOffset(chunks, i) \in Nat
<1> DEFINE S == {chunks[j].offset : j \in Followers(chunks, i)}
<1>1. S \subseteq Nat
  BY ChunkFields DEF Followers
<1>2. S # {}
  OBVIOUS
<1>3. Min(S) \in S
  BY <1>1, <1>2, MinOfNaturals
<1>4. QED
  BY <1>1, <1>3 DEF NextOffset

\* Opening lays out every record.
LEMMA LayoutType ==
  ASSUME NEW chunks \in Seq(Chunk), NEW sizes0 \in [Volumes -> Nat \cup {NoLength}],
         \A i \in DOMAIN chunks : chunks[i].file \in Volumes
  PROVE  ResolveChunkLayout(chunks, sizes0) \in [DOMAIN chunks -> Nat]
<1> SUFFICES ASSUME NEW i \in DOMAIN chunks
             PROVE  ResolveChunkLayout(chunks, sizes0)[i] \in Nat
  BY DEF ResolveChunkLayout
<1>1. chunks[i] \in Chunk /\ chunks[i].compressed_length \in Nat
  BY ChunkFields
<1>2. Followers(chunks, i) # {} => SpanUpTo(chunks[i], NextOffset(chunks, i)) \in Nat
  BY <1>1, NextOffsetIsLength, SpanIsLength
<1>3. sizes0[chunks[i].file] # NoLength => SpanUpTo(chunks[i], sizes0[chunks[i].file]) \in Nat
  BY <1>1, SpanIsLength
<1>4. QED
  BY <1>1, <1>2, <1>3 DEF ResolveChunkLayout

\* Resolving one volume keeps a length for every record.
LEMMA VolumeLayoutType ==
  ASSUME NEW chunks \in Seq(Chunk), NEW f \in Volumes, NEW size \in Nat,
         NEW old \in [DOMAIN chunks -> Nat]
  PROVE  ResolveVolumeChunkLayout(chunks, f, size, old) \in [DOMAIN chunks -> Nat]
<1> SUFFICES ASSUME NEW i \in DOMAIN chunks
             PROVE  ResolveVolumeChunkLayout(chunks, f, size, old)[i] \in Nat
  BY DEF ResolveVolumeChunkLayout
<1>1. chunks[i] \in Chunk
  BY ChunkFields
<1>2. Followers(chunks, i) # {} => SpanUpTo(chunks[i], NextOffset(chunks, i)) \in Nat
  BY <1>1, NextOffsetIsLength, SpanIsLength
<1>3. SpanUpTo(chunks[i], size) \in Nat
  BY <1>1, SpanIsLength
<1>4. QED
  BY <1>1, <1>2, <1>3 DEF ResolveVolumeChunkLayout

\* Resolving one volume leaves the records of the others alone.
LEMMA VolumeLayoutElsewhere ==
  ASSUME NEW chunks, NEW f, NEW size, NEW old,
         NEW i \in DOMAIN chunks, chunks[i].file # f
  PROVE  ResolveVolumeChunkLayout(chunks, f, size, old)[i] = old[i]
BY DEF ResolveVolumeChunkLayout

\* The layout of a volume's records asks for no other volume's size.
LEMMA LayoutIsLocal ==
  ASSUME NEW chunks, NEW f, NEW s, NEW t, s[f] = t[f],
         NEW i \in DOMAIN chunks, chunks[i].file = f
  PROVE  ResolveChunkLayout(chunks, s)[i] = ResolveChunkLayout(chunks, t)[i]
BY DEF ResolveChunkLayout

-----------------------------------------------------------------------------
(* The inductive invariant *)

\* Where a call may be, and what it knows there.
CallShape ==
  /\ \A v \in Volumes : length[v] # NoLength => length[v] \in arc.lengths[v]
  /\ phase = "open" => Admissible(arc)
  /\ phase # "open" => sizes = MainOnly(arc)
  /\ pc # "idle" => phase = "open"
  /\ pc \in {"volume", "common", "weigh", "load", "payload"} =>
       entry \in DOMAIN arc.entries /\ part \in DOMAIN arc.entries[entry]
  /\ pc = "finish" => entry \in DOMAIN arc.entries
  /\ pc \in {"common", "weigh", "load"} => ~dz_context
  /\ pc = "sweep" => todo \subseteq Volumes
  /\ pc \in {"common", "weigh"} => todo \subseteq CommonChunks(arc)

\* From the moment the current chunk's volume is resolved.
ChunkReady ==
  /\ pc \in {"common", "weigh", "load", "payload"} =>
       sizes[FileOf(arc, CurrentChunk)] # NoLength
  /\ pc = "payload" /\ Compression(arc, CurrentChunk) = "DZ" => dz_context

Layouts == RecordedVolumesWithinLimits /\ ResolvedAgrees

IInv == TypeOK /\ CallShape /\ WorkspaceAccounted /\ ChunkReady /\ Layouts

-----------------------------------------------------------------------------
(* Facts about the state *)

\* The archive of a well-typed state is a well-formed one.
LEMMA ArchiveFacts ==
  ASSUME TypeOK
  PROVE  /\ IsArchive(arc)
         /\ arc.chunks \in Seq(Chunk)
         /\ arc.entries \in Seq(Seq(Nat))
         /\ arc.limits \in Limits
         /\ ChunkIds(arc) \subseteq Nat
         /\ \A i \in ChunkIds(arc) : FileOf(arc, i) \in Volumes
<1>1. IsArchive(arc)
  BY ArchivesAssumption DEF TypeOK
<1>2. QED
  BY <1>1 DEF IsArchive, ChunkIds, FileOf

\* An open archive's entries name chunks of its table.
LEMMA EntryChunk ==
  ASSUME TypeOK, Admissible(arc), NEW e \in DOMAIN arc.entries,
         NEW k \in DOMAIN arc.entries[e]
  PROVE  arc.entries[e][k] \in ChunkIds(arc)
BY DEF Admissible, EntryAdmissible

\* The layout a resolution computes.
LEMMA LayoutOfType ==
  ASSUME TypeOK, NEW v \in Volumes, length[v] # NoLength
  PROVE  LayoutOf(v) \in [ChunkIds(arc) -> Nat]
<1>1. length[v] \in Nat
  BY DEF TypeOK
<1>2. QED
  BY <1>1, ArchiveFacts, VolumeLayoutType DEF LayoutOf, ChunkIds, TypeOK

\* What every step that resolves a volume does to the two layout variables:
\* they stay well-typed, a volume that was resolved keeps size and layout, and
\* a volume whose resolution did not fail is resolved afterwards.
LEMMA ResolutionTypes ==
  ASSUME TypeOK, NEW v \in Volumes, ResolveVolumeLayout(v)
  PROVE  /\ sizes' \in [Volumes -> Nat \cup {NoLength}]
         /\ resolved' \in [ChunkIds(arc) -> Nat]
         /\ ~ResolutionFails(v) => sizes'[v] # NoLength
         /\ \A w \in Volumes : sizes[w] # NoLength =>
              /\ sizes'[w] = sizes[w]
              /\ \A i \in ChunkIds(arc) : FileOf(arc, i) = w => resolved'[i] = resolved[i]
<1>1. CASE sizes[v] # NoLength \/ length[v] = NoLength
  BY <1>1 DEF ResolveVolumeLayout, ResolutionFails, TypeOK
<1>2. CASE sizes[v] = NoLength /\ length[v] # NoLength
  <2>1. /\ resolved' = LayoutOf(v)
        /\ sizes' = IF ResolutionFails(v) THEN sizes ELSE [sizes EXCEPT ![v] = length[v]]
    BY <1>2 DEF ResolveVolumeLayout
  <2>2. LayoutOf(v) \in [ChunkIds(arc) -> Nat]
    BY <1>2, LayoutOfType
  <2>3. \A i \in ChunkIds(arc) : FileOf(arc, i) # v => LayoutOf(v)[i] = resolved[i]
    BY VolumeLayoutElsewhere DEF LayoutOf, ChunkIds, FileOf
  <2>4. length[v] \in Nat
    BY <1>2 DEF TypeOK
  <2>5. sizes \in [Volumes -> Nat \cup {NoLength}]
    BY DEF TypeOK
  <2>6. QED
    BY <1>2, <2>1, <2>2, <2>3, <2>4, <2>5
<1>3. QED
  BY <1>1, <1>2

\* A step that resolves a volume keeps the layouts as they should be.
LEMMA ResolutionKeepsLayouts ==
  ASSUME TypeOK, CallShape, Layouts, phase = "open", NEW v \in Volumes,
         ResolveVolumeLayout(v), UNCHANGED <<arc, length, phase>>
  PROVE  Layouts'
<1>1. CASE sizes[v] # NoLength \/ length[v] = NoLength
  <2>1. UNCHANGED <<resolved, sizes>>
    BY <1>1 DEF ResolveVolumeLayout
  <2>2. QED
    BY <2>1 DEF Layouts, RecordedVolumesWithinLimits, ResolvedAgrees, LaidOutFor
<1>2. CASE sizes[v] = NoLength /\ length[v] # NoLength
  <2> DEFINE whole(w, n) == ResolveChunkLayout(arc.chunks, [sizes EXCEPT ![w] = n])
             whole1(w, n) == ResolveChunkLayout(arc.chunks, [sizes' EXCEPT ![w] = n])
  <2>1. /\ resolved' = LayoutOf(v)
        /\ sizes' = IF ResolutionFails(v) THEN sizes ELSE [sizes EXCEPT ![v] = length[v]]
    BY <1>2 DEF ResolveVolumeLayout
  <2>2. sizes \in [Volumes -> Nat \cup {NoLength}] /\ sizes' \in [Volumes -> Nat \cup {NoLength}]
    BY ResolutionTypes DEF TypeOK
  <2>3. length[v] \in Nat /\ length[v] \in arc.lengths[v]
    BY <1>2 DEF TypeOK, CallShape
  <2>4. ResolutionFails(v) <=> ~VolumeWithinLimits(arc, v, LayoutOf(v))
    BY <1>2 DEF ResolutionFails
  <2>5. \A w \in Volumes : w # v =>
          \A i \in ChunkIds(arc) : FileOf(arc, i) = w => resolved'[i] = resolved[i]
    BY <2>1, VolumeLayoutElsewhere DEF LayoutOf, ChunkIds, FileOf
  <2>6. \A w \in Volumes, n \in Nat \cup {NoLength} :
          \A i \in ChunkIds(arc) : FileOf(arc, i) = w => whole(w, n)[i] = whole1(w, n)[i]
    <3> SUFFICES ASSUME NEW w \in Volumes, NEW n \in Nat \cup {NoLength},
                        NEW i \in ChunkIds(arc), FileOf(arc, i) = w
                 PROVE  whole(w, n)[i] = whole1(w, n)[i]
      OBVIOUS
    <3> DEFINE s == [sizes EXCEPT ![w] = n]
               t == [sizes' EXCEPT ![w] = n]
    <3>1. s[w] = t[w]
      BY <2>2
    <3>2. i \in DOMAIN arc.chunks /\ arc.chunks[i].file = w
      BY DEF ChunkIds, FileOf
    <3> HIDE DEF s, t
    <3>3. ResolveChunkLayout(arc.chunks, s)[i] = ResolveChunkLayout(arc.chunks, t)[i]
      BY <3>1, <3>2, LayoutIsLocal
    <3>4. QED
      BY <3>3 DEF s, t
  <2>7. \A i \in ChunkIds(arc) : FileOf(arc, i) = v => resolved'[i] = whole1(v, length[v])[i]
    <3> SUFFICES ASSUME NEW i \in ChunkIds(arc), FileOf(arc, i) = v
                 PROVE  resolved'[i] = whole1(v, length[v])[i]
      OBVIOUS
    <3> DEFINE t == [sizes' EXCEPT ![v] = length[v]]
    <3>1. t[v] = length[v]
      BY <2>2
    <3>2. i \in DOMAIN arc.chunks /\ arc.chunks[i].file = v /\ arc.chunks \in Seq(Chunk)
      BY ArchiveFacts DEF ChunkIds, FileOf
    <3> HIDE DEF t
    <3>3. ResolveVolumeChunkLayout(arc.chunks, v, length[v], resolved)[i]
            = ResolveChunkLayout(arc.chunks, t)[i]
      BY <3>1, <3>2, <1>2 DEF ResolveVolumeChunkLayout, ResolveChunkLayout
    <3>4. QED
      BY <3>3, <2>1 DEF t, LayoutOf
  <2>8. RecordedVolumesWithinLimits'
    <3> SUFFICES ASSUME NEW w \in Volumes, sizes'[w] # NoLength
                 PROVE  VolumeWithinLimits(arc, w, resolved')
      BY DEF RecordedVolumesWithinLimits
    <3>1. CASE w = v
      BY <3>1, <1>2, <2>1, <2>2, <2>4
    <3>2. CASE w # v
      <4>1. sizes[w] # NoLength
        BY <3>2, <2>1, <2>2
      <4>2. VolumeWithinLimits(arc, w, resolved)
        BY <4>1 DEF Layouts, RecordedVolumesWithinLimits
      <4>3. QED
        BY <4>2, <3>2, <2>5 DEF VolumeWithinLimits
    <3>3. QED
      BY <3>1, <3>2
  <2>9. ResolvedAgrees'
    <3> SUFFICES ASSUME NEW w \in Volumes
                 PROVE  \/ LaidOutFor(w, sizes[w])'
                        \/ /\ sizes'[w] = NoLength
                           /\ \E n \in arc.lengths[w] : LaidOutFor(w, n)'
                           /\ ~VolumeWithinLimits(arc, w, resolved')
      BY DEF ResolvedAgrees
    <3>1. CASE w = v
      <4>1. LaidOutFor(v, length[v])'
        BY <2>7 DEF LaidOutFor
      <4>2. CASE ResolutionFails(v)
        BY <4>1, <4>2, <3>1, <1>2, <2>1, <2>3, <2>4
      <4>3. CASE ~ResolutionFails(v)
        BY <4>1, <4>3, <3>1, <2>1, <2>2 
      <4>4. QED
        BY <4>2, <4>3
    <3>2. CASE w # v
      <4>1. sizes'[w] = sizes[w]
        BY <3>2, <2>1, <2>2
      <4>2. VolumeWithinLimits(arc, w, resolved') <=> VolumeWithinLimits(arc, w, resolved)
        BY <3>2, <2>5 DEF VolumeWithinLimits
      <4>3. \A n \in Nat \cup {NoLength} : LaidOutFor(w, n) => LaidOutFor(w, n)'
        BY <3>2, <2>5, <2>6 DEF LaidOutFor
      <4>4. arc.lengths[w] \subseteq Nat /\ sizes[w] \in Nat \cup {NoLength}
        BY <2>2, ArchiveFacts DEF IsArchive
      <4>5. QED
        BY <4>1, <4>2, <4>3, <4>4 DEF Layouts, ResolvedAgrees
    <3>3. QED
      BY <3>1, <3>2
  <2>10. QED
    BY <2>8, <2>9 DEF Layouts
<1>3. QED
  BY <1>1, <1>2

\* A step that touches no layout variable.
LEMMA LayoutsUntouched ==
  ASSUME Layouts, UNCHANGED <<arc, phase, sizes, resolved>>
  PROVE  Layouts'
BY DEF Layouts, RecordedVolumesWithinLimits, ResolvedAgrees, LaidOutFor

\* A call that returns leaves nothing behind but its result.
LEMMA ReturnKeepsShape ==
  ASSUME TypeOK, CallShape, NEW r \in Results, Return(r), phase = "open",
         UNCHANGED <<arc, length, phase>>
  PROVE  /\ CallShape' /\ ChunkReady'
         /\ pc' \in Pcs /\ entry' \in 0 .. Len(arc'.entries) /\ part' \in Nat
         /\ todo' \subseteq Nat /\ result' \in Results
<1>1. Len(arc.entries) \in Nat
  BY ArchiveFacts, LenProperties
<1>2. QED
  BY <1>1 DEF Return, CallShape, ChunkReady, Pcs, Results

-----------------------------------------------------------------------------
(* One lemma for each action *)

\* finish_open: the layout from the main volume alone is what the lazy
\* resolution starts from, and every admitted record respects the limits.
LEMMA OpenKeepsIInv == ASSUME IInv, Open PROVE IInv'
<1> USE DEF IInv
<1>1. TypeOK'
  <2>1. MainOnly(arc) \in [Volumes -> Nat \cup {NoLength}]
    <3>1. 0 \in Volumes
      BY MaxVolumeAssumption DEF Volumes
    <3>2. MainLength(arc) \in Nat
      BY <3>1, ArchiveFacts DEF MainLength, IsArchive
    <3>3. QED
      BY <3>2 DEF MainOnly
  <2>2. ResolveChunkLayout(arc.chunks, MainOnly(arc)) \in [ChunkIds(arc) -> Nat]
    BY <2>1, ArchiveFacts, LayoutType DEF ChunkIds, FileOf
  <2>3. QED
    BY <2>2 DEF Open, TypeOK, callVars
<1>2. CallShape'
  BY DEF Open, CallShape, callVars, CommonChunks
<1>3. WorkspaceAccounted'
  BY DEF Open, WorkspaceAccounted
<1>4. ChunkReady'
  BY DEF Open, ChunkReady, CallShape, callVars
<1>5. Layouts'
  <2> SUFFICES ASSUME phase' = "open"
               PROVE  RecordedVolumesWithinLimits' /\ ResolvedAgrees'
    BY DEF Layouts, RecordedVolumesWithinLimits, ResolvedAgrees
  <2>1. /\ Admissible(arc) /\ resolved' = ResolveChunkLayout(arc.chunks, MainOnly(arc))
        /\ arc' = arc /\ sizes' = MainOnly(arc)
    BY DEF Open, CallShape
  <2>2. RecordedVolumesWithinLimits'
    BY <2>1 DEF RecordedVolumesWithinLimits, VolumeWithinLimits, Admissible
  <2>3. \A v \in Volumes : [sizes' EXCEPT ![v] = sizes'[v]] = MainOnly(arc)
    BY <2>1 DEF MainOnly
  <2>4. ResolvedAgrees'
    BY <2>1, <2>3 DEF ResolvedAgrees, LaidOutFor
  <2>5. QED
    BY <2>2, <2>4
<1>6. QED
  BY <1>1, <1>2, <1>3, <1>4, <1>5

\* A file that appears or grows changes none of the reader's caches.
LEMMA VolumeArrivesKeepsIInv ==
  ASSUME IInv, NEW v \in AuxVolumes, VolumeArrives(v)
  PROVE  IInv'
<1> USE DEF IInv
<1>1. PICK n \in arc.lengths[v] : n > length[v] /\ length' = [length EXCEPT ![v] = n]
  BY DEF VolumeArrives
<1>2. v \in Volumes /\ n \in Nat
  BY ArchiveFacts, MaxVolumeAssumption DEF IsArchive, Volumes, AuxVolumes
<1>3. UNCHANGED <<arc, since, decode_buffer, phase, sizes, resolved, dz_context, retained, workspace,
                  pc, entry, part, todo, out, result>>
  BY DEF VolumeArrives, archiveVars, callVars
<1>4. TypeOK'
  BY <1>1, <1>2, <1>3 DEF TypeOK
<1>5. CallShape'
  BY <1>1, <1>2, <1>3 DEF CallShape, TypeOK
<1>6. WorkspaceAccounted' /\ ChunkReady'
  BY <1>3 DEF WorkspaceAccounted, ChunkReady, CurrentChunk
<1>7. Layouts'
  BY <1>3, LayoutsUntouched
<1>8. QED
  BY <1>4, <1>5, <1>6, <1>7

\* resolve_volume, called on its own.
LEMMA ResolveVolumeKeepsIInv ==
  ASSUME IInv, NEW v \in Volumes, ResolveVolume(v)
  PROVE  IInv'
<1> USE DEF IInv
<1>1. /\ phase = "open" /\ ResolveVolumeLayout(v) /\ out' = <<>>
      /\ UNCHANGED <<arc, length, since, decode_buffer, phase, dz_context, retained, workspace>>
  BY DEF ResolveVolume
<1>2. PICK r \in Results : Return(r)
  BY DEF ResolveVolume, Results
<1>3. TypeOK'
  <2>1. out' \in Seq([chunk : ChunkIds(arc'), content : {"exact", "garbled"}])
    BY <1>1
  <2>2. QED
    BY <2>1, <1>1, <1>2, ResolutionTypes, ReturnKeepsShape DEF TypeOK
<1>4. CallShape' /\ ChunkReady'
  BY <1>1, <1>2, ReturnKeepsShape
<1>5. WorkspaceAccounted'
  BY <1>1 DEF WorkspaceAccounted
<1>6. Layouts'
  BY <1>1, ResolutionKeepsLayouts
<1>7. QED
  BY <1>3, <1>4, <1>5, <1>6

\* resolve_all_volumes collects the volumes the records name.
LEMMA StartSweepKeepsIInv == ASSUME IInv, StartSweep PROVE IInv'
<1> USE DEF IInv
<1>1. UNCHANGED <<arc, length, since, decode_buffer, phase, sizes, resolved, dz_context, retained,
                  workspace, entry, part>>
  BY DEF StartSweep, archiveVars
<1>2. /\ phase = "open" /\ pc' = "sweep" /\ out' = <<>> /\ result' = "none"
      /\ todo' = {FileOf(arc, i) : i \in ChunkIds(arc)}
  BY DEF StartSweep
<1>3. todo' \subseteq Volumes
  BY <1>2, ArchiveFacts
<1>4. TypeOK'
  BY <1>1, <1>2, <1>3 DEF TypeOK, Pcs, Results, Volumes
<1>5. CallShape'
  BY <1>1, <1>2, <1>3 DEF CallShape
<1>6. WorkspaceAccounted' /\ ChunkReady'
  BY <1>1, <1>2 DEF WorkspaceAccounted, ChunkReady
<1>7. Layouts'
  BY <1>1, LayoutsUntouched
<1>8. QED
  BY <1>4, <1>5, <1>6, <1>7

\* It resolves them one by one and stops at the first that fails.
LEMMA SweepVolumeKeepsIInv == ASSUME IInv, SweepVolume PROVE IInv'
<1> USE DEF IInv
<1>1. /\ pc = "sweep" /\ phase = "open" /\ todo \subseteq Volumes
      /\ UNCHANGED <<arc, length, since, decode_buffer, phase, dz_context, retained, workspace, out>>
  BY DEF SweepVolume, CallShape
<1>2. CASE todo = {}
  <2>1. Return("ok") /\ UNCHANGED <<resolved, sizes>>
    BY <1>2 DEF SweepVolume
  <2>2. "ok" \in Results
    BY DEF Results
  <2>3. TypeOK' /\ CallShape' /\ ChunkReady'
    BY <1>1, <2>1, <2>2, ReturnKeepsShape DEF TypeOK
  <2>4. WorkspaceAccounted' /\ Layouts'
    BY <1>1, <2>1, LayoutsUntouched DEF WorkspaceAccounted
  <2>5. QED
    BY <2>3, <2>4
<1>3. CASE todo # {}
  <2>1. PICK v \in todo :
          /\ ResolveVolumeLayout(v)
          /\ IF ResolutionFails(v) THEN Return("failed")
             ELSE todo' = todo \ {v} /\ UNCHANGED <<pc, entry, part, result>>
    BY <1>3 DEF SweepVolume
  <2>2. v \in Volumes
    BY <1>1
  <2>3. Layouts' /\ WorkspaceAccounted'
    BY <1>1, <2>1, <2>2, ResolutionKeepsLayouts DEF WorkspaceAccounted
  <2>4. sizes' \in [Volumes -> Nat \cup {NoLength}] /\ resolved' \in [ChunkIds(arc) -> Nat]
    BY <2>1, <2>2, ResolutionTypes
  <2>5. CASE ResolutionFails(v)
    <3>1. "failed" \in Results /\ Return("failed")
      BY <2>1, <2>5 DEF Results
    <3>2. TypeOK' /\ CallShape' /\ ChunkReady'
      BY <1>1, <2>4, <3>1, ReturnKeepsShape DEF TypeOK
    <3>3. QED
      BY <2>3, <3>2
  <2>6. CASE ~ResolutionFails(v)
    <3>1. todo' = todo \ {v} /\ UNCHANGED <<pc, entry, part, result>>
      BY <2>1, <2>6
    <3>2. TypeOK'
      BY <1>1, <2>4, <3>1 DEF TypeOK
    <3>3. CallShape' /\ ChunkReady'
      BY <1>1, <3>1 DEF CallShape, ChunkReady
    <3>4. QED
      BY <2>3, <3>2, <3>3
  <2>7. QED
    BY <2>5, <2>6
<1>4. QED
  BY <1>2, <1>3

\* read_entry_to starts at the first chunk of the entry.
LEMMA StartReadKeepsIInv ==
  ASSUME IInv, NEW e \in 0 .. Len(arc.entries), StartRead(e)
  PROVE  IInv'
<1> USE DEF IInv
<1>1. /\ phase = "open" /\ pc = "idle" /\ out' = <<>> /\ since' = length
      /\ UNCHANGED <<arc, length, decode_buffer, phase, sizes, resolved, dz_context, retained, workspace>>
  BY DEF StartRead, archiveVars
<1>2. WorkspaceAccounted' /\ Layouts'
  BY <1>1, LayoutsUntouched DEF WorkspaceAccounted
<1>3. CASE e = 0
  <2>1. Return("failed") /\ "failed" \in Results
    BY <1>3 DEF StartRead, Results
  <2>2. TypeOK' /\ CallShape' /\ ChunkReady'
    BY <1>1, <2>1, ReturnKeepsShape DEF TypeOK
  <2>3. QED
    BY <1>2, <2>2
<1>4. CASE e # 0
  <2>1. /\ entry' = e /\ ProceedTo(e, 1) /\ result' = "none" /\ todo' = todo
    BY <1>4 DEF StartRead
  <2>2. e \in DOMAIN arc.entries /\ arc.entries[e] \in Seq(Nat)
    BY <1>4, ArchiveFacts, ElementOfSeq, LenProperties
  <2>3. \/ pc' = "volume" /\ 1 \in DOMAIN arc.entries[e]
       \/ pc' = "finish"
    BY <2>1, <2>2, LenProperties DEF ProceedTo
  <2>4. TypeOK'
    BY <1>1, <2>1, <2>3 DEF TypeOK, ProceedTo, Pcs, Results
  <2>5. CallShape' /\ ChunkReady'
    BY <1>1, <2>1, <2>2, <2>3 DEF CallShape, ChunkReady, ProceedTo
  <2>6. QED
    BY <1>2, <2>4, <2>5
<1>5. QED
  BY <1>3, <1>4

\* A chunk whose volume is resolved is ready to be read, unless it needs the
\* dictionary first.
LEMMA ResolveChunkVolumeKeepsIInv == ASSUME IInv, ResolveChunkVolume PROVE IInv'
<1> USE DEF IInv
<1> DEFINE v == FileOf(arc, CurrentChunk)
<1>1. /\ pc = "volume" /\ phase = "open"
      /\ entry \in DOMAIN arc.entries /\ part \in DOMAIN arc.entries[entry]
      /\ UNCHANGED <<arc, length, since, decode_buffer, phase, dz_context, retained, workspace, out>>
      /\ ResolveVolumeLayout(v)
  BY DEF ResolveChunkVolume, CallShape
<1>2. CurrentChunk \in ChunkIds(arc) /\ v \in Volumes
  BY <1>1, EntryChunk, ArchiveFacts DEF CallShape, CurrentChunk
<1>3. Layouts' /\ WorkspaceAccounted'
  BY <1>1, <1>2, ResolutionKeepsLayouts DEF WorkspaceAccounted
<1>4. /\ sizes' \in [Volumes -> Nat \cup {NoLength}] /\ resolved' \in [ChunkIds(arc) -> Nat]
      /\ ~ResolutionFails(v) => sizes'[v] # NoLength
  BY <1>1, <1>2, ResolutionTypes
<1>5. CASE ResolutionFails(v)
  <2>1. Return("failed") /\ "failed" \in Results
    BY <1>5 DEF ResolveChunkVolume, Results
  <2>2. TypeOK' /\ CallShape' /\ ChunkReady'
    BY <1>1, <1>4, <2>1, ReturnKeepsShape DEF TypeOK
  <2>3. QED
    BY <1>3, <2>2
<1>6. CASE ~ResolutionFails(v)
  <2>1. /\ \/ /\ Compression(arc, CurrentChunk) = "DZ" /\ ~dz_context
              /\ pc' = "common" /\ todo' = CommonChunks(arc)
           \/ /\ ~(Compression(arc, CurrentChunk) = "DZ" /\ ~dz_context)
              /\ pc' = "payload" /\ todo' = {}
        /\ UNCHANGED <<entry, part, result>>
    BY <1>6 DEF ResolveChunkVolume
  <2>2. todo' \subseteq Nat
    BY <2>1, ArchiveFacts DEF CommonChunks
  <2>3. TypeOK'
    BY <1>1, <1>4, <2>1, <2>2 DEF TypeOK, Pcs
  <2>4. CallShape'
    BY <1>1, <2>1 DEF CallShape
  <2>5. ChunkReady'
    BY <1>1, <1>4, <1>6, <2>1 DEF ChunkReady, CurrentChunk
  <2>6. QED
    BY <1>3, <2>3, <2>4, <2>5
<1>7. QED
  BY <1>5, <1>6

\* ensure_dz_context comes here only without a dictionary, and resolves the
\* volumes of all its chunks.
LEMMA ResolveCommonVolumeKeepsIInv == ASSUME IInv, ResolveCommonVolume PROVE IInv'
<1> USE DEF IInv
<1>1. /\ pc = "common" /\ phase = "open" /\ todo \subseteq CommonChunks(arc) /\ ~dz_context
      /\ UNCHANGED <<arc, length, since, decode_buffer, phase, dz_context, workspace, out>>
  BY DEF ResolveCommonVolume, CallShape
<1>2. WorkspaceAccounted'
  BY <1>1 DEF WorkspaceAccounted
<1>3. CASE todo = {}
  <2>1. /\ pc' = "weigh" /\ todo' = CommonChunks(arc) /\ retained' = 0
        /\ UNCHANGED <<resolved, sizes, entry, part, result>>
    BY <1>3 DEF ResolveCommonVolume
  <2>2. todo' \subseteq Nat
    BY <2>1, ArchiveFacts DEF CommonChunks
  <2>3. TypeOK'
    BY <1>1, <2>1, <2>2 DEF TypeOK, Pcs
  <2>4. CallShape' /\ ChunkReady'
    BY <1>1, <2>1 DEF CallShape, ChunkReady, CurrentChunk
  <2>5. QED
    BY <1>1, <1>2, <2>1, <2>3, <2>4, LayoutsUntouched
<1>4. CASE todo # {}
  <2>1. PICK i \in todo :
          /\ ResolveVolumeLayout(FileOf(arc, i))
          /\ IF ResolutionFails(FileOf(arc, i)) THEN Return("failed")
             ELSE todo' = todo \ {i} /\ UNCHANGED <<pc, entry, part, result>>
          /\ UNCHANGED retained
    BY <1>4 DEF ResolveCommonVolume
  <2>2. FileOf(arc, i) \in Volumes
    BY <1>1, ArchiveFacts DEF CommonChunks
  <2>3. Layouts'
    BY <1>1, <2>1, <2>2, ResolutionKeepsLayouts
  <2>4. /\ sizes' \in [Volumes -> Nat \cup {NoLength}] /\ resolved' \in [ChunkIds(arc) -> Nat]
        /\ \A w \in Volumes : sizes[w] # NoLength => sizes'[w] # NoLength
    BY <2>1, <2>2, ResolutionTypes
  <2>5. CASE ResolutionFails(FileOf(arc, i))
    <3>1. Return("failed") /\ "failed" \in Results
      BY <2>1, <2>5 DEF Results
    <3>2. TypeOK' /\ CallShape' /\ ChunkReady'
      BY <1>1, <2>1, <2>4, <3>1, ReturnKeepsShape DEF TypeOK
    <3>3. QED
      BY <1>2, <2>3, <3>2
  <2>6. CASE ~ResolutionFails(FileOf(arc, i))
    <3>1. todo' = todo \ {i} /\ UNCHANGED <<pc, entry, part, result>>
      BY <2>1, <2>6
    <3>2. TypeOK'
      BY <1>1, <2>1, <2>4, <3>1 DEF TypeOK
    <3>3. CallShape'
      BY <1>1, <3>1 DEF CallShape
    <3>4. CurrentChunk \in ChunkIds(arc) /\ FileOf(arc, CurrentChunk) \in Volumes
      BY <1>1, EntryChunk, ArchiveFacts DEF CallShape, CurrentChunk
    <3>5. ChunkReady'
      BY <1>1, <2>4, <3>1, <3>4 DEF ChunkReady, CurrentChunk
    <3>6. QED
      BY <1>2, <2>3, <3>2, <3>3, <3>5
  <2>7. QED
    BY <2>5, <2>6
<1>5. QED
  BY <1>3, <1>4

\* Adding up the dictionary's lengths leaves the workspace as it is.
LEMMA WeighCommonChunkKeepsIInv == ASSUME IInv, WeighCommonChunk PROVE IInv'
<1> USE DEF IInv
<1>1. /\ pc = "weigh" /\ phase = "open" /\ todo \subseteq CommonChunks(arc) /\ ~dz_context
      /\ UNCHANGED <<arc, length, since, decode_buffer, phase, sizes, resolved, dz_context, workspace,
                     entry, part, out, result>>
  BY DEF WeighCommonChunk, CallShape
<1>2. /\ pc' = "load" \/ pc' = "weigh"
      /\ todo' \subseteq todo /\ retained' \in Nat
  <2>1. CASE todo = {}
    BY <1>1, <2>1 DEF WeighCommonChunk, TypeOK
  <2>2. CASE todo # {}
    <3>1. PICK i \in todo : /\ retained' = retained + resolved[i]
                            /\ todo' = todo \ {i} /\ UNCHANGED pc
      BY <2>2 DEF WeighCommonChunk
    <3>2. resolved[i] \in Nat /\ retained \in Nat
      BY <1>1 DEF TypeOK, CommonChunks
    <3>3. QED
      BY <1>1, <3>1, <3>2
  <2>3. QED
    BY <2>1, <2>2
<1>3. TypeOK'
  BY <1>1, <1>2 DEF TypeOK, Pcs
<1>4. CallShape' /\ ChunkReady'
  BY <1>1, <1>2 DEF CallShape, ChunkReady, CurrentChunk
<1>5. WorkspaceAccounted' /\ Layouts'
  BY <1>1, LayoutsUntouched DEF WorkspaceAccounted
<1>6. QED
  BY <1>3, <1>4, <1>5

\* The dictionary is kept and paid for in one step, or neither.
LEMMA LoadContextKeepsIInv == ASSUME IInv, LoadContext PROVE IInv'
<1> USE DEF IInv
<1>1. /\ pc = "load" /\ phase = "open" /\ ~dz_context
      /\ UNCHANGED <<arc, length, since, decode_buffer, phase, sizes, resolved, retained, out>>
  BY DEF LoadContext, CallShape
<1>2. Layouts'
  BY <1>1, LayoutsUntouched
<1>3. \/ /\ retained <= workspace
         /\ dz_context' = TRUE /\ workspace' = workspace - retained
         /\ pc' = "payload" /\ UNCHANGED <<entry, part, todo, result>>
      \/ Return("failed") /\ UNCHANGED <<dz_context, workspace>>
  BY DEF LoadContext
<1>4. CASE Return("failed") /\ UNCHANGED <<dz_context, workspace>>
  <2>1. "failed" \in Results
    BY DEF Results
  <2>2. TypeOK' /\ CallShape' /\ ChunkReady'
    BY <1>1, <1>4, <2>1, ReturnKeepsShape DEF TypeOK
  <2>3. WorkspaceAccounted'
    BY <1>1, <1>4 DEF WorkspaceAccounted
  <2>4. QED
    BY <1>2, <2>2, <2>3
<1>5. CASE /\ retained <= workspace
           /\ dz_context' = TRUE /\ workspace' = workspace - retained
           /\ pc' = "payload" /\ UNCHANGED <<entry, part, todo, result>>
  <2>1. TypeOK'
    BY <1>1, <1>5 DEF TypeOK, Pcs
  <2>2. CallShape' /\ ChunkReady'
    BY <1>1, <1>5 DEF CallShape, ChunkReady, CurrentChunk
  <2>3. WorkspaceAccounted'
    <3>1. workspace \in Nat /\ retained \in Nat
      BY DEF TypeOK
    <3>2. workspace = arc.limits.workspace
      BY <1>1 DEF WorkspaceAccounted
    <3>3. QED
      BY <1>1, <1>5, <3>1, <3>2 DEF WorkspaceAccounted
  <2>4. QED
    BY <1>2, <2>1, <2>2, <2>3
<1>6. QED
  BY <1>3, <1>4, <1>5

\* What the buffer held is cleared before it is filled, so a chunk's bytes alone are written.
LEMMA PayloadDelivered ==
  ASSUME TypeOK, CallShape, DeliverPayload
  PROVE  \E o \in PayloadOutcomes :
        IF o = "error" THEN Return("failed") /\ decode_buffer' = <<>> /\ UNCHANGED out
        ELSE /\ decode_buffer' = <<[chunk |-> CurrentChunk, content |-> o]>>
             /\ out' = Append(out, [chunk |-> CurrentChunk, content |-> o])
             /\ ProceedTo(entry, part + 1)
             /\ UNCHANGED <<entry, todo, result>>
<1>1. PICK o \in PayloadOutcomes :
        IF o = "error" THEN Return("failed") /\ decode_buffer' = <<>> /\ UNCHANGED out
        ELSE /\ decode_buffer' = <<[chunk |-> CurrentChunk, content |-> o]>>
             /\ out' = out \o decode_buffer'
             /\ ProceedTo(entry, part + 1)
             /\ UNCHANGED <<entry, todo, result>>
  BY DEF DeliverPayload, Refilled
<1>2. CurrentChunk \in ChunkIds(arc)
  BY EntryChunk DEF DeliverPayload, CallShape, CurrentChunk
<1>3. ASSUME o # "error"
      PROVE  out \o <<[chunk |-> CurrentChunk, content |-> o]>>
                = Append(out, [chunk |-> CurrentChunk, content |-> o])
  <2>1. o \in {"exact", "garbled"}
    BY <1>3 DEF PayloadOutcomes, DecodeOutcomes
  <2>2. [chunk |-> CurrentChunk, content |-> o]
          \in [chunk : ChunkIds(arc), content : {"exact", "garbled"}]
    BY <1>2, <2>1
  <2>3. out \in Seq([chunk : ChunkIds(arc), content : {"exact", "garbled"}])
    BY DEF TypeOK
  <2>4. QED
    BY <2>2, <2>3, AppendIsConcat
<1>4. QED
  BY <1>1, <1>3

\* Delivering a chunk moves the read on to the next one, or to its end.
LEMMA DeliverPayloadKeepsIInv == ASSUME IInv, DeliverPayload PROVE IInv'
<1> USE DEF IInv
<1>1. /\ pc = "payload" /\ phase = "open"
      /\ entry \in DOMAIN arc.entries /\ part \in DOMAIN arc.entries[entry]
      /\ UNCHANGED <<arc, length, since, phase, sizes, resolved, dz_context, retained, workspace>>
  BY DEF DeliverPayload, CallShape, archiveVars
<1>2. WorkspaceAccounted' /\ Layouts'
  BY <1>1, LayoutsUntouched DEF WorkspaceAccounted
<1>3. PICK o \in PayloadOutcomes :
        IF o = "error" THEN Return("failed") /\ decode_buffer' = <<>> /\ UNCHANGED out
        ELSE /\ decode_buffer' = <<[chunk |-> CurrentChunk, content |-> o]>>
             /\ out' = Append(out, [chunk |-> CurrentChunk, content |-> o])
             /\ ProceedTo(entry, part + 1)
             /\ UNCHANGED <<entry, todo, result>>
  BY PayloadDelivered
<1>4. CASE o = "error"
  <2>1. Return("failed") /\ "failed" \in Results /\ decode_buffer' = <<>> /\ UNCHANGED out
    BY <1>3, <1>4 DEF Results
  <2>2. TypeOK' /\ CallShape' /\ ChunkReady'
    BY <1>1, <2>1, ReturnKeepsShape, EmptySeq DEF TypeOK
  <2>3. QED
    BY <1>2, <2>2
<1>5. CASE o # "error"
  <2>1. /\ decode_buffer' = <<[chunk |-> CurrentChunk, content |-> o]>>
        /\ out' = Append(out, [chunk |-> CurrentChunk, content |-> o])
        /\ ProceedTo(entry, part + 1)
        /\ UNCHANGED <<entry, todo, result>>
    BY <1>3, <1>5
  <2>2. CurrentChunk \in ChunkIds(arc)
    BY <1>1, EntryChunk DEF CallShape, CurrentChunk
  <2>3. o \in {"exact", "garbled"}
    BY <1>5 DEF PayloadOutcomes, DecodeOutcomes
  <2>4. out' \in Seq([chunk : ChunkIds(arc), content : {"exact", "garbled"}])
    BY <2>1, <2>2, <2>3, AppendProperties DEF TypeOK
  <2>5. decode_buffer' \in Seq([chunk : ChunkIds(arc), content : {"exact", "garbled"}])
    BY <2>1, <2>2, <2>3
  <2>6. arc.entries[entry] \in Seq(Nat)
    BY <1>1, ArchiveFacts, ElementOfSeq
  <2>7. /\ part' \in Nat
        /\ \/ pc' = "volume" /\ part' \in DOMAIN arc.entries[entry]
           \/ pc' = "finish"
    BY <1>1, <2>1, <2>6, LenProperties DEF ProceedTo
  <2>8. TypeOK'
    BY <1>1, <2>1, <2>4, <2>5, <2>7 DEF TypeOK, Pcs
  <2>9. CallShape' /\ ChunkReady'
    BY <1>1, <2>1, <2>7 DEF CallShape, ChunkReady
  <2>10. QED
    BY <1>2, <2>8, <2>9
<1>6. QED
  BY <1>4, <1>5

\* A step that only returns from its call.
LEMMA PlainReturnKeepsIInv ==
  ASSUME IInv, phase = "open", NEW r \in Results, Return(r),
         UNCHANGED <<arc, length, since, archiveVars, out>>,
         decode_buffer' \in {decode_buffer, <<>>}
  PROVE  IInv'
<1> USE DEF IInv
<1>1. UNCHANGED <<phase, sizes, resolved, dz_context, retained, workspace>>
  BY DEF archiveVars
<1>2. decode_buffer' \in Seq([chunk : ChunkIds(arc), content : {"exact", "garbled"}])
  BY EmptySeq DEF TypeOK
<1>3. TypeOK' /\ CallShape' /\ ChunkReady'
  BY <1>1, <1>2, ReturnKeepsShape DEF TypeOK
<1>4. WorkspaceAccounted' /\ Layouts'
  BY <1>1, LayoutsUntouched DEF WorkspaceAccounted
<1>5. QED
  BY <1>3, <1>4

\* A writer that refuses the bytes only ends the read.
LEMMA OutputFailsKeepsIInv == ASSUME IInv, OutputFails PROVE IInv'
BY PlainReturnKeepsIInv DEF OutputFails, IInv, CallShape, Results

\* The length check at the end of read_entry_to only ends the read.
LEMMA FinishReadKeepsIInv == ASSUME IInv, FinishRead PROVE IInv'
<1>1. PICK r \in Results : Return(r)
  BY DEF FinishRead, Results
<1>2. phase = "open"
  BY DEF FinishRead, IInv, CallShape
<1>3. QED
  BY <1>1, <1>2, PlainReturnKeepsIInv DEF FinishRead

-----------------------------------------------------------------------------
(* The theorems *)

\* Before an archive is open nothing is resolved and nothing is paid.
LEMMA InitIInv == Init => IInv
<1> SUFFICES ASSUME Init
             PROVE  IInv
  OBVIOUS
<1>1. IsArchive(arc) /\ 0 \in Volumes
  BY ArchivesAssumption, MaxVolumeAssumption DEF Init, Volumes
<1>2. MainLength(arc) \in arc.lengths[0] /\ arc.lengths[0] \subseteq Nat
  BY <1>1 DEF MainLength, IsArchive
<1>3. MainOnly(arc) \in [Volumes -> Nat \cup {NoLength}]
  BY <1>2 DEF MainOnly
<1>4. arc.limits.workspace \in Nat /\ Len(arc.entries) \in Nat
  BY <1>1, LenProperties DEF IsArchive, Limits
<1>5. TypeOK
  <2>1. /\ arc \in Archives /\ length \in [Volumes -> Nat \cup {NoLength}]
        /\ since \in [Volumes -> Nat \cup {NoLength}] /\ sizes \in [Volumes -> Nat \cup {NoLength}]
    BY <1>3 DEF Init
  <2>2. resolved \in [ChunkIds(arc) -> Nat]
    BY DEF Init
  <2>3. /\ decode_buffer \in Seq([chunk : ChunkIds(arc), content : {"exact", "garbled"}])
        /\ out \in Seq([chunk : ChunkIds(arc), content : {"exact", "garbled"}])
    BY EmptySeq DEF Init
  <2>4. /\ phase \in {"prepared", "open", "rejected"} /\ dz_context \in BOOLEAN
        /\ pc \in Pcs /\ result \in Results /\ todo \subseteq Nat
    BY Zenon DEF Init, Pcs, Results
  <2>5. /\ retained \in Nat /\ workspace \in Nat
        /\ entry \in 0 .. Len(arc.entries) /\ part \in Nat
    BY <1>4 DEF Init
  <2>6. QED
    BY <2>1, <2>2, <2>3, <2>4, <2>5 DEF TypeOK
<1>6. CallShape
  BY <1>2 DEF Init, CallShape, MainOnly
<1>7. WorkspaceAccounted /\ ChunkReady /\ Layouts
  BY DEF Init, WorkspaceAccounted, ChunkReady, Layouts, RecordedVolumesWithinLimits,
         ResolvedAgrees
<1>8. QED
  BY <1>5, <1>6, <1>7 DEF IInv

\* Every step of the reader and of its surroundings keeps the invariant.
LEMMA StepKeepsIInv == IInv /\ [Next]_vars => IInv'
<1> SUFFICES ASSUME IInv, [Next]_vars
             PROVE  IInv'
  OBVIOUS
<1>1. CASE Open
  BY <1>1, OpenKeepsIInv
<1>2. ASSUME NEW v \in AuxVolumes, VolumeArrives(v) PROVE IInv'
  BY <1>2, VolumeArrivesKeepsIInv
<1>3. ASSUME NEW v \in Volumes, ResolveVolume(v) PROVE IInv'
  BY <1>3, ResolveVolumeKeepsIInv
<1>4. CASE StartSweep
  BY <1>4, StartSweepKeepsIInv
<1>5. ASSUME NEW e \in 0 .. Len(arc.entries), StartRead(e) PROVE IInv'
  BY <1>5, StartReadKeepsIInv
<1>6. CASE SweepVolume
  BY <1>6, SweepVolumeKeepsIInv
<1>7. CASE ResolveChunkVolume
  BY <1>7, ResolveChunkVolumeKeepsIInv
<1>8. CASE ResolveCommonVolume
  BY <1>8, ResolveCommonVolumeKeepsIInv
<1>9. CASE WeighCommonChunk
  BY <1>9, WeighCommonChunkKeepsIInv
<1>10. CASE LoadContext
  BY <1>10, LoadContextKeepsIInv
<1>11. CASE DeliverPayload
  BY <1>11, DeliverPayloadKeepsIInv
<1>12. CASE OutputFails
  BY <1>12, OutputFailsKeepsIInv
<1>13. CASE FinishRead
  BY <1>13, FinishReadKeepsIInv
<1>14. CASE UNCHANGED vars
  <2>1. UNCHANGED <<arc, length, since, decode_buffer, phase, sizes, resolved, dz_context, retained,
                    workspace, pc, entry, part, todo, out, result>>
    BY <1>14 DEF vars, archiveVars, callVars
  <2>2. TypeOK' /\ CallShape' /\ WorkspaceAccounted' /\ ChunkReady'
    BY <2>1 DEF IInv, TypeOK, CallShape, WorkspaceAccounted, ChunkReady, CurrentChunk
  <2>3. QED
    BY <2>1, <2>2, LayoutsUntouched DEF IInv
<1>15. QED
  BY <1>1, <1>2, <1>3, <1>4, <1>5, <1>6, <1>7, <1>8, <1>9, <1>10, <1>11, <1>12, <1>13,
     <1>14 DEF Next, CallStep

\* The inductive invariant holds in every reachable state.
THEOREM ReaderInvariant == Spec => []IInv
BY InitIInv, StepKeepsIInv, PTL DEF Spec

\* Every variable of the reader keeps its type: in particular the workspace a
\* decoder may use never falls below zero when the dictionary is taken off it.
THEOREM TypeCorrect == Spec => []TypeOK
<1>1. IInv => TypeOK
  BY DEF IInv
<1>2. QED
  BY <1>1, ReaderInvariant, PTL

\* ensure_dz_context takes the dictionary off the workspace exactly once, however
\* many reads fail half-way or start over.
THEOREM WorkspaceIsAccounted == Spec => []WorkspaceAccounted
<1>1. IInv => WorkspaceAccounted
  BY DEF IInv
<1>2. QED
  BY <1>1, ReaderInvariant, PTL

\* Volume-by-volume resolution agrees with one pass over the whole table.
THEOREM LazyLayoutAgrees == Spec => []ResolvedAgrees
<1>1. IInv => ResolvedAgrees
  BY DEF IInv, Layouts
<1>2. QED
  BY <1>1, ReaderInvariant, PTL

\* A recorded volume respects the chunk limits.
THEOREM RecordedMeansChecked == Spec => []RecordedVolumesWithinLimits
<1>1. IInv => RecordedVolumesWithinLimits
  BY DEF IInv, Layouts
<1>2. QED
  BY <1>1, ReaderInvariant, PTL

\* What the invariant says of a chunk about to be read is what its decoder needs.
LEMMA ReadyMeansPrepared == IInv => PayloadPrepared
<1> SUFFICES ASSUME IInv, pc = "payload"
             PROVE  /\ sizes[FileOf(arc, CurrentChunk)] # NoLength
                    /\ ReadLength <= arc.limits.input \/ ReadLength <= arc.limits.output
                    /\ Compression(arc, CurrentChunk) = "DZ" => dz_context
  BY DEF PayloadPrepared
<1>1. /\ sizes[FileOf(arc, CurrentChunk)] # NoLength
      /\ Compression(arc, CurrentChunk) = "DZ" => dz_context
  BY DEF IInv, ChunkReady
<1>2. /\ phase = "open" /\ CurrentChunk \in ChunkIds(arc)
      /\ FileOf(arc, CurrentChunk) \in Volumes
  BY EntryChunk, ArchiveFacts DEF IInv, CallShape, CurrentChunk
<1>3. WithinChunkLimits(arc, CurrentChunk, resolved[CurrentChunk])
  BY <1>1, <1>2 DEF IInv, Layouts, RecordedVolumesWithinLimits, VolumeWithinLimits
<1>4. ReadLength <= arc.limits.input \/ ReadLength <= arc.limits.output
  BY <1>3 DEF ReadLength, PayloadReadLength, WithinChunkLimits
<1>5. QED
  BY <1>1, <1>4

\* No payload is read by a stale or guessed length: its volume is resolved, its
\* buffer within the limits, and the dictionary loaded if the chunk is a DZ chunk.
THEOREM PayloadIsPrepared == Spec => []PayloadPrepared
BY ReadyMeansPrepared, ReaderInvariant, PTL

\* Every step that resolves a volume, and every step that does not, leaves the
\* resolved volumes and a loaded dictionary as they are.
FinalStep ==
  /\ \A v \in Volumes :
       phase = "open" /\ sizes[v] # NoLength =>
         /\ sizes'[v] = sizes[v]
         /\ \A i \in ChunkIds(arc) : FileOf(arc, i) = v => resolved'[i] = resolved[i]
  /\ dz_context => dz_context' /\ workspace' = workspace /\ retained' = retained

\* No step changes the layout of a resolved volume or a loaded dictionary.
LEMMA StepIsFinal == IInv /\ [Next]_vars => FinalStep
<1> SUFFICES ASSUME IInv, [Next]_vars
             PROVE  FinalStep
  OBVIOUS
<1>1. ASSUME NEW v \in Volumes, ResolveVolumeLayout(v),
             UNCHANGED <<dz_context, workspace>>, dz_context => retained' = retained
      PROVE  FinalStep
  BY <1>1, ResolutionTypes DEF FinalStep, IInv
<1>2. ASSUME UNCHANGED <<sizes, resolved>>,
             dz_context => dz_context' /\ workspace' = workspace /\ retained' = retained
      PROVE  FinalStep
  BY <1>2 DEF FinalStep
<1>3. CASE Open
  BY <1>3 DEF Open, FinalStep
<1>4. ASSUME NEW v \in AuxVolumes, VolumeArrives(v) PROVE FinalStep
  BY <1>2, <1>4 DEF VolumeArrives, archiveVars
<1>5. ASSUME NEW v \in Volumes, ResolveVolume(v) PROVE FinalStep
  BY <1>1, <1>5 DEF ResolveVolume
<1>6. CASE StartSweep
  BY <1>2, <1>6 DEF StartSweep, archiveVars
<1>7. ASSUME NEW e \in 0 .. Len(arc.entries), StartRead(e) PROVE FinalStep
  BY <1>2, <1>7 DEF StartRead, archiveVars
<1>8. CASE SweepVolume
  <2>1. CASE todo = {}
    BY <1>2, <1>8, <2>1 DEF SweepVolume
  <2>2. CASE todo # {}
    <3>1. PICK v \in todo : ResolveVolumeLayout(v)
      BY <1>8, <2>2 DEF SweepVolume
    <3>2. v \in Volumes
      BY <1>8 DEF SweepVolume, IInv, CallShape
    <3>3. QED
      BY <1>1, <1>8, <3>1, <3>2 DEF SweepVolume
  <2>3. QED
    BY <2>1, <2>2
<1>9. CASE ResolveChunkVolume
  <2>1. FileOf(arc, CurrentChunk) \in Volumes
    BY <1>9, EntryChunk, ArchiveFacts DEF ResolveChunkVolume, IInv, CallShape, CurrentChunk
  <2>2. QED
    BY <1>1, <1>9, <2>1 DEF ResolveChunkVolume
<1>10. CASE ResolveCommonVolume
  <2>1. ~dz_context /\ UNCHANGED <<dz_context, workspace>>
    BY <1>10 DEF ResolveCommonVolume, IInv, CallShape
  <2>2. CASE todo = {}
    BY <1>2, <1>10, <2>1, <2>2 DEF ResolveCommonVolume
  <2>3. CASE todo # {}
    <3>1. PICK i \in todo : ResolveVolumeLayout(FileOf(arc, i))
      BY <1>10, <2>3 DEF ResolveCommonVolume
    <3>2. FileOf(arc, i) \in Volumes
      BY <1>10, ArchiveFacts DEF ResolveCommonVolume, IInv, CallShape, CommonChunks
    <3>3. QED
      BY <1>1, <2>1, <3>1, <3>2
  <2>4. QED
    BY <2>2, <2>3
<1>11. CASE WeighCommonChunk
  BY <1>2, <1>11 DEF WeighCommonChunk, IInv, CallShape
<1>12. CASE LoadContext
  BY <1>2, <1>12 DEF LoadContext, IInv, CallShape
<1>13. CASE DeliverPayload \/ OutputFails \/ FinishRead
  BY <1>2, <1>13 DEF DeliverPayload, OutputFails, FinishRead, archiveVars
<1>14. CASE UNCHANGED vars
  BY <1>2, <1>14 DEF vars, archiveVars
<1>15. QED
  BY <1>3, <1>4, <1>5, <1>6, <1>7, <1>8, <1>9, <1>10, <1>11, <1>12, <1>13, <1>14
     DEF Next, CallStep

\* Once a volume's size is recorded, neither the size nor the layout of its chunks
\* changes again, and a loaded dictionary is never loaded a second time.
THEOREM ResolutionStaysFinal == Spec => ResolutionIsFinal
<1>1. IInv /\ [Next]_vars =>
        [ /\ \A v \in Volumes :
               phase = "open" /\ sizes[v] # NoLength =>
                 /\ sizes'[v] = sizes[v]
                 /\ \A i \in ChunkIds(arc) : FileOf(arc, i) = v => resolved'[i] = resolved[i]
          /\ dz_context => dz_context' /\ workspace' = workspace /\ retained' = retained ]_vars
  BY StepIsFinal DEF FinalStep
<1>2. QED
  BY <1>1, ReaderInvariant, PTL DEF Spec, ResolutionIsFinal

-----------------------------------------------------------------------------
(* The dictionary *)

\* The volumes of these records are resolved.
Known(S) == \A i \in S : sizes[FileOf(arc, i)] # NoLength

\* How far the dictionary's volumes are resolved and its bytes are added up,
\* step by step of the load.
DictionaryShape ==
  /\ dz_context => phase = "open"
  /\ pc = "common" => Known(CommonChunks(arc) \ todo)
  /\ pc \in {"weigh", "load"} \/ dz_context => Known(CommonChunks(arc))
  /\ pc = "weigh" => retained = SumOver(resolved, CommonChunks(arc) \ todo)
  /\ pc = "load" \/ dz_context => retained = SumOver(resolved, CommonChunks(arc))

\* The dictionary's records are finitely many, and laid out.
LEMMA CommonFacts ==
  ASSUME TypeOK
  PROVE  /\ CommonChunks(arc) \subseteq ChunkIds(arc)
         /\ IsFiniteSet(CommonChunks(arc))
         /\ \A i \in CommonChunks(arc) : resolved[i] \in Nat /\ FileOf(arc, i) \in Volumes
<1>1. CommonChunks(arc) \subseteq ChunkIds(arc)
  BY DEF CommonChunks
<1>2. ChunkIds(arc) = 1 .. Len(arc.chunks) /\ Len(arc.chunks) \in Nat
  BY ArchiveFacts, LenProperties DEF ChunkIds
<1>3. IsFiniteSet(ChunkIds(arc))
  BY <1>2, FS_Interval
<1>4. IsFiniteSet(CommonChunks(arc))
  BY <1>1, <1>3, FS_Subset
<1>5. QED
  BY <1>1, <1>4, ArchiveFacts DEF TypeOK

\* The archive stays the one that was opened.
LEMMA ArchiveStays == [Next]_vars => UNCHANGED arc
BY DEF Next, CallStep, vars, Open, VolumeArrives, ResolveVolume, StartSweep, StartRead,
       SweepVolume, ResolveChunkVolume, ResolveCommonVolume, WeighCommonChunk, LoadContext,
       DeliverPayload, OutputFails, FinishRead

\* What is resolved stays resolved, at the lengths it has, and so do the sums.
LEMMA KnownStays ==
  ASSUME IInv, [Next]_vars, phase = "open",
         NEW S, S \subseteq CommonChunks(arc), Known(S)
  PROVE  /\ Known(S)'
         /\ SumOver(resolved', S) = SumOver(resolved, S)
<1>1. TypeOK /\ FinalStep /\ UNCHANGED arc
  BY StepIsFinal, ArchiveStays DEF IInv
<1>2. S \subseteq ChunkIds(arc) /\ IsFiniteSet(S) /\ \A i \in S : FileOf(arc, i) \in Volumes
  BY <1>1, CommonFacts, FS_Subset
<1>3. \A i \in S : /\ sizes'[FileOf(arc, i)] = sizes[FileOf(arc, i)]
                   /\ resolved'[i] = resolved[i] /\ resolved[i] \in Nat
  BY <1>1, <1>2 DEF FinalStep, Known, TypeOK
<1>4. Known(S)'
  BY <1>1, <1>3 DEF Known
<1>5. SumOver(resolved, S) = SumOver(resolved', S)
  BY <1>2, <1>3, SumCongruence
<1>6. QED
  BY <1>4, <1>5

\* A step that is not part of a load keeps a loaded dictionary.
LEMMA OutsideLoad ==
  ASSUME IInv, DictionaryShape, [Next]_vars,
         dz_context' = dz_context, dz_context => retained' = retained /\ phase' = phase,
         pc' \notin {"common", "weigh", "load"}
  PROVE  DictionaryShape'
<1>1. CASE ~dz_context
  BY <1>1 DEF DictionaryShape
<1>2. CASE dz_context
  <2>1. /\ phase = "open" /\ Known(CommonChunks(arc))
        /\ retained = SumOver(resolved, CommonChunks(arc))
    BY <1>2 DEF DictionaryShape
  <2>2. /\ Known(CommonChunks(arc))'
        /\ SumOver(resolved', CommonChunks(arc)) = SumOver(resolved, CommonChunks(arc))
    <3>1. /\ \A i \in CommonChunks(arc) : sizes'[FileOf(arc', i)] # NoLength
          /\ SumOver(resolved', CommonChunks(arc)) = SumOver(resolved, CommonChunks(arc))
      BY <2>1, KnownStays DEF Known
    <3>2. QED
      BY <3>1, ArchiveStays DEF Known
  <2>3. QED
    BY <1>2, <2>1, <2>2, ArchiveStays DEF DictionaryShape
<1>3. QED
  BY <1>1, <1>2

\* ResolveCommonVolume leaves a loaded dictionary alone, or ends the call.
LEMMA ResolveCommonVolumeDictionary ==
  ASSUME IInv, DictionaryShape, ResolveCommonVolume PROVE DictionaryShape'
<1>1. /\ pc = "common" /\ phase = "open" /\ todo \subseteq CommonChunks(arc) /\ ~dz_context
      /\ UNCHANGED <<arc, phase, dz_context>> /\ TypeOK
      /\ Known(CommonChunks(arc) \ todo)
  BY DEF ResolveCommonVolume, IInv, CallShape, DictionaryShape
<1>2. CASE todo = {}
  <2>1. /\ pc' = "weigh" /\ todo' = CommonChunks(arc) /\ retained' = 0
        /\ UNCHANGED <<resolved, sizes>>
    BY <1>2 DEF ResolveCommonVolume
  <2>2. Known(CommonChunks(arc))'
    BY <1>1, <1>2, <2>1 DEF Known
  <2>3. SumOver(resolved', CommonChunks(arc) \ todo') = 0
    <3>1. CommonChunks(arc) \ todo' = {}
      BY <2>1
    <3>2. SumOver(resolved', {}) = 0
      BY FS_EmptySet, SumStep
    <3>3. QED
      BY <3>1, <3>2
  <2>4. QED
    BY <1>1, <2>1, <2>2, <2>3 DEF DictionaryShape
<1>3. CASE todo # {}
  <2>1. PICK i \in todo :
          /\ ResolveVolumeLayout(FileOf(arc, i))
          /\ IF ResolutionFails(FileOf(arc, i)) THEN Return("failed")
             ELSE todo' = todo \ {i} /\ UNCHANGED <<pc, entry, part, result>>
    BY <1>3 DEF ResolveCommonVolume
  <2>2. CASE ResolutionFails(FileOf(arc, i))
    BY <1>1, <2>1, <2>2 DEF Return, DictionaryShape
  <2>3. CASE ~ResolutionFails(FileOf(arc, i))
    <3>1. todo' = todo \ {i} /\ pc' = pc
      BY <2>1, <2>3
    <3>2. /\ sizes'[FileOf(arc, i)] # NoLength
          /\ \A w \in Volumes : sizes[w] # NoLength => sizes'[w] = sizes[w]
      BY <1>1, <2>1, <2>3, ResolutionTypes, CommonFacts
    <3>3. \A j \in CommonChunks(arc) \ todo' : sizes'[FileOf(arc, j)] # NoLength
      BY <1>1, <3>1, <3>2, CommonFacts DEF Known
    <3>4. QED
      BY <1>1, <3>1, <3>3 DEF DictionaryShape, Known
  <2>4. QED
    BY <2>2, <2>3
<1>4. QED
  BY <1>2, <1>3

\* WeighCommonChunk takes the size of the dictionary before a byte of it is read.
LEMMA WeighCommonChunkDictionary ==
  ASSUME IInv, DictionaryShape, WeighCommonChunk PROVE DictionaryShape'
<1>1. /\ pc = "weigh" /\ phase = "open" /\ todo \subseteq CommonChunks(arc) /\ ~dz_context
      /\ UNCHANGED <<arc, phase, dz_context, sizes, resolved>> /\ TypeOK
      /\ Known(CommonChunks(arc))
      /\ retained = SumOver(resolved, CommonChunks(arc) \ todo)
  BY DEF WeighCommonChunk, IInv, CallShape, DictionaryShape
<1>2. Known(CommonChunks(arc))'
  BY <1>1 DEF Known
<1>3. CASE todo = {}
  <2>1. pc' = "load" /\ retained' = retained
    BY <1>3 DEF WeighCommonChunk
  <2>2. CommonChunks(arc) \ todo = CommonChunks(arc)
    BY <1>3
  <2>3. QED
    BY <1>1, <1>2, <2>1, <2>2 DEF DictionaryShape
<1>4. CASE todo # {}
  <2>1. PICK i \in todo : retained' = retained + resolved[i] /\ todo' = todo \ {i} /\ pc' = pc
    BY <1>4 DEF WeighCommonChunk
  <2> DEFINE done == CommonChunks(arc) \ todo
  <2>2. CommonChunks(arc) \ todo' = done \cup {i} /\ i \notin done
    BY <1>1, <2>1
  <2>3. IsFiniteSet(done) /\ \A j \in done \cup {i} : resolved[j] \in Nat
    BY <1>1, CommonFacts, FS_Subset
  <2>4. SumOver(resolved, done \cup {i}) = SumOver(resolved, done) + resolved[i]
    BY <2>2, <2>3, SumWith
  <2>5. retained' = SumOver(resolved', CommonChunks(arc) \ todo')
    BY <1>1, <2>1, <2>2, <2>4
  <2>6. QED
    BY <1>1, <1>2, <2>1, <2>5 DEF DictionaryShape
<1>5. QED
  BY <1>3, <1>4

\* LoadContext loads the dictionary whole: one byte string for each common chunk.
LEMMA LoadContextDictionary ==
  ASSUME IInv, DictionaryShape, LoadContext PROVE DictionaryShape'
<1>1. /\ pc = "load" /\ phase = "open" /\ ~dz_context
      /\ UNCHANGED <<arc, phase, sizes, resolved, retained>>
      /\ Known(CommonChunks(arc)) /\ retained = SumOver(resolved, CommonChunks(arc))
  BY DEF LoadContext, IInv, CallShape, DictionaryShape
<1>2. pc' \in {"idle", "payload"}
  BY DEF LoadContext, Return
<1>3. QED
  BY <1>1, <1>2 DEF DictionaryShape, Known

\* No step leaves a dictionary that is loaded in part.
LEMMA DictionaryStep == IInv /\ DictionaryShape /\ [Next]_vars => DictionaryShape'
<1> SUFFICES ASSUME IInv, DictionaryShape, [Next]_vars PROVE DictionaryShape'
  OBVIOUS
<1>1. CASE Open
  BY <1>1, OutsideLoad DEF Open, callVars, IInv, CallShape, DictionaryShape
<1>2. CASE (\E v \in AuxVolumes : VolumeArrives(v)) \/ UNCHANGED vars
  <2>1. UNCHANGED <<arc, phase, sizes, resolved, dz_context, retained, pc, todo>>
    BY <1>2 DEF VolumeArrives, vars, archiveVars, callVars
  <2>2. QED
    BY <2>1 DEF DictionaryShape, Known
<1>3. CASE \E v \in Volumes : ResolveVolume(v)
  BY <1>3, OutsideLoad DEF ResolveVolume, Return
<1>4. CASE StartSweep
  BY <1>4, OutsideLoad DEF StartSweep, archiveVars
<1>5. CASE \E e \in 0 .. Len(arc.entries) : StartRead(e)
  BY <1>5, OutsideLoad DEF StartRead, ProceedTo, Return, archiveVars
<1>6. CASE SweepVolume
  <2>1. pc' \in {"idle", "sweep"}
    BY <1>6 DEF SweepVolume, Return
  <2>2. QED
    BY <1>6, <2>1, OutsideLoad DEF SweepVolume
<1>7. CASE ResolveChunkVolume
  <2>1. UNCHANGED <<arc, phase, dz_context, retained>>
    BY <1>7 DEF ResolveChunkVolume
  <2>2. \/ pc' \in {"idle", "payload"}
        \/ pc' = "common" /\ todo' = CommonChunks(arc) /\ ~dz_context
    BY <1>7 DEF ResolveChunkVolume, Return
  <2>3. CASE pc' \in {"idle", "payload"}
    BY <2>1, <2>3, OutsideLoad
  <2>4. CASE pc' = "common" /\ todo' = CommonChunks(arc) /\ ~dz_context
    BY <2>1, <2>4 DEF DictionaryShape, Known
  <2>5. QED
    BY <2>2, <2>3, <2>4
<1>8. CASE ResolveCommonVolume
  BY <1>8, ResolveCommonVolumeDictionary
<1>9. CASE WeighCommonChunk
  BY <1>9, WeighCommonChunkDictionary
<1>10. CASE LoadContext
  BY <1>10, LoadContextDictionary
<1>11. CASE DeliverPayload
  <2>1. pc' \in {"idle", "volume", "finish"}
    BY <1>11 DEF DeliverPayload, ProceedTo, Return
  <2>2. QED
    BY <1>11, <2>1, OutsideLoad DEF DeliverPayload, archiveVars
<1>12. CASE OutputFails \/ FinishRead
  BY <1>12, OutsideLoad DEF OutputFails, FinishRead, Return, archiveVars
<1>13. QED
  BY <1>1, <1>2, <1>3, <1>4, <1>5, <1>6, <1>7, <1>8, <1>9, <1>10, <1>11, <1>12
  DEF Next, CallStep

\* DictionaryWhole: ensure_dz_context resolves all the dictionary's volumes
\* before load_dz_context_with_limits adds up a single length, whatever fails
\* and starts over in between.
THEOREM DictionaryIsWhole == Spec => []DictionaryWhole
<1>1. Init => DictionaryShape
  BY DEF Init, DictionaryShape
<1>2. DictionaryShape => DictionaryWhole
  BY DEF DictionaryShape, DictionaryWhole, SumOver, Known
<1>3. QED
  BY <1>1, <1>2, DictionaryStep, ReaderInvariant, PTL DEF Spec

-----------------------------------------------------------------------------
(* The chunks delivered *)

\* A recorded size is a length the volume's file really had.
SizesAreLengths == \A v \in Volumes : sizes[v] # NoLength => sizes[v] \in arc.lengths[v]

\* The k-th chunk written is the entry's, of a volume that is resolved, and wrong
\* only if that volume was not complete.
DeliveredWell(k) ==
  /\ out[k].chunk = arc.entries[entry][k]
  /\ sizes[FileOf(arc, out[k].chunk)] # NoLength
  /\ out[k].content = "garbled" /\ PackerLaid =>
       \E n \in arc.lengths[FileOf(arc, out[k].chunk)] : sizes[FileOf(arc, out[k].chunk)] < n

\* A read is at the chunk after the last one it wrote.
ReadShape ==
  /\ entry # 0 <=> pc \notin {"idle", "sweep"}
  /\ entry # 0 =>
       /\ entry \in DOMAIN arc.entries
       /\ part = Len(out) + 1
       /\ part <= Len(arc.entries[entry]) + 1
  /\ pc = "finish" => part = Len(arc.entries[entry]) + 1
  /\ entry # 0 => \A k \in DOMAIN out : DeliveredWell(k)

\* What a step may do to the layout: nothing, or resolve one volume.
LEMMA OneVolumeAtATime ==
  ASSUME IInv, [Next]_vars
  PROVE  \/ UNCHANGED sizes
         \/ phase = "open" /\ UNCHANGED length /\ \E v \in Volumes : ResolveVolumeLayout(v)
<1>1. CASE ResolveChunkVolume
  BY <1>1, EntryChunk, ArchiveFacts DEF ResolveChunkVolume, IInv, CallShape, CurrentChunk
<1>2. CASE ResolveCommonVolume
  <2>1. CASE todo = {}
    BY <1>2, <2>1 DEF ResolveCommonVolume
  <2>2. CASE todo # {}
    <3>1. PICK i \in todo : ResolveVolumeLayout(FileOf(arc, i))
      BY <1>2, <2>2 DEF ResolveCommonVolume
    <3>2. FileOf(arc, i) \in Volumes /\ phase = "open" /\ UNCHANGED length
      BY <1>2, ArchiveFacts DEF ResolveCommonVolume, IInv, CallShape, CommonChunks
    <3>3. QED
      BY <3>1, <3>2
  <2>3. QED
    BY <2>1, <2>2
<1>3. CASE SweepVolume
  BY <1>3 DEF SweepVolume, IInv, CallShape
<1>4. CASE \E v \in Volumes : ResolveVolume(v)
  BY <1>4 DEF ResolveVolume
<1>5. CASE \/ Open \/ (\E v \in AuxVolumes : VolumeArrives(v)) \/ StartSweep
           \/ (\E e \in 0 .. Len(arc.entries) : StartRead(e)) \/ WeighCommonChunk
           \/ LoadContext \/ DeliverPayload \/ OutputFails \/ FinishRead \/ UNCHANGED vars
  BY <1>5 DEF Open, VolumeArrives, StartSweep, StartRead, WeighCommonChunk, LoadContext,
              DeliverPayload, OutputFails, FinishRead, vars, archiveVars
<1>6. QED
  BY <1>1, <1>2, <1>3, <1>4, <1>5 DEF Next, CallStep

\* Only lengths that volumes have are recorded.
LEMMA SizesStayLengths == IInv /\ SizesAreLengths /\ [Next]_vars => SizesAreLengths'
<1> SUFFICES ASSUME IInv, SizesAreLengths, [Next]_vars PROVE SizesAreLengths'
  OBVIOUS
<1>1. arc' = arc
  BY ArchiveStays
<1>2. CASE UNCHANGED sizes
  BY <1>1, <1>2 DEF SizesAreLengths
<1>3. ASSUME NEW v \in Volumes, ResolveVolumeLayout(v) PROVE SizesAreLengths'
  <2>1. sizes' = sizes \/ (length[v] # NoLength /\ sizes' = [sizes EXCEPT ![v] = length[v]])
    <3>1. CASE sizes[v] # NoLength \/ length[v] = NoLength
      BY <1>3, <3>1 DEF ResolveVolumeLayout
    <3>2. CASE sizes[v] = NoLength /\ length[v] # NoLength
      BY <1>3, <3>2 DEF ResolveVolumeLayout
    <3>3. QED
      BY <3>1, <3>2
  <2>2. length[v] # NoLength => length[v] \in arc.lengths[v]
    BY DEF IInv, CallShape
  <2>3. sizes \in [Volumes -> Nat \cup {NoLength}]
    BY DEF IInv, TypeOK
  <2>4. QED
    BY <1>1, <2>1, <2>2, <2>3 DEF SizesAreLengths
<1>4. QED
  BY <1>2, <1>3, OneVolumeAtATime

\* What was delivered stays as it is while the read goes on.
LEMMA DeliveredStays ==
  ASSUME IInv, ReadShape, [Next]_vars, entry # 0, entry' = entry,
         NEW k \in DOMAIN out, out'[k] = out[k]
  PROVE  DeliveredWell(k)'
<1>1. phase = "open" /\ FinalStep /\ arc' = arc
  BY StepIsFinal, ArchiveStays DEF ReadShape, IInv, CallShape
<1>2. FileOf(arc, out[k].chunk) \in Volumes
  <2>1. out \in Seq([chunk : ChunkIds(arc), content : {"exact", "garbled"}])
    BY DEF IInv, TypeOK
  <2> DEFINE Piece == [chunk : ChunkIds(arc), content : {"exact", "garbled"}]
  <2>2. out[k] \in Piece
    <3>1. out \in Seq(Piece)
      BY <2>1
    <3> HIDE DEF Piece
    <3>2. QED
      BY <3>1, ElementOfSeq
  <2>3. out[k].chunk \in ChunkIds(arc)
    BY <2>2
  <2>4. QED
    BY <2>3, ArchiveFacts DEF IInv
<1>3. DeliveredWell(k)
  BY DEF ReadShape
<1>4. sizes'[FileOf(arc, out[k].chunk)] = sizes[FileOf(arc, out[k].chunk)]
  BY <1>1, <1>2, <1>3 DEF DeliveredWell, FinalStep
<1>5. PackerLaid' <=> PackerLaid
  BY <1>1 DEF PackerLaid
<1>6. QED
  BY <1>1, <1>3, <1>4, <1>5 DEF DeliveredWell

\* A step of a read that writes nothing.
LEMMA ReadMovesOn ==
  ASSUME IInv, ReadShape, [Next]_vars, entry # 0, UNCHANGED <<entry, part, out>>,
         pc' \notin {"idle", "sweep", "finish"}
  PROVE  ReadShape'
<1>1. \A k \in DOMAIN out : DeliveredWell(k)'
  BY DeliveredStays
<1>2. QED
  BY <1>1, ArchiveStays DEF ReadShape

\* A step after which no entry is being read.
LEMMA NoRead == ASSUME entry' = 0, pc' \in {"idle", "sweep"} PROVE ReadShape'
BY DEF ReadShape

\* A decoder gives other bytes only for a DZ stream cut short, and a stream that is
\* whole when its volume is can only be cut short by a volume that is not.
LEMMA GarbledIsIncomplete ==
  ASSUME IInv, SizesAreLengths, pc = "payload", "garbled" \in PayloadOutcomes, PackerLaid
  PROVE  \E n \in arc.lengths[FileOf(arc, CurrentChunk)] : sizes[FileOf(arc, CurrentChunk)] < n
<1> DEFINE i == CurrentChunk
           v == FileOf(arc, CurrentChunk)
           full == [w \in Volumes |-> IF arc.lengths[w] = {} THEN NoLength
                                      ELSE Max(arc.lengths[w])]
<1>1. /\ i \in ChunkIds(arc) /\ v \in Volumes /\ phase = "open"
      /\ sizes[v] # NoLength /\ sizes[v] \in arc.lengths[v] /\ arc.lengths[v] \subseteq Nat
  <2>1. i \in ChunkIds(arc) /\ phase = "open" /\ sizes[v] # NoLength
    BY EntryChunk DEF IInv, CallShape, CurrentChunk, ChunkReady
  <2>2. v \in Volumes /\ IsArchive(arc)
    BY <2>1, ArchiveFacts DEF IInv
  <2>3. QED
    BY <2>1, <2>2 DEF SizesAreLengths, IsArchive
<1>2. /\ Compression(arc, i) = "DZ" /\ ReadLength = resolved[i]
      /\ resolved[i] # arc.chunks[i].need /\ ~(resolved[i] > arc.chunks[i].need)
  <2>1. "garbled" \in DecodeOutcomes(arc, i, ReadLength)
    BY DEF PayloadOutcomes
  <2>2. Compression(arc, i) = "DZ" /\ ReadLength # arc.chunks[i].need
        /\ ~(ReadLength > arc.chunks[i].need)
    BY <2>1 DEF DecodeOutcomes
  <2>3. ReadLength = resolved[i]
    BY <2>2 DEF ReadLength, PayloadReadLength, Compression
  <2>4. QED
    BY <2>2, <2>3
<1>3. resolved[i] \in Nat /\ arc.chunks[i].need \in Nat
  <2>1. arc.chunks[i] \in Chunk
    BY <1>1, ArchiveFacts, ElementOfSeq DEF IInv, ChunkIds
  <2>2. QED
    BY <1>1, <2>1 DEF IInv, TypeOK, Chunk
<1>4. SUFFICES ASSUME \A n \in arc.lengths[v] : ~(sizes[v] < n)
               PROVE  FALSE
  OBVIOUS
<1>5. full[v] = sizes[v]
  <2>1. \A n \in arc.lengths[v] : sizes[v] >= n
    BY <1>1, <1>4
  <2>2. \A m \in arc.lengths[v] : (\A n \in arc.lengths[v] : m >= n) => m = sizes[v]
    BY <1>1, <2>1
  <2>3. Max(arc.lengths[v]) = sizes[v]
    BY <1>1, <2>1, <2>2 DEF Max
  <2>4. QED
    BY <1>1, <2>3
<1>6. resolved[i] = ResolveChunkLayout(arc.chunks, [sizes EXCEPT ![v] = sizes[v]])[i]
  BY <1>1 DEF IInv, Layouts, ResolvedAgrees, LaidOutFor
<1>7. ResolveChunkLayout(arc.chunks, [sizes EXCEPT ![v] = sizes[v]])[i]
        = ResolveChunkLayout(arc.chunks, full)[i]
  <2> DEFINE s == [sizes EXCEPT ![v] = sizes[v]]
  <2>1. s[v] = full[v]
    BY <1>1, <1>5 DEF IInv, TypeOK
  <2>2. i \in DOMAIN arc.chunks /\ arc.chunks[i].file = v
    BY <1>1 DEF ChunkIds, FileOf
  <2> HIDE DEF s, full, v, i
  <2>3. ResolveChunkLayout(arc.chunks, s)[i] = ResolveChunkLayout(arc.chunks, full)[i]
    BY <2>1, <2>2, LayoutIsLocal
  <2>4. QED
    BY <2>3 DEF s
<1>8. ResolveChunkLayout(arc.chunks, full)[i] >= arc.chunks[i].need
  BY <1>1, <1>2 DEF PackerLaid
<1>9. QED
  BY <1>2, <1>3, <1>6, <1>7, <1>8

\* Delivering a chunk appends the entry's next one.
LEMMA DeliverPayloadRead ==
  ASSUME IInv, SizesAreLengths, ReadShape, DeliverPayload PROVE ReadShape'
<1>1. /\ pc = "payload" /\ entry # 0 /\ entry \in DOMAIN arc.entries
      /\ part \in DOMAIN arc.entries[entry] /\ part = Len(out) + 1
      /\ UNCHANGED <<arc, sizes>>
      /\ \A k \in DOMAIN out : DeliveredWell(k)
  BY DEF DeliverPayload, IInv, CallShape, ReadShape, archiveVars
<1>2. PICK o \in PayloadOutcomes :
        IF o = "error" THEN Return("failed") /\ decode_buffer' = <<>> /\ UNCHANGED out
        ELSE /\ decode_buffer' = <<[chunk |-> CurrentChunk, content |-> o]>>
             /\ out' = Append(out, [chunk |-> CurrentChunk, content |-> o])
             /\ ProceedTo(entry, part + 1)
             /\ UNCHANGED <<entry, todo, result>>
  BY PayloadDelivered DEF IInv
<1>3. CASE o = "error"
  BY <1>2, <1>3, NoRead DEF Return
<1>4. CASE o # "error"
  <2> DEFINE piece == [chunk |-> CurrentChunk, content |-> o]
  <2>1. /\ out' = Append(out, piece)
        /\ ProceedTo(entry, part + 1)
        /\ entry' = entry
    BY <1>2, <1>4
  <2>2. /\ Len(out') = Len(out) + 1 /\ out'[Len(out) + 1] = piece
        /\ DOMAIN out' = 1 .. Len(out) + 1 /\ DOMAIN out = 1 .. Len(out) /\ Len(out) \in Nat
        /\ \A k \in DOMAIN out : out'[k] = out[k]
    <3>1. out \in Seq([chunk : ChunkIds(arc), content : {"exact", "garbled"}])
      BY DEF IInv, TypeOK
    <3>2. piece \in [chunk : ChunkIds(arc), content : {"exact", "garbled"}]
      <4>1. CurrentChunk \in ChunkIds(arc)
        BY <1>1, EntryChunk DEF IInv, CallShape, CurrentChunk
      <4>2. o \in {"exact", "garbled"}
        BY <1>4 DEF PayloadOutcomes, DecodeOutcomes
      <4>3. QED
        BY <4>1, <4>2
    <3> HIDE DEF piece
    <3>3. QED
      BY <2>1, <3>1, <3>2, AppendProperties, LenProperties
  <2>3. \A k \in DOMAIN out : DeliveredWell(k)'
    BY <1>1, <2>1, <2>2 DEF DeliveredWell, PackerLaid
  <2>4. \A k \in {part} : DeliveredWell(k)'
    <3>1. out'[part].chunk = CurrentChunk /\ out'[part].content = o
      BY <1>1, <2>2
    <3>2. sizes[FileOf(arc, CurrentChunk)] # NoLength
      BY <1>1 DEF IInv, ChunkReady
    <3>3. (o = "garbled" /\ PackerLaid) =>
            \E n \in arc.lengths[FileOf(arc, CurrentChunk)] :
               sizes[FileOf(arc, CurrentChunk)] < n
      BY <1>1, GarbledIsIncomplete
    <3>4. CurrentChunk = arc.entries[entry][part]
      BY DEF CurrentChunk
    <3> HIDE DEF piece
    <3>5. PackerLaid' <=> PackerLaid
      BY <1>1 DEF PackerLaid
    <3>6. QED
      BY <1>1, <2>1, <3>1, <3>2, <3>3, <3>4, <3>5 DEF DeliveredWell
  <2>5. \A k \in DOMAIN out' : DeliveredWell(k)'
    BY <1>1, <2>2, <2>3, <2>4
  <2>6. arc.entries[entry] \in Seq(Nat)
    BY <1>1, ArchiveFacts, ElementOfSeq DEF IInv
  <2>7. /\ part' = part + 1 /\ part <= Len(arc.entries[entry])
        /\ Len(arc.entries[entry]) \in Nat /\ part \in Nat
        /\ pc' = IF part + 1 <= Len(arc.entries[entry]) THEN "volume" ELSE "finish"
    BY <1>1, <2>1, <2>6, LenProperties DEF ProceedTo
  <2>8. /\ part' <= Len(arc.entries[entry]) + 1 /\ part' = Len(out') + 1
        /\ pc' \in {"volume", "finish"}
        /\ pc' = "finish" => part' = Len(arc.entries[entry]) + 1
    BY <1>1, <2>2, <2>7
  <2>9. QED
    BY <1>1, <2>1, <2>5, <2>8 DEF ReadShape
<1>5. QED
  BY <1>3, <1>4

\* A read starts with nothing written.
LEMMA StartReadRead ==
  ASSUME IInv, NEW e \in 0 .. Len(arc.entries), StartRead(e) PROVE ReadShape'
<1>1. arc' = arc /\ out' = <<>>
  BY DEF StartRead
<1>2. CASE e = 0
  BY <1>2, NoRead DEF StartRead, Return
<1>3. CASE e # 0
  <2>1. e \in DOMAIN arc.entries /\ Len(arc.entries[e]) \in Nat
    <3>1. arc.entries \in Seq(Seq(Nat))
      BY ArchiveFacts DEF IInv
    <3>2. e \in DOMAIN arc.entries
      BY <1>3, <3>1, LenProperties
    <3>3. arc.entries[e] \in Seq(Nat)
      BY <3>1, <3>2, ElementOfSeq
    <3>4. QED
      BY <3>2, <3>3, LenProperties
  <2>2. entry' = e /\ part' = 1
        /\ pc' = IF 1 <= Len(arc.entries[e]) THEN "volume" ELSE "finish"
    BY <1>3 DEF StartRead, ProceedTo
  <2>3. Len(out') = 0 /\ DOMAIN out' = {}
    BY <1>1
  <2>4. QED
    BY <1>1, <1>3, <2>1, <2>2, <2>3 DEF ReadShape
<1>4. QED
  BY <1>2, <1>3

\* Every step keeps the read where it should be.
LEMMA ReadStep == IInv /\ SizesAreLengths /\ ReadShape /\ [Next]_vars => ReadShape'
<1> SUFFICES ASSUME IInv, SizesAreLengths, ReadShape, [Next]_vars PROVE ReadShape'
  OBVIOUS
<1>0. arc' = arc
  BY ArchiveStays
<1>1. ASSUME UNCHANGED <<entry, part, out, pc>> PROVE ReadShape'
  <2>1. CASE entry = 0
    BY <1>1, <2>1, <1>0 DEF ReadShape
  <2>2. CASE entry # 0
    <3>1. \A k \in DOMAIN out : DeliveredWell(k)'
      BY <1>1, <2>2, DeliveredStays
    <3>2. QED
      BY <1>0, <1>1, <2>2, <3>1 DEF ReadShape
  <2>3. QED
    BY <2>1, <2>2
<1>2. CASE Open \/ (\E v \in AuxVolumes : VolumeArrives(v)) \/ UNCHANGED vars
  BY <1>1, <1>2 DEF Open, VolumeArrives, vars, callVars
<1>3. CASE \E v \in Volumes : ResolveVolume(v)
  BY <1>3, NoRead DEF ResolveVolume, Return
<1>4. CASE StartSweep
  BY <1>4, NoRead DEF StartSweep, ReadShape
<1>5. CASE \E e \in 0 .. Len(arc.entries) : StartRead(e)
  BY <1>5, StartReadRead
<1>6. CASE SweepVolume
  <2>1. entry = 0
    BY <1>6 DEF SweepVolume, ReadShape
  <2>2. entry' = 0 /\ pc' \in {"idle", "sweep"}
    BY <1>6, <2>1 DEF SweepVolume, Return
  <2>3. QED
    BY <2>2, NoRead
<1>7. CASE ResolveChunkVolume
  <2>1. entry # 0 /\ UNCHANGED out
    BY <1>7 DEF ResolveChunkVolume, ReadShape
  <2>2. \/ entry' = 0 /\ pc' = "idle"
        \/ UNCHANGED <<entry, part>> /\ pc' \in {"common", "payload"}
    BY <1>7 DEF ResolveChunkVolume, Return
  <2>3. QED
    BY <2>1, <2>2, NoRead, ReadMovesOn
<1>8. CASE ResolveCommonVolume
  <2>1. entry # 0 /\ UNCHANGED out
    BY <1>8 DEF ResolveCommonVolume, ReadShape
  <2>2. \/ entry' = 0 /\ pc' = "idle"
        \/ UNCHANGED <<entry, part>> /\ pc' \in {"common", "weigh"}
    BY <1>8 DEF ResolveCommonVolume, Return
  <2>3. QED
    BY <2>1, <2>2, NoRead, ReadMovesOn
<1>9. CASE WeighCommonChunk
  <2>1. entry # 0 /\ UNCHANGED <<out, entry, part>> /\ pc' \in {"weigh", "load"}
    BY <1>9 DEF WeighCommonChunk, ReadShape
  <2>2. QED
    BY <2>1, ReadMovesOn
<1>10. CASE LoadContext
  <2>1. entry # 0 /\ UNCHANGED out
    BY <1>10 DEF LoadContext, ReadShape
  <2>2. \/ entry' = 0 /\ pc' = "idle"
        \/ UNCHANGED <<entry, part>> /\ pc' = "payload"
    BY <1>10 DEF LoadContext, Return
  <2>3. QED
    BY <2>1, <2>2, NoRead, ReadMovesOn
<1>11. CASE DeliverPayload
  BY <1>11, DeliverPayloadRead
<1>12. CASE OutputFails \/ FinishRead
  BY <1>12, NoRead DEF OutputFails, FinishRead, Return
<1>13. QED
  BY <1>2, <1>3, <1>4, <1>5, <1>6, <1>7, <1>8, <1>9, <1>10, <1>11, <1>12 DEF Next, CallStep

\* Nothing is resolved but the main volume, and nothing is read.
LEMMA InitReadShape == Init => SizesAreLengths /\ ReadShape
<1> SUFFICES ASSUME Init PROVE SizesAreLengths /\ ReadShape
  OBVIOUS
<1>1. IsArchive(arc) /\ 0 \in Volumes
  BY ArchivesAssumption, MaxVolumeAssumption DEF Init, Volumes
<1>2. MainLength(arc) \in arc.lengths[0]
  BY <1>1 DEF MainLength, IsArchive
<1>3. SizesAreLengths
  BY <1>2 DEF Init, MainOnly, SizesAreLengths
<1>4. ReadShape
  BY DEF Init, ReadShape
<1>5. QED
  BY <1>3, <1>4

\* read_entry_to writes the entry's chunks in order, and bytes that are wrong only
\* for a DZ chunk of a volume that was resolved before its file was complete.
THEOREM InOrderOrIncomplete == Spec => []DeliveredInOrder
<1>1. IInv /\ ReadShape => DeliveredInOrder
  <2> SUFFICES ASSUME IInv, ReadShape, entry # 0, NEW k \in DOMAIN out
               PROVE  k < part /\ DeliveredWell(k)
    BY DEF DeliveredInOrder, DeliveredWell
  <2>1. out \in Seq([chunk : ChunkIds(arc), content : {"exact", "garbled"}])
    BY DEF IInv, TypeOK
  <2>2. part = Len(out) + 1 /\ DeliveredWell(k)
    BY DEF ReadShape
  <2>3. Len(out) \in Nat /\ k \in 1 .. Len(out)
    BY <2>1, LenProperties
  <2>4. QED
    BY <2>2, <2>3
<1>2. QED
  BY <1>1, InitReadShape, SizesStayLengths, ReadStep, ReaderInvariant, PTL DEF Spec

-----------------------------------------------------------------------------
(* The invariant of the refinement *)

\* What a volume's file was, when its size was recorded or when the read began,
\* it still is; a dictionary is only loaded for a DZ chunk.
StoreShape ==
  /\ pc = "sweep" => out = <<>>
  /\ pc \in {"common", "weigh", "load"} => Compression(arc, CurrentChunk) = "DZ"
  /\ ArrivesWhole =>
       \A v \in Volumes :
         /\ since[v] # NoLength => length[v] = since[v]
         /\ sizes[v] # NoLength => length[v] = sizes[v]

\* Everything that is known of a reachable state.
Reached == IInv /\ DictionaryShape /\ SizesAreLengths /\ ReadShape /\ StoreShape

\* Where volumes arrive whole, a file that is there never changes.
LEMMA FilesStay ==
  ASSUME IInv, ArrivesWhole, [Next]_vars, NEW v \in Volumes, length[v] # NoLength
  PROVE  length'[v] = length[v]
<1>1. ASSUME NEW w \in AuxVolumes, VolumeArrives(w) PROVE length'[v] = length[v]
  <2>1. PICK n \in arc.lengths[w] : n > length[w] /\ length' = [length EXCEPT ![w] = n]
    BY <1>1 DEF VolumeArrives
  <2>2. length[v] \in arc.lengths[v] /\ IsArchive(arc)
    BY ArchiveFacts DEF IInv, CallShape
  <2>3. length[v] \in Nat /\ n \in Nat
    <3>1. w \in Volumes
      BY MaxVolumeAssumption DEF AuxVolumes, Volumes
    <3>2. QED
      BY <2>2, <3>1 DEF IsArchive
  <2>4. w # v
    BY <2>1, <2>2, <2>3 DEF ArrivesWhole
  <2>5. QED
    BY <2>1, <2>4 DEF IInv, TypeOK
<1>2. CASE ~(\E w \in AuxVolumes : VolumeArrives(w))
  BY <1>2 DEF Next, CallStep, Open, ResolveVolume, StartSweep, StartRead, SweepVolume,
     ResolveChunkVolume, ResolveCommonVolume, WeighCommonChunk, LoadContext, DeliverPayload,
     OutputFails, FinishRead, vars
<1>3. QED
  BY <1>1, <1>2

\* Recorded sizes are those of the files, and so are the lengths a read began with.
LEMMA FilesKnown ==
  ASSUME IInv, StoreShape, ArrivesWhole, [Next]_vars, NEW v \in Volumes
  PROVE  /\ since'[v] # NoLength => length'[v] = since'[v]
         /\ sizes'[v] # NoLength => length'[v] = sizes'[v]
<1>1. since' = since \/ (since' = length /\ length' = length)
  BY DEF Next, CallStep, Open, VolumeArrives, ResolveVolume, StartSweep, StartRead, SweepVolume,
     ResolveChunkVolume, ResolveCommonVolume, WeighCommonChunk, LoadContext, DeliverPayload,
     OutputFails, FinishRead, vars
<1>2. since'[v] # NoLength => length'[v] = since'[v]
  BY <1>1, FilesStay DEF StoreShape
<1>3. sizes'[v] # NoLength => length'[v] = sizes'[v]
  <2>1. CASE UNCHANGED sizes
    BY <2>1, FilesStay DEF StoreShape
  <2>2. ASSUME UNCHANGED length, NEW w \in Volumes, ResolveVolumeLayout(w)
        PROVE  sizes'[v] # NoLength => length'[v] = sizes'[v]
    <3>1. sizes' = sizes \/ (length[w] # NoLength /\ sizes' = [sizes EXCEPT ![w] = length[w]])
      <4>1. CASE sizes[w] # NoLength \/ length[w] = NoLength
        BY <2>2, <4>1 DEF ResolveVolumeLayout
      <4>2. CASE sizes[w] = NoLength /\ length[w] # NoLength
        BY <2>2, <4>2 DEF ResolveVolumeLayout
      <4>3. QED
        BY <4>1, <4>2
    <3>2. QED
      BY <2>2, <3>1 DEF StoreShape, IInv, TypeOK
  <2>3. QED
    BY <2>1, <2>2, OneVolumeAtATime
<1>4. QED
  BY <1>2, <1>3

\* Every step keeps StoreShape.
LEMMA StoreShapeStep == IInv /\ ReadShape /\ StoreShape /\ [Next]_vars => StoreShape'
<1> SUFFICES ASSUME IInv, ReadShape, StoreShape, [Next]_vars PROVE StoreShape'
  OBVIOUS
<1>1. arc' = arc /\ (ArrivesWhole' <=> ArrivesWhole)
  BY ArchiveStays DEF ArrivesWhole
<1>2. ArrivesWhole' => \A v \in Volumes : /\ since'[v] # NoLength => length'[v] = since'[v]
                                          /\ sizes'[v] # NoLength => length'[v] = sizes'[v]
  BY <1>1, FilesKnown
<1>3. /\ pc' = "sweep" => out' = <<>>
      /\ pc' \in {"common", "weigh", "load"} =>
           Compression(arc, arc.entries[entry'][part']) = "DZ"
  <2>1. CASE UNCHANGED <<pc, out, entry, part>>
    BY <2>1 DEF StoreShape, CurrentChunk
  <2>2. CASE pc' \in {"idle", "volume", "payload", "finish"}
    BY <2>2
  <2>3. CASE ResolveChunkVolume
    BY <2>3, <2>2 DEF ResolveChunkVolume, Return, CurrentChunk
  <2>4. CASE ResolveCommonVolume
    BY <2>4, <2>2 DEF ResolveCommonVolume, Return, StoreShape, CurrentChunk
  <2>5. CASE WeighCommonChunk
    BY <2>5 DEF WeighCommonChunk, StoreShape, CurrentChunk
  <2>6. CASE SweepVolume
    BY <2>6, <2>2 DEF SweepVolume, Return, StoreShape
  <2>7. CASE StartSweep
    BY <2>7 DEF StartSweep
  <2>8. CASE Open \/ (\E v \in AuxVolumes : VolumeArrives(v)) \/ UNCHANGED vars
    BY <2>8, <2>1 DEF Open, VolumeArrives, vars, callVars
  <2>9. CASE \/ (\E v \in Volumes : ResolveVolume(v))
             \/ (\E e \in 0 .. Len(arc.entries) : StartRead(e))
    BY <2>9, <2>2 DEF ResolveVolume, StartRead, ProceedTo, Return
  <2>10. CASE LoadContext \/ DeliverPayload \/ OutputFails \/ FinishRead
    BY <2>10, <2>2 DEF LoadContext, DeliverPayload, ProceedTo, OutputFails, FinishRead, Return
  <2>11. QED
    BY <2>3, <2>4, <2>5, <2>6, <2>7, <2>8, <2>9, <2>10 DEF Next, CallStep
<1>4. QED
  BY <1>1, <1>2, <1>3 DEF StoreShape, CurrentChunk

\* Before an archive is open only the main volume is there.
LEMMA InitStoreShape == Init => StoreShape
BY DEF Init, StoreShape

\* Everything said of a reachable state holds in every reachable state.
LEMMA ReachedAlways == Spec => []Reached
<1>1. Init => DictionaryShape
  BY DEF Init, DictionaryShape
<1>2. QED
  BY <1>1, InitIInv, StepKeepsIInv, DictionaryStep, InitReadShape, SizesStayLengths, ReadStep,
     InitStoreShape, StoreShapeStep, PTL DEF Spec, Reached

-----------------------------------------------------------------------------
(* The store's judgements, in the reader's terms *)

Laid(lengths) == ResolveChunkLayout(arc.chunks, lengths)

Usable(v, lengths) == lengths[v] # NoLength /\ VolumeWithinLimits(arc, v, Laid(lengths))

CommonBytes(lengths) == SumOver(Laid(lengths), CommonChunks(arc))

Loadable(lengths) ==
  /\ \A i \in CommonChunks(arc) :
       /\ Usable(FileOf(arc, i), lengths)
       /\ CanReadAt(arc, i, Laid(lengths)[i], lengths[FileOf(arc, i)])
       /\ CommonChunkWellFormed(arc, i, Laid(lengths)[i])
  /\ CommonBytes(lengths) <= arc.limits.workspace

Left(lengths, held) == arc.limits.workspace - (IF held THEN CommonBytes(lengths) ELSE 0)

SpanRead(i, lengths) == PayloadReadLength(arc.chunks[i], Laid(lengths)[i])

Decodable(i, lengths, held) ==
  /\ Usable(FileOf(arc, i), lengths)
  /\ Compression(arc, i) = "DZ" => held \/ Loadable(lengths)
  /\ Compression(arc, i) # "ZERO" =>
       /\ CanReadAt(arc, i, SpanRead(i, lengths), lengths[FileOf(arc, i)])
       /\ SpanRead(i, lengths) <= arc.limits.input
       /\ arc.chunks[i].work <= Left(lengths, held \/ Compression(arc, i) = "DZ")
       /\ DecodeOutcomes(arc, i, SpanRead(i, lengths)) = {"exact"}

\* The store's copy of the format's definitions says what the reader's says.
LEMMA SameFormat ==
  /\ \A lengths : Store!ResolveChunkLayout(arc.chunks, lengths) = Laid(lengths)
  /\ Store!CommonChunks(arc) = CommonChunks(arc)
  /\ Store!MainOnly(arc) = MainOnly(arc)
  /\ Store!Volumes = Volumes /\ Store!AuxVolumes = AuxVolumes /\ Store!NoLength = NoLength
  /\ \A i : Store!FileOf(arc, i) = FileOf(arc, i) /\ Store!Compression(arc, i) = Compression(arc, i)
<1>1. \A lengths : Store!ResolveChunkLayout(arc.chunks, lengths) = Laid(lengths)
  BY DEF Laid, ResolveChunkLayout, Store!ResolveChunkLayout, IsPhysicalBoundary,
     Store!IsPhysicalBoundary, Followers, Store!Followers, SpanUpTo, Store!SpanUpTo,
     NextOffset, Store!NextOffset, HasPlaceholderLength, Store!HasPlaceholderLength,
     NoLength, Store!NoLength, Min, Store!Min
<1>2. Store!CommonChunks(arc) = CommonChunks(arc)
  BY DEF Store!CommonChunks, CommonChunks, Store!ChunkIds, ChunkIds, Store!IsDedicatedCombuf,
     IsDedicatedCombuf, Store!StorageFlags, StorageFlags
<1>3. /\ Store!MainOnly(arc) = MainOnly(arc)
      /\ Store!Volumes = Volumes /\ Store!AuxVolumes = AuxVolumes /\ Store!NoLength = NoLength
  BY DEF Store!MainOnly, MainOnly, Store!MainLength, MainLength, Store!Volumes, Volumes,
     Store!AuxVolumes, AuxVolumes, Store!NoLength, NoLength
<1>4. \A i : /\ Store!FileOf(arc, i) = FileOf(arc, i)
             /\ Store!Compression(arc, i) = Compression(arc, i)
  BY DEF Store!FileOf, FileOf, Store!Compression, Compression, Store!RegisteredCompression,
     RegisteredCompression, Store!StorageFlags, StorageFlags, Store!Rank, Rank
<1>5. QED
  BY <1>1, <1>2, <1>3, <1>4

\* The same archives are admitted.
LEMMA SameAdmission == Store!Admissible(arc) <=> Admissible(arc)
<1>1. \A ids : Store!DecodedSize(arc, ids) = DecodedSize(arc, ids)
  BY DEF Store!DecodedSize, DecodedSize, Store!MapThenSumSet, MapThenSumSet,
     Store!MapThenFoldSet, MapThenFoldSet
<1>2. \A ids : Store!EntryAdmissible(arc, ids) <=> EntryAdmissible(arc, ids)
  BY <1>1, SameFormat DEF Store!EntryAdmissible, EntryAdmissible, Store!ChunkIds, ChunkIds
<1>3. Store!MapThenSumSet(LAMBDA e : Store!DecodedSize(arc, arc.entries[e]), DOMAIN arc.entries)
        = MapThenSumSet(LAMBDA e : DecodedSize(arc, arc.entries[e]), DOMAIN arc.entries)
  BY DEF Store!DecodedSize, DecodedSize, Store!MapThenSumSet, MapThenSumSet,
     Store!MapThenFoldSet, MapThenFoldSet
<1>4. \A i : /\ Store!SupportsFlags(arc.chunks[i].flags) <=> SupportsFlags(arc.chunks[i].flags)
             /\ Store!RequiresRangeSettings(arc.chunks[i].flags)
                  <=> RequiresRangeSettings(arc.chunks[i].flags)
             /\ \A n : Store!WithinChunkLimits(arc, i, n) <=> WithinChunkLimits(arc, i, n)
  BY DEF Store!SupportsFlags, SupportsFlags, Store!SemanticReaderFlags, SemanticReaderFlags,
     Store!StorageFlags, StorageFlags, Store!RequiresRangeSettings, RequiresRangeSettings,
     Store!WithinChunkLimits, WithinChunkLimits
<1>5. Store!ResolveChunkLayout(arc.chunks, Store!MainOnly(arc))
        = ResolveChunkLayout(arc.chunks, MainOnly(arc))
  BY SameFormat DEF Laid
<1>6. QED
  BY <1>2, <1>3, <1>4, <1>5 DEF Store!Admissible, Admissible, Store!ChunkIds, ChunkIds

\* Whether a chunk can be read is judged alike.
LEMMA SameJudgement ==
  /\ \A lengths : Store!DictionaryLoadable(lengths) <=> Loadable(lengths)
  /\ \A i, lengths, held : Store!Readable(i, lengths, held) <=> Decodable(i, lengths, held)
<1>1. \A v, lengths : Store!VolumeUsable(v, lengths) <=> Usable(v, lengths)
  BY SameFormat DEF Store!VolumeUsable, Usable, Store!VolumeWithinLimits, VolumeWithinLimits,
     Store!ChunkIds, ChunkIds, Store!WithinChunkLimits, WithinChunkLimits
<1>2. \A lengths : Store!CommonSize(lengths) = CommonBytes(lengths)
  <2> TAKE lengths
  <2>1. Store!CommonSize(lengths)
          = SumOver(Store!ResolveChunkLayout(arc.chunks, lengths), Store!CommonChunks(arc))
    BY DEF Store!CommonSize, SumOver, MapThenSumSet, Store!MapThenSumSet, MapThenFoldSet,
       Store!MapThenFoldSet
  <2>2. QED
    BY <2>1, SameFormat DEF CommonBytes
<1>3. \A i, n, size : /\ Store!CanReadAt(arc, i, n, size) <=> CanReadAt(arc, i, n, size)
                      /\ Store!CommonChunkWellFormed(arc, i, n) <=> CommonChunkWellFormed(arc, i, n)
                      /\ Store!DecodeOutcomes(arc, i, n) = DecodeOutcomes(arc, i, n)
  <2>1. \A i, n : Store!DecodeOutcomes(arc, i, n) = DecodeOutcomes(arc, i, n)
    BY SameFormat DEF Store!DecodeOutcomes, DecodeOutcomes
  <2>2. QED
    BY <2>1 DEF Store!CanReadAt, CanReadAt, Store!CommonChunkWellFormed, CommonChunkWellFormed
<1>4. \A lengths : Store!DictionaryLoadable(lengths) <=> Loadable(lengths)
  BY <1>1, <1>2, <1>3, SameFormat DEF Store!DictionaryLoadable, Loadable
<1>5. \A i, n : Store!PayloadReadLength(arc.chunks[i], n) = PayloadReadLength(arc.chunks[i], n)
  BY DEF Store!PayloadReadLength, PayloadReadLength, Store!RegisteredCompression,
     RegisteredCompression, Store!StorageFlags, StorageFlags, Store!Rank, Rank
<1>6. \A lengths, held : Store!WorkspaceLeft(lengths, held) = Left(lengths, held)
  BY <1>2 DEF Store!WorkspaceLeft, Left
<1>7. \A i, lengths, held : Store!Readable(i, lengths, held) <=> Decodable(i, lengths, held)
  BY <1>1, <1>3, <1>4, <1>5, <1>6, SameFormat DEF Store!Readable, Decodable, SpanRead
<1>8. QED
  BY <1>4, <1>7

-----------------------------------------------------------------------------
(* What the reader's caches say of the files *)

\* The records of a resolved volume are laid out as the file there asks for, and
\* the volume can be used.
LEMMA ResolvedIsLaid ==
  ASSUME Reached, Promised, phase = "open", NEW v \in Volumes, sizes[v] # NoLength,
         NEW lengths, lengths[v] # NoLength => lengths[v] = length[v]
  PROVE  /\ sizes[v] = length[v]
         /\ lengths[v] # NoLength =>
              /\ Usable(v, lengths)
              /\ \A i \in ChunkIds(arc) : FileOf(arc, i) = v => resolved[i] = Laid(lengths)[i]
<1>1. sizes[v] = length[v] /\ sizes \in [Volumes -> Nat \cup {NoLength}]
  BY DEF Reached, StoreShape, Promised, IInv, TypeOK
<1>2. LaidOutFor(v, sizes[v]) /\ VolumeWithinLimits(arc, v, resolved)
  BY DEF Reached, IInv, Layouts, ResolvedAgrees, RecordedVolumesWithinLimits
<1>3. ASSUME lengths[v] # NoLength, NEW i \in ChunkIds(arc), FileOf(arc, i) = v
      PROVE  resolved[i] = Laid(lengths)[i]
  <2> DEFINE t == [sizes EXCEPT ![v] = sizes[v]]
  <2>1. t[v] = lengths[v]
    BY <1>1, <1>3
  <2>2. resolved[i] = ResolveChunkLayout(arc.chunks, t)[i]
    BY <1>2, <1>3 DEF LaidOutFor
  <2>3. i \in DOMAIN arc.chunks /\ arc.chunks[i].file = v
    BY <1>3 DEF ChunkIds, FileOf
  <2> HIDE DEF t
  <2>4. QED
    BY <2>1, <2>2, <2>3, LayoutIsLocal DEF Laid
<1>4. lengths[v] # NoLength => Usable(v, lengths)
  BY <1>2, <1>3 DEF Usable, VolumeWithinLimits
<1>5. QED
  BY <1>1, <1>3, <1>4

\* A volume that was usable when the read began still is, at the length it had,
\* and resolving it does not fail.
LEMMA UsableSince ==
  ASSUME Reached, Promised, phase = "open", NEW v \in Volumes, Usable(v, since)
  PROVE  since[v] = length[v] /\ since[v] # NoLength /\ ~ResolutionFails(v)
<1>1. since[v] # NoLength /\ since[v] = length[v]
  BY DEF Usable, Reached, StoreShape, Promised
<1>2. VolumeWithinLimits(arc, v, Laid(since))
  BY DEF Usable
<1>3. \A i \in ChunkIds(arc) : FileOf(arc, i) = v => LayoutOf(v)[i] = Laid(since)[i]
  <2> SUFFICES ASSUME NEW i \in ChunkIds(arc), FileOf(arc, i) = v
               PROVE  LayoutOf(v)[i] = Laid(since)[i]
    OBVIOUS
  <2>1. i \in DOMAIN arc.chunks /\ arc.chunks[i].file = v
    BY DEF ChunkIds, FileOf
  <2>2. ResolveVolumeChunkLayout(arc.chunks, v, since[v], resolved)[i]
          = ResolveChunkLayout(arc.chunks, since)[i]
    BY <1>1, <2>1 DEF ResolveVolumeChunkLayout, ResolveChunkLayout
  <2>3. QED
    BY <1>1, <2>2 DEF LayoutOf, Laid
<1>4. VolumeWithinLimits(arc, v, LayoutOf(v))
  BY <1>2, <1>3 DEF VolumeWithinLimits
<1>5. QED
  BY <1>1, <1>4 DEF ResolutionFails

\* With the dictionary's volumes resolved, its bytes are those of the files.
LEMMA DictionaryBytes ==
  ASSUME Reached, Promised, phase = "open", Known(CommonChunks(arc)), NEW lengths,
         \A i \in CommonChunks(arc) : /\ lengths[FileOf(arc, i)] = length[FileOf(arc, i)]
                                      /\ lengths[FileOf(arc, i)] # NoLength
  PROVE  /\ \A i \in CommonChunks(arc) : resolved[i] = Laid(lengths)[i]
                                         /\ Usable(FileOf(arc, i), lengths)
         /\ SumOver(resolved, CommonChunks(arc)) = CommonBytes(lengths)
<1>1. /\ IsFiniteSet(CommonChunks(arc)) /\ CommonChunks(arc) \subseteq ChunkIds(arc)
      /\ \A i \in CommonChunks(arc) : resolved[i] \in Nat /\ FileOf(arc, i) \in Volumes
  BY CommonFacts DEF Reached, IInv
<1>2. \A i \in CommonChunks(arc) : resolved[i] = Laid(lengths)[i] /\ Usable(FileOf(arc, i), lengths)
  BY <1>1, ResolvedIsLaid DEF Known
<1>3. SumOver(resolved, CommonChunks(arc)) = SumOver(Laid(lengths), CommonChunks(arc))
  BY <1>1, <1>2, SumCongruence
<1>4. QED
  BY <1>2, <1>3 DEF CommonBytes

\* A dictionary record carries no placeholder, so it never grows beyond its
\* stored length.
LEMMA DedicatedSpan ==
  ASSUME NEW c \in Chunk, IsDedicatedCombuf(c.flags), NEW end \in Nat
  PROVE  SpanUpTo(c, end) <= c.compressed_length
<1>1. ~HasPlaceholderLength(c)
  BY DEF IsDedicatedCombuf, StorageFlags, HasPlaceholderLength
<1>2. c.compressed_length \in Nat /\ c.offset \in Nat
  BY DEF Chunk
<1>3. QED
  BY <1>1, <1>2, MaxU32Assumption DEF SpanUpTo

\* Judged by the files that were there when the read began, a loaded dictionary is
\* at least as large as it is.
LEMMA DictionaryAtMost ==
  ASSUME Reached, Promised, dz_context
  PROVE  retained <= CommonBytes(since) /\ CommonBytes(since) \in Nat
<1>1. /\ phase = "open" /\ Known(CommonChunks(arc))
      /\ retained = SumOver(resolved, CommonChunks(arc))
  BY DEF Reached, DictionaryShape
<1>2. /\ IsFiniteSet(CommonChunks(arc)) /\ CommonChunks(arc) \subseteq ChunkIds(arc)
      /\ \A i \in CommonChunks(arc) : resolved[i] \in Nat /\ FileOf(arc, i) \in Volumes
  BY CommonFacts DEF Reached, IInv
<1>3. Laid(since) \in [ChunkIds(arc) -> Nat]
  BY ArchiveFacts, LayoutType DEF Laid, Reached, IInv, TypeOK, ChunkIds, FileOf
<1>4. ASSUME NEW i \in CommonChunks(arc) PROVE resolved[i] <= Laid(since)[i]
  <2> DEFINE v == FileOf(arc, i)
  <2>1. /\ v \in Volumes /\ sizes[v] # NoLength /\ i \in DOMAIN arc.chunks
        /\ arc.chunks[i].file = v
    BY <1>1, <1>2 DEF Known, ChunkIds, FileOf
  <2>2. since[v] # NoLength => since[v] = length[v]
    BY <2>1 DEF Reached, StoreShape, Promised
  <2>3. CASE since[v] # NoLength
    <3>1. resolved[i] = Laid(since)[i]
      BY <1>1, <1>2, <2>1, <2>2, <2>3, ResolvedIsLaid
    <3>2. QED
      BY <1>2, <3>1
  <2>4. CASE since[v] = NoLength
    <3>1. resolved[i] = Laid(length)[i]
      <4>1. sizes[v] = length[v]
        BY <1>1, <2>1, ResolvedIsLaid
      <4>2. QED
        BY <1>1, <1>2, <2>1, <4>1, ResolvedIsLaid
    <3>2. length[v] # NoLength /\ length[v] \in Nat
      <4>1. sizes[v] = length[v]
        BY <1>1, <2>1, ResolvedIsLaid
      <4>2. QED
        BY <2>1, <4>1 DEF Reached, IInv, TypeOK
    <3>3. arc.chunks[i] \in Chunk /\ IsDedicatedCombuf(arc.chunks[i].flags)
      BY <2>1, ArchiveFacts, ElementOfSeq DEF Reached, IInv, CommonChunks
    <3>4. SpanUpTo(arc.chunks[i], length[v]) <= arc.chunks[i].compressed_length
      BY <3>2, <3>3, DedicatedSpan
    <3>5. Laid(length)[i] <= Laid(since)[i] \/ Laid(length)[i] = Laid(since)[i]
      BY <2>1, <2>4, <3>2, <3>4 DEF Laid, ResolveChunkLayout
    <3>6. QED
      BY <1>2, <3>1, <3>5
  <2>5. QED
    BY <2>3, <2>4
<1>5. \A i \in CommonChunks(arc) :
        resolved[i] \in Nat /\ Laid(since)[i] \in Nat /\ resolved[i] <= Laid(since)[i]
  BY <1>2, <1>3, <1>4
<1>6. SumOver(resolved, CommonChunks(arc)) <= SumOver(Laid(since), CommonChunks(arc))
  BY <1>2, <1>5, SumMonotone
<1>7. SumOver(Laid(since), CommonChunks(arc)) \in Nat
  BY <1>2, <1>5, SumStep
<1>8. QED
  BY <1>1, <1>6, <1>7 DEF CommonBytes

-----------------------------------------------------------------------------
(* Each step of the reader is a step of the store, or none *)

StoreStep == Store!Next \/ UNCHANGED Store!vars

\* The part of the state the store sees is unchanged.
Unseen == UNCHANGED <<arc, length, since, phase, dz_context, entry, out, result>>

\* The reader's own bookkeeping is invisible.
LEMMA UnseenIsStutter == ASSUME Promised, Promised', Unseen PROVE StoreStep
BY DEF StoreStep, Unseen, Store!vars, IfPromised

\* A call that reads no entry.
LEMMA OtherCallStep ==
  ASSUME Promised, Promised', phase = "open", entry = 0, entry' = 0,
         UNCHANGED <<arc, length, phase, dz_context>>, since' \in {since, length},
         result' \in {"none", "ok", "failed"}, out' = <<>>
  PROVE  StoreStep
<1>1. Store!OtherCall
  BY DEF Store!OtherCall, IfPromised
<1>2. QED
  BY <1>1 DEF StoreStep, Store!Next

\* The current chunk of the reader is the store's next one.
LEMMA SameChunk ==
  ASSUME Reached, Promised, pc \in {"volume", "common", "weigh", "load", "payload"}
  PROVE  /\ phase = "open" /\ entry # 0 /\ entry \in DOMAIN arc.entries
         /\ Len(out) < Len(arc.entries[entry])
         /\ arc.entries[entry][Len(out) + 1] = CurrentChunk
         /\ CurrentChunk \in ChunkIds(arc) /\ FileOf(arc, CurrentChunk) \in Volumes
<1>1. /\ phase = "open" /\ entry # 0 /\ entry \in DOMAIN arc.entries
      /\ part \in DOMAIN arc.entries[entry] /\ part = Len(out) + 1
  BY DEF Reached, IInv, CallShape, ReadShape
<1>2. arc.entries[entry] \in Seq(Nat)
  BY <1>1, ArchiveFacts, ElementOfSeq DEF Reached, IInv
<1>3. Len(out) \in Nat
  BY LenProperties DEF Reached, IInv, TypeOK
<1>4. Len(out) < Len(arc.entries[entry])
  BY <1>1, <1>2, <1>3, LenProperties
<1>5. CurrentChunk \in ChunkIds(arc)
  BY <1>1, EntryChunk DEF Reached, IInv, CallShape, CurrentChunk
<1>6. FileOf(arc, CurrentChunk) \in Volumes
  BY <1>5, ArchiveFacts DEF Reached, IInv
<1>7. QED
  BY <1>1, <1>4, <1>5, <1>6 DEF CurrentChunk

\* A read that fails does so at a chunk that could not be read when it began.
LEMMA FailureStep ==
  ASSUME Reached, Promised, Promised', pc \in {"volume", "common", "weigh", "load", "payload"},
         Return("failed"), UNCHANGED <<arc, length, since, phase, dz_context, out>>,
         ~Decodable(CurrentChunk, since, dz_context)
  PROVE  StoreStep
<1>1. ~Store!Readable(CurrentChunk, since, dz_context)
  BY SameJudgement
<1>2. /\ entry # 0 /\ Len(out) < Len(arc.entries[entry])
      /\ arc.entries[entry][Len(out) + 1] = CurrentChunk
  BY SameChunk
<1>3. /\ IfPromised(since, MainOnly(arc)) = since /\ IfPromised(dz_context, FALSE) = dz_context
      /\ IfPromised(entry, 0) = entry /\ IfPromised(out, <<>>) = out
  BY DEF IfPromised
<1>4. Store!NextChunk = CurrentChunk
  BY <1>2, <1>3 DEF Store!NextChunk
<1>5. UNCHANGED << IfPromised(length, MainOnly(arc)), IfPromised(since, MainOnly(arc)),
                   IfPromised(phase, "prepared"), IfPromised(dz_context, FALSE),
                   IfPromised(out, <<>>) >>
  BY DEF IfPromised
<1>6. IfPromised(entry, 0)' = 0 /\ IfPromised(result, "none")' = "failed"
  BY DEF IfPromised, Return
<1>7. Store!ReturnError
  BY <1>1, <1>2, <1>3, <1>4, <1>5, <1>6 DEF Store!ReturnError
<1>8. QED
  BY <1>7 DEF StoreStep, Store!Next

\* Opening.
LEMMA OpenStores == ASSUME Reached, Promised, Promised', Open PROVE StoreStep
<1>1. Store!Open
  BY SameAdmission DEF Open, Store!Open, IfPromised, callVars
<1>2. QED
  BY <1>1 DEF StoreStep, Store!Next

\* A volume that appears.
LEMMA VolumeArrivesStores ==
  ASSUME Promised, Promised', NEW v \in AuxVolumes, VolumeArrives(v) PROVE StoreStep
<1>1. Store!VolumeArrives(v)
  BY DEF Store!VolumeArrives, VolumeArrives, archiveVars, callVars, IfPromised
<1>2. QED
  BY <1>1, SameFormat DEF StoreStep, Store!Next

\* A read begins, or does not because the entry is unknown.
LEMMA StartReadStores ==
  ASSUME Reached, Promised, Promised', NEW e \in 0 .. Len(arc.entries), StartRead(e)
  PROVE  StoreStep
<1>1. /\ phase = "open" /\ entry = 0 /\ out' = <<>> /\ since' = length
      /\ UNCHANGED <<arc, length, phase, dz_context>>
  BY DEF StartRead, Reached, ReadShape, archiveVars
<1>2. CASE e = 0
  BY <1>1, <1>2, OtherCallStep DEF StartRead, Return
<1>3. CASE e # 0
  <2>1. e \in DOMAIN arc.entries
    <3>1. arc.entries \in Seq(Seq(Nat))
      BY ArchiveFacts DEF Reached, IInv
    <3>2. QED
      BY <1>3, <3>1, LenProperties
  <2>2. entry' = e /\ result' = "none"
    BY <1>3 DEF StartRead
  <2>3. Store!BeginRead(e)
    BY <1>1, <2>2 DEF Store!BeginRead, IfPromised
  <2>4. QED
    BY <2>1, <2>3 DEF StoreStep, Store!Next
<1>4. QED
  BY <1>2, <1>3

\* A chunk's volume that cannot be resolved could not be used before either.
LEMMA ResolveChunkVolumeStores ==
  ASSUME Reached, Promised, Promised', ResolveChunkVolume PROVE StoreStep
<1>1. pc = "volume" /\ UNCHANGED <<arc, length, since, phase, dz_context, out>>
  BY DEF ResolveChunkVolume
<1>2. CASE ResolutionFails(FileOf(arc, CurrentChunk))
  <2>1. Return("failed")
    BY <1>2 DEF ResolveChunkVolume
  <2>2. ~Usable(FileOf(arc, CurrentChunk), since)
    BY <1>1, <1>2, SameChunk, UsableSince
  <2>3. ~Decodable(CurrentChunk, since, dz_context)
    BY <2>2 DEF Decodable
  <2>4. QED
    BY <1>1, <2>1, <2>3, FailureStep
<1>3. CASE ~ResolutionFails(FileOf(arc, CurrentChunk))
  BY <1>1, <1>3, UnseenIsStutter DEF ResolveChunkVolume, Unseen
<1>4. QED
  BY <1>2, <1>3

\* And neither could the dictionary's.
LEMMA ResolveCommonVolumeStores ==
  ASSUME Reached, Promised, Promised', ResolveCommonVolume PROVE StoreStep
<1>1. /\ pc = "common" /\ UNCHANGED <<arc, length, since, phase, dz_context, out>>
      /\ todo \subseteq CommonChunks(arc) /\ ~dz_context /\ phase = "open"
      /\ Compression(arc, CurrentChunk) = "DZ"
  BY DEF ResolveCommonVolume, Reached, IInv, CallShape, StoreShape
<1>2. CASE todo = {}
  BY <1>1, <1>2, UnseenIsStutter DEF ResolveCommonVolume, Unseen
<1>3. CASE todo # {}
  <2>1. PICK i \in todo : IF ResolutionFails(FileOf(arc, i)) THEN Return("failed")
                          ELSE todo' = todo \ {i} /\ UNCHANGED <<pc, entry, part, result>>
    BY <1>3 DEF ResolveCommonVolume
  <2>2. CASE ResolutionFails(FileOf(arc, i))
    <3>1. i \in CommonChunks(arc) /\ FileOf(arc, i) \in Volumes
      BY <1>1, CommonFacts DEF Reached, IInv
    <3>2. ~Usable(FileOf(arc, i), since)
      BY <1>1, <2>2, <3>1, UsableSince
    <3>3. ~Loadable(since)
      BY <3>1, <3>2 DEF Loadable
    <3>4. ~Decodable(CurrentChunk, since, dz_context)
      BY <1>1, <3>3 DEF Decodable
    <3>5. QED
      BY <1>1, <2>1, <2>2, <3>4, FailureStep
  <2>3. CASE ~ResolutionFails(FileOf(arc, i))
    BY <1>1, <2>1, <2>3, UnseenIsStutter DEF Unseen
  <2>4. QED
    BY <2>2, <2>3
<1>4. QED
  BY <1>2, <1>3

\* The dictionary is loaded when the files that are there allow it, and refused only
\* when those that were there did not.
LEMMA LoadContextStores ==
  ASSUME Reached, Promised, Promised', LoadContext PROVE StoreStep
<1> DEFINE Good == /\ retained <= workspace
                   /\ \A i \in CommonChunks(arc) :
                        /\ CanReadAt(arc, i, resolved[i], length[FileOf(arc, i)])
                        /\ CommonChunkWellFormed(arc, i, resolved[i])
<1>1. /\ pc = "load" /\ phase = "open" /\ ~dz_context
      /\ UNCHANGED <<arc, length, since, phase, out>>
      /\ Compression(arc, CurrentChunk) = "DZ" /\ workspace = arc.limits.workspace
      /\ Known(CommonChunks(arc)) /\ retained = SumOver(resolved, CommonChunks(arc))
  BY DEF LoadContext, Reached, IInv, CallShape, StoreShape, DictionaryShape, WorkspaceAccounted
<1>2. \A i \in CommonChunks(arc) : FileOf(arc, i) \in Volumes
  BY CommonFacts DEF Reached, IInv
<1>3. CASE Good
  <2>1. dz_context' = TRUE /\ UNCHANGED <<entry, result>>
    BY <1>3 DEF LoadContext
  <2>2. \A i \in CommonChunks(arc) : length[FileOf(arc, i)] # NoLength
    <3> SUFFICES ASSUME NEW i \in CommonChunks(arc) PROVE length[FileOf(arc, i)] # NoLength
      OBVIOUS
    <3>1. sizes[FileOf(arc, i)] # NoLength
      BY <1>1 DEF Known
    <3>2. QED
      BY <1>1, <1>2, <3>1, ResolvedIsLaid
  <2>3. /\ \A i \in CommonChunks(arc) : resolved[i] = Laid(length)[i]
                                        /\ Usable(FileOf(arc, i), length)
        /\ SumOver(resolved, CommonChunks(arc)) = CommonBytes(length)
    BY <1>1, <2>2, DictionaryBytes
  <2>4. Loadable(length)
    BY <1>1, <1>3, <2>3 DEF Loadable
  <2>5. Store!DictionaryLoadable(length)
    BY <2>4, SameJudgement
  <2>6. /\ entry # 0 /\ Len(out) < Len(arc.entries[entry])
        /\ arc.entries[entry][Len(out) + 1] = CurrentChunk
    BY <1>1, SameChunk
  <2>7. /\ IfPromised(length, MainOnly(arc)) = length
        /\ IfPromised(dz_context, FALSE) = FALSE /\ IfPromised(dz_context, FALSE)' = TRUE
        /\ IfPromised(entry, 0) = entry /\ IfPromised(out, <<>>) = out
    BY <1>1, <2>1 DEF IfPromised
  <2>8. Store!NextChunk = CurrentChunk
    BY <2>6, <2>7 DEF Store!NextChunk
  <2>9. UNCHANGED << IfPromised(length, MainOnly(arc)), IfPromised(since, MainOnly(arc)),
                     IfPromised(phase, "prepared"), IfPromised(entry, 0),
                     IfPromised(out, <<>>), IfPromised(result, "none") >>
    BY <1>1, <2>1 DEF IfPromised
  <2>10. Store!LoadDictionary
    BY <1>1, <2>5, <2>6, <2>7, <2>8, <2>9, SameFormat DEF Store!LoadDictionary
  <2>11. QED
    BY <2>10 DEF StoreStep, Store!Next
<1>4. CASE ~Good
  <2>1. Return("failed") /\ UNCHANGED dz_context
    BY <1>4 DEF LoadContext
  <2>2. ~Loadable(since)
    <3> SUFFICES ASSUME Loadable(since) PROVE Good
      BY <1>4
    <3>1. \A i \in CommonChunks(arc) : /\ since[FileOf(arc, i)] = length[FileOf(arc, i)]
                                       /\ since[FileOf(arc, i)] # NoLength
      BY <1>1, <1>2, UsableSince DEF Loadable
    <3>2. /\ \A i \in CommonChunks(arc) : resolved[i] = Laid(since)[i]
          /\ SumOver(resolved, CommonChunks(arc)) = CommonBytes(since)
      BY <1>1, <3>1, DictionaryBytes
    <3>3. QED
      BY <1>1, <3>1, <3>2 DEF Loadable
  <2>3. ~Decodable(CurrentChunk, since, dz_context)
    BY <1>1, <2>2 DEF Decodable
  <2>4. QED
    BY <1>1, <2>1, <2>3, FailureStep
<1>5. QED
  BY <1>3, <1>4

\* What is known of the current chunk when its bytes are read.
LEMMA PayloadFacts ==
  ASSUME Reached, Promised, pc = "payload", NEW lengths,
         lengths[FileOf(arc, CurrentChunk)] = length[FileOf(arc, CurrentChunk)]
  PROVE  /\ Usable(FileOf(arc, CurrentChunk), lengths)
         /\ SpanRead(CurrentChunk, lengths) = ReadLength
         /\ Compression(arc, CurrentChunk) = "DZ" => dz_context
<1>1. /\ phase = "open" /\ CurrentChunk \in ChunkIds(arc)
      /\ FileOf(arc, CurrentChunk) \in Volumes
  BY SameChunk
<1>2. /\ sizes[FileOf(arc, CurrentChunk)] # NoLength
      /\ Compression(arc, CurrentChunk) = "DZ" => dz_context
  BY DEF Reached, IInv, ChunkReady
<1>3. lengths[FileOf(arc, CurrentChunk)] # NoLength
  BY <1>1, <1>2, ResolvedIsLaid
<1>4. /\ Usable(FileOf(arc, CurrentChunk), lengths)
      /\ resolved[CurrentChunk] = Laid(lengths)[CurrentChunk]
  BY <1>1, <1>2, <1>3, ResolvedIsLaid
<1>5. QED
  BY <1>2, <1>4 DEF SpanRead, ReadLength

\* A chunk that the decoder delivers can be read by the store, exactly.
LEMMA ExactIsReadable ==
  ASSUME Reached, Promised, pc = "payload", NEW o \in PayloadOutcomes, o # "error"
  PROVE  o = "exact" /\ Decodable(CurrentChunk, length, dz_context)
<1> DEFINE i == CurrentChunk
<1>1. /\ phase = "open" /\ i \in ChunkIds(arc) /\ FileOf(arc, i) \in Volumes
  BY SameChunk
<1>2. /\ Usable(FileOf(arc, i), length) /\ SpanRead(i, length) = ReadLength
      /\ Compression(arc, i) = "DZ" => dz_context
  BY PayloadFacts
<1>3. o = "exact"
  <2>1. o \in {"exact", "garbled"}
    BY DEF PayloadOutcomes, DecodeOutcomes
  <2>2. ASSUME "garbled" \in PayloadOutcomes PROVE FALSE
    <3>1. \E n \in arc.lengths[FileOf(arc, i)] : sizes[FileOf(arc, i)] < n
      BY <2>2, GarbledIsIncomplete DEF Reached, Promised
    <3>2. sizes[FileOf(arc, i)] \in arc.lengths[FileOf(arc, i)]
      BY <1>1 DEF Reached, SizesAreLengths, IInv, ChunkReady
    <3>3. arc.lengths[FileOf(arc, i)] \subseteq Nat
      BY <1>1, ArchiveFacts DEF Reached, IInv, IsArchive
    <3>4. QED
      BY <1>1, <3>1, <3>2, <3>3 DEF Promised, ArrivesWhole
  <2>3. QED
    BY <2>1, <2>2
<1>4. CASE Compression(arc, i) = "ZERO"
  BY <1>2, <1>3, <1>4 DEF Decodable
<1>5. CASE Compression(arc, i) # "ZERO"
  <2>1. /\ CanReadAt(arc, i, ReadLength, length[FileOf(arc, i)])
        /\ ReadLength <= arc.limits.input
        /\ arc.chunks[i].work <= workspace
        /\ DecodeOutcomes(arc, i, ReadLength) = {"exact"}
    <3>1. \/ /\ CanReadAt(arc, i, ReadLength, length[FileOf(arc, i)])
             /\ ReadLength <= arc.limits.input /\ arc.chunks[i].work <= workspace
             /\ "exact" \in DecodeOutcomes(arc, i, ReadLength)
          \/ "exact" \in {"error"}
      BY <1>3, <1>5 DEF PayloadOutcomes, FileOf
    <3>2. "exact" \in DecodeOutcomes(arc, i, ReadLength)
            => DecodeOutcomes(arc, i, ReadLength) = {"exact"}
      BY DEF DecodeOutcomes
    <3>3. QED
      BY <3>1, <3>2
  <2>2. workspace = Left(length, dz_context \/ Compression(arc, i) = "DZ")
    <3>1. CASE dz_context
      <4>1. /\ Known(CommonChunks(arc)) /\ retained = SumOver(resolved, CommonChunks(arc))
            /\ workspace + retained = arc.limits.workspace
        BY <3>1 DEF Reached, DictionaryShape, IInv, WorkspaceAccounted
      <4>2. \A j \in CommonChunks(arc) : length[FileOf(arc, j)] # NoLength
        <5> SUFFICES ASSUME NEW j \in CommonChunks(arc) PROVE length[FileOf(arc, j)] # NoLength
          OBVIOUS
        <5>1. sizes[FileOf(arc, j)] # NoLength /\ FileOf(arc, j) \in Volumes
          BY <4>1, CommonFacts DEF Known, Reached, IInv
        <5>2. QED
          BY <1>1, <5>1, ResolvedIsLaid
      <4>3. retained = CommonBytes(length)
        BY <1>1, <4>1, <4>2, DictionaryBytes
      <4>4. workspace \in Nat /\ retained \in Nat
        BY DEF Reached, IInv, TypeOK
      <4>5. QED
        BY <3>1, <4>1, <4>3, <4>4 DEF Left
    <3>2. CASE ~dz_context
      <4>1. workspace = arc.limits.workspace /\ Compression(arc, i) # "DZ"
        BY <1>2, <3>2 DEF Reached, IInv, WorkspaceAccounted
      <4>2. workspace \in Nat
        BY DEF Reached, IInv, TypeOK
      <4>3. QED
        BY <3>2, <4>1, <4>2 DEF Left
    <3>3. QED
      BY <3>1, <3>2
  <2>3. QED
    BY <1>2, <1>3, <2>1, <2>2 DEF Decodable
<1>6. QED
  BY <1>4, <1>5

\* A chunk that fails at its bytes could not be read when the read began.
LEMMA ErrorIsUnreadable ==
  ASSUME Reached, Promised, pc = "payload", "error" \in PayloadOutcomes
  PROVE  ~Decodable(CurrentChunk, since, dz_context)
<1> DEFINE i == CurrentChunk
           v == FileOf(arc, i)
<1> SUFFICES ASSUME Decodable(i, since, dz_context) PROVE FALSE
  OBVIOUS
<1>1. phase = "open" /\ i \in ChunkIds(arc) /\ v \in Volumes
  BY SameChunk
<1>2. Usable(v, since)
  BY DEF Decodable
<1>3. since[v] = length[v]
  BY <1>1, <1>2, UsableSince
<1>4. SpanRead(i, since) = ReadLength /\ (Compression(arc, i) = "DZ" => dz_context)
  BY <1>3, PayloadFacts
<1>5. Compression(arc, i) # "ZERO"
  BY DEF PayloadOutcomes
<1>6. /\ CanReadAt(arc, i, ReadLength, length[v])
      /\ ReadLength <= arc.limits.input
      /\ arc.chunks[i].work <= Left(since, dz_context \/ Compression(arc, i) = "DZ")
      /\ DecodeOutcomes(arc, i, ReadLength) = {"exact"}
  BY <1>3, <1>4, <1>5 DEF Decodable
<1>7. Left(since, dz_context \/ Compression(arc, i) = "DZ") <= workspace
  <2>1. arc.limits.workspace \in Nat /\ workspace \in Nat /\ retained \in Nat
    BY ArchiveFacts DEF Reached, IInv, TypeOK, Limits
  <2>2. CASE dz_context
    <3>1. workspace + retained = arc.limits.workspace
      BY <2>2 DEF Reached, IInv, WorkspaceAccounted
    <3>2. retained <= CommonBytes(since) /\ CommonBytes(since) \in Nat
      BY <2>2, DictionaryAtMost
    <3>3. QED
      BY <2>1, <2>2, <3>1, <3>2 DEF Left
  <2>3. CASE ~dz_context
    <3>1. workspace = arc.limits.workspace /\ Compression(arc, i) # "DZ"
      BY <1>4, <2>3 DEF Reached, IInv, WorkspaceAccounted
    <3>2. QED
      BY <2>1, <2>3, <3>1 DEF Left
  <2>4. QED
    BY <2>2, <2>3
<1>8. arc.chunks[i].work <= workspace
  <2>1. arc.chunks[i] \in Chunk
    BY <1>1, ArchiveFacts, ElementOfSeq DEF Reached, IInv, ChunkIds
  <2>2. arc.chunks[i].work \in Nat
    BY <2>1 DEF Chunk
  <2>3. workspace \in Nat /\ Left(since, dz_context \/ Compression(arc, i) = "DZ") \in Int
    <3>1. arc.limits.workspace \in Nat /\ workspace \in Nat
      BY ArchiveFacts DEF Reached, IInv, TypeOK, Limits
    <3>2. CASE dz_context
      BY <3>1, <3>2, DictionaryAtMost DEF Left
    <3>3. CASE ~dz_context
      BY <1>4, <3>1, <3>3 DEF Left
    <3>4. QED
      BY <3>1, <3>2, <3>3
  <2>4. QED
    BY <1>6, <1>7, <2>2, <2>3
<1>9. PayloadOutcomes = {"exact"}
  BY <1>5, <1>6, <1>8 DEF PayloadOutcomes, FileOf
<1>10. QED
  BY <1>9

\* A chunk is delivered by the store as well, or its error is one of the store's.
LEMMA DeliverPayloadStores ==
  ASSUME Reached, Promised, Promised', DeliverPayload PROVE StoreStep
<1>1. pc = "payload" /\ UNCHANGED <<arc, length, since, phase, dz_context>>
  BY DEF DeliverPayload, archiveVars
<1>2. PICK o \in PayloadOutcomes :
        IF o = "error" THEN Return("failed") /\ decode_buffer' = <<>> /\ UNCHANGED out
        ELSE /\ decode_buffer' = <<[chunk |-> CurrentChunk, content |-> o]>>
             /\ out' = Append(out, [chunk |-> CurrentChunk, content |-> o])
             /\ ProceedTo(entry, part + 1)
             /\ UNCHANGED <<entry, todo, result>>
  BY PayloadDelivered DEF Reached, IInv
<1>3. CASE o = "error"
  <2>1. Return("failed") /\ UNCHANGED out
    BY <1>2, <1>3
  <2>2. ~Decodable(CurrentChunk, since, dz_context)
    BY <1>1, <1>3, ErrorIsUnreadable
  <2>3. QED
    BY <1>1, <2>1, <2>2, FailureStep
<1>4. CASE o # "error"
  <2>1. o = "exact" /\ Decodable(CurrentChunk, length, dz_context)
    BY <1>1, <1>4, ExactIsReadable
  <2>2. /\ out' = Append(out, [chunk |-> CurrentChunk, content |-> "exact"])
        /\ UNCHANGED <<entry, result>>
    BY <1>2, <1>4, <2>1
  <2>3. Store!Readable(CurrentChunk, length, dz_context)
    BY <2>1, SameJudgement
  <2>4. /\ entry # 0 /\ Len(out) < Len(arc.entries[entry])
        /\ arc.entries[entry][Len(out) + 1] = CurrentChunk
    BY <1>1, SameChunk
  <2>5. Compression(arc, CurrentChunk) = "DZ" => dz_context
    BY <1>1 DEF Reached, IInv, ChunkReady
  <2>6. /\ IfPromised(length, MainOnly(arc)) = length /\ IfPromised(dz_context, FALSE) = dz_context
        /\ IfPromised(entry, 0) = entry /\ IfPromised(out, <<>>) = out
        /\ IfPromised(out, <<>>)' = out'
    BY DEF IfPromised
  <2>7. Store!NextChunk = CurrentChunk
    BY <2>4, <2>6 DEF Store!NextChunk
  <2>8. UNCHANGED << IfPromised(length, MainOnly(arc)), IfPromised(since, MainOnly(arc)),
                     IfPromised(phase, "prepared"), IfPromised(dz_context, FALSE),
                     IfPromised(entry, 0), IfPromised(result, "none") >>
    BY <1>1, <2>2 DEF IfPromised
  <2>9. Store!Deliver
    BY <1>1, <2>2, <2>3, <2>4, <2>5, <2>6, <2>7, <2>8, SameFormat DEF Store!Deliver
  <2>10. QED
    BY <2>9 DEF StoreStep, Store!Next
<1>5. QED
  BY <1>3, <1>4

\* A writer refuses only the bytes of a chunk the store can read.
LEMMA OutputFailsStores ==
  ASSUME Reached, Promised, Promised', OutputFails PROVE StoreStep
<1>1. /\ pc = "payload" /\ UNCHANGED <<arc, length, since, phase, dz_context, out>>
      /\ Return("output") /\ PayloadOutcomes # {"error"}
  BY DEF OutputFails, archiveVars
<1>2. PICK o \in PayloadOutcomes : o # "error"
  <2>1. PayloadOutcomes # {}
    BY DEF PayloadOutcomes, DecodeOutcomes
  <2>2. QED
    BY <1>1, <2>1
<1>3. Decodable(CurrentChunk, length, dz_context)
  BY <1>1, <1>2, ExactIsReadable
<1>4. Store!Readable(CurrentChunk, length, dz_context)
  BY <1>3, SameJudgement
<1>5. /\ entry # 0 /\ Len(out) < Len(arc.entries[entry])
      /\ arc.entries[entry][Len(out) + 1] = CurrentChunk
  BY <1>1, SameChunk
<1>6. /\ IfPromised(length, MainOnly(arc)) = length /\ IfPromised(dz_context, FALSE) = dz_context
      /\ IfPromised(entry, 0) = entry /\ IfPromised(out, <<>>) = out
  BY DEF IfPromised
<1>7. Store!NextChunk = CurrentChunk
  BY <1>5, <1>6 DEF Store!NextChunk
<1>8. UNCHANGED << IfPromised(length, MainOnly(arc)), IfPromised(since, MainOnly(arc)),
                   IfPromised(phase, "prepared"), IfPromised(dz_context, FALSE),
                   IfPromised(out, <<>>) >>
  BY <1>1 DEF IfPromised
<1>9. IfPromised(entry, 0)' = 0 /\ IfPromised(result, "none")' = "output"
  BY <1>1 DEF IfPromised, Return
<1>10. Store!ReturnError
  BY <1>1, <1>4, <1>5, <1>6, <1>7, <1>8, <1>9 DEF Store!ReturnError
<1>11. QED
  BY <1>10 DEF StoreStep, Store!Next

\* A read that reached its end has delivered the whole entry: its length check
\* never fails.
LEMMA FinishReadStores ==
  ASSUME Reached, Promised, Promised', FinishRead PROVE StoreStep
<1>1. /\ pc = "finish" /\ entry # 0 /\ UNCHANGED <<arc, length, since, phase, dz_context, out>>
      /\ entry \in DOMAIN arc.entries /\ part = Len(out) + 1
      /\ part = Len(arc.entries[entry]) + 1 /\ \A k \in DOMAIN out : DeliveredWell(k)
  BY DEF FinishRead, Reached, ReadShape, archiveVars
<1>2. arc.entries[entry] \in Seq(Nat)
  BY <1>1, ArchiveFacts, ElementOfSeq DEF Reached, IInv
<1>3. Len(out) = Len(arc.entries[entry]) /\ DOMAIN out = DOMAIN arc.entries[entry]
  <2>1. Len(out) \in Nat /\ DOMAIN out = 1 .. Len(out)
    BY LenProperties DEF Reached, IInv, TypeOK
  <2>2. /\ Len(arc.entries[entry]) \in Nat
        /\ DOMAIN arc.entries[entry] = 1 .. Len(arc.entries[entry])
    BY <1>2, LenProperties
  <2>3. QED
    BY <1>1, <2>1, <2>2
<1>4. [k \in DOMAIN out |-> out[k].chunk] = arc.entries[entry]
  <2>1. arc.entries[entry] = [k \in DOMAIN arc.entries[entry] |-> arc.entries[entry][k]]
    BY <1>2
  <2>2. \A k \in DOMAIN out : out[k].chunk = arc.entries[entry][k]
    BY <1>1 DEF DeliveredWell
  <2>3. QED
    BY <1>3, <2>1, <2>2
<1>5. Return("ok")
  BY <1>4 DEF FinishRead
<1>6. Store!ReturnOk
  BY <1>1, <1>3, <1>5 DEF Store!ReturnOk, Return, IfPromised
<1>7. QED
  BY <1>6 DEF StoreStep, Store!Next

\* The refinement mapping takes every step to a step of the store or to none.
LEMMA EveryStepStores == Reached /\ [Next]_vars => StoreStep
<1> SUFFICES ASSUME Reached, [Next]_vars PROVE StoreStep
  OBVIOUS
<1>1. arc' = arc /\ (Promised' <=> Promised)
  BY ArchiveStays DEF Reached, Promised, ArrivesWhole, PackerLaid
<1>2. CASE ~Promised
  <2>1. ~Promised'
    BY <1>1, <1>2
  <2>2. MainOnly(arc') = MainOnly(arc)
    BY <1>1
  <2>3. UNCHANGED Store!vars
    BY <1>1, <1>2, <2>1, <2>2 DEF Store!vars, IfPromised
  <2>4. QED
    BY <2>3 DEF StoreStep
<1>3. CASE Promised
  <2>1. Promised'
    BY <1>1, <1>3
  <2>2. CASE Open
    BY <1>3, <2>1, <2>2, OpenStores
  <2>3. CASE \E v \in AuxVolumes : VolumeArrives(v)
    BY <1>3, <2>1, <2>3, VolumeArrivesStores
  <2>4. CASE \E v \in Volumes : ResolveVolume(v)
    BY <1>3, <2>1, <2>4, OtherCallStep DEF ResolveVolume, Return, Reached, ReadShape
  <2>5. CASE StartSweep
    BY <1>3, <2>1, <2>5, OtherCallStep DEF StartSweep, archiveVars, Reached, ReadShape
  <2>6. CASE \E e \in 0 .. Len(arc.entries) : StartRead(e)
    BY <1>3, <2>1, <2>6, StartReadStores
  <2>7. CASE SweepVolume
    <3>1. /\ phase = "open" /\ entry = 0 /\ out = <<>>
          /\ UNCHANGED <<arc, length, since, phase, dz_context, out>>
      BY <2>7 DEF SweepVolume, Reached, IInv, CallShape, ReadShape, StoreShape
    <3>2. \/ entry' = 0 /\ result' \in {"ok", "failed"}
          \/ UNCHANGED <<entry, result>>
      BY <2>7 DEF SweepVolume, Return
    <3>3. QED
      BY <1>3, <2>1, <3>1, <3>2, OtherCallStep, UnseenIsStutter DEF Unseen
  <2>8. CASE ResolveChunkVolume
    BY <1>3, <2>1, <2>8, ResolveChunkVolumeStores
  <2>9. CASE ResolveCommonVolume
    BY <1>3, <2>1, <2>9, ResolveCommonVolumeStores
  <2>10. CASE WeighCommonChunk
    BY <1>3, <2>1, <2>10, UnseenIsStutter DEF WeighCommonChunk, Unseen
  <2>11. CASE LoadContext
    BY <1>3, <2>1, <2>11, LoadContextStores
  <2>12. CASE DeliverPayload
    BY <1>3, <2>1, <2>12, DeliverPayloadStores
  <2>13. CASE OutputFails
    BY <1>3, <2>1, <2>13, OutputFailsStores
  <2>14. CASE FinishRead
    BY <1>3, <2>1, <2>14, FinishReadStores
  <2>15. CASE UNCHANGED vars
    BY <1>3, <2>1, <2>15, UnseenIsStutter DEF vars, archiveVars, callVars, Unseen
  <2>16. QED
    BY <2>2, <2>3, <2>4, <2>5, <2>6, <2>7, <2>8, <2>9, <2>10, <2>11, <2>12, <2>13, <2>14,
       <2>15 DEF Next, CallStep
<1>4. QED
  BY <1>2, <1>3

\* A reader that is not open yet is a store that is not open yet.
LEMMA InitStores == Init => Store!Init
<1> SUFFICES ASSUME Init PROVE Store!Init
  OBVIOUS
<1>1. arc \in Archives /\ Store!MainOnly(arc) = MainOnly(arc)
  BY SameFormat DEF Init
<1>2. /\ IfPromised(length, MainOnly(arc)) = MainOnly(arc)
      /\ IfPromised(since, MainOnly(arc)) = MainOnly(arc)
      /\ IfPromised(phase, "prepared") = "prepared" /\ IfPromised(dz_context, FALSE) = FALSE
      /\ IfPromised(entry, 0) = 0 /\ IfPromised(out, <<>>) = <<>>
      /\ IfPromised(result, "none") = "none"
  BY DEF Init, IfPromised
<1>3. QED
  BY <1>1, <1>2 DEF Store!Init

\* Lazy resolution, staging, caches and partial failures are invisible: whatever
\* the order of calls, the reader delivers and refuses what a store would that
\* judges every chunk afresh from the volumes present.
THEOREM ReaderImplementsStore == Spec => ImplementsEntryStore
<1>1. Reached /\ [Next]_vars => [Store!Next]_(Store!vars)
  BY EveryStepStores DEF StoreStep
<1>2. QED
  BY <1>1, InitStores, ReachedAlways, PTL DEF Spec, ImplementsEntryStore, Store!Spec
=============================================================================
