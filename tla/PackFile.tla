------------------------------- MODULE PackFile -------------------------------
(***************************************************************************)
(* DFSP layer packs: packfile.rs (plan, write, open, verify) and the        *)
(* resumable `pack-spine` command over it, pack_command.rs.                 *)
(*                                                                          *)
(* A byte of a tensor is a number that names the model, the tensor, the     *)
(* part, the version of the source and the position; 0 is padding.  A       *)
(* digest is the value it digests: two equal digests are of equal bytes.    *)
(* Alignments and the chunk size are small constants.  Packers of different *)
(* models may be given one output directory.  The source of a layer may be  *)
(* replaced between two reads, a read or a write may fail, a write may be   *)
(* torn, a process may be killed, and a published file may be damaged later. *)
(***************************************************************************)
EXTENDS Naturals, Sequences, FiniteSets, SequencesExt

CONSTANTS
  Packers,            \* pack-spine processes
  Layers,             \* layers, numbers
  Identities,         \* pack identities: model, inventory and layout digests, numbers
  Commands,           \* possible commands: packer -> [identity, only (--verify-only)]
  Tensors,            \* of a layer: sequence of [name, codec, shape, group, order, good]
  Component, Payload, \* COMPONENT_ALIGNMENT, PAYLOAD_ALIGNMENT
  ChunkBytes,
  MaxPayload,         \* ParseLimits
  MaxPackFaults       \* bound: replaced sources, failed reads and syncs, damage, kills

VARIABLES
  source,   \* identity -> layer -> version of its source files
  packs,    \* layer -> the pack at its destination, or NoPack
  staged,   \* packer -> its temporary file, or NoPack
  packer,   \* packer -> its progress
  told,     \* what some run reported verified: layer, pack and the run's identity
  pfaults

kvars == <<source, packs, staged, packer, told, pfaults>>

NoPack == [header |-> <<>>, records |-> <<>>, chunks |-> <<>>, bytes |-> <<>>]

-----------------------------------------------------------------------------
AlignUp(n, a) == ((n + a - 1) \div a) * a
CeilDiv(n, a) == (n + a - 1) \div a
Min2(a, b) == IF a < b THEN a ELSE b

\* The bytes of a component in one version of the source: ComponentSource.
Length(t, part) ==
  LET elements == t.shape[1] * t.shape[2]
  IN  CASE part = "data" /\ t.codec = "raw" -> 2 * elements
        [] part = "data" /\ t.codec = "q8" -> elements
        [] OTHER -> IF t.codec = "q8" THEN 2 * t.shape[1] ELSE 0

SourceByte(t, part, identity, version, i) ==
  10000 * identity + 1000 * t.name + (IF part = "aux" THEN 500 ELSE 0) + 100 * version + i
ReadComponent(t, part, identity, version) ==
  [i \in 1 .. Length(t, part) |-> SourceByte(t, part, identity, version, i)]

\* validate_build_tensor and validate_name.
ValidateBuildTensor(t) ==
  /\ t.good                                     \* the name is of this layer, the lengths fit the shape
  /\ t.shape[1] > 0 /\ t.shape[2] > 0

\* physical_order: upload group, upload order, name.
Before(a, b) ==
  \/ a.group < b.group
  \/ a.group = b.group /\ (a.order < b.order \/ (a.order = b.order /\ a.name < b.name))
PhysicalOrder(ts, codec) == SortSeq(SelectSeq(ts, LAMBDA t : t.codec = codec), Before)

\* assign_offsets: each component after the one before it, aligned.
AssignOffsets(order, part, base) ==
  LET at[i \in 1 .. Len(order)] ==
        AlignUp(IF i = 1 THEN base ELSE at[i - 1] + Length(order[i - 1], part), Component)
  IN  at

SectionSpan(order, part, base) ==
  IF order = <<>> THEN 0
  ELSE AlignUp(AssignOffsets(order, part, base)[Len(order)] + Length(Last(order), part) - base, Payload)

\* plan_build: records by name; q8 data, then scales, then raw data.
Plan(ts) ==
  LET q == PhysicalOrder(ts, "q8")
      raw == PhysicalOrder(ts, "raw")
      scales == SectionSpan(q, "data", 0)
      rawAt == scales + SectionSpan(q, "aux", scales)
      index(seq, t) == CHOOSE i \in DOMAIN seq : seq[i] = t
      record(t) ==
        [name |-> t.name, codec |-> t.codec, shape |-> t.shape, group |-> t.group, order |-> t.order,
         data |-> IF t.codec = "q8" THEN AssignOffsets(q, "data", 0)[index(q, t)]
                  ELSE AssignOffsets(raw, "data", rawAt)[index(raw, t)],
         aux |-> IF t.codec = "q8" THEN AssignOffsets(q, "aux", scales)[index(q, t)] ELSE 0,
         dataDigest |-> <<>>, auxDigest |-> <<>>]
      byName == SortSeq(ts, LAMBDA a, b : a.name < b.name)
  IN  [records |-> [i \in DOMAIN byName |-> record(byName[i])],
       scales |-> scales, raw |-> rawAt, payload |-> rawAt + SectionSpan(raw, "data", rawAt)]

\* What plan_build refuses.
PlanFails(ts) ==
  \/ ts = <<>>
  \/ \E i, j \in DOMAIN ts : i < j /\ ts[i].name = ts[j].name
  \/ \E i \in DOMAIN ts : ~ValidateBuildTensor(ts[i])
  \/ Plan(ts).payload \notin 1 .. MaxPayload

-----------------------------------------------------------------------------
\* PayloadWriter: every component at its offset, zeroes between; the digests
\* are of what was read from the source.  versions says which version of the
\* source each component was read from: the file of each is opened anew, in
\* the order of the payload.
Components(plan) ==
  {<<i, "data">> : i \in DOMAIN plan.records} \cup
  {<<i, "aux">> : i \in {k \in DOMAIN plan.records : plan.records[k].codec = "q8"}}

At(r, part) == IF part = "data" THEN r.data ELSE r.aux

\* The three calls of write_component_section.
ReadOrder(records) ==
  LET q == PhysicalOrder(records, "q8")
      raw == PhysicalOrder(records, "raw")
      places(order, part) ==
        [k \in DOMAIN order |-> <<CHOOSE i \in DOMAIN records : records[i] = order[k], part>>]
  IN  places(q, "data") \o places(q, "aux") \o places(raw, "data")

WriteSections(plan, identity, versions) ==
  [b \in 1 .. plan.payload |->
     LET hit == {c \in Components(plan) :
                   LET r == plan.records[c[1]] IN b > At(r, c[2]) /\ b <= At(r, c[2]) + Length(r, c[2])}
     IN  IF hit = {} THEN 0
         ELSE LET c == CHOOSE x \in hit : TRUE
                  r == plan.records[c[1]]
             IN  SourceByte(r, c[2], identity, versions[c], b - At(r, c[2]))]

\* finish_chunk: the payload in chunks, each with its digest.
ChunkTable(bytes) ==
  [k \in 1 .. CeilDiv(Len(bytes), ChunkBytes) |->
     [offset |-> (k - 1) * ChunkBytes,
      digest |-> SubSeq(bytes, (k - 1) * ChunkBytes + 1, Min2(k * ChunkBytes, Len(bytes)))]]

\* encode_directory, encode_header: the directory digest, the payload digest
\* and the pack digest that binds them to the layer and the identity.
Encode(layer, identity, plan, versions) ==
  LET bytes == WriteSections(plan, identity, versions)
      digest(i, part) ==
        IF <<i, part>> \in Components(plan)
          THEN ReadComponent(plan.records[i], part, identity, versions[<<i, part>>]) ELSE <<>>
      records == [i \in DOMAIN plan.records |->
                    [plan.records[i] EXCEPT !.dataDigest = digest(i, "data"),
                                            !.auxDigest = digest(i, "aux")]]
      chunks == ChunkTable(bytes)
      body == [layer |-> layer, identity |-> identity, count |-> Len(records),
               chunks |-> Len(chunks), payload |-> plan.payload, scales |-> plan.scales,
               raw |-> plan.raw, directory |-> <<records, chunks>>, sum |-> bytes]
  IN  [header |-> <<body, body>>,              \* the fields and their own digest
       records |-> records, chunks |-> chunks, bytes |-> bytes]

-----------------------------------------------------------------------------
\* validate_header_layout: every offset is the one the counts imply.
ValidateHeaderLayout(h, size) ==
  /\ h.payload = size /\ h.payload <= MaxPayload
  /\ h.count > 0 /\ h.chunks = CeilDiv(h.payload, ChunkBytes)
  /\ h.scales % Payload = 0 /\ h.raw % Payload = 0 /\ h.scales <= h.raw /\ h.raw <= h.payload

\* decode_header
DecodeHeader(pack) ==
  /\ Len(pack.header) = 2
  /\ pack.header[1] = pack.header[2]           \* superblock digest
  /\ ValidateHeaderLayout(pack.header[1], Len(pack.bytes))

\* decode_records: as many as declared, strictly sorted by name.
DecodeRecords(h, records) ==
  /\ Len(records) = h.count
  /\ \A i \in 1 .. Len(records) - 1 : records[i].name < records[i + 1].name

\* decode_chunks: the table covers the payload in order.
DecodeChunks(h, chunks) ==
  /\ Len(chunks) = h.chunks
  /\ \A k \in DOMAIN chunks :
       /\ chunks[k].offset = (k - 1) * ChunkBytes
       /\ Len(chunks[k].digest) = Min2(ChunkBytes, h.payload - (k - 1) * ChunkBytes)

\* validate_record_semantics
RecordSemantics(r) ==
  /\ r.shape[1] > 0 /\ r.shape[2] > 0
  /\ r.data % Component = 0 /\ r.aux % Component = 0
  /\ r.codec = "raw" => r.aux = 0 /\ r.auxDigest = <<>>

\* validate_section_records: the offsets are those a writer would assign.
SectionRecords(records, part, codec, base) ==
  LET order == PhysicalOrder(records, codec)
      at == AssignOffsets(order, part, base)
  IN  \A i \in DOMAIN order : At(order[i], part) = at[i]

ValidateTensorLayout(h, records) ==
  /\ \A i \in DOMAIN records : RecordSemantics(records[i])
  /\ SectionRecords(records, "data", "q8", 0)
  /\ SectionRecords(records, "aux", "q8", h.scales)
  /\ SectionRecords(records, "data", "raw", h.raw)

\* open_for, require_identity
Open(pack, layer, identity) ==
  /\ DecodeHeader(pack)
  /\ pack.header[1].directory = <<pack.records, pack.chunks>>
  /\ DecodeRecords(pack.header[1], pack.records)
  /\ DecodeChunks(pack.header[1], pack.chunks)
  /\ ValidateTensorLayout(pack.header[1], pack.records)
  /\ pack.header[1].layer = layer /\ pack.header[1].identity = identity

\* component_ranges: no two components share a byte.
Ranges(pack) ==
  {[r |-> pack.records[c[1]], part |-> c[2]] : c \in Components([records |-> pack.records])}
RangeOf(g) == At(g.r, g.part) + 1 .. At(g.r, g.part) + Length(g.r, g.part)
Overlap(pack) == \E g, k \in Ranges(pack) : g # k /\ RangeOf(g) \cap RangeOf(k) # {}

\* verify_chunk_coverage: component bytes match their digests, the rest is 0.
Covered(pack) ==
  /\ \A g \in Ranges(pack) :
       [i \in 1 .. Length(g.r, g.part) |-> pack.bytes[At(g.r, g.part) + i]]
         = IF g.part = "data" THEN g.r.dataDigest ELSE g.r.auxDigest
  /\ \A b \in 1 .. Len(pack.bytes) : (\A g \in Ranges(pack) : b \notin RangeOf(g)) => pack.bytes[b] = 0

\* Only the table of chunks is compared with itself.
Bug_VerifyAll(pack) == ~Overlap(pack) /\ pack.header[1].chunks = Len(pack.chunks)

\* verify_all
VerifyAll(pack) ==
  /\ ~Overlap(pack)
  /\ ChunkTable(pack.bytes) = pack.chunks
  /\ pack.bytes = pack.header[1].sum
  /\ Covered(pack)

-----------------------------------------------------------------------------
FreshPacker(command) ==
  [pc |-> "select", todo |-> 1, layer |-> 0, only |-> command.only, identity |-> command.identity,
   left |-> <<>>, versions |-> <<>>, began |-> 0]

KInit ==
  /\ source = [i \in Identities |-> [l \in Layers |-> 0]]
  /\ packs = [l \in Layers |-> NoPack]
  /\ staged = [p \in Packers |-> NoPack]
  /\ \E commands \in Commands : packer = [p \in Packers |-> FreshPacker(commands[p])]
  /\ told = {}
  /\ pfaults = 0

Stay(p, r) == packer' = [packer EXCEPT ![p] = r]
Failed(p) == [packer[p] EXCEPT !.pc = "failed", !.left = <<>>, !.versions = <<>>, !.began = 0]

\* pack_command::run: an existing pack is verified, a missing one is an error
\* when only verifying and built otherwise.
Select(p) ==
  LET r == packer[p]
      l == r.todo
  IN  /\ r.pc = "select"
      /\ \/ l \notin Layers /\ Stay(p, [r EXCEPT !.pc = "done"]) /\ UNCHANGED told
         \/ /\ l \in Layers /\ packs[l] # NoPack
            /\ IF Open(packs[l], l, r.identity) /\ VerifyAll(packs[l])
                 THEN told' = told \cup {<<l, packs[l], r.identity>>} /\ Stay(p, [r EXCEPT !.todo = @ + 1])
                 ELSE Stay(p, Failed(p)) /\ UNCHANGED told
         \/ /\ l \in Layers /\ packs[l] = NoPack
            /\ Stay(p, IF r.only \/ PlanFails(Tensors) THEN Failed(p)
                       ELSE [r EXCEPT !.pc = "write", !.layer = l, !.left = ReadOrder(Plan(Tensors).records),
                                      !.began = source[r.identity][l]])
            /\ UNCHANGED told
      /\ UNCHANGED <<source, packs, staged, pfaults>>

\* write_source: the file of the next component is opened and read as it is now;
\* a file that is gone, too short or unreadable ends the run.
WriteSource(p) ==
  LET r == packer[p]
  IN  /\ r.pc = "write" /\ r.left # <<>>
      /\ \/ /\ Stay(p, [r EXCEPT !.left = Tail(@),
                                !.versions = @ @@ (Head(r.left) :> source[r.identity][r.layer])])
            /\ UNCHANGED pfaults
         \/ pfaults < MaxPackFaults /\ pfaults' = pfaults + 1 /\ Stay(p, Failed(p))
      /\ UNCHANGED <<source, packs, staged, told>>

\* write_file after the last component: the directory and the superblock.
WriteFile(p) ==
  LET r == packer[p]
  IN  /\ r.pc = "write" /\ r.left = <<>>
      /\ staged' = [staged EXCEPT ![p] = Encode(r.layer, r.identity, Plan(Tensors), r.versions)]
      /\ Stay(p, [r EXCEPT !.pc = "stage", !.versions = <<>>])
      /\ UNCHANGED <<source, packs, told, pfaults>>

\* A layer's source files are replaced by others of the same lengths.
ReplaceSource(i, l) ==
  /\ pfaults < MaxPackFaults /\ pfaults' = pfaults + 1
  /\ source' = [source EXCEPT ![i][l] = @ + 1]
  /\ UNCHANGED <<packs, staged, packer, told>>

Bug_Stage(p) ==
  /\ packer[p].pc = "stage"
  /\ Stay(p, [packer[p] EXCEPT !.pc = "link"])
  /\ UNCHANGED <<source, packs, staged, told, pfaults>>

\* A staged file that does not verify is not published.
Stage(p) ==
  /\ packer[p].pc = "stage"
  /\ Stay(p, IF Open(staged[p], packer[p].layer, packer[p].identity) /\ VerifyAll(staged[p])
               THEN [packer[p] EXCEPT !.pc = "link"] ELSE Failed(p))
  /\ staged' = IF packer'[p].pc = "link" THEN staged ELSE [staged EXCEPT ![p] = NoPack]
  /\ UNCHANGED <<source, packs, told, pfaults>>

\* hard_link does not replace: a second packer of the layer fails here.
Link(p) ==
  LET l == packer[p].layer
  IN  /\ packer[p].pc = "link"
      /\ IF packs[l] # NoPack
           THEN /\ Stay(p, Failed(p)) /\ staged' = [staged EXCEPT ![p] = NoPack] /\ UNCHANGED packs
           ELSE /\ packs' = [packs EXCEPT ![l] = staged[p]]
                /\ Stay(p, [packer[p] EXCEPT !.pc = "sync"]) /\ UNCHANGED staged
      /\ UNCHANGED <<source, told, pfaults>>

\* sync_directory, which may fail after the pack is published, then the
\* temporary name goes and the pack is opened again.
SyncDirectory(p) ==
  LET l == packer[p].layer
  IN  /\ packer[p].pc = "sync"
      /\ \E ok \in {TRUE, FALSE} :
           /\ ~ok => pfaults < MaxPackFaults
           /\ pfaults' = pfaults + (IF ok THEN 0 ELSE 1)
           /\ IF ok /\ Open(packs[l], l, packer[p].identity)
                THEN Stay(p, [packer[p] EXCEPT !.pc = "select", !.todo = @ + 1, !.began = 0])
                ELSE Stay(p, Failed(p))
      /\ staged' = [staged EXCEPT ![p] = NoPack]
      /\ UNCHANGED <<source, packs, told>>

\* A damaged image: one byte, one record, one chunk record, the header, the length.
Damaged(pack) ==
  {[pack EXCEPT !.bytes[b] = @ + 7] : b \in DOMAIN pack.bytes} \cup
  {[pack EXCEPT !.bytes = SubSeq(@, 1, Len(@) - 1)]} \cup
  {[pack EXCEPT !.records[i].data = @ + Component] : i \in DOMAIN pack.records} \cup
  {[pack EXCEPT !.chunks[k].digest = Tail(@)] : k \in DOMAIN pack.chunks} \cup
  {[pack EXCEPT !.header[1].payload = @ + Payload]}

\* A torn or flipped write, before it is verified or after it is published.
TornWrite(p) ==
  /\ packer[p].pc = "stage" /\ pfaults < MaxPackFaults
  /\ \E image \in Damaged(staged[p]) : staged' = [staged EXCEPT ![p] = image]
  /\ pfaults' = pfaults + 1
  /\ UNCHANGED <<source, packs, packer, told>>

Decay(l) ==
  /\ packs[l] # NoPack /\ pfaults < MaxPackFaults
  /\ Open(packs[l], l, packs[l].header[1].identity) /\ VerifyAll(packs[l])
  /\ \E image \in Damaged(packs[l]) : packs' = [packs EXCEPT ![l] = image]
  /\ pfaults' = pfaults + 1
  /\ UNCHANGED <<source, staged, packer, told>>

\* A killed process leaves its temporary file; the same command run again has
\* another one.
Restart(p) ==
  /\ packer[p].pc \notin {"select", "done"} /\ pfaults < MaxPackFaults
  /\ Stay(p, FreshPacker(packer[p]))
  /\ staged' = [staged EXCEPT ![p] = NoPack]
  /\ pfaults' = pfaults + 1
  /\ UNCHANGED <<source, packs, told>>

KNext ==
  \/ \E p \in Packers :
       \/ Select(p) \/ WriteSource(p) \/ WriteFile(p) \/ Stage(p) \/ Link(p)
       \/ SyncDirectory(p) \/ TornWrite(p) \/ Restart(p)
  \/ \E l \in Layers : Decay(l) \/ \E i \in Identities : ReplaceSource(i, l)

KSpec == KInit /\ [][KNext]_kvars

-----------------------------------------------------------------------------
\* A component of a pack, as a reader finds it at the offset of its record, is
\* that of one version of the source of a model.
IsOf(pack, c, identity, version) ==
  LET r == pack.records[c[1]]
  IN  [k \in 1 .. Length(r, c[2]) |-> pack.bytes[At(r, c[2]) + k]]
        = ReadComponent(r, c[2], identity, version)

\* All components are there, each of one of these versions, and none is older
\* than the one read before it.
Holds(pack, identity, range) ==
  LET order == ReadOrder(pack.records)
  IN  /\ Len(pack.records) = Len(Tensors)
      /\ \A k \in DOMAIN order : \E v \in range : IsOf(pack, order[k], identity, v)
      /\ \A k \in 2 .. Len(order) : \A v, w \in range :
           IsOf(pack, order[k - 1], identity, v) /\ IsOf(pack, order[k], identity, w) => v <= w

\* A pack is published only when each component (the data of a tensor, or its
\* scales) is, byte for byte at the place its record names, that component in one
\* version of the packer's own model, a version that existed between the start of
\* the write and the publication.  Versions never decrease in the order of
\* reading, so with a source left alone the whole pack is of one version; when
\* the source is replaced meanwhile, a tensor's data and scales may be of two.
\* A torn or flipped write between the payload and the link never reaches the
\* destination, and no packer replaces a pack that is there.
PublishesItsSource ==
  \A l \in Layers, p \in Packers : packer'[p] # packer[p] =>
    /\ packs[l] # NoPack => packs'[l] = packs[l]
    /\ packs'[l] # packs[l] =>
         LET i == packer[p].identity
         IN  packs'[l].header[1].identity = i /\ Holds(packs'[l], i, packer[p].began .. source[i][l])
PublishedPackHoldsItsSource == [][PublishesItsSource]_kvars

\* A pack that a run reported as verified is intact and of the run's own model: no
\* single damaged byte, record, chunk digest, header field or length, and no pack
\* of another model in the same directory, passes open and verify_all.
VerifiesIntactPacks == \A t \in told' \ told : Holds(t[2], t[3], 0 .. source[t[3]][t[1]])
VerifiedPackIsIntact == [][VerifiesIntactPacks]_kvars

=============================================================================
