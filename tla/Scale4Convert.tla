---------------------------- MODULE Scale4Convert ----------------------------
(***************************************************************************)
(* The conversion of raw expert files to scale4 sidecars                    *)
(* (expert_scale4.rs, expert_scale4/convert.rs, expert_scale4/manifest.rs): *)
(* a pool of threads per process, each taking the next layer, one published *)
(* file per layer, and an activation manifest published last.  There is no  *)
(* lock between processes: partial files have unique names, and a hard link *)
(* never replaces.                                                          *)
(*                                                                          *)
(* A raw expert is its identity (FileIdentity) and one plane of scale bytes *)
(* the record is made of; its digest is those bytes.                        *)
(***************************************************************************)
EXTENDS Naturals, Sequences, FiniteSets

CONSTANTS
  Converters,         \* processes
  NLayers, NExperts,  \* layers, and experts of each
  Threads,            \* threads of a converter
  ScalePlanes,        \* the planes a raw expert may hold
  MaxReplaced,        \* bound: raw experts replaced by their owner
  MaxConverterKills   \* bound: converters killed

VARIABLES
  raw,          \* raw expert files
  names,        \* the raw names the converter is given, as <<layer, expert>>
  corpus,       \* published layer files and manifest
  converter,    \* what each process is doing
  kills4

cvars == <<raw, names, corpus, converter, kills4>>

Layers4 == 1..NLayers
Experts4 == 0..(NExperts - 1)
Roster == {<<l, e>> : l \in Layers4, e \in Experts4}

-----------------------------------------------------------------------------
Lowest(plane) == CHOOSE v \in {plane[i] : i \in DOMAIN plane} : \A i \in DOMAIN plane : v <= plane[i]
Highest(plane) == CHOOSE v \in {plane[i] : i \in DOMAIN plane} : \A i \in DOMAIN plane : v >= plane[i]

\* exponent_table: sixteen exponents must fit in a byte.
ExponentTable(base) == base <= 240

Packable(plane) ==
  /\ plane # <<>>
  /\ ExponentTable(Lowest(plane))
  /\ Highest(plane) - Lowest(plane) <= 15

HalfUp(n) == (n + 1) \div 2

\* pack_scale4: two deltas in a byte, the even index in the low nibble.
PackScale4(plane) ==
  LET Delta(i) == IF i \in DOMAIN plane THEN plane[i] - Lowest(plane) ELSE 0
  IN  [base |-> Lowest(plane),
       packed |-> [b \in 1..HalfUp(Len(plane)) |-> Delta(2 * b - 1) + 16 * Delta(2 * b)]]

UnpackScale4(packed, base, count) ==
  [i \in 1..count |->
     base + (IF i % 2 = 1 THEN packed[HalfUp(i)] % 16 ELSE packed[HalfUp(i)] \div 16)]

\* build_record, over build_header: digest of the source, base, packed deltas.
BuildRecord(plane) == [source |-> plane, base |-> PackScale4(plane).base,
                       packed |-> PackScale4(plane).packed]

\* encode_raw_expert reads a file whose identity is the same before and after.
EncodeRawExpert(file) == [identity |-> file.identity, record |-> BuildRecord(file.plane)]

-----------------------------------------------------------------------------
Members(l, roster) == {i \in DOMAIN roster : roster[i][1] = l}

\* layer_jobs: no expert twice, and the experts of a layer count from zero.
LayerJobs(roster) ==
  \A l \in {roster[i][1] : i \in DOMAIN roster} :
    {roster[i][2] : i \in Members(l, roster)} = 0..(Cardinality(Members(l, roster)) - 1)

ValidateSourceSet(roster) ==
  roster # <<>> /\ LayerJobs(roster) /\ \A i \in DOMAIN roster : roster[i] \in DOMAIN raw

LayersOf(roster) == {roster[i][1] : i \in DOMAIN roster}
CountOf(l) == Cardinality(Members(l, names))

NoFile == <<>>
Todo == [st |-> "todo", witnesses |-> <<>>]
IdleConverter(result) ==
  [pc |-> "idle", jobs |-> [l \in Layers4 |-> Todo], seen |-> [x \in Roster |-> 0],
   left |-> {}, resume |-> TRUE, result |-> result]

\* The names of a full corpus, and two that layer_jobs refuses.
Full == [i \in 1..(NLayers * NExperts) |-> <<1 + ((i - 1) \div NExperts), (i - 1) % NExperts>>]

CInit ==
  /\ \E p \in ScalePlanes : raw = [x \in Roster |-> [identity |-> 1, plane |-> p]]
  /\ names \in {Full, <<>>, <<<<1, 0>>, <<1, 0>>>>, <<<<1, 1>>>>}
  /\ corpus = [files |-> [l \in Layers4 |-> NoFile], manifest |-> <<>>]
  /\ converter = [c \in Converters |-> IdleConverter("none")]
  /\ kills4 = 0

-----------------------------------------------------------------------------
Finish(c, result) == converter' = [converter EXCEPT ![c] = IdleConverter(result)]
Job(c, l) == converter[c].jobs[l]
SetJob(c, l, st, witnesses) ==
  converter' = [converter EXCEPT ![c].jobs[l] = [st |-> st, witnesses |-> witnesses]]
Records(witnesses) == [i \in DOMAIN witnesses |-> witnesses[i].record]

\* load_for_raw_names: a row for every name, and layer files of their length.
LoadForRawNames(manifest) ==
  /\ DOMAIN manifest.rows = LayersOf(names)
  /\ \A l \in DOMAIN manifest.rows : Len(corpus.files[l]) = CountOf(l)

\* verify_all_records: the records of every layer are those the manifest names.
VerifyAllRecords(manifest) ==
  \A l \in DOMAIN manifest.rows : corpus.files[l] = manifest.rows[l]

\* convert_for_raw_names up to its threads.
ConvertForRawNames(c) ==
  /\ converter[c].pc = "idle" /\ converter[c].result \notin {"refused", "done"}
  /\ IF ~ValidateSourceSet(names) THEN Finish(c, "refused")
     ELSE IF corpus.manifest # <<>>
       THEN Finish(c, IF LoadForRawNames(corpus.manifest[1]) /\ VerifyAllRecords(corpus.manifest[1])
                      THEN "done" ELSE "failed")
       ELSE \E resume \in BOOLEAN :
              converter' = [converter EXCEPT ![c] = [IdleConverter("none") EXCEPT !.pc = "layers",
                                                                                  !.resume = resume]]
  /\ UNCHANGED <<raw, names, corpus, kills4>>

Running(c) == {l \in Layers4 : Job(c, l).st \in {"encode", "resume"}}
Untaken(c) == {l \in LayersOf(names) : Job(c, l).st = "todo"}

\* A thread takes the next layer (fetch_add) and looks for its file, which is
\* only welcome when the conversion may resume.
TakeLayer(c) ==
  LET l == Lowest([i \in Untaken(c) |-> i])
  IN  /\ converter[c].pc = "layers"
      /\ Untaken(c) # {} /\ Cardinality(Running(c)) < Threads
      /\ SetJob(c, l, IF corpus.files[l] = NoFile THEN "encode"
                      ELSE IF converter[c].resume THEN "resume" ELSE "failed", <<>>)
      /\ UNCHANGED <<raw, names, corpus, kills4>>

\* convert_layer, and verify_existing_layer for a file that is there: the next
\* expert is encoded, and compared when there is something to compare with.
\* A layer that fails removes its partial; the other layers go on.
ConvertLayer(c, l) ==
  LET job == Job(c, l)
      i == Len(job.witnesses) + 1
      encoded == EncodeRawExpert(raw[<<l, i - 1>>])
      differs == job.st = "resume" /\ corpus.files[l][i] # encoded.record
  IN  /\ l \in Running(c) /\ i <= CountOf(l)
      /\ IF ~Packable(raw[<<l, i - 1>>].plane) \/ differs
           THEN SetJob(c, l, "failed", <<>>)
           ELSE SetJob(c, l, job.st, Append(job.witnesses, encoded))
      /\ UNCHANGED <<raw, names, corpus, kills4>>

\* Mutant: a witness is not looked at again.
Bug_ValidateWitness(l, i, witness) == TRUE

\* validate_witness: the raw file still has the identity it was read with.
ValidateWitness(l, i, witness) == raw[<<l, i - 1>>].identity = witness.identity

\* The end of convert_layer: witnesses, then publish_hard_link, which fails on
\* a file that another converter has published.
PublishLayer(c, l) ==
  LET job == Job(c, l)
      valid == \A i \in DOMAIN job.witnesses : ValidateWitness(l, i, job.witnesses[i])
  IN  /\ l \in Running(c) /\ Len(job.witnesses) = CountOf(l)
      /\ IF job.st = "resume" THEN SetJob(c, l, "done", job.witnesses) /\ UNCHANGED corpus
         ELSE IF ~valid \/ corpus.files[l] # NoFile
           THEN SetJob(c, l, "failed", <<>>) /\ UNCHANGED corpus
           ELSE /\ corpus' = [corpus EXCEPT !.files[l] = Records(job.witnesses)]
                /\ SetJob(c, l, "done", job.witnesses)
      /\ UNCHANGED <<raw, names, kills4>>

\* The threads have joined: the first error is returned, or every witness of
\* every layer is validated once more.
Collect(c) ==
  /\ converter[c].pc = "layers" /\ Untaken(c) = {} /\ Running(c) = {}
  /\ IF \E l \in LayersOf(names) : Job(c, l).st = "failed" THEN Finish(c, "failed")
     ELSE converter' = [converter EXCEPT ![c].pc = "validate",
                                         ![c].seen = [x \in Roster |-> raw[x].plane],
                                         ![c].left = {names[i] : i \in DOMAIN names}]
  /\ UNCHANGED <<raw, names, corpus, kills4>>

Revalidate(c) ==
  /\ converter[c].pc = "validate"
  /\ \E x \in converter[c].left :
       IF ValidateWitness(x[1], x[2] + 1, Job(c, x[1]).witnesses[x[2] + 1])
         THEN converter' = [converter EXCEPT ![c].left = @ \ {x}]
         ELSE Finish(c, "failed")
  /\ UNCHANGED <<raw, names, corpus, kills4>>

\* build_document: a row for every name, and for nothing else.
BuildDocument(c) ==
  [rows |-> [l \in LayersOf(names) |-> Records(Job(c, l).witnesses)], seen |-> converter[c].seen]

\* publish_manifest, which never replaces one, and the reload that activates it.
PublishManifest(c) ==
  /\ converter[c].pc = "validate" /\ converter[c].left = {}
  /\ IF corpus.manifest # <<>> THEN Finish(c, "failed") /\ UNCHANGED corpus
     ELSE /\ corpus' = [corpus EXCEPT !.manifest = <<BuildDocument(c)>>]
          /\ Finish(c, "done")
  /\ UNCHANGED <<raw, names, kills4>>

\* The owner replaces a raw expert.
ReplaceRaw(x) ==
  /\ raw[x].identity = 1 /\ Cardinality({y \in Roster : raw[y].identity > 1}) < MaxReplaced
  /\ \E p \in ScalePlanes : raw' = [raw EXCEPT ![x] = [identity |-> 2, plane |-> p]]
  /\ UNCHANGED <<names, corpus, converter, kills4>>

KillConverter(c) ==
  /\ converter[c].pc # "idle" /\ kills4 < MaxConverterKills
  /\ kills4' = kills4 + 1
  /\ Finish(c, "killed")
  /\ UNCHANGED <<raw, names, corpus>>

CNext ==
  \/ \E c \in Converters :
       \/ ConvertForRawNames(c) \/ TakeLayer(c) \/ Collect(c) \/ Revalidate(c)
       \/ PublishManifest(c) \/ KillConverter(c)
       \/ \E l \in Layers4 : ConvertLayer(c, l) \/ PublishLayer(c, l)
  \/ \E x \in Roster : ReplaceRaw(x)

CSpec == CInit /\ [][CNext]_cvars

-----------------------------------------------------------------------------
\* An activated corpus is what one instant of the raw files encodes to: every
\* layer file is there with the rows of the manifest, every record unpacks to
\* the plane it was made from, and there was a moment, after all of them had
\* been read, at which all the raw files held exactly those planes, whatever
\* was converted by whom, killed, resumed or replaced in between.
ActivatedCorpusIsOneSnapshot ==
  corpus.manifest # <<>> =>
    LET m == corpus.manifest[1]
    IN  /\ DOMAIN m.rows = Layers4
        /\ \A l \in Layers4 : corpus.files[l] = m.rows[l] /\ Len(m.rows[l]) = NExperts
        /\ \A l \in Layers4 : \A i \in 1..NExperts :
             LET r == m.rows[l][i]
             IN  /\ UnpackScale4(r.packed, r.base, Len(r.source)) = r.source
                 /\ r.source = m.seen[<<l, i - 1>>]
=============================================================================
