--------------------------- MODULE ReadPlanCompile ---------------------------
(***************************************************************************)
(* ReadPlan::open_with_admission (storage.rs): a list of extents, each a     *)
(* range of a file, a scattered range or zeroes for a range of the buffer,   *)
(* is validated under one of six admissions and cut into jobs for the        *)
(* workers.  Nothing is checked again when the jobs run, at any time and     *)
(* side by side, into uninitialised memory.                                  *)
(*                                                                          *)
(* Offsets and lengths are in units of bytes; one of the three buffers.      *)
(***************************************************************************)
EXTENDS Naturals, FiniteSets, Sequences, FiniteSetsExt, SequencesExt

CONSTANTS
  Requests,      \* what callers ask for, see Init
  ExactLength,   \* of every source under "exact"
  MaxSources,    \* MAX_DEFERRED_MANIFEST_SOURCES
  MaxContracts,  \* MAX_DEFERRED_AUTHENTICATED_SOURCES
  MaxVerified,   \* MAX_DEFERRED_AUTHENTICATED_VERIFICATIONS
  MaxJobs        \* MAX_PLAN_JOBS

VARIABLES
  req,    \* [adm, extents, contracts, files, declared, chunk, room]
  made    \* the plan: [at, jobs, persistent]

cvars == <<req, made>>

Persistent == {"persistent", "manifest_persistent"}
Manifest == {"manifest", "manifest_persistent"}
NoPlan == [at |-> "none", jobs |-> {}, persistent |-> 0]

\* extents: a sequence of [op, path, from, parts, digest], op one of "read",
\* "vectored" and "zero", parts the destinations [at, len] in source order.
\* contracts: a sequence of [path, length, ranges]; files: lengths on disk.
CInit == req \in Requests /\ made = NoPlan

Sum(s) == FoldLeft(LAMBDA a, p : a + p.len, 0, s)
End(x) == x.from + Sum(x.parts)
Extents == {req.extents[i] : i \in DOMAIN req.extents}
NonEmpty(x) == Sum(x.parts) # 0
Reads == {i \in DOMAIN req.extents : req.extents[i].op # "zero" /\ NonEmpty(req.extents[i])}
Paths == {req.extents[i].path : i \in Reads}
ContractsOf(path) == {req.contracts[i] : i \in {j \in DOMAIN req.contracts : req.contracts[j].path = path}}
ContractPaths == {req.contracts[i].path : i \in DOMAIN req.contracts}

\* Mutant: a gap between two destinations is not noticed.
Bug_ValidDestinations ==
  LET ranges == UNION {{[i |-> i, j |-> j, at |-> req.extents[i].parts[j].at, len |-> req.extents[i].parts[j].len] :
                          j \in DOMAIN req.extents[i].parts} : i \in DOMAIN req.extents}
      real == {x \in ranges : x.len # 0}
      scan == SetToSortSeq(real, LAMBDA x, y : x.at < y.at \/ (x.at = y.at /\ x.len < y.len))
      covered == FoldLeft(LAMBDA c, x : IF x.at < c THEN req.declared + 1 ELSE x.at + x.len, 0, scan)
  IN  (\A x \in real : x.at + x.len <= req.declared) /\ covered = req.declared
\* validate_destinations: in bounds, then one pass over the sorted ranges.
ValidDestinations ==
  LET ranges == UNION {{[i |-> i, j |-> j, at |-> req.extents[i].parts[j].at, len |-> req.extents[i].parts[j].len] :
                          j \in DOMAIN req.extents[i].parts} : i \in DOMAIN req.extents}
      real == {x \in ranges : x.len # 0}
      scan == SetToSortSeq(real, LAMBDA x, y : x.at < y.at \/ (x.at = y.at /\ x.len < y.len))
      covered == FoldLeft(LAMBDA c, x : IF x.at # c THEN req.declared + 1 ELSE x.at + x.len, 0, scan)
  IN  (\A x \in real : x.at + x.len <= req.declared) /\ covered = req.declared

\* open_deferred_ranges and open_deferred_authenticated: the contracts by path.
\* Ranges take one each; verifications of one path must agree on its length and
\* not overlap.
ValidContracts ==
  LET all == {req.contracts[i] : i \in DOMAIN req.contracts}
      verified == [p \in ContractPaths |-> UNION {c.ranges : c \in ContractsOf(p)}]
  IN  /\ req.contracts # <<>> /\ Cardinality(ContractPaths) <= MaxContracts
      /\ \A c \in all : c.length > 0
      /\ req.adm = "ranges" => Cardinality(ContractPaths) = Len(req.contracts)
      /\ req.adm = "authenticated" =>
           /\ FoldLeft(LAMBDA n, c : n + Cardinality(c.ranges), 0, req.contracts) <= MaxVerified
           /\ \A p \in ContractPaths :
                /\ Cardinality({c.length : c \in ContractsOf(p)}) = 1
                /\ \A v \in verified[p] : v.len > 0 /\ v.at + v.len <= (CHOOSE c \in ContractsOf(p) : TRUE).length
                /\ \A v, u \in verified[p] : v # u => v.at + v.len <= u.at \/ u.at + u.len <= v.at
                /\ \A c, d \in ContractsOf(p) : c # d => c.ranges \cap d.ranges = {}

\* The length a source is held to; for a manifest it is what its first extent reads.
SourceLength(path) ==
  CASE req.adm = "persistent" -> req.files[path]
    [] req.adm = "exact" -> ExactLength
    [] req.adm \in Manifest -> End(req.extents[Min({i \in Reads : req.extents[i].path = path})])
    [] OTHER -> (CHOOSE c \in ContractsOf(path) : TRUE).length

\* The range a gathered extent is authenticated by, if any.
CoveredBy(x) ==
  {v \in UNION {c.ranges : c \in ContractsOf(x.path)} : v.at <= x.from /\ End(x) <= v.at + v.len}

\* What the loop over extents refuses: of a scattered range, then of a plain one.
VectoredAdmitted(x) ==
  /\ x.parts # <<>> /\ \A i \in DOMAIN x.parts : x.parts[i].len # 0
  /\ req.adm = "ranges" /\ x.path \in ContractPaths
  /\ End(x) <= SourceLength(x.path)

ReadAdmitted(x) ==
  /\ req.adm \in {"ranges", "authenticated"} => x.path \in ContractPaths
  /\ req.adm = "authenticated" => ~x.digest /\ CoveredBy(x) # {}
  /\ req.adm \in Manifest => x.from = 0 /\ SourceLength(x.path) = End(x)
  /\ req.adm = "persistent" => x.path \in DOMAIN req.files
  /\ End(x) <= SourceLength(x.path)

ExtentAdmitted(x) ==
  CASE x.op = "vectored" -> VectoredAdmitted(x)
    [] x.op = "read" /\ NonEmpty(x) -> ReadAdmitted(x)
    [] OTHER -> TRUE

\* After the loop: no contract without a source, no gathered byte twice.
SourcesAdmitted ==
  /\ req.adm \in {"ranges", "authenticated"} => Cardinality(Paths) = Cardinality(ContractPaths)
  /\ req.adm = "authenticated" =>
       \A i, j \in Reads :
         LET x == req.extents[i]  y == req.extents[j]
         IN  i # j /\ x.path = y.path => End(x) <= y.from \/ End(y) <= x.from

\* DescriptorBudget::reserve
PersistentCount == IF req.adm \in Persistent THEN Cardinality(Paths) ELSE 0

\* Mutant: an extent with a digest is cut like any other.
Bug_ChunkOf(x) == IF req.chunk = 0 THEN Sum(x.parts) ELSE req.chunk
\* An extent with a digest is one job whatever the chunk size.
ChunkOf(x) == IF x.digest \/ req.chunk = 0 THEN Sum(x.parts) ELSE req.chunk

\* The jobs of one extent.
Cut(x) ==
  CASE ~NonEmpty(x) -> {}
    [] NonEmpty(x) /\ x.op = "vectored" -> {x}
    [] NonEmpty(x) /\ x.op # "vectored" ->
       LET size == Sum(x.parts)  n == (size + ChunkOf(x) - 1) \div ChunkOf(x)
       IN  {LET done == k * ChunkOf(x)
            IN  [x EXCEPT !.from = IF x.op = "zero" THEN x.from ELSE @ + done,
                          !.parts = <<[at |-> x.parts[1].at + done, len |-> Min({ChunkOf(x), size - done})]>>] :
              k \in 0 .. n - 1}

\* An authenticated source is one job: every range, hashed and scattered.
Gather(path) ==
  [op |-> "gather", path |-> path, ranges |-> UNION {c.ranges : c \in ContractsOf(path)},
   extents |-> {x \in Extents : x.path = path /\ NonEmpty(x)}]

Jobs ==
  UNION {IF req.adm = "authenticated" /\ x.op = "read" THEN {} ELSE Cut(x) : x \in Extents}
  \cup {Gather(p) : p \in IF req.adm = "authenticated" THEN Paths ELSE {}}

Admitted ==
  /\ req.adm \in {"ranges", "authenticated"} => ValidContracts
  /\ ValidDestinations
  /\ req.adm \in Manifest => Cardinality(Paths) <= MaxSources
  /\ PersistentCount <= req.room
  /\ \A x \in Extents : ExtentAdmitted(x)
  /\ SourcesAdmitted
  /\ Cardinality(Jobs) <= MaxJobs

Compile ==
  /\ made.at = "none"
  /\ made' = IF Admitted THEN [at |-> "open", jobs |-> Jobs, persistent |-> PersistentCount]
             ELSE [NoPlan EXCEPT !.at = "refused"]
  /\ UNCHANGED req

CNext == Compile
CSpec == CInit /\ [][CNext]_cvars

----------------------------------------------------------------------------
(* Properties.                                                             *)

\* The bytes a worker writes for a list of destinations: <<to, from>>, where
\* from is the place in the file.
Scattered(x) ==
  LET before(i) == Sum(SubSeq(x.parts, 1, i - 1))
  IN  {<<x.parts[i].at + k, IF x.op = "zero" THEN <<"zero", 0>> ELSE <<x.path, x.from + before(i) + k>>>> :
         <<i, k>> \in {<<a, b>> \in (DOMAIN x.parts) \X (0 .. req.declared) : b < x.parts[a].len}}
Writes(job) == IF job.op = "gather" THEN UNION {Scattered(x) : x \in job.extents} ELSE Scattered(job)
Asked == UNION {Scattered(x) : x \in Extents}

\* The jobs of an admitted plan write every byte of the buffer exactly once, with
\* the byte of the file that was asked for, from within the file's admitted
\* length; what one digest covers is read by one job; and only a plan that fits
\* in the descriptor budget and the limit of jobs is admitted.
AdmittedPlansAreExact ==
  made.at = "open" =>
    LET written == UNION {Writes(j) : j \in made.jobs}
    IN  /\ {w[1] : w \in written} = 0 .. req.declared - 1
        /\ Cardinality(written) = req.declared /\ written = Asked
        /\ \A j, k \in made.jobs : j # k => {w[1] : w \in Writes(j)} \cap {w[1] : w \in Writes(k)} = {}
        /\ \A w \in written : w[2][1] # "zero" => w[2][2] < SourceLength(w[2][1])
        /\ \A x \in Extents : x.digest /\ NonEmpty(x) => \E j \in made.jobs : Writes(j) = Scattered(x)
        /\ made.persistent <= req.room /\ Cardinality(made.jobs) <= MaxJobs
=============================================================================
