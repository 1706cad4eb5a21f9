----------------------------- MODULE CatalogReads -----------------------------
(***************************************************************************)
(* One batch of whole expert files read through the deferred catalog         *)
(* (storage.rs Batch::new_deferred_exact_validated and the catalog part of   *)
(* run_job).  A file may have a copy on each of up to four tiers; a job opens *)
(* one of them, in an order that depends on the route, while an operator      *)
(* copies, replaces and removes files:                                        *)
(*   "legacy"  a fixed order, one job per file                              *)
(*   "mirror"  K3_MIRROR_SCHED=2, the order of least expected completion      *)
(*   "eta"     K3_SPLIT_ETA, the same for each chunk of a file               *)
(*   "home"    K3_SPLIT_READ, hot tier or enclosures first by chunk          *)
(* Chunks share the descriptors their batch has opened.                      *)
(* K3_SPLIT_CAP and K3_TIER_BALANCE, which only reorder tiers, are left out. *)
(***************************************************************************)
EXTENDS Naturals, FiniteSets, Sequences, FiniteSetsExt, SequencesExt

CONSTANTS
  Routes,
  Sources,
  Chunks,      \* jobs per file on the split routes
  HotChunks,   \* of which this many prefer the hot tier under "home"
  Configured,  \* the tiers that have a directory; "primary" always has
  Cost,        \* of a read on a tier
  Layouts,     \* where copies are at first: a tier's copy is "absent", "good" or "wrong"
  Workers, MaxMoves, MaxIoErrors

VARIABLES
  route,
  copies,       \* source -> tier -> [at, file]
  slots,        \* source -> class of tiers -> what the batch has opened there
  outstanding,  \* SPLIT_ETA_OUTSTANDING or MIRROR_OUTSTANDING
  work,         \* a worker's job, or Idle
  charged,      \* MIRROR_INFLIGHT_DEV of each worker
  jobs,         \* unclaimed
  done,         \* job -> [at, file, tier]
  kept,         \* <<source, tier>> whose copy was good and in place all along
  moves, errors

kvars == <<route, copies, slots, outstanding, work, charged, jobs, done, kept, moves, errors>>

Tiers == {"hot", "c", "b", "primary"}
Fixed == <<"c", "hot", "b", "primary">>  \* the order of the legacy chain
EtaFirst == <<"hot", "c", "b", "primary">>
Enclosures == <<"c", "b", "primary">>
None == "none"
Idle == [job |-> <<>>]
Unset == [is |-> "unset", file |-> 0, tier |-> None]
Absent == [is |-> "absent", file |-> 0, tier |-> None]
Filling == [is |-> "filling", file |-> 0, tier |-> None]
Split == route \in {"eta", "home"}

\* BatchJobs::get: file-major, one chunk per file unless it is split.
KInit ==
  /\ route \in Routes
  /\ \E l \in Layouts : copies = [s \in Sources |-> [t \in Tiers |-> [at |-> l[s][t], file |-> 1]]]
  /\ slots = [s \in Sources |-> [c \in Tiers |-> Unset]]
  /\ outstanding = [t \in Tiers |-> 0]
  /\ work = [w \in Workers |-> Idle]
  /\ charged = [w \in Workers |-> None]
  /\ jobs = Sources \X (1 .. IF Split THEN Chunks ELSE 1)
  /\ done = [j \in Sources \X (1 .. Chunks) |-> [at |-> "none", file |-> 0, tier |-> None]]
  /\ kept = {<<s, t>> \in Sources \X Configured : copies[s][t].at = "good"}
  /\ moves = 0 /\ errors = 0

\* An operator puts a copy on a tier, or takes one away.
Move ==
  /\ moves < MaxMoves /\ moves' = moves + 1
  /\ \E s \in Sources, t \in Configured, at \in {"absent", "good", "wrong"} :
       /\ copies' = [copies EXCEPT ![s][t] = [at |-> at, file |-> @.file + 1]]
       /\ kept' = kept \ {<<s, t>>}
  /\ UNCHANGED <<route, slots, outstanding, work, charged, jobs, done, errors>>

----------------------------------------------------------------------------
(* Where to look.                                                          *)

\* split_eta_us and mirror_eta_us: the cost of what is in flight and one more.
Eta(t) == Cost[t] * (outstanding[t] + 1)

ByEta(base, tie(_)) ==
  LET before(x, y) ==
        \/ Eta(x) < Eta(y)
        \/ Eta(x) = Eta(y) /\ tie(x) < tie(y)
        \/ Eta(x) = Eta(y) /\ tie(x) = tie(y)
             /\ \E i, k \in DOMAIN base : base[i] = x /\ base[k] = y /\ i < k
  IN  SetToSortSeq(Range(base), before)

\* mirror_probe_order, and the order of run_job for chunks by expected completion.
MirrorOrder == ByEta(Fixed, LAMBDA t : Cost[t])
EtaOrder == ByEta(EtaFirst, LAMBDA t : 0)

\* The classes of tiers a job looks through; under "home" a chunk prefers one.
ClassesOf(job) ==
  CASE route = "legacy" -> <<Fixed>>
    [] route = "mirror" -> <<MirrorOrder>>
    [] route = "eta" -> [i \in DOMAIN EtaOrder |-> <<EtaOrder[i]>>]
    [] route = "home" -> IF job[2] <= HotChunks THEN <<<<"hot">>, Enclosures>> ELSE <<Enclosures, <<"hot">>>>

Claim(w) ==
  /\ jobs # {} /\ work[w] = Idle
  /\ LET job == CHOOSE j \in jobs : \A k \in jobs : j[2] <= k[2]
     IN  /\ jobs' = jobs \ {job}
         /\ work' = [work EXCEPT ![w] =
              [job |-> job, at |-> "resolve", classes |-> ClassesOf(job), left |-> <<>>, got |-> Unset]]
  /\ UNCHANGED <<route, copies, slots, outstanding, charged, done, kept, moves, errors>>

At(w, at) == work[w] # Idle /\ work[w].at = at
SourceOf(w) == work[w].job[1]
Finish(w, result) ==
  /\ work' = [work EXCEPT ![w] = Idle]
  /\ done' = [done EXCEPT ![work[w].job] = result]
Failed(why) == [at |-> why, file |-> 0, tier |-> None]

----------------------------------------------------------------------------
(* Opening.                                                                *)

\* The next class: what the batch has opened there, or a search of its tiers,
\* which on the split routes (OnceLock) the other workers wait for.
Resolve(w) ==
  /\ At(w, "resolve") /\ work[w].classes # <<>>
  /\ LET s == SourceOf(w)  class == Head(work[w].classes)  slot == slots[s][class[1]]
     IN  /\ Split => slot # Filling
         /\ IF Split /\ slot # Unset
            THEN /\ work' = [work EXCEPT ![w].at = "take", ![w].got = slot]
                 /\ UNCHANGED slots
            ELSE /\ work' = [work EXCEPT ![w].at = "probe", ![w].left = class]
                 /\ slots' = IF Split THEN [slots EXCEPT ![s][class[1]] = Filling] ELSE slots
  /\ UNCHANGED <<route, copies, outstanding, charged, jobs, done, kept, moves, errors>>

\* mirror_issue, when a tier has answered; a search that finds nothing charges
\* the primary.
Charge(w, t) ==
  IF route = "mirror"
  THEN /\ outstanding' = [outstanding EXCEPT ![t] = @ + 1]
       /\ charged' = [charged EXCEPT ![w] = t]
  ELSE UNCHANGED <<outstanding, charged>>

\* open_catalog_tier; finish_catalog_open refuses a file of another length.
CopyOn(s, t) == IF t \in Configured THEN copies[s][t] ELSE [at |-> "absent", file |-> 0]
Answer(copy, t) == IF copy.at = "absent" THEN Absent ELSE [is |-> copy.at, file |-> copy.file, tier |-> t]

\* openat in the next tier of the class: only a missing file is looked for elsewhere.
Probe(w) ==
  /\ At(w, "probe")
  /\ LET s == SourceOf(w)  t == Head(work[w].left)  class == Head(work[w].classes)
         got == Answer(CopyOn(s, t), t)
     IN  IF got = Absent /\ Len(work[w].left) > 1
         THEN /\ work' = [work EXCEPT ![w].left = Tail(@)]
              /\ UNCHANGED <<slots, outstanding, charged>>
         ELSE /\ work' = [work EXCEPT ![w].at = "take", ![w].got = got]
              /\ slots' = IF Split THEN [slots EXCEPT ![s][class[1]] = got] ELSE slots
              /\ Charge(w, IF got = Absent THEN "primary" ELSE t)
  /\ UNCHANGED <<route, copies, jobs, done, kept, moves, errors>>

\* What was opened is read, what is wrong fails the job, and the next class is
\* looked through only for what is missing.  Under "eta" the read is charged
\* (SplitEtaGuard::issue).
Take(w) ==
  /\ At(w, "take")
  /\ LET got == work[w].got
     IN  CASE got.is = "good" ->
                /\ work' = [work EXCEPT ![w].at = "read"]
                /\ outstanding' = IF route = "eta" THEN [outstanding EXCEPT ![got.tier] = @ + 1] ELSE outstanding
                /\ UNCHANGED done
           [] got.is = "wrong" -> Finish(w, Failed("wrong")) /\ UNCHANGED outstanding
           [] got.is = "absent" ->
                /\ IF Len(work[w].classes) > 1
                   THEN /\ work' = [work EXCEPT ![w].at = "resolve", ![w].classes = Tail(@)]
                        /\ UNCHANGED done
                   ELSE Finish(w, Failed("missing"))
                /\ UNCHANGED outstanding
  /\ UNCHANGED <<route, copies, slots, charged, jobs, kept, moves, errors>>

----------------------------------------------------------------------------
(* Reading.                                                                *)

\* Mutant: a chunk whose read fails stays charged.
Bug_Retired(w, failed) ==
  CASE route = "eta" /\ ~failed -> [outstanding EXCEPT ![work[w].got.tier] = IF @ = 0 THEN 0 ELSE @ - 1]
    [] route = "mirror" /\ ~failed /\ charged[w] # None -> [outstanding EXCEPT ![charged[w]] = IF @ = 0 THEN 0 ELSE @ - 1]
    [] OTHER -> outstanding
\* SplitEtaGuard is dropped on every path; mirror_retire is called only when the
\* read has succeeded.
Retired(w, failed) ==
  CASE route = "eta" -> [outstanding EXCEPT ![work[w].got.tier] = IF @ = 0 THEN 0 ELSE @ - 1]
    [] route = "mirror" /\ ~failed /\ charged[w] # None -> [outstanding EXCEPT ![charged[w]] = IF @ = 0 THEN 0 ELSE @ - 1]
    [] OTHER -> outstanding

Read(w) ==
  /\ At(w, "read")
  /\ \E failed \in BOOLEAN :
       /\ failed => errors < MaxIoErrors
       /\ errors' = IF failed THEN errors + 1 ELSE errors
       /\ outstanding' = Retired(w, failed)
       /\ charged' = IF failed THEN charged ELSE [charged EXCEPT ![w] = None]
       /\ Finish(w, IF failed THEN Failed("io") ELSE [at |-> "read", file |-> work[w].got.file, tier |-> work[w].got.tier])
  /\ UNCHANGED <<route, copies, slots, jobs, kept, moves>>

KNext == Move \/ \E w \in Workers : Claim(w) \/ Resolve(w) \/ Probe(w) \/ Take(w) \/ Read(w)
KSpec == KInit /\ [][KNext]_kvars

----------------------------------------------------------------------------
(* Properties.                                                             *)

\* Whatever the order of the tiers and whoever moves files meanwhile, an expert
\* whose copy stays in place on one configured tier is never reported missing.
FoundWhereverItIs ==
  \A j \in DOMAIN done : done[j].at = "missing" => \A t \in Configured : <<j[1], t>> \notin kept

\* Chunks of a file that one tier serves come from one file of that tier, though
\* it is replaced while they are read.
ChunksAreOneFile ==
  \A j, k \in DOMAIN done :
    j[1] = k[1] /\ done[j].at = "read" /\ done[k].at = "read" /\ done[j].tier = done[k].tier
      => done[j].file = done[k].file

\* A tier is charged, for chunks by expected completion, with exactly the reads
\* in flight on it, whatever fails; a device is never exiled.  (Under "mirror"
\* it is charged with at least those: see MirrorDepthIsInFlight.)
ChargesAreReads ==
  \A t \in Tiers :
    LET reading == Cardinality({w \in Workers : At(w, "read") /\ work[w].got.tier = t})
    IN  /\ route = "eta" => outstanding[t] = reading
        /\ route = "mirror" => outstanding[t] >= reading

\* "Reads currently IN FLIGHT per device: incremented on issue, decremented on
\* completion" (MIRROR_OUTSTANDING): with no worker at work no tier owes a read.
\* mirror_retire is reached only after a whole read, so an open that fails and a
\* read that fails leave their tier charged for good.
MirrorDepthIsInFlight ==
  route = "mirror" /\ (\A w \in Workers : work[w] = Idle) => \A t \in Tiers : outstanding[t] = 0
=============================================================================
