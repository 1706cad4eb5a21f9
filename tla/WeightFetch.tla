----------------------------- MODULE WeightFetch -----------------------------
(***************************************************************************)
(* The resumable download of the K3 weights, weight_fetch.rs: planning from *)
(* what is on disk, the capacity check, the worker threads that fetch       *)
(* ranges in chunks, the split of an expert run into expert files, and      *)
(* restart after a failure or a kill.                                       *)
(*                                                                          *)
(* Bytes of a file are named by their offset in the shard, so a file holds  *)
(* what it should exactly when it is the interval of its range.  One        *)
(* process runs at a time; a demand fetch of the serving engine takes       *)
(* execution_lock and names its partials uniquely.                          *)
(***************************************************************************)
EXTENDS Naturals, Integers, Sequences, FiniteSets, FiniteSetsExt, SequencesExt, Functions, TLC

CONSTANTS
  Residents,      \* resident tensors
  ResidentBytes,  \* and their size (each has a shard of its own)
  ExpertAt,       \* ExpertAt[e]: offset of the span of expert e in its shard
  ExpertBytes,    \* K3_EXPERT_SOURCE_BYTES
  Chunk,          \* TRANSFER_CHUNK_BYTES
  Workers,        \* FetchLimits.workers, as threads
  PerRun,         \* FetchLimits.experts_per_run
  DiskBytes,      \* space of the volume, less DEFAULT_REMAINING_FREE_BYTES
  MaxFetchFaults, MaxFetchCrashes   \* bounds

VARIABLES
  demand,         \* a demand fetch of one layer, or a setup
  files,          \* published files: name |-> contents
  parts,          \* resumable partials: name |-> contents
  orphans,        \* bytes of chunk and split files that a kill left behind
  fetch,          \* the running fetch
  worker,         \* its threads
  budget          \* faults and kills so far

wvars == <<demand, files, parts, orphans, fetch, worker, budget>>

Experts == DOMAIN ExpertAt
Interval(from, size) == [i \in 1..size |-> from + i - 1]

\* What a published file must hold.
Right(name) ==
  IF name \in Residents THEN Interval(0, ResidentBytes) ELSE Interval(ExpertAt[name], ExpertBytes)

NoFetch == [on |-> FALSE, work |-> <<>>, cursor |-> 1, stopped |-> FALSE, base |-> 0, peak |-> 0,
            reused |-> 0, completed |-> 0, refused |-> FALSE, others |-> {}, result |-> "none",
            attempt |-> 0]

Asleep == [pc |-> "off", item |-> 1, committed |-> 0, chunk |-> 0, copied |-> 0, expert |-> 1,
           temporary |-> 0]

WInit ==
  /\ demand \in BOOLEAN
  /\ files = <<>> /\ parts = <<>> /\ orphans = 0
  /\ fetch = NoFetch
  /\ worker = [w \in Workers |-> Asleep]
  /\ budget = [faults |-> 0, crashes |-> 0]

-----------------------------------------------------------------------------
Present == DOMAIN files

\* group_adjacent: maximal runs of adjacent spans, at most PerRun long.
\* A run starts where its predecessor is not adjacent or the run is full.
MissingInOrder == SetToSortSeq(Experts \ Present, LAMBDA a, b : ExpertAt[a] < ExpertAt[b])

GroupAdjacent(missing) ==
  FoldLeft(LAMBDA groups, e :
             IF groups # <<>> /\ Len(Last(groups)) < PerRun
                  /\ ExpertAt[Last(Last(groups))] + ExpertBytes = ExpertAt[e]
               THEN [groups EXCEPT ![Len(groups)] = Append(@, e)]
               ELSE Append(groups, <<e>>),
           <<>>, missing)

\* The name of a partial: its tensor, or the range of the run; that of a demand
\* fetch is unique.
RunPart(experts) ==
  <<ExpertAt[experts[1]], ExpertAt[Last(experts)] + ExpertBytes, IF demand THEN fetch.attempt ELSE 0>>

ResidentItem(r) ==
  [part |-> <<r, 0, 0>>, from |-> 0, size |-> ResidentBytes, name |-> r, experts |-> <<>>]

RunItem(experts) ==
  [part |-> RunPart(experts), from |-> ExpertAt[experts[1]], size |-> Len(experts) * ExpertBytes,
   name |-> experts[1], experts |-> experts]

IsRun(item) == item.experts # <<>>

\* plan_from_document_filtered, and plan_layer, which plans experts only.
PlanResidents ==
  IF demand THEN <<>> ELSE [i \in DOMAIN SetToSeq(Residents \ Present) |->
                              ResidentItem(SetToSeq(Residents \ Present)[i])]
PlanExperts ==
  LET groups == GroupAdjacent(MissingInOrder) IN [i \in DOMAIN groups |-> RunItem(groups[i])]

Plan == PlanResidents \o PlanExperts

\* validated_partial_storage: what is allocated, and what of it is kept.
Physical(item) == IF item.part \in DOMAIN parts THEN Len(parts[item.part]) ELSE 0
Committed(item) ==
  IF Physical(item) = item.size THEN Physical(item) ELSE Physical(item) - (Physical(item) % Chunk)

SumBy(Value(_), seq) == FoldLeft(LAMBDA sum, x : sum + Value(x), 0, seq)

\* largest_sum: the most that the workers can hold at once.
LargestSum(values) ==
  LET sorted == SortSeq(values, >)
      n == IF Len(sorted) < Cardinality(Workers) THEN Len(sorted) ELSE Cardinality(Workers)
  IN  SumBy(LAMBDA v : v, SubSeq(sorted, 1, n))

\* storage_requirement: peak_additional_bytes.
FinalToAllocate(plan) ==
  SumBy(LAMBDA item : IF IsRun(item) THEN item.size ELSE item.size - Physical(item), plan)

\* Mutant: a run is reckoned to make room for the experts split from it.
Bug_RunGrowth(plan) == <<>>

RunGrowth(plan) ==
  LET runs == SelectSeq(plan, IsRun) IN [i \in DOMAIN runs |-> runs[i].size - Physical(runs[i])]

ChunkGrowth(plan) ==
  [i \in DOMAIN plan |-> LET left == plan[i].size - Committed(plan[i])
                         IN  IF left < Chunk THEN left ELSE Chunk]

PeakAdditionalBytes(plan) ==
  FinalToAllocate(plan) + LargestSum(RunGrowth(plan)) + LargestSum(ChunkGrowth(plan))

-----------------------------------------------------------------------------
\* Bytes of the volume this program uses.  A published tensor shares its blocks
\* with the partial it was linked from, until that is removed.
Shared == {r \in Residents : r \in Present /\ <<r, 0, 0>> \in DOMAIN parts}

UsedBytes ==
  orphans + MapThenSumSet(LAMBDA n : Len(files[n]), Present \ (Shared \cup fetch.others))
          + MapThenSumSet(LAMBDA n : Len(parts[n]), DOMAIN parts)
          + MapThenSumSet(LAMBDA w : worker[w].chunk + worker[w].temporary, Workers)

Does(w, pc) == fetch.on /\ worker[w].pc = pc
ItemOf(w) == fetch.work[worker[w].item]
PartOf(w) == parts[ItemOf(w).part]

\* execute_guarded_with: the requirement must fit before anything is created.
HasCapacity(plan) == plan = <<>> \/ UsedBytes + PeakAdditionalBytes(plan) <= DiskBytes

StartFetch ==
  /\ ~fetch.on /\ fetch.result # "ok"
  /\ LET plan == Plan
         last == [NoFetch EXCEPT !.others = fetch.others, !.attempt = fetch.attempt]
     IN  IF ~HasCapacity(plan)
           THEN /\ fetch.result # "full"
                /\ fetch' = [last EXCEPT !.result = "full"]
                /\ UNCHANGED worker
           ELSE /\ fetch' = [last EXCEPT !.on = TRUE, !.work = plan, !.base = UsedBytes,
                                !.peak = PeakAdditionalBytes(plan),
                                !.reused = Cardinality(Present), !.attempt = @ + 1]
                /\ worker' = [w \in Workers |-> [Asleep EXCEPT !.pc = "claim"]]
  /\ UNCHANGED <<demand, files, parts, orphans, budget>>

\* execute_transfers: threads take items off one cursor until it runs out or
\* one of them fails.
Claim(w) ==
  /\ Does(w, "claim")
  /\ IF fetch.stopped \/ fetch.cursor > Len(fetch.work)
       THEN worker' = [worker EXCEPT ![w] = Asleep] /\ UNCHANGED fetch
       ELSE /\ worker' = [worker EXCEPT ![w] = [Asleep EXCEPT !.pc = "open", !.item = fetch.cursor]]
            /\ fetch' = [fetch EXCEPT !.cursor = @ + 1]
  /\ UNCHANGED <<demand, files, parts, orphans, budget>>

FailsItem(w) ==
  /\ worker' = [worker EXCEPT ![w] = Asleep]
  /\ fetch' = [fetch EXCEPT !.stopped = TRUE]

EndsItem(w, completed, reused) ==
  /\ worker' = [worker EXCEPT ![w] = [Asleep EXCEPT !.pc = "claim"]]
  /\ fetch' = [fetch EXCEPT !.completed = @ + completed, !.reused = @ + reused]

Targets(item) == IF IsRun(item) THEN Range(item.experts) ELSE {item.name}

\* install_resident and install_expert_run: nothing to do if another process
\* published the files in the meantime ...
AlreadyPresent(w) ==
  /\ Does(w, "open")
  /\ Targets(ItemOf(w)) \subseteq Present
  /\ EndsItem(w, 0, Cardinality(Targets(ItemOf(w))))
  /\ UNCHANGED <<demand, files, parts, orphans, budget>>

\* Mutant: an interrupted chunk stays in the file.
Bug_Truncated(contents, length) == contents

Truncated(contents, length) == SubSeq(contents, 1, length)

\* ... else open_resumable, and drop what an interrupted append left.
OpenResumable(w) ==
  LET item == ItemOf(w)
      found == IF item.part \in DOMAIN parts THEN parts[item.part] ELSE <<>>
  IN  /\ Does(w, "open")
      /\ ~(Targets(item) \subseteq Present)
      /\ Len(found) <= item.size
      /\ parts' = (item.part :> Truncated(found, Committed(item))) @@ parts
      /\ worker' = [worker EXCEPT ![w].pc = "chunk", ![w].committed = Committed(item)]
      /\ UNCHANGED <<demand, files, orphans, fetch, budget>>

\* The next chunk goes to a file of its own; validate_range_response refuses
\* anything but 206 with the range asked for, and the file is removed.
FetchChunk(w) ==
  LET left == ItemOf(w).size - worker[w].committed
  IN  /\ Does(w, "chunk") /\ left > 0
      /\ \/ /\ worker' = [worker EXCEPT ![w].pc = "append",
                                        ![w].chunk = IF left < Chunk THEN left ELSE Chunk]
            /\ UNCHANGED <<fetch, budget>>
         \/ /\ budget.faults < MaxFetchFaults
            /\ budget' = [budget EXCEPT !.faults = @ + 1]
            /\ worker' = [worker EXCEPT ![w] = Asleep]
            /\ fetch' = [fetch EXCEPT !.stopped = TRUE, !.refused = TRUE]
      /\ UNCHANGED <<demand, files, parts, orphans>>

\* A kill may interrupt the append between any two bytes.
AppendByte(w) ==
  LET me == worker[w]
      item == ItemOf(w)
  IN  /\ Does(w, "append")
      /\ parts' = [parts EXCEPT ![item.part] = Append(@, item.from + me.committed + me.copied)]
      /\ worker' = [worker EXCEPT ![w] =
           IF me.copied + 1 < me.chunk THEN [@ EXCEPT !.copied = @ + 1]
           ELSE [@ EXCEPT !.pc = "chunk", !.committed = @ + me.chunk, !.chunk = 0, !.copied = 0]]
      /\ UNCHANGED <<demand, files, orphans, fetch, budget>>

\* The length is read once more before the file is used.
Downloaded(w) ==
  /\ Does(w, "chunk") /\ worker[w].committed = ItemOf(w).size
  /\ IF Len(PartOf(w)) # ItemOf(w).size THEN FailsItem(w)
     ELSE /\ worker' = [worker EXCEPT ![w].pc = IF IsRun(ItemOf(w)) THEN "split" ELSE "link"]
          /\ UNCHANGED fetch
  /\ UNCHANGED <<demand, files, parts, orphans, budget>>

Without(f, name) == Restrict(f, DOMAIN f \ {name})

\* publish_or_accept_race for a tensor.
PublishResident(w) ==
  LET item == ItemOf(w)
  IN  /\ Does(w, "link")
      /\ files' = files @@ (item.name :> PartOf(w))
      /\ worker' = [worker EXCEPT ![w].pc = "unlink"]
      /\ UNCHANGED <<demand, parts, orphans, fetch, budget>>

RemovePart(w) ==
  /\ Does(w, "unlink")
  /\ parts' = Without(parts, ItemOf(w).part)
  /\ EndsItem(w, IF IsRun(ItemOf(w)) THEN 0 ELSE 1, 0)
  /\ UNCHANGED <<demand, files, orphans, budget>>

\* split_expert_run: one expert at a time through a file of its own, then the
\* run is removed.
NextExpert(w) ==
  worker' = [worker EXCEPT ![w].temporary = 0, ![w].expert = @ + 1,
               ![w].pc = IF @ = "unlink" \/ worker[w].expert = Len(ItemOf(w).experts)
                           THEN "unlink" ELSE "split"]

SplitExpert(w) ==
  LET e == ItemOf(w).experts[worker[w].expert]
  IN  /\ Does(w, "split")
      /\ IF e \in Present
           THEN NextExpert(w) /\ fetch' = [fetch EXCEPT !.reused = @ + 1]
           ELSE /\ worker' = [worker EXCEPT ![w].pc = "publish", ![w].temporary = ExpertBytes]
                /\ UNCHANGED fetch
      /\ UNCHANGED <<demand, files, parts, orphans, budget>>

PublishExpert(w) ==
  LET item == ItemOf(w)
      k == worker[w].expert
      offset == ExpertAt[item.experts[k]] - item.from
  IN  /\ Does(w, "publish")
      /\ files' = files @@ (item.experts[k] :> SubSeq(PartOf(w), offset + 1, offset + ExpertBytes))
      /\ NextExpert(w)
      /\ fetch' = [fetch EXCEPT !.completed = @ + 1]
      /\ UNCHANGED <<demand, parts, orphans, budget>>

\* The scope joins its threads; the first failure is the result.
EndFetch ==
  /\ fetch.on /\ \A w \in Workers : worker[w].pc = "off"
  /\ fetch' = [fetch EXCEPT !.on = FALSE, !.result = IF fetch.stopped THEN "failed" ELSE "ok"]
  /\ UNCHANGED <<demand, files, parts, orphans, worker, budget>>

\* A kill leaves every file as it is; chunks and splits have no owner any more.
KillFetch ==
  /\ fetch.on /\ budget.crashes < MaxFetchCrashes
  /\ budget' = [budget EXCEPT !.crashes = @ + 1]
  /\ orphans' = orphans + MapThenSumSet(LAMBDA w : worker[w].chunk + worker[w].temporary, Workers)
  /\ fetch' = [fetch EXCEPT !.on = FALSE, !.result = "killed"]
  /\ worker' = [w \in Workers |-> Asleep]
  /\ UNCHANGED <<demand, files, parts>>

\* A serving process publishes an expert it was asked for.
OtherPublishes(e) ==
  /\ fetch.on /\ fetch.others = {} /\ e \notin Present
  /\ files' = files @@ (e :> Right(e))
  /\ fetch' = [fetch EXCEPT !.others = {e}]
  /\ UNCHANGED <<demand, parts, orphans, worker, budget>>

WNext ==
  \/ StartFetch \/ EndFetch \/ KillFetch
  \/ \E e \in Experts : OtherPublishes(e)
  \/ \E w \in Workers :
       \/ Claim(w) \/ AlreadyPresent(w) \/ OpenResumable(w) \/ FetchChunk(w) \/ AppendByte(w)
       \/ Downloaded(w) \/ PublishResident(w) \/ RemovePart(w) \/ SplitExpert(w) \/ PublishExpert(w)

WSpec == WInit /\ [][WNext]_wvars

-----------------------------------------------------------------------------
\* Weights carry no digest: that every published tensor and expert holds exactly
\* its range rests on how partials are truncated, resumed, appended and split,
\* across failures, kills and files other processes publish.
PublishedBytesAreRight == \A n \in Present : files[n] = Right(n)

\* storage_requirement promises an upper bound: whatever the threads hold at the
\* same time, a fetch never uses more than what it checked for before it began.
WithinCheckedCapacity == fetch.on => UsedBytes <= fetch.base + fetch.peak

\* Nothing that an earlier fetch left behind makes a later one fail: one that
\* ends badly had a response refused; one that ends well has published all that
\* was selected and counted each file once.
FetchEndsWell ==
  /\ fetch.result = "failed" => fetch.refused
  /\ fetch.result = "ok" =>
       /\ Experts \subseteq Present /\ (demand \/ Residents \subseteq Present)
       /\ fetch.reused + fetch.completed = Cardinality(Present)
=============================================================================
