---------------------------- MODULE OneShotSetup ----------------------------
(***************************************************************************)
(* `deltafin setup`, one_shot_setup.rs: plan the bytes that are missing and *)
(* the room they need, install the K3 metadata, the DSpark drafter, the     *)
(* optional Qwen assistants and the weights, planning again between them,   *)
(* and report success only for a complete installation.                     *)
(*                                                                          *)
(* Sizes are a few units.  How each part is installed is PinnedInstall and  *)
(* WeightFetch: here a part is absent, complete or damaged, and weights are *)
(* counted.  Other programs use the same volume.  A setup may begin on any  *)
(* root: empty, left half way by an earlier one, complete, or damaged.      *)
(***************************************************************************)
EXTENDS Naturals

CONSTANTS
  Capacity,                    \* units of the volume
  MetaBytes, DSparkBytes, QwenBytes, ResidentBytes1, ExpertBytes1,
  SpineBytes,                  \* the int8 spine that is made after the setup
  TempBytes,                   \* peak of partial and unpacked weight files
  Headroom,
  MaxForeign,                  \* bound: units other programs take or give back
  MaxStops                     \* bound: setups that fail or are killed midway

\* What is installed has a size, and the headroom of 100 GB covers the spine, of
\* 53 GB (docs/STORAGE.md:35), which no plan counts.
ASSUME SetupAssumption ==
  /\ {MetaBytes, DSparkBytes, QwenBytes} \subseteq Nat \ {0}
  /\ {Capacity, ResidentBytes1, ExpertBytes1, TempBytes, Headroom, SpineBytes} \subseteq Nat
  /\ SpineBytes <= Headroom
  /\ MaxForeign \in Nat /\ MaxStops \in Nat

VARIABLES
  options, volume, setup,
  cleared,     \* a plan with something to download has passed its capacity check
  foreign, stops

ovars == <<options, volume, setup, cleared, foreign, stops>>

Parts == {"meta", "dspark", "qwen"}
SizeOf(part) == CASE part = "meta" -> MetaBytes [] part = "dspark" -> DSparkBytes
                  [] part = "qwen" -> QwenBytes
Wanted == IF options.qwen THEN Parts ELSE Parts \ {"qwen"}

\* What an audit finds of a part.
Found == {"absent", "damaged", "ok"}

OInit ==
  /\ options \in [mode : {"auto", "full", "stream"}, qwen : BOOLEAN]
  /\ volume \in [free : 0..Capacity, meta : Found, dspark : Found, qwen : Found,
                 resident : 0..ResidentBytes1, experts : 0..ExpertBytes1,
                 temp : 0..TempBytes, spine : 0..SpineBytes]
  /\ setup = [pc |-> "idle", mode |-> "auto", result |-> "none"]
  /\ cleared = FALSE /\ foreign = 0 /\ stops = 0

-----------------------------------------------------------------------------
WeightBytes(mode) == ResidentBytes1 + (IF mode = "full" THEN ExpertBytes1 ELSE 0)
WeightsMissing(mode) ==
  (ResidentBytes1 - volume.resident) + (IF mode = "full" THEN ExpertBytes1 - volume.experts ELSE 0)

\* inspect_common_requirements: what is there must pass its audit.
MissingOf(part) == IF volume[part] = "absent" THEN SizeOf(part) ELSE 0
InspectFails == \E part \in Wanted : volume[part] = "damaged"

\* inspect_weight_requirements: counted against the inventory when there is one,
\* and as a fresh download when there is none.
WeightPeak(mode) ==
  IF volume.meta = "absent" THEN WeightBytes(mode) + TempBytes
  ELSE IF WeightsMissing(mode) = 0 THEN 0 ELSE WeightsMissing(mode) + TempBytes
WeightWork(mode) == IF volume.meta = "absent" THEN WeightBytes(mode) ELSE WeightsMissing(mode)

CommonMissing ==
  MissingOf("meta") + MissingOf("dspark") + (IF options.qwen THEN MissingOf("qwen") ELSE 0)

\* Mutant: the room for partial files is not counted.
Bug_CalculatePlan(mode) ==
  LET payload == CommonMissing + WeightWork(mode)
  IN  [mode |-> mode, payload |-> payload, required |-> IF payload = 0 THEN 0 ELSE payload]

\* calculate_plan.
CalculatePlan(mode) ==
  LET payload == CommonMissing + WeightWork(mode)
      peak == CommonMissing + WeightPeak(mode)
  IN  [mode |-> mode, payload |-> payload,
       required |-> IF payload = 0 THEN 0 ELSE peak + Headroom]

\* require_capacity.  A plan with nothing to download needs no room at all.
HasCapacity(plan) == plan.required <= volume.free
IsComplete(plan) == plan.payload = 0

\* plan: automatic selection takes the full model when it fits.
Plan ==
  CalculatePlan(CASE options.mode # "auto" -> options.mode
                  [] options.mode = "auto" /\ HasCapacity(CalculatePlan("full")) -> "full"
                  [] OTHER -> "stream")

\* audit_installed, of `deltafin doctor`: full if complete, else streaming.
AuditInstalled ==
  ~InspectFails /\ (IsComplete(CalculatePlan("full")) \/ IsComplete(CalculatePlan("stream")))

-----------------------------------------------------------------------------
PcIs(pc) == setup.pc = pc
SetupGoes(pc) == setup' = [setup EXCEPT !.pc = pc]
SetupEnds(result) == setup' = [setup EXCEPT !.pc = "idle", !.result = result]

Clears(plan) == cleared' = (cleared \/ (HasCapacity(plan) /\ ~IsComplete(plan)))

\* run, up to its first installer.
RunSetup ==
  /\ PcIs("idle") /\ setup.result # "complete"
  /\ IF InspectFails THEN SetupEnds("failed")
     ELSE IF ~HasCapacity(Plan) THEN SetupEnds("no_room")
     ELSE setup' = [pc |-> "meta", mode |-> Plan.mode, result |-> "none"]
  /\ IF InspectFails THEN UNCHANGED cleared ELSE Clears(Plan)
  /\ UNCHANGED <<options, volume, foreign, stops>>

NextPc(part) ==
  CASE part = "meta" -> "replan" [] part = "dspark" /\ options.qwen -> "qwen"
    [] part = "dspark" /\ ~options.qwen -> "replan2" [] part = "qwen" -> "replan2"

\* install_at of the three parts.  Running out of room is a result of its own.
InstallPart(part) ==
  /\ PcIs(part)
  /\ IF MissingOf(part) <= volume.free
       THEN /\ volume' = [volume EXCEPT ![part] = "ok", !.free = @ - MissingOf(part)]
            /\ SetupGoes(NextPc(part))
       ELSE SetupEnds("enospc") /\ UNCHANGED volume
  /\ UNCHANGED <<options, cleared, foreign, stops>>

\* plan_for_resolved_mode and require_capacity, after the metadata is there and
\* before the weights are fetched.
Replan(pc, next) ==
  /\ PcIs(pc)
  /\ IF InspectFails THEN SetupEnds("failed")
     ELSE IF ~HasCapacity(CalculatePlan(setup.mode)) THEN SetupEnds("no_room")
     ELSE SetupGoes(next)
  /\ IF InspectFails THEN UNCHANGED cleared ELSE Clears(CalculatePlan(setup.mode))
  /\ UNCHANGED <<options, volume, foreign, stops>>

\* weight_fetch::execute: partial and unpacked files need room beside what is
\* published; publishing a file frees none and takes none.
FetchWeights ==
  /\ PcIs("weights") /\ volume.temp < TempBytes /\ WeightsMissing(setup.mode) > volume.temp
  /\ IF volume.free = 0 THEN SetupEnds("enospc") /\ UNCHANGED volume
     ELSE volume' = [volume EXCEPT !.temp = @ + 1, !.free = @ - 1] /\ UNCHANGED setup
  /\ UNCHANGED <<options, cleared, foreign, stops>>

\* A published unit: unpacked beside its source, which is then removed.
UnpackWeights ==
  /\ PcIs("weights") /\ volume.temp > 0 /\ WeightsMissing(setup.mode) > 0
  /\ IF volume.free = 0 THEN SetupEnds("enospc") /\ UNCHANGED volume
     ELSE /\ \/ /\ volume.resident < ResidentBytes1
                /\ volume' = [volume EXCEPT !.temp = @ - 1, !.resident = @ + 1]
             \/ /\ setup.mode = "full" /\ volume.experts < ExpertBytes1
                /\ volume' = [volume EXCEPT !.temp = @ - 1, !.experts = @ + 1]
          /\ UNCHANGED setup
  /\ UNCHANGED <<options, cleared, foreign, stops>>

\* The final plan must be complete.
FinishSetup ==
  /\ PcIs("weights") /\ WeightsMissing(setup.mode) = 0
  /\ IF ~InspectFails /\ IsComplete(CalculatePlan(setup.mode)) THEN SetupGoes("spine")
                                                             ELSE SetupEnds("failed")
  /\ UNCHANGED <<options, volume, cleared, foreign, stops>>

\* The setup command goes on to convert the spine, resuming where it was.  No plan
\* accounts for its room.
ConvertSpine ==
  /\ PcIs("spine")
  /\ IF volume.spine = SpineBytes THEN SetupEnds("complete") /\ UNCHANGED volume
     ELSE IF volume.free = 0 THEN SetupEnds("unconverted") /\ UNCHANGED volume
     ELSE volume' = [volume EXCEPT !.spine = @ + 1, !.free = @ - 1] /\ UNCHANGED setup
  /\ UNCHANGED <<options, cleared, foreign, stops>>

\* A transfer fails, or the process is killed; partial files stay.
StopSetup ==
  /\ ~PcIs("idle") /\ stops < MaxStops
  /\ stops' = stops + 1
  /\ SetupEnds("stopped")
  /\ UNCHANGED <<options, volume, cleared, foreign>>

\* Other programs.
ForeignUse ==
  /\ foreign < MaxForeign
  /\ foreign' = foreign + 1
  /\ \/ volume.free > 0 /\ volume' = [volume EXCEPT !.free = @ - 1]
     \/ volume' = [volume EXCEPT !.free = @ + 1]
  /\ UNCHANGED <<options, setup, cleared, stops>>

ONext ==
  \/ RunSetup \/ (\E part \in Parts : InstallPart(part))
  \/ Replan("replan", "dspark") \/ Replan("replan2", "weights")
  \/ FetchWeights \/ UnpackWeights \/ FinishSetup \/ ConvertSpine \/ StopSetup \/ ForeignUse

OSpec == OInit /\ [][ONext]_ovars

-----------------------------------------------------------------------------
\* On any root, a setup that passes its capacity checks (one_shot_setup.rs:141)
\* never runs out of room for what it downloads, however often it is stopped and
\* started again, unless another program takes the room.  Nor does the spine it
\* converts at the end, which no check counts: the headroom is what it lives on.
\* But the headroom is asked for only with something to download; where every
\* check so far found the downloads complete, the conversion may run out of room
\* on its own.  A setup that reports success left what the offline audit accepts.
SetupFitsOrStops ==
  /\ setup.result = "enospc" => foreign > 0
  /\ setup.result = "unconverted" => foreign > 0 \/ ~cleared
  /\ setup.result = "complete" /\ PcIs("idle") => AuditInstalled
=============================================================================
