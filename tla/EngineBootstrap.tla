-------------------------- MODULE EngineBootstrap --------------------------
(***************************************************************************)
(* NativeTargetEngine::bootstrap: what is asked for, what the host and the *)
(* model root offer, and the engine that comes out of it, or the refusal.  *)
(*                                                                         *)
(* The steps run in the order of the code.  Each may fail: some failures   *)
(* end the start, others make it fall back.  Sizes are the business of     *)
(* MemoryBudget; here a budget is only granted or not, and every optional  *)
(* part is charged before it is built.                                     *)
(***************************************************************************)
EXTENDS Naturals, FiniteSets

CONSTANTS
  Requests,    \* set of [spine, authority, device, backend, fdcache, scale4, dspark, qwen,
               \* chat, workers]: RuntimeConfig
  Hosts,       \* set of [mps, cuda, bf16, moe, m1, cpus, macos]: inventory and platform
  Installs,    \* set of [int8, packs, missing, scale4, dspark, qwen, homes]: the model root
  SpineFiles,  \* descriptors the loose spine keeps open
  MaxBootFaults

VARIABLES
  req, machine, root,
  fds,       \* process descriptors: soft and hard limit, budget left
  boot,      \* the engine under construction
  at,        \* next step, "ready" or "failed"
  why,       \* the step that failed
  bfaults

bvars == <<req, machine, root, fds, boot, at, why, bfaults>>

Least(a, b) == IF a < b THEN a ELSE b

NotBuilt ==
  [device |-> "none", backend |-> "none", streaming |-> FALSE, loose |-> FALSE, persistent |-> FALSE,
   layout |-> "none", hooks |-> FALSE, union |-> FALSE, prefetch |-> FALSE, gate |-> FALSE,
   charged |-> {}, qwen |-> {}, workers |-> 0, globals |-> 0, pilot |-> FALSE, dspark |-> FALSE]

BInit ==
  /\ req \in Requests /\ machine \in Hosts /\ root \in Installs
  /\ \E soft \in {SpineFiles, 3 * SpineFiles}, hard \in {SpineFiles, 4 * SpineFiles} :
       soft <= hard /\ fds = [soft |-> soft, hard |-> hard, left |-> 2 * SpineFiles]
  /\ boot = NotBuilt /\ at = "select" /\ why = "none" /\ bfaults = 0

Fail(step) == at' = "failed" /\ why' = step /\ UNCHANGED boot
Step(next, b) == at' = next /\ boot' = b /\ UNCHANGED why

----------------------------------------------------------------------------
(* Device and backend.                                                     *)

\* ProviderInventory::select, select_target: "none" when what was asked for is
\* not there.  An automatic request prefers MPS, then CUDA, but an M1 runs the
\* original weights on its CPU.
SelectDevice(request, cuda, original) ==
  CASE request = "auto" /\ original /\ machine.m1 /\ machine.mps /\ cuda = 0 -> "cpu"
    [] request = "auto" /\ ~(original /\ machine.m1 /\ machine.mps /\ cuda = 0) ->
         IF machine.mps THEN "mps" ELSE IF cuda > 0 THEN "cuda" ELSE "cpu"
    [] request = "cpu" -> "cpu"
    [] request = "mps" -> IF machine.mps THEN "mps" ELSE "none"
    [] OTHER -> IF cuda > 0 THEN "cuda" ELSE "none"

\* select_target_for_spine: CUDA without its exact kernel does not run the
\* original weights.
SelectForSpine ==
  LET original == req.spine = "bf16"
  IN  IF original /\ ~machine.bf16
      THEN IF req.device = "cuda" THEN "none" ELSE SelectDevice(req.device, 0, original)
      ELSE SelectDevice(req.device, machine.cuda, original)

\* resolve_expert_backend
Backend(device) ==
  CASE req.backend = "auto" -> (CASE device = "mps" -> "metal"
                                  [] device = "cuda" /\ machine.moe -> "cuda"
                                  [] OTHER -> "cpu")
    [] req.backend = "cpu" -> "cpu"
    [] req.backend = "metal" -> IF device = "mps" /\ machine.mps THEN "metal" ELSE "none"
    [] OTHER -> IF device = "cuda" /\ machine.moe THEN "cuda" ELSE "none"

\* The quality policy, the device, the model files and the owners that only
\* need them.
Select ==
  LET device == SelectForSpine
      backend == Backend(device)
      refused == \/ req.authority # req.spine
                 \/ device = "none" \/ backend = "none"
                 \/ req.spine = "int8" /\ ~root.int8
  IN  /\ at = "select"
      /\ \/ refused /\ Fail("select")
         \/ ~refused /\ Step("spine", [boot EXCEPT !.device = device, !.backend = backend])
      /\ UNCHANGED <<req, machine, root, fds, bfaults>>

----------------------------------------------------------------------------
(* The spine: packed, or loose files, perhaps with descriptors kept open.  *)

\* qualified_spine_resource_tuple
Qualified == machine.macos /\ machine.cpus = 10

\* resolve_loose_spine_fd_cache
WantsDescriptors(loose, streaming) ==
  loose /\ (req.fdcache = "on" \/ (req.fdcache = "auto" /\ streaming /\ Qualified))

\* prepare_persistent_descriptor_capacity: raise the soft limit within the hard
\* one, then ask what the budget has left.
Prepared ==
  LET soft == IF fds.soft < 2 * SpineFiles THEN Least(fds.hard, 4 * SpineFiles) ELSE fds.soft
  IN  [fds EXCEPT !.soft = soft]
Admits(f) == f.soft >= 2 * SpineFiles /\ f.left >= SpineFiles

\* Mutant: an explicit request falls back like an automatic one.
Bug_OpenSpine ==
  LET loose == ~root.packs
  IN  /\ at = "spine"
      /\ \E ok \in BOOLEAN : Step("experts", [boot EXCEPT !.loose = loose, !.persistent = ok /\ loose,
                                                          !.streaming = FALSE])
      /\ UNCHANGED <<req, machine, root, fds, bfaults>>

\* The descriptors are admitted, then the spine is compiled with them.  Either
\* may fail: an explicit request then ends the start, an automatic one goes on
\* without.  Compiling without them may fail too, and ends the start: of itself,
\* or for what already failed with them.
OpenSpine ==
  LET loose == ~root.packs
      streaming == boot.device = "mps" /\ req.spine = "int8"
      wants == WantsDescriptors(loose, streaming)
      explicit == req.fdcache = "on"
      persistent == wants /\ Admits(Prepared)
      b(p) == [boot EXCEPT !.loose = loose, !.streaming = streaming, !.persistent = p]
      keep(f) == [f EXCEPT !.left = @ - SpineFiles]
  IN  /\ at = "spine"
      /\ \/ /\ wants /\ ~persistent /\ explicit
            /\ fds' = Prepared /\ Fail("fdcache") /\ UNCHANGED bfaults
         \/ /\ ~persistent /\ ~(wants /\ explicit)
            /\ fds' = IF wants THEN Prepared ELSE fds
            /\ \/ Step("experts", b(FALSE)) /\ UNCHANGED bfaults
               \/ bfaults < MaxBootFaults /\ bfaults' = bfaults + 1 /\ Fail("spine")
         \/ /\ persistent
            /\ fds' = keep(Prepared) /\ Step("experts", b(TRUE)) /\ UNCHANGED bfaults
         \/ /\ persistent /\ bfaults < MaxBootFaults
            /\ fds' = Prepared /\ bfaults' = bfaults + 1
            /\ IF explicit THEN Fail("fdcache") ELSE Step("experts", b(FALSE)) \/ Fail("spine")
      /\ UNCHANGED <<req, machine, root>>

----------------------------------------------------------------------------
(* The experts and their readers.                                          *)

\* admit_scale4_storage
Scale4(qualified) ==
  CASE req.scale4 = "off" -> "raw"
    [] req.scale4 = "auto" -> IF boot.backend = "metal" /\ qualified THEN "try" ELSE "raw"
    [] OTHER -> IF boot.backend = "metal" /\ qualified THEN "must" ELSE "refuse"

\* open_expert_corpus, the heat and the pin tier, the hooks that unmap Metal
\* wrappers (installed before any reader exists), the demand reader, its
\* reserved union, and the speculative reader with its gate: only over a
\* complete corpus and a host backend.
OpenExperts ==
  /\ at = "experts"
  /\ \E qualified \in (IF req.scale4 # "off" /\ boot.backend = "metal" THEN BOOLEAN ELSE {FALSE}),
        granted \in BOOLEAN :
       LET choice == Scale4(qualified)
           layout == IF choice \in {"try", "must"} /\ root.scale4 THEN "scale4" ELSE "raw"
           spans == boot.backend \in {"cpu", "metal"}
           prefetch == spans /\ root.missing = 0
       IN  IF choice = "refuse" \/ (choice = "must" /\ ~root.scale4) THEN Fail("scale4")
           ELSE Step("charge", [boot EXCEPT !.layout = layout, !.hooks = boot.backend = "metal",
                                            !.union = granted /\ spans /\ layout = "scale4",
                                            !.prefetch = prefetch, !.gate = prefetch])
  /\ UNCHANGED <<req, machine, root, fds, bfaults>>

----------------------------------------------------------------------------
(* Charges, then residency.                                                *)

\* dspark_eligible
DSparkEligible ==
  \/ req.dspark = "on"
  \/ req.dspark = "auto" /\ req.chat /\ boot.device # "cpu" /\ root.dspark # "absent"

\* Mutant: the pilot's scratch is not charged.
Bug_Charges ==
  {"caches"}
  \cup (IF DSparkEligible THEN {"dspark"} ELSE {})
  \cup (IF boot.device = "cuda" THEN {"cuda_cache"} ELSE {})

\* The fixed provider costs of bootstrap.
Charges ==
  {"caches"}
  \cup (IF DSparkEligible THEN {"dspark"} ELSE {})
  \cup (IF boot.prefetch THEN {"pilot", "prefetch"} ELSE {})
  \cup (IF boot.device = "cuda" THEN {"cuda_cache"} ELSE {})

Charge ==
  /\ at = "charge"
  /\ Step("residency", [boot EXCEPT !.charged = Charges])
  /\ UNCHANGED <<req, machine, root, fds, bfaults>>

\* discover_qwen_plan, then admit_qwen, the probe alone, or a memory refusal.
Discovered ==
  IF req.qwen = "off" \/ (req.qwen = "auto" /\ boot.device # "mps") THEN {} ELSE root.qwen

\* resolve_spine_reader_workers
SpineWorkers ==
  IF req.workers # 0 THEN req.workers
  ELSE Least(machine.cpus, IF boot.streaming /\ Qualified THEN 10 ELSE 8)

\* The layers are chosen with the admitted drafters charged; streamed layers of
\* a loose spine may move to other homes, which must then exist.
Residency ==
  /\ at = "residency"
  /\ \E admitted \in {Discovered} \cup {{"probe"} \cap Discovered, {}}, streamed \in BOOLEAN :
       IF streamed /\ boot.loose /\ root.homes = "broken" THEN Fail("homes")
       ELSE Step("bind", [boot EXCEPT !.qwen = admitted, !.workers = SpineWorkers,
                                      !.charged = @ \cup (IF admitted = {} THEN {} ELSE {"qwen"})])
  /\ UNCHANGED <<req, machine, root, fds, bfaults>>

----------------------------------------------------------------------------
(* The provider takes its permanent state.                                 *)

\* configure_cuda_expert_cache, enable_target_pilot (whose admission must be
\* what was charged), and bind_target_globals_once, group by group in order.
Bind ==
  /\ at = "bind"
  /\ \/ /\ boot.globals < 2
        /\ Step("bind", [boot EXCEPT !.globals = @ + 1, !.pilot = boot.prefetch])
        /\ UNCHANGED bfaults
     \/ /\ boot.globals = 2
        /\ Step("dspark", boot) /\ UNCHANGED bfaults
     \/ /\ bfaults < MaxBootFaults /\ boot.globals < 2
        /\ bfaults' = bfaults + 1 /\ Fail("bind")
  /\ UNCHANGED <<req, machine, root, fds>>

\* build_native_dspark: a broken drafter ends an explicit start only.
BuildDSpark ==
  /\ at = "dspark"
  /\ CASE ~DSparkEligible -> Step("validate", boot)
       [] DSparkEligible /\ root.dspark = "good" -> Step("validate", [boot EXCEPT !.dspark = TRUE])
       [] OTHER -> IF req.dspark = "on" THEN Fail("dspark") ELSE Step("validate", boot)
  /\ UNCHANGED <<req, machine, root, fds, bfaults>>

\* validate_owned_state
Consistent ==
  /\ boot.layout = "scale4" => boot.backend = "metal"
  /\ boot.prefetch = (root.missing = 0 /\ boot.backend \in {"cpu", "metal"})
  /\ boot.gate => boot.prefetch
  /\ boot.globals = 2
  /\ boot.qwen # {} => "qwen" \in boot.charged
  /\ boot.workers > 0

Validate ==
  /\ at = "validate"
  /\ IF Consistent THEN Step("ready", boot) ELSE Fail("validate")
  /\ UNCHANGED <<req, machine, root, fds, bfaults>>

BNext ==
  \/ Select \/ OpenSpine \/ OpenExperts \/ Charge \/ Residency \/ Bind \/ BuildDSpark \/ Validate

BSpec == BInit /\ [][BNext]_bvars

----------------------------------------------------------------------------
(* Properties.                                                             *)

\* What was asked for by name is what a ready engine runs; and kept descriptors,
\* scale4 storage or a DSpark drafter that was only automatic never ends the start
\* (the pilot has no fallback: its refusal ends the start as any failed bind does).
RequestsAreHonoured ==
  /\ at = "ready" =>
       /\ req.device \in {"auto", boot.device}
       /\ req.backend \in {"auto", boot.backend}
       /\ req.scale4 = "require" => boot.layout = "scale4"
       /\ req.fdcache = "on" /\ boot.loose => boot.persistent
       /\ req.dspark = "on" => boot.dspark
  /\ at = "failed" =>
       /\ why = "fdcache" => req.fdcache = "on"
       /\ why = "scale4" => req.scale4 = "require"
       /\ why = "dspark" => req.dspark = "on"
       /\ why # "validate"

\* Whatever holds provider memory in a ready engine was charged before the
\* resident layers were chosen, and memory that Metal may wrap is never read
\* into before the hooks that unmap it are installed.
NothingRunsUncharged ==
  at = "ready" =>
    /\ boot.pilot => "pilot" \in boot.charged
    /\ boot.dspark => "dspark" \in boot.charged
    /\ boot.qwen # {} => "qwen" \in boot.charged
    /\ boot.backend = "cuda" => "cuda_cache" \in boot.charged
    /\ boot.backend = "metal" => boot.hooks
=============================================================================
