----------------------------- MODULE ArrivalTile -----------------------------
(***************************************************************************)
(* K3_ARRIVAL_GROUPS: ExpertTileLease::finish_arrival (engine.rs) computes a *)
(* routed-expert tile while its demand union is still being read.  It runs  *)
(* on the decode thread, against the ReadTicket of StorageReader: resident  *)
(* experts are dispatched first, then the union's experts in waves, each as *)
(* soon as enough sources are ready.  The provider accumulates the groups   *)
(* and completes the rows on the group flagged final.                       *)
(*                                                                          *)
(* There is one tile at a time, read by the batch Tile; its sources are its *)
(* experts.  The lease is dropped when the tile ends.                       *)
(***************************************************************************)
EXTENDS StorageReader

CONSTANTS
  Tile,      \* the batch name of the demand union
  Waves      \* arrival_groups()

ASSUME ArrivalAssumption ==
  /\ Tile \in Batches
  /\ Waves \in Nat \ {0}

VARIABLES
  apc,         \* place in finish_arrival
  wave,        \* wave counter
  ready,       \* sources reported ready to this wave
  dispatched,  \* sources handed to the provider
  early,       \* ... of them, the ones handed over while the read was in flight
  finals       \* groups flagged final so far

arrivalVars == <<apc, wave, ready, dispatched, early, finals>>
allVars == <<vars, arrivalVars>>

Experts == 0 .. Sources(Tile) - 1

ArrivalInit ==
  /\ Init
  /\ apc = "none" /\ wave = 1 /\ ready = {} /\ dispatched = {} /\ early = {} /\ finals = 0

-----------------------------------------------------------------------------
\* submit_union: a blocking demand submission of a non-empty union.
StartTile(n) ==
  /\ apc = "none" /\ n > 0
  /\ Submit(Tile, "demand", n)
  /\ apc' = "submit" /\ wave' = 1 /\ ready' = {} /\ dispatched' = {} /\ early' = {} /\ finals' = 0

\* The submission returned an error: there is no lease to finish.
SubmitFailed ==
  /\ apc = "submit" /\ ticket[Tile].pc = "idle"
  /\ apc' = "none"
  /\ UNCHANGED <<vars, wave, ready, dispatched, early, finals>>

\* Resident spans are a group of their own, which is final only without a
\* demand union; here there is one.
DispatchResident ==
  /\ apc = "submit" /\ ticket[Tile].pc = "held"
  /\ apc' = "wave"
  /\ UNCHANGED <<vars, wave, ready, dispatched, early, finals>>

\* demand_n * wave / waves, rounded up; every source from the last wave on.
Target ==
  LET n == Sources(Tile)
      share == (n * wave + Waves - 1) \div Waves IN
  IF wave >= Waves THEN n ELSE IF share < 1 THEN 1 ELSE share

\* From the last wave on the value of the counter is not read.
NextWave == IF wave < Waves THEN wave + 1 ELSE wave

WaveWait ==
  /\ apc = "wave"
  /\ WaitReadySources(Tile, Target)
  /\ apc' = "waiting"
  /\ UNCHANGED <<wave, ready, dispatched, early, finals>>

\* The wait returned: ready_sources() loads the per-source counters.
WaveReady ==
  /\ apc = "waiting" /\ ticket[Tile].pc = "held"
  /\ ready' = ReadySources(Tile)
  /\ apc' = "error"
  /\ UNCHANGED <<vars, wave, dispatched, early, finals>>

Bug_WaveCheckError ==
  /\ apc = "error"
  /\ apc' = "whole"
  /\ UNCHANGED <<vars, wave, ready, dispatched, early, finals>>

\* ticket.check_error()?
WaveCheckError ==
  /\ apc = "error"
  /\ apc' = IF batch[Tile].failed THEN "failed" ELSE "whole"
  /\ UNCHANGED <<vars, wave, ready, dispatched, early, finals>>

\* if ticket.is_ready(): every expert is taken as ready.
WaveWhole ==
  /\ apc = "whole"
  /\ ready' = IF batch[Tile].remaining = 0 THEN Experts ELSE ready
  /\ apc' = "dispatch"
  /\ UNCHANGED <<vars, wave, dispatched, early, finals>>

Fresh == ready \ dispatched

\* Nothing new: an error when nothing can still come, else the next wave.
WaveEmpty ==
  /\ apc = "dispatch" /\ Fresh = {}
  /\ IF dispatched = Experts \/ batch[Tile].remaining = 0
       THEN apc' = "failed" /\ UNCHANGED wave
       ELSE apc' = "wave" /\ wave' = NextWave
  /\ UNCHANGED <<vars, ready, dispatched, early, finals>>

Bug_WaveDispatch ==
  /\ apc = "dispatch" /\ Fresh # {}
  /\ dispatched' = dispatched \cup Fresh
  /\ early' = IF batch[Tile].remaining = 0 THEN early ELSE early \cup Fresh
  /\ IF batch[Tile].remaining = 0
       THEN apc' = "done" /\ finals' = finals + 1 /\ UNCHANGED wave
       ELSE apc' = "wave" /\ wave' = NextWave /\ UNCHANGED finals
  /\ UNCHANGED <<vars, ready>>

Bug_Redispatch ==
  /\ apc = "dispatch" /\ Fresh # {}
  /\ dispatched' = Fresh
  /\ early' = IF batch[Tile].remaining = 0 THEN early ELSE early \cup Fresh
  /\ IF dispatched' = Experts
       THEN apc' = "done" /\ finals' = finals + 1 /\ UNCHANGED wave
       ELSE apc' = "wave" /\ wave' = NextWave /\ UNCHANGED finals
  /\ UNCHANGED <<vars, ready>>

\* One provider group of the fresh experts; the last one completes the rows.
WaveDispatch ==
  /\ apc = "dispatch" /\ Fresh # {}
  /\ dispatched' = dispatched \cup Fresh
  /\ early' = IF batch[Tile].remaining = 0 THEN early ELSE early \cup Fresh
  /\ IF dispatched' = Experts
       THEN apc' = "done" /\ finals' = finals + 1 /\ UNCHANGED wave
       ELSE apc' = "wave" /\ wave' = NextWave /\ UNCHANGED finals
  /\ UNCHANGED <<vars, ready>>

\* finish_expert_span_tile(...)? gives the tile up, resident group included.
DispatchFails ==
  /\ MayFail
  /\ \/ apc = "dispatch" /\ Fresh # {}
     \/ apc = "submit" /\ ticket[Tile].pc = "held"
  /\ apc' = "failed"
  /\ UNCHANGED <<vars, wave, ready, dispatched, early, finals>>

\* The tile's lease, and the ticket in it, is dropped.
EndTile ==
  /\ apc \in {"done", "failed"}
  /\ BeginCancel(Tile, "abandon")
  /\ apc' = "none"
  /\ UNCHANGED <<wave, ready, dispatched, early, finals>>

-----------------------------------------------------------------------------
Decode ==
  \/ \E n \in JobCounts : StartTile(n)
  \/ SubmitFailed \/ DispatchResident \/ DispatchFails \/ WaveWait \/ WaveReady \/ WaveCheckError \/ WaveWhole
  \/ WaveEmpty \/ WaveDispatch \/ EndTile

Storage ==
  /\ \/ \E b \in Batches : Progress(b) \/ (ticket[b].pc = "dropping" /\ DropOwner(b))
     \/ \E w \in Workers : Work(w)
  /\ UNCHANGED arrivalVars

ArrivalNext == Decode \/ Storage

\* The decode thread and the I/O threads run; nothing else is assumed.
ArrivalSpec ==
  /\ ArrivalInit /\ [][ArrivalNext]_allVars
  /\ WF_allVars(Decode)
  /\ \A b \in Batches : WF_allVars(Progress(b) /\ UNCHANGED arrivalVars)
  /\ \A b \in Batches : WF_allVars(ticket[b].pc = "dropping" /\ DropOwner(b) /\ UNCHANGED arrivalVars)
  /\ \A w \in Workers : WF_allVars(Work(w) /\ UNCHANGED arrivalVars)

-----------------------------------------------------------------------------
\* A tile that finished handed every expert to the provider and flagged
\* exactly one group final; before that no group is final.
FinalGroupCompletes ==
  /\ apc = "done" => dispatched = Experts /\ finals = 1
  /\ apc \notin {"done", "none"} => finals = 0

\* Experts dispatched while the read is still in flight have all their bytes:
\* the order of error, progress and countdown in run_quantum makes a failed
\* chunk visible to check_error before its source can be reported ready.
EarlyExpertsLanded ==
  apc # "none" => \A src \in early : ChunksOf(Tile, src) \subseteq batch[Tile].landed

\* Every tile comes to an end, whatever reads fail.
TileEnds == (apc # "none") ~> (apc = "none")

\* finish_arrival: "The whole union has landed: every expert is ready whatever
\* the per-source tracking says".  What the provider was given has landed.
DispatchedExpertsLanded ==
  apc # "none" => \A src \in dispatched : ChunksOf(Tile, src) \subseteq batch[Tile].landed

\* Each expert of a tile is handed over once, and early ones only with all
\* their bytes.
ExpertsArriveOnce == FinalGroupCompletes /\ EarlyExpertsLanded
=============================================================================
