----------------------------- MODULE ExpertHeat -----------------------------
(***************************************************************************)
(* The histogram of routed experts kept across runs, expert_heat.rs: engine *)
(* threads count into atomic deltas while a flush harvests them slot by     *)
(* slot and merges them into a shared file under a file lock, and           *)
(* several processes do so at once.                                         *)
(*                                                                          *)
(* A heat is the number of observations merged into it.  The decay applied  *)
(* at every merge rescales old observations; it neither adds nor drops one. *)
(***************************************************************************)
EXTENDS Naturals, FiniteSets, FiniteSetsExt

CONSTANTS
  Runs,            \* processes that record
  NSlots,          \* expert slots
  FlushEvery,      \* committed passes before a flush is due, at most held unflushed
  MaxObserved,     \* bound: mailboxes observed
  MaxHeatFaults    \* bound: I/O errors, kills, damage to the file

ASSUME HeatAssumption ==
  /\ IsFiniteSet(Runs) /\ NSlots \in Nat /\ FlushEvery \in Nat
  /\ MaxObserved \in Nat /\ MaxHeatFaults \in Nat

VARIABLES
  heat,         \* the file: observations per slot, or damaged
  heatLock,     \* holder of the flock
  temp,         \* the temporary file is there
  run,          \* each process
  ghost,        \* observations made, those lost for good, faults so far
  dirsync       \* an fsync of the directory failed after a rename

hvars == <<heat, heatLock, temp, run, ghost, dirsync>>

Slots == 1..NSlots
Zero == [s \in Slots |-> 0]
Plus(a, b) == [s \in Slots |-> a[s] + b[s]]

Fresh == [pc |-> "idle", deltas |-> Zero, passes |-> 0, harvest |-> Zero, weight |-> 0,
          at |-> 1, file |-> Zero, unread |-> FALSE]

HInit ==
  /\ heat = [ok |-> TRUE, slots |-> Zero]
  /\ heatLock = {} /\ temp = FALSE
  /\ run = [p \in Runs |-> Fresh]
  /\ ghost = [seen |-> Zero, lost |-> Zero, faults |-> 0]
  /\ dirsync = FALSE

Fault == ghost.faults < MaxHeatFaults
HeatAt(p, pc) == run[p].pc = pc

\* observe_layer_routes: every expert of a mailbox counts once, however many
\* rows name it.  It never waits for a flush.
ObserveLayerRoutes(p, present) ==
  LET once == [s \in Slots |-> IF s \in present THEN 1 ELSE 0]
  IN  /\ \A s \in present : ghost.seen[s] < MaxObserved
      /\ run' = [run EXCEPT ![p].deltas = Plus(@, once)]
      /\ ghost' = [ghost EXCEPT !.seen = Plus(@, once)]
      /\ UNCHANGED <<heat, heatLock, temp, dirsync>>

\* note_pass_committed.
NotePassCommitted(p) ==
  /\ run[p].passes + run[p].weight < FlushEvery
  /\ run' = [run EXCEPT ![p].passes = @ + 1]
  /\ UNCHANGED <<heat, heatLock, temp, ghost, dirsync>>

\* flush_best_effort: at the due pass, and at the end of the run.
FlushBestEffort(p) ==
  /\ HeatAt(p, "idle")
  /\ run' = [run EXCEPT ![p].pc = "harvest", ![p].weight = @ + run[p].passes, ![p].passes = 0,
                        ![p].at = 1]
  /\ UNCHANGED <<heat, heatLock, temp, ghost, dirsync>>

\* delta.swap(0), one slot after the other.
HarvestSlot(p) ==
  LET s == run[p].at
  IN  /\ HeatAt(p, "harvest") /\ s <= NSlots
      /\ run' = [run EXCEPT ![p].harvest[s] = run[p].deltas[s], ![p].deltas[s] = 0, ![p].at = s + 1]
      /\ UNCHANGED <<heat, heatLock, temp, ghost, dirsync>>

Nothing(p) == run[p].weight = 0 /\ run[p].harvest = Zero

\* What was harvested goes back into the deltas, for the next flush.
Restored(r) ==
  [r EXCEPT !.pc = "idle", !.deltas = Plus(@, r.harvest), !.passes = @ + r.weight,
            !.harvest = Zero, !.weight = 0, !.file = Zero, !.unread = FALSE]
Flushed(r) ==
  [r EXCEPT !.pc = "idle", !.harvest = Zero, !.weight = 0, !.file = Zero, !.unread = FALSE]

\* Mutant: the lock does not exclude.
Bug_AcquireFails(p) == FALSE

\* HeatFileLock::acquire: flock, exclusive, without waiting.
AcquireFails(p) == heatLock # {}

Acquire(p) ==
  /\ HeatAt(p, "harvest") /\ run[p].at > NSlots
  /\ \/ Nothing(p) /\ run' = [run EXCEPT ![p] = Flushed(@)] /\ UNCHANGED heatLock
     \/ /\ ~Nothing(p) /\ AcquireFails(p)
        /\ run' = [run EXCEPT ![p] = Restored(@)]
        /\ UNCHANGED heatLock
     \/ /\ ~Nothing(p) /\ ~AcquireFails(p)
        /\ heatLock' = heatLock \cup {p}
        /\ run' = [run EXCEPT ![p].pc = "load"]
  /\ UNCHANGED <<heat, temp, ghost, dirsync>>

\* load_snapshot, over decode_snapshot.  An error makes the history empty: a
\* file that cannot be trusted, and just as well an intact one whose open, stat
\* or read failed.
LoadSnapshot(file, unread) == IF file.ok /\ ~unread THEN file.slots ELSE Zero

\* merge_locked up to the rename: load, decay, add, drop a stale temporary file
\* and write a new one.  An I/O error on the temporary file restores the deltas;
\* one on the file itself does not stop the merge.
MergeLocked(p) ==
  /\ HeatAt(p, "load")
  /\ \/ \E unread \in IF Fault THEN BOOLEAN ELSE {FALSE} :
          /\ run' = [run EXCEPT ![p].pc = "rename", ![p].unread = unread,
                                ![p].file = Plus(LoadSnapshot(heat, unread), run[p].harvest)]
          /\ ghost' = IF unread THEN [ghost EXCEPT !.faults = @ + 1] ELSE ghost
          /\ temp' = TRUE
          /\ UNCHANGED heatLock
     \/ /\ Fault
        /\ ghost' = [ghost EXCEPT !.faults = @ + 1]
        /\ run' = [run EXCEPT ![p] = Restored(@)]
        /\ heatLock' = heatLock \ {p}
        /\ temp' = FALSE
  /\ UNCHANGED <<heat, dirsync>>

\* The rename, or its failure.  Over a file that was not read it forgets the
\* history of every run.
RenameHeat(p) ==
  /\ HeatAt(p, "rename")
  /\ temp' = FALSE
  /\ \/ /\ heat' = [ok |-> TRUE, slots |-> run[p].file]
        /\ run' = [run EXCEPT ![p].pc = "fsync"]
        /\ ghost' = [ghost EXCEPT !.lost = IF run[p].unread THEN Plus(@, heat.slots) ELSE @]
        /\ UNCHANGED heatLock
     \/ /\ Fault
        /\ ghost' = [ghost EXCEPT !.faults = @ + 1]
        /\ run' = [run EXCEPT ![p] = Restored(@)]
        /\ heatLock' = heatLock \ {p}
        /\ UNCHANGED heat
  /\ UNCHANGED dirsync

\* fsync_directory.  Its error, too, restores the deltas, though the file that
\* counts them is already in place.
FsyncDirectory(p) ==
  /\ HeatAt(p, "fsync")
  /\ heatLock' = heatLock \ {p}
  /\ \/ run' = [run EXCEPT ![p] = Flushed(@)] /\ UNCHANGED <<ghost, dirsync>>
     \/ /\ Fault
        /\ ghost' = [ghost EXCEPT !.faults = @ + 1]
        /\ run' = [run EXCEPT ![p] = Restored(@)]
        /\ dirsync' = TRUE
  /\ UNCHANGED <<heat, temp>>

\* What a process holds that the file does not.
Unmerged(r) == IF r.pc = "fsync" THEN r.deltas ELSE Plus(r.deltas, r.harvest)

\* A killed process loses what it had not merged; its lock is dropped by the
\* kernel, its temporary file stays.
KillRun(p) ==
  /\ Fault
  /\ ghost' = [ghost EXCEPT !.faults = @ + 1, !.lost = Plus(@, Unmerged(run[p]))]
  /\ run' = [run EXCEPT ![p] = Fresh]
  /\ heatLock' = heatLock \ {p}
  /\ UNCHANGED <<heat, temp, dirsync>>

\* The file is truncated or overwritten by someone else.
DamageHeat ==
  /\ Fault /\ heat.ok /\ heatLock = {}
  /\ ghost' = [ghost EXCEPT !.faults = @ + 1, !.lost = Plus(@, heat.slots)]
  /\ heat' = [ok |-> FALSE, slots |-> Zero]
  /\ UNCHANGED <<heatLock, temp, run, dirsync>>

HNext ==
  \/ \E p \in Runs :
       \/ \E present \in (SUBSET Slots) \ {{}} : ObserveLayerRoutes(p, present)
       \/ NotePassCommitted(p) \/ FlushBestEffort(p) \/ HarvestSlot(p) \/ Acquire(p)
       \/ MergeLocked(p) \/ RenameHeat(p) \/ FsyncDirectory(p) \/ KillRun(p)
  \/ DamageHeat

HSpec == HInit /\ [][HNext]_hvars

-----------------------------------------------------------------------------
\* expert_heat.rs:18 "per-run counting honesty is kept strict": at every moment
\* an observation is in the file, held by exactly one process, or lost, and
\* nowhere twice; flushes of several processes lose no update of each other.  Lost
\* is what a killed process held, what a damaged file held, and what an intact
\* file held that a flush could not read and replaced.  A directory fsync that
\* fails after the rename is the one exception: then counts may repeat, but none
\* is missing.
HeatCountsOnce ==
  \A s \in Slots :
    LET known == heat.slots[s] + ghost.lost[s] + MapThenSumSet(LAMBDA p : Unmerged(run[p])[s], Runs)
    IN  IF dirsync THEN known >= ghost.seen[s] ELSE known = ghost.seen[s]

\* expert_heat.rs:193 "lock contention or any I/O failure restores the harvested
\* deltas so a later flush retries": a flush adds to what an intact file counts
\* or leaves the file alone.  The code does not do so when the read fails.
FlushesOnlyAdd ==
  [][heat.ok /\ heat'.ok => \A s \in Slots : heat'.slots[s] >= heat.slots[s]]_hvars
=============================================================================
