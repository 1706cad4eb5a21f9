--------------------------- MODULE MCStorageReader ---------------------------
(***************************************************************************)
(* Small instances of StorageReader for TLC.  Workers, slots and batch      *)
(* names are interchangeable: no definition of StorageReader singles one    *)
(* out, so the safety runs may use the symmetry set below.                  *)
(***************************************************************************)
EXTENDS StorageReader, TLC

CONSTANT Speculative   \* the names the callers of a stream use for prefetch

Interchangeable ==
  Permutations(Workers) \cup Permutations(Slots) \cup Permutations(Batches)

\* Callers that publish, drain or abandon what they submit: the ways a slot is
\* given back.  Waiting for sources and cancelling without letting go, which
\* leave the lease as it is, are in the run of one ticket.
ArenaCalls(b) ==
  \/ \E p \in Priorities, n \in JobCounts : Submit(b, p, n) \/ TrySubmit(b, p, n)
  \/ BeginWait(b, "publish")
  \/ \E g \in {"drain", "abandon"} : BeginCancel(b, g)
  \/ DropOwner(b)

ArenaNext ==
  \/ \E b \in Batches : ArenaCalls(b) \/ Progress(b)
  \/ \E w \in Workers : Work(w)

ArenaSpec == Init /\ [][ArenaNext]_vars

\* Callers that each submit, wait and drop, again and again: speculative ones
\* against a stream of demand.
StreamCalls(b) ==
  \/ \E n \in JobCounts : Submit(b, IF b \in Speculative THEN "prefetch" ELSE "demand", n)
  \/ BeginWait(b, "publish")
  \/ DropOwner(b)

StreamNext ==
  \/ \E b \in Batches : StreamCalls(b) \/ Progress(b)
  \/ \E w \in Workers : Work(w)

StreamSpec == Init /\ [][StreamNext]_vars /\ Fairness
=============================================================================
