------------------------------ MODULE PlanReads ------------------------------
(***************************************************************************)
(* How the jobs of a read plan are run: storage.rs Batch::run_job and wait,  *)
(* and experts.rs, which trusts a Scale4 sidecar record once it has been     *)
(* hashed in the session.  Workers read side by side, from files that other  *)
(* processes may rewrite or replace at any time.                            *)
(*                                                                          *)
(* A behaviour runs plans of one kind, over the records of one source:       *)
(*   "pack"        opened with the plan, a digest per record, hashed once     *)
(*   "persistent"  opened by the first job that needs it, kept by the plan   *)
(*   "gather"      opened by each run, whose one job hashes every record      *)
(*   "scale4"      a plan per run, pinned to the identity of the file        *)
(* A scale4 plan's source here is the sidecar.  The raw planes such a plan   *)
(* also reads come from the experts' own files by their length alone: they   *)
(* are neither pinned nor hashed, so nothing is claimed of them.             *)
(* A file's version 0 is the admitted one; stamp is its inode and times.     *)
(***************************************************************************)
EXTENDS Integers, FiniteSets, Sequences, FiniteSetsExt

CONSTANTS
  Records,    \* of the source; each is read in two parts
  Unions,     \* the sets of records a Scale4 plan is opened for
  Workers,
  MaxPlans,   \* of each kind
  MaxRuns,
  Capacity,   \* of the descriptor budget
  MaxChanges  \* how often the file is rewritten or replaced

VARIABLES
  kind,
  disk,     \* [at: the file the path names, files: their [ver, stamp, ok]]
  plans,    \* [at, file, slot, identity, digests, verified, recs]
  runs,     \* [at, plan, slot, todo, left, error, data, vouched]
  work,     \* a worker's job, or Idle
  session,  \* Scale4ValidationCache: [corpus, identity, validated]
  budget    \* DescriptorBudget::in_use

rvars == <<kind, disk, plans, runs, work, session, budget>>

Unset == 0      \* an OnceLock without a value, no file, no identity
Bad == 0 - 1    \* an OnceLock that holds an error
Idle == [run |-> 0]
NoPlan ==
  [at |-> "none", file |-> Unset, slot |-> Unset, identity |-> Unset, digests |-> {}, verified |-> {}, recs |-> {}]
NoRun ==
  [at |-> "none", plan |-> 0, slot |-> Unset, todo |-> {}, left |-> 0, error |-> FALSE,
   data |-> [r \in Records |-> <<>>], vouched |-> {}]
Keeps == kind \in {"pack", "persistent"}  \* sources counted by the budget

RInit ==
  /\ kind \in DOMAIN MaxPlans
  /\ disk = [at |-> 1, files |-> <<[ver |-> 0, stamp |-> 1, ok |-> TRUE]>>]
  /\ plans = [p \in 1 .. MaxPlans[kind] |-> NoPlan]
  /\ runs = [b \in 1 .. MaxRuns |-> NoRun]
  /\ work = [w \in Workers |-> Idle]
  /\ session = [corpus |-> Unset, identity |-> Unset, validated |-> {}]
  /\ budget = 0

File(f) == disk.files[f]
\* metadata_identity: no two states of any file share it.
Identity(f) == File(f).stamp

\* Another process writes the file in place, or renames another one over it.
Disturb ==
  \E v \in {0, 1}, ok \in BOOLEAN :
    LET stamp == 1 + Max({disk.files[f].stamp : f \in DOMAIN disk.files})
        new == [ver |-> v, stamp |-> stamp, ok |-> ok]
    IN  /\ stamp <= 1 + MaxChanges /\ (ok \/ v = 1)
        /\ \/ disk' = [disk EXCEPT !.files[disk.at] = new]
           \/ disk' = [at |-> 1 + Len(disk.files), files |-> Append(disk.files, new)]
        /\ UNCHANGED <<kind, plans, runs, work, session, budget>>

----------------------------------------------------------------------------
(* Plans.                                                                  *)

\* DescriptorBudget::reserve; only a plan that keeps its descriptors asks.
Reserve == budget + 1 <= Capacity

\* ReadPlan::open and the deferred kinds; a pack is opened at once.
OpenPlan(p) ==
  /\ kind # "scale4" /\ plans[p].at = "none" /\ \A q \in 1 .. p - 1 : plans[q].at # "none"
  /\ Keeps => Reserve
  /\ kind = "pack" => File(disk.at).ok
  /\ plans' = [plans EXCEPT ![p] = [NoPlan EXCEPT
       !.at = "open", !.recs = Records,
       !.file = IF kind = "pack" THEN disk.at ELSE Unset,
       !.digests = IF kind \in {"pack", "gather"} THEN Records ELSE {}]]
  /\ budget' = IF Keeps THEN budget + 1 ELSE budget
  /\ UNCHANGED <<kind, disk, runs, work, session>>

\* reusable_corpus_identity: only once a record of that file has been hashed.
Reusable == IF session.corpus = session.identity /\ session.validated # {} THEN session.corpus ELSE Unset

NeedsHash(r, identity) == session.identity # identity \/ r \notin session.validated

\* open_scale4_manifest_with_identity: the session's identity, or the live one.
CapturePlan(p) ==
  /\ kind = "scale4" /\ plans[p].at = "none" /\ \A q \in 1 .. p - 1 : plans[q].at # "none"
  /\ \E recs \in Unions :
       LET identity == IF Reusable # Unset THEN Reusable ELSE Identity(disk.at)
       IN  /\ Reusable = Unset => File(disk.at).ok
           /\ plans' = [plans EXCEPT ![p] = [NoPlan EXCEPT
                !.at = "captured", !.recs = recs, !.identity = identity,
                !.digests = {r \in recs : NeedsHash(r, identity)}]]
  /\ UNCHANGED <<kind, disk, runs, work, session, budget>>

\* admit_corpus_identity pins the first identity of the session; prepare
\* forgets the records hashed under another one.
Admitted(identity) == session.corpus \in {Unset, identity}
Prepared(identity) ==
  [corpus |-> identity, identity |-> identity,
   validated |-> IF session.identity = identity THEN session.validated ELSE {}]

AdmitPlan(p) ==
  /\ plans[p].at = "captured"
  /\ IF Admitted(plans[p].identity)
     THEN plans' = [plans EXCEPT ![p].at = "open"] /\ session' = Prepared(plans[p].identity)
     ELSE plans' = [plans EXCEPT ![p].at = "dropped"] /\ UNCHANGED session
  /\ UNCHANGED <<kind, disk, runs, work, budget>>

Live(b) == runs[b].at \in {"running", "complete"}
\* The plan's sources, and the reservation with them, live as long as any of its runs.
Held(p, rs) == plans[p].at = "open" \/ \E b \in DOMAIN rs : rs[b].plan = p /\ rs[b].at \in {"running", "complete"}

DropPlan(p) ==
  /\ plans[p].at = "open"
  /\ kind = "scale4" => \E b \in DOMAIN runs : runs[b].plan = p
  /\ plans' = [plans EXCEPT ![p].at = "dropped"]
  /\ budget' = IF Keeps /\ \A b \in DOMAIN runs : runs[b].plan = p => ~Live(b) THEN budget - 1 ELSE budget
  /\ UNCHANGED <<kind, disk, runs, work, session>>

----------------------------------------------------------------------------
(* Runs.                                                                   *)

\* Batch::new
Submit(p, b) ==
  /\ plans[p].at = "open" /\ runs[b].at = "none" /\ \A c \in 1 .. b - 1 : runs[c].at # "none"
  /\ kind = "scale4" => \A c \in DOMAIN runs : runs[c].plan # p
  /\ runs' = [runs EXCEPT ![b] = [NoRun EXCEPT
       !.at = "running", !.plan = p, !.todo = plans[p].recs,
       !.left = IF kind = "gather" THEN 1 ELSE Cardinality(plans[p].recs)]]
  /\ UNCHANGED <<kind, disk, plans, work, session, budget>>

PlanOf(w) == runs[work[w].run].plan
SlotOf(w) ==
  CASE kind = "pack" -> plans[PlanOf(w)].file
    [] kind = "persistent" -> plans[PlanOf(w)].slot
    [] OTHER -> runs[work[w].run].slot

\* Mutant: whether to hash is decided when the bytes have been read.
Bug_ToBeHashed(w, r, verify) ==
  IF kind = "pack" THEN r \notin plans[PlanOf(w)].verified ELSE r \in plans[PlanOf(w)].digests
\* A digest is computed for a record of a pack unless a run has done so before
\* the job was claimed, and for every other record the plan has one for.
ToBeHashed(w, r, verify) == IF kind = "pack" THEN verify ELSE r \in plans[PlanOf(w)].digests

\* run_quantum and the head of run_job: the next job, and for a pack the snapshot
\* of its record's flag before any I/O.
Claim(w, b) ==
  /\ \E x \in Workers : work[x] = Idle
  /\ w = Min({x \in Workers : work[x] = Idle})  \* workers are alike
  /\ runs[b].at = "running" /\ runs[b].todo # {}
  /\ LET r == Min(runs[b].todo)  p == runs[b].plan
         recs == IF kind = "gather" THEN runs[b].todo ELSE {r}
     IN  /\ work' = [work EXCEPT ![w] = [run |-> b, recs |-> recs, at |-> "open", before |-> Unset,
                                         verify |-> r \notin plans[p].verified]]
         /\ runs' = [runs EXCEPT ![b].todo = @ \ recs, ![b].vouched = @ \cup (recs \cap plans[p].verified)]
  /\ UNCHANGED <<kind, disk, plans, session, budget>>

Leave(w, failed) ==
  /\ work' = [work EXCEPT ![w] = Idle]
  /\ runs' = [runs EXCEPT ![work[w].run].left = @ - 1, ![work[w].run].error = @ \/ failed]

\* open_deferred_source: a regular file of the exact length and, if the plan is
\* pinned, of the pinned identity.
Opened(w) ==
  IF File(disk.at).ok /\ plans[PlanOf(w)].identity \in {Unset, Identity(disk.at)} THEN disk.at ELSE Bad

\* The first job to need the file opens it, and everyone gets what that one got.
Open(w) ==
  /\ work[w] # Idle /\ work[w].at = "open"
  /\ LET slot == IF SlotOf(w) = Unset THEN Opened(w) ELSE SlotOf(w)
         b == work[w].run
         filled == IF kind \in {"pack", "persistent"} THEN runs ELSE [runs EXCEPT ![b].slot = slot]
         fails == slot = Bad \/ (kind = "gather" /\ ~File(slot).ok)
     IN  /\ plans' = IF kind = "persistent" THEN [plans EXCEPT ![PlanOf(w)].slot = slot] ELSE plans
         /\ runs' = IF fails THEN [filled EXCEPT ![b].left = @ - 1, ![b].error = TRUE] ELSE filled
         /\ work' = [work EXCEPT ![w] =
              IF fails THEN Idle ELSE [@ EXCEPT !.at = "read", !.before = Identity(slot)]]
  /\ UNCHANGED <<kind, disk, session, budget>>

\* One positional read of half of the record; a file cut short is an error.
Read(w) ==
  /\ work[w] # Idle /\ work[w].at = "read"
  /\ LET b == work[w].run  r == Min(work[w].recs)  f == SlotOf(w)
     IN  IF ~File(f).ok THEN Leave(w, TRUE)
         ELSE /\ runs' = [runs EXCEPT ![b].data[r] = Append(@, [file |-> f, ver |-> File(f).ver])]
              /\ work' = [work EXCEPT ![w].at = IF Len(runs[b].data[r]) = 1 THEN "check" ELSE "read"]
  /\ UNCHANGED <<kind, disk, plans, session, budget>>

Right(b, r) == \A i \in DOMAIN runs[b].data[r] : runs[b].data[r][i].ver = 0

\* The digest of what was read, and then the flag of the record; a gather also
\* compares the identity before and after.
Check(w) ==
  /\ work[w] # Idle /\ work[w].at = "check"
  /\ LET b == work[w].run  r == Min(work[w].recs)
         hashed == ToBeHashed(w, r, work[w].verify)
         wrong == hashed /\ ~Right(b, r)
         last == work[w].recs = {r}
         moved == kind = "gather" /\ Identity(SlotOf(w)) # work[w].before
     IN  /\ IF wrong \/ last THEN Leave(w, wrong \/ moved)
            ELSE work' = [work EXCEPT ![w].recs = @ \ {r}, ![w].at = "read"] /\ UNCHANGED runs
         /\ plans' = IF kind = "pack" /\ hashed /\ ~wrong
                     THEN [plans EXCEPT ![PlanOf(w)].verified = @ \cup {r}] ELSE plans
  /\ UNCHANGED <<kind, disk, session, budget>>

\* A run that ends lets its plan's sources go.
End(b, at) ==
  /\ runs' = [runs EXCEPT ![b].at = at]
  /\ budget' = IF Keeps /\ plans[runs[b].plan].at = "dropped"
                  /\ \A c \in DOMAIN runs : c # b /\ runs[c].plan = runs[b].plan => ~Live(c)
               THEN budget - 1 ELSE budget

\* Mutant: the identity is only compared when the file is opened.
Bug_SameIdentity(b) == TRUE
\* validate_deferred_source_identities: the descriptor that was read, as it is now.
SameIdentity(b) ==
  LET pinned == plans[runs[b].plan].identity
  IN  pinned # Unset => runs[b].slot \notin {Unset, Bad} /\ Identity(runs[b].slot) = pinned

\* Batch::wait, once the last job has left.
Wait(b) ==
  /\ runs[b].at = "running" /\ runs[b].todo = {} /\ runs[b].left = 0
  /\ IF runs[b].error \/ ~SameIdentity(b) THEN End(b, "failed")
     ELSE IF kind = "scale4" THEN runs' = [runs EXCEPT ![b].at = "complete"] /\ UNCHANGED budget
     ELSE End(b, "served")
  /\ UNCHANGED <<kind, disk, plans, work, session>>

\* validate_completed_layout: what neither a reader nor the session vouches for
\* is hashed here, and then the session vouches for every record of the run.
Validate(b) ==
  /\ runs[b].at = "complete"
  /\ LET p == plans[runs[b].plan]
         unhashed == {r \in p.recs : NeedsHash(r, p.identity) /\ r \notin p.digests}
         valid == (\A r \in unhashed : Right(b, r)) /\ session.identity = p.identity
     IN  /\ session' = IF valid THEN [session EXCEPT !.validated = @ \cup p.recs] ELSE session
         /\ End(b, IF valid THEN "served" ELSE "failed")
  /\ UNCHANGED <<kind, disk, plans, work>>

RNext ==
  \/ Disturb
  \/ \E p \in DOMAIN plans : OpenPlan(p) \/ CapturePlan(p) \/ AdmitPlan(p) \/ DropPlan(p)
  \/ \E p \in DOMAIN plans, b \in 1 .. MaxRuns : Submit(p, b)
  \/ \E w \in Workers : Open(w) \/ Read(w) \/ Check(w) \/ \E b \in 1 .. MaxRuns : Claim(w, b)
  \/ \E b \in 1 .. MaxRuns : Wait(b) \/ Validate(b)

RSpec == RInit /\ [][RNext]_rvars

----------------------------------------------------------------------------
(* Properties.                                                             *)

\* However the file is rewritten or replaced while it is read, the bytes of a
\* gather and the sidecar records of a Scale4 run are the admitted ones although
\* such a record is hashed once per session; and those of a pack are, unless an earlier run had
\* vouched for the record before this run began to read it: no run vouches for
\* bytes another one has in flight.
ServedBytesAreVouchedFor ==
  \A b \in DOMAIN runs :
    runs[b].at = "served" =>
      \A r \in plans[runs[b].plan].recs :
        /\ kind \in {"gather", "scale4"} => Right(b, r)
        /\ kind = "pack" => Right(b, r) \/ r \in runs[b].vouched

\* What one run hands out comes from one file, and what the runs of a plan that
\* keeps its descriptors hand out does too, whoever opened it.
OneFilePerRun ==
  LET files(b) == {runs[b].data[r][i].file : <<r, i>> \in {<<s, j>> \in Records \X {1, 2} : j \in DOMAIN runs[b].data[s]}}
  IN  \A b, c \in DOMAIN runs :
        (b = c \/ (Keeps /\ runs[b].plan = runs[c].plan)) => Cardinality(files(b) \cup files(c)) <= 1

\* The descriptors that plans keep open are reserved, within the budget, until
\* the last run that may use them has ended.
KeptFilesAreReserved ==
  LET kept == {p \in DOMAIN plans : Held(p, runs) /\ (plans[p].file # Unset \/ plans[p].slot \notin {Unset, Bad})}
  IN  Cardinality(kept) <= budget /\ budget <= Capacity
=============================================================================
