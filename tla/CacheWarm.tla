----------------------------- MODULE CacheWarm -----------------------------
(***************************************************************************)
(* deltafin warm-expert-cache: legacy NPZ experts become raw ones, then    *)
(* the experts that router traces show to be hot are fetched.              *)
(*                                                                         *)
(* A command scans the cache, converts archive after archive (each worker  *)
(* claims its own), plans from the traces and the cache as it then is, and *)
(* fetches the hottest missing experts layer by layer.  Commands run       *)
(* beside each other and may be killed; the owner may replace an archive   *)
(* or put a file of his own.  An expert's bytes are a matrix flattened; a  *)
(* digest is the bytes.                                                    *)
(***************************************************************************)
EXTENDS Naturals, Sequences, FiniteSets, SequencesExt, FiniteSetsExt

CONSTANTS
  Commands,      \* processes that run the command
  Experts,       \* expert ids; expert e is of layer e \div 10
  Truth,         \* [Experts -> matrix], what the checkpoint holds
  Archives,      \* what an NPZ may be: [there, matrix, order, flaw, header, ino]
  Traces,        \* sequence of sequences of rows [layer, ids]
  Foreign,       \* bytes of a file that is no expert's
  Limits,        \* possible values of --convert-limit
  Fetches,       \* possible values of --fetch
  MaxTouches, MaxWarmKills, MaxWarmFaults

VARIABLES npz, bin, litter, cmd, touched, wkills, wfaults

wavars == <<npz, bin, litter, cmd, touched, wkills, wfaults>>

NoArchive == [there |-> FALSE, matrix |-> <<>>, order |-> "C", flaw |-> "none",
              header |-> <<>>, ino |-> 0]
Rest == [step |-> "idle", jobs |-> <<>>, keep |-> FALSE, fetch |-> 0, src |-> NoArchive,
         temp |-> <<>>, failed |-> FALSE, plan |-> <<>>, start |-> {}, chosen |-> {}]

FirstN(s, n) == SubSeq(s, 1, Min({n, Len(s)}))
Rows(m) == Len(m)
Cols(m) == Len(m[1])
RowMajor(m) == [i \in 1..(Rows(m) * Cols(m)) |-> m[((i - 1) \div Cols(m)) + 1][((i - 1) % Cols(m)) + 1]]
ColMajor(m) == [i \in 1..(Rows(m) * Cols(m)) |-> m[((i - 1) % Rows(m)) + 1][((i - 1) \div Rows(m)) + 1]]

----------------------------------------------------------------------------
(* One archive.                                                            *)

\* parse_source_name: canonical names of the roster become jobs, in order.
Scan(archives) == SetToSortSeq({e \in Experts : archives[e].there}, <)

\* admit_source and validate_archive: a plain file with exactly the canonical
\* members, none encrypted, overlapping or too large.
AdmittedArchive(a) == a.there /\ a.flaw \notin {"symlink", "members"}

\* HeaderParser: the three fields in any order, each once, and no other.
ValidHeader(fields) ==
  Range(fields) = {"descr", "fortran_order", "shape"} /\ Len(fields) = 3

\* read_member_bounded and parse_npy: checksum, header, element type, shape.
ParsedMember(a) == a.flaw \notin {"checksum", "dtype", "shape"} /\ ValidHeader(a.header)

\* The payload as stored.
Stored(a) == IF a.order = "F" THEN ColMajor(a.matrix) ELSE RowMajor(a.matrix)

\* reorder_fortran_to_c
Reorder(payload, rows, cols) ==
  [i \in DOMAIN payload |-> payload[((i - 1) % cols) * rows + ((i - 1) \div cols) + 1]]

\* convert_one's output for an archive.
Canonical(a) ==
  IF a.order = "F" THEN Reorder(Stored(a), Rows(a.matrix), Cols(a.matrix)) ELSE Stored(a)

----------------------------------------------------------------------------
(* The traces.                                                             *)

Flatten(rows) == FlattenSeq([i \in DOMAIN rows |-> rows[i].ids])

\* count_trace_row and read_bounded_line: a row outside the roster is refused.
ValidTrace(rows) ==
  \A i \in DOMAIN rows : rows[i].ids # <<>> /\ \A e \in Range(rows[i].ids) :
    e \in Experts /\ e \div 10 = rows[i].layer

\* parse_trace over every trace file.
Frequency(e) ==
  LET all == Flatten(FlattenSeq(Traces))
  IN  Cardinality({i \in DOMAIN all : all[i] = e})

\* exact_cached_expert: a plain file of the exact length.
Cached(e) == bin[e] # <<>> /\ Len(bin[e]) = Len(RowMajor(Truth[e]))

\* Mutant: experts that are in the cache already stay in the plan.
Bug_Plan ==
  SetToSortSeq({e \in Experts : Frequency(e) > 0},
               LAMBDA x, y : Frequency(x) > Frequency(y) \/ (Frequency(x) = Frequency(y) /\ x < y))

\* plan: the observed experts that are missing, the most frequent first.
Plan ==
  SetToSortSeq({e \in Experts : Frequency(e) > 0 /\ ~Cached(e)},
               LAMBDA x, y : Frequency(x) > Frequency(y) \/ (Frequency(x) = Frequency(y) /\ x < y))

----------------------------------------------------------------------------
(* The command.                                                            *)

WaInit ==
  /\ npz \in [Experts -> Archives]
  /\ bin = [e \in Experts |-> <<>>]
  /\ litter = 0 /\ touched = 0 /\ wkills = 0 /\ wfaults = 0
  /\ cmd = [c \in Commands |-> Rest]

Set(c, s) == cmd' = [cmd EXCEPT ![c] = s]

\* run_warm_expert_cache and convert_all up to the first job.
Begin(c) ==
  /\ cmd[c].step = "idle"
  /\ \E keep \in BOOLEAN, fetch \in Fetches, limit \in Limits :
       Set(c, [Rest EXCEPT !.step = "claim", !.keep = keep, !.fetch = fetch,
                 !.jobs = FirstN(Scan(npz), limit)])
  /\ UNCHANGED <<npz, bin, litter, touched, wkills, wfaults>>

\* A job failed: the worker goes on with the next, the command fails at the end.
JobFailed(c) == Set(c, [cmd[c] EXCEPT !.step = "claim", !.jobs = Tail(@), !.failed = TRUE,
                                      !.src = NoArchive, !.temp = <<>>])

\* convert_one: read and rearrange the archive into a temporary of this process.
Convert(c) ==
  /\ cmd[c].step = "claim" /\ cmd[c].jobs # <<>>
  /\ LET a == npz[Head(cmd[c].jobs)]
     IN  \/ /\ AdmittedArchive(a) /\ ParsedMember(a)
            /\ Set(c, [cmd[c] EXCEPT !.step = "publish", !.src = a, !.temp = Canonical(a)])
            /\ UNCHANGED wfaults
         \/ /\ AdmittedArchive(a) /\ ParsedMember(a) /\ wfaults < MaxWarmFaults
            /\ Set(c, [cmd[c] EXCEPT !.step = "publish", !.src = a, !.temp = Foreign])
            /\ wfaults' = wfaults + 1
         \/ /\ ~(AdmittedArchive(a) /\ ParsedMember(a))
            /\ JobFailed(c) /\ UNCHANGED wfaults
  /\ UNCHANGED <<npz, bin, litter, touched, wkills>>

\* verify_exact_file: what was written reads back with the digest of what was
\* meant to be written.
ReadsBack(c) == cmd[c].temp = Canonical(cmd[c].src)

\* The source must not have changed and the temporary must read back exactly;
\* then it is published unless a file is there, which must be the same bytes.
Publish(c) ==
  /\ cmd[c].step = "publish"
  /\ LET e == Head(cmd[c].jobs)
         good == npz[e] = cmd[c].src /\ ReadsBack(c)
     IN  IF good /\ bin[e] \in {<<>>, cmd[c].temp}
         THEN /\ bin' = [bin EXCEPT ![e] = cmd[c].temp]
              /\ Set(c, [cmd[c] EXCEPT !.step = "retire"])
         ELSE JobFailed(c) /\ UNCHANGED bin
  /\ UNCHANGED <<npz, litter, touched, wkills, wfaults>>

\* Mutant: the archive is removed without a look at what its name holds now.
Bug_SameSource(c, e) == npz[e].there

\* assert_path_identity of the archive before its deletion.
SameSource(c, e) == npz[e].ino = cmd[c].src.ino

\* The published file is durable and still this one, so the archive may go.
Retire(c) ==
  /\ cmd[c].step = "retire"
  /\ LET e == Head(cmd[c].jobs)
         kept == cmd[c].keep
     IN  /\ IF bin[e] = cmd[c].temp /\ (kept \/ SameSource(c, e))
            THEN /\ npz' = IF kept THEN npz ELSE [npz EXCEPT ![e] = NoArchive]
                 /\ Set(c, [cmd[c] EXCEPT !.step = "claim", !.jobs = Tail(@),
                                          !.src = NoArchive, !.temp = <<>>])
            ELSE JobFailed(c) /\ UNCHANGED npz
  /\ UNCHANGED <<bin, litter, touched, wkills, wfaults>>

\* After the last job: a failed conversion or a malformed trace ends the command.
MakePlan(c) ==
  /\ cmd[c].step = "claim" /\ cmd[c].jobs = <<>>
  /\ IF cmd[c].failed \/ \E i \in DOMAIN Traces : ~ValidTrace(Traces[i])
     THEN Set(c, Rest)
     ELSE Set(c, [cmd[c] EXCEPT !.step = "fetch", !.start = {e \in Experts : Cached(e)},
                    !.chosen = Range(FirstN(Plan, cmd[c].fetch)),
                    !.plan = SetToSortSeq(Range(FirstN(Plan, cmd[c].fetch)), <)])
  /\ UNCHANGED <<npz, bin, litter, touched, wkills, wfaults>>

\* fetch_planned: the selected experts in the order of their layers; a file that
\* is there is reused.
Fetch(c) ==
  /\ cmd[c].step = "fetch"
  /\ IF cmd[c].plan = <<>>
     THEN Set(c, [cmd[c] EXCEPT !.step = "done"]) /\ UNCHANGED <<bin, wfaults>>
     ELSE LET e == Head(cmd[c].plan)
          IN  \/ /\ bin' = IF bin[e] = <<>> THEN [bin EXCEPT ![e] = RowMajor(Truth[e])] ELSE bin
                 /\ Set(c, [cmd[c] EXCEPT !.plan = Tail(@)]) /\ UNCHANGED wfaults
              \/ /\ wfaults < MaxWarmFaults /\ wfaults' = wfaults + 1
                 /\ Set(c, Rest) /\ UNCHANGED bin
  /\ UNCHANGED <<npz, litter, touched, wkills>>

\* A killed process leaves its temporary; the next run starts over.
Kill(c) ==
  /\ cmd[c].step \notin {"idle", "done"} /\ wkills < MaxWarmKills
  /\ wkills' = wkills + 1
  /\ litter' = litter + (IF cmd[c].step = "publish" THEN 1 ELSE 0)
  /\ Set(c, Rest)
  /\ UNCHANGED <<npz, bin, touched, wfaults>>

\* The owner puts another archive or a file of his own in place.
Touch ==
  /\ touched < MaxTouches /\ touched' = touched + 1
  /\ \E e \in Experts :
       \/ /\ npz' = [npz EXCEPT ![e] = [there |-> TRUE, matrix |-> <<<<7, 8, 9>>, <<4, 5, 6>>>>, order |-> "C",
                                        flaw |-> "none", header |-> <<"descr", "fortran_order", "shape">>, ino |-> 99]]
          /\ UNCHANGED bin
       \/ /\ bin[e] = <<>> /\ bin' = [bin EXCEPT ![e] = Foreign] /\ UNCHANGED npz
  /\ UNCHANGED <<litter, cmd, wkills, wfaults>>

WaNext ==
  \/ \E c \in Commands :
       Begin(c) \/ Convert(c) \/ Publish(c) \/ Retire(c) \/ MakePlan(c) \/ Fetch(c) \/ Kill(c)
  \/ Touch

WaSpec == WaInit /\ [][WaNext]_wavars

----------------------------------------------------------------------------
(* Properties.                                                             *)

\* Conversion loses nothing: an archive disappears only when the raw file holds
\* its matrix in row order, and a raw file that is there is never written over,
\* whatever ran beside it and whenever it was killed.
LosesNothing ==
  touched' = touched =>
    \A e \in Experts :
      /\ (npz[e].there /\ ~npz'[e].there) => bin'[e] = RowMajor(npz[e].matrix)
      /\ bin[e] # <<>> => bin'[e] = bin[e]
ConversionLosesNothing == [][LosesNothing]_wavars

\* A finished command that was left alone filled the cache where it pays most:
\* it spent its fetches on experts that were missing, none it left missing was
\* seen more often, and it left one only when its fetches were used up.
HottestAreWarm ==
  \A c \in Commands : (cmd[c].step = "done" /\ touched = 0) =>
    LET missing == {e \in Experts : Frequency(e) > 0 /\ ~Cached(e)}
    IN  /\ cmd[c].chosen \cap cmd[c].start = {}
        /\ \A e \in cmd[c].chosen : Cached(e) /\ \A m \in missing : Frequency(m) <= Frequency(e)
        /\ missing # {} => Cardinality(cmd[c].chosen) = cmd[c].fetch
=============================================================================
