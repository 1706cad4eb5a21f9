------------------------- MODULE BenchmarkCampaign -------------------------
(***************************************************************************)
(* deltafin benchmark: a campaign of native runs that are compared.        *)
(*                                                                         *)
(* The campaign pins a private copy of the executable, then for every      *)
(* repetition and arm verifies the copy, spawns it, watches its event file *)
(* and pipes, kills it on a limit or a timeout, verifies the copy again,   *)
(* parses the events and records the run as valid or not.  The first valid *)
(* run of the first arm gives the output every other run must reproduce,   *)
(* unless the command line gave it.  An event is a record; a time and a    *)
(* token are small numbers; an executable is the version of its bytes.     *)
(***************************************************************************)
EXTENDS Naturals, Sequences, FiniteSets, SequencesExt, FiniteSetsExt

CONSTANTS
  CampaignOptions,  \* set of [arms, repetitions, maxNew, warmup, ids, text, keepGoing, root, output]
  Plans,            \* what a spawned runner may do: [exit, noisy, file, stream]
  Repositories,     \* what the Git control files may look like
  NoOutput,         \* no expected output was given
  MaxSwaps          \* replacements of the original or the pinned executable

VARIABLES
  opt,       \* the command line
  repo,      \* the repository's control files
  original,  \* version of the executable the campaign was started from
  copy,      \* version of the pinned copy, 0 before there is one
  bench,     \* [step, pin, round, arm, oracle, commit, stopped, report, stats]
  kid,       \* the runner process: [plan, alive, ran, restored, outcome, stream]
  records,   \* the runs recorded so far
  swaps

bvars == <<opt, repo, original, copy, bench, kid, records, swaps>>

NoKid == [plan |-> 0, alive |-> FALSE, ran |-> 0, restored |-> FALSE, outcome |-> {}, stream |-> <<>>]

----------------------------------------------------------------------------
(* The command line.                                                       *)

\* split_shell_words, valid_environment_name and sensitive_environment_name:
\* what a word of an arm's environment turns out to be.
WordAccepted(word) == word \notin {"open_quote", "no_assignment", "bad_name", "secret"}

\* parse_environment_delta refuses the loader's variables and a shader source.
DeltaAccepted(arm) ==
  \A w \in arm.words : WordAccepted(w) /\ w \notin {"dynamic_loader", "metal_source"}

\* validate_options
ValidOptions(o) ==
  /\ o.repetitions > 0 /\ o.maxNew > 0 /\ o.arms # <<>>
  /\ \A i, j \in DOMAIN o.arms : o.arms[i].name = o.arms[j].name => i = j
  /\ \A i \in DOMAIN o.arms : o.arms[i].name # "" /\ DeltaAccepted(o.arms[i])
  /\ o.root = "directory"

\* make_output_dir: real directories down to a last one created by this
\* campaign alone, so that no evidence is written over.
FreshEvidence(o) == o.output = "fresh"

\* open_verified_native_executable and audit_benchmark_executable: version 0
\* stands for a script, a link or a binary of an unadmitted loader closure.
NativeExecutable(version) == version > 0

\* resolve_git_directory and resolve_git_common_directory.
GitDirectories(r) ==
  IF r.dotGit \in {"directory", "worktree"} /\ ~r.symlink
  THEN [dir |-> r.private, common |-> IF r.dotGit = "worktree" THEN r.shared ELSE r.private]
  ELSE [dir |-> {}, common |-> {}]

\* resolve_git_reference: loose before packed, the worktree's own loose one
\* first, the shared packed one first.
Commit(r) ==
  LET g == GitDirectories(r)
      found == SelectSeq(<<[set |-> g.dir, kind |-> "loose"], [set |-> g.common, kind |-> "loose"],
                           [set |-> g.common, kind |-> "packed"], [set |-> g.dir, kind |-> "packed"]>>,
                         LAMBDA p : \E e \in p.set : e.kind = p.kind)
  IN  IF found = <<>> THEN 0
      ELSE (CHOOSE e \in Head(found).set : e.kind = Head(found).kind).commit

----------------------------------------------------------------------------
(* The event stream.                                                       *)

Named(s, name) == {i \in DOMAIN s : s[i].event = name}
The(s, name) == s[Min(Named(s, name))]
Steps(s) == SelectSeq(s, LAMBDA e : e.event = "decode_step")
Flat(steps) == FlattenSeq([i \in DOMAIN steps |-> steps[i].ids])

\* read_events: only a real, bounded, unchanging file of whole lines is read.
ReadEvents(file, s) == IF file = "good" \/ file = "torn" THEN s ELSE <<>>
ReadErrors(file) == file # "good"

\* One start, one prefill, one end, in that order and around everything else,
\* no error event, and a clock that does not run backward.
InOrder(s) ==
  /\ \A n \in {"run_start", "prefill_done", "run_end"} : Cardinality(Named(s, n)) = 1
  /\ Named(s, "run_error") = {}
  /\ Named(s, "run_start") = {1} /\ Named(s, "run_end") = {Len(s)}
  /\ \A p \in Named(s, "prefill_done"), d \in Named(s, "decode_step") : p < d
  /\ \A i \in 1..(Len(s) - 1) : s[i].time <= s[i + 1].time

\* A transaction emits at least one token, and at most one more than the drafts
\* it accepted of those it proposed; steps are numbered without a gap.
StepAccounted(step, ordinal) ==
  /\ step.step = ordinal - 1
  /\ step.ids # <<>>
  /\ step.accepted <= step.proposed
  /\ step.accepted <= Len(step.ids) /\ Len(step.ids) <= step.accepted + 1

\* The status, the reason and the prefill of run_end agree.
StatusConsistent(s) ==
  LET end == The(s, "run_end")
      first == The(s, "prefill_done").ids
  IN  /\ \/ end.status = "interrupted" /\ end.stop = "interrupted"
         \/ end.status = "ok" /\ end.stop \in {"eos", "max_new", "context_full"}
      /\ Len(first) = 1 \/ (end.status = "interrupted" /\ first = <<>>)
      /\ first = <<>> => Steps(s) = <<>>

\* What the steps emitted is what run_end says was emitted, and the completion
\* is that without a final end-of-sequence token.
TokensAccounted(s) ==
  LET end == The(s, "run_end")
      start == The(s, "run_start")
      omitted == Len(end.emitted) - Len(end.completion)
  IN  /\ The(s, "prefill_done").ids \o Flat(Steps(s)) = end.emitted
      /\ IsPrefix(end.completion, end.emitted)
      /\ CASE end.stop = "eos" -> omitted = 1 /\ Last(end.emitted) = start.eos
           [] end.stop = "interrupted" ->
                omitted = 0 \/ (omitted = 1 /\ Last(end.emitted) = start.eos)
           [] OTHER -> omitted = 0
      /\ start.input = end.prompt

\* parse_structured_events finds no error.
Parses(s) ==
  /\ InOrder(s)
  /\ \A i \in DOMAIN Steps(s) : StepAccounted(Steps(s)[i], i)
  /\ StatusConsistent(s) /\ TokensAccounted(s)

\* Tokens and time of the steps after the warmup, and their rate in thousandths.
SteadyRate(s, warmup) ==
  LET steady == SubSeq(Steps(s), warmup + 1, Len(Steps(s)))
      n == Len(Flat(steady))
      d == FoldSeq(LAMBDA e, sum : e.duration + sum, 0, steady)
  IN  IF n > 0 /\ d > 0 THEN (1000 * n) \div d ELSE 0

\* invocation_contract_errors: the runner did what was asked of it.
Invoked(s, o) ==
  LET end == The(s, "run_end")
  IN  /\ The(s, "run_start").maxNew = o.maxNew
      /\ Len(end.emitted) <= o.maxNew
      /\ end.stop = "max_new" => Len(end.emitted) = o.maxNew
      /\ The(s, "prefill_done").duration
           + FoldSeq(LAMBDA e, sum : e.duration + sum, 0, Steps(s)) <= end.duration

\* performance_contract_errors, what the packed projection must have reported:
\* every controller whole and used to the end; in stage mode, nothing retained,
\* copied, failed or left bound, and the reuse discipline of the device.
KdaBase == {"requested", "eligible", "installed", "enabled_at_end", "called", "whole_bundle"}
KdaStage(sync) == {"stage", "nothing_retained", "bound", "no_copy", "no_failure", "probed"}
                  \cup (IF sync = "mps_fifo" THEN {"lease_reused", "no_events"} ELSE {"fenced"})
KdaRequired(arm) ==
  CASE arm.kda = "off" -> {}
    [] arm.kda = "arena" -> KdaBase
    [] OTHER -> KdaBase \cup KdaStage(arm.kda)
Performed(s, arm) == KdaRequired(arm) \subseteq The(s, "run_end").kda

\* drafter_contract_errors: a drafter that was asked for loaded, proposed and
\* did not fail.
Drafted(s, arm) ==
  LET end == The(s, "run_end")
  IN  arm.drafter # "none" =>
        /\ arm.drafter = The(s, "run_start").loaded
        /\ Len(end.completion) >= 3 => end.proposals > 0
        /\ end.failures = 0

\* compare_output
Matches(s, oracle) ==
  /\ oracle.ids # NoOutput => The(s, "run_end").completion = oracle.ids
  /\ oracle.text # NoOutput => The(s, "run_end").text = oracle.text

----------------------------------------------------------------------------
(* The campaign.                                                           *)

BInit ==
  /\ opt \in CampaignOptions /\ repo \in Repositories
  /\ original \in {0, 1} /\ copy = 0
  /\ bench = [step |-> "start", pin |-> 0, round |-> 1, arm |-> 1,
              oracle |-> [ids |-> opt.ids, text |-> opt.text], commit |-> 0,
              stopped |-> FALSE, report |-> "none", stats |-> <<>>]
  /\ kid = NoKid /\ records = <<>> /\ swaps = 0

Fail == bench' = [bench EXCEPT !.step = "done", !.report = "refused"]

\* run_campaign up to pin_native_executable: the options, the executable.
Open ==
  /\ bench.step = "start"
  /\ IF ValidOptions(opt) /\ NativeExecutable(original) /\ FreshEvidence(opt)
     THEN bench' = [bench EXCEPT !.step = "copying", !.pin = original, !.commit = Commit(repo)]
     ELSE Fail
  /\ UNCHANGED <<opt, repo, original, copy, kid, records, swaps>>

\* pin_native_executable: an original that changed while it was copied, or a
\* copy that reads back differently, ends the campaign.
PinExecutable ==
  /\ bench.step = "copying"
  /\ IF original = bench.pin
     THEN copy' = original /\ bench' = [bench EXCEPT !.step = "verify"]
     ELSE Fail /\ UNCHANGED copy
  /\ UNCHANGED <<opt, repo, original, kid, records, swaps>>

\* verify_pinned_runner, then run_once up to the spawn.
VerifyPinned ==
  /\ bench.step = "verify"
  /\ IF copy = bench.pin THEN bench' = [bench EXCEPT !.step = "spawn"] ELSE Fail
  /\ UNCHANGED <<opt, repo, original, copy, kid, records, swaps>>

\* execute_runner: whatever the pinned path holds is run.
Spawn ==
  /\ bench.step = "spawn"
  /\ \E p \in Plans :
       kid' = IF p.exit = "spawn_error"
              THEN [NoKid EXCEPT !.plan = p, !.ran = copy, !.outcome = {"spawn"}]
              ELSE [NoKid EXCEPT !.plan = p, !.ran = copy, !.alive = TRUE]
  /\ bench' = [bench EXCEPT !.step = IF kid'.alive THEN "wait" ELSE "collect"]
  /\ UNCHANGED <<opt, repo, original, copy, records, swaps>>

\* run_once returns an error of its own, which ends the campaign: its directory
\* or a log cannot be made, or the event file cannot be opened or synced.
RunAborts ==
  /\ bench.step \in {"spawn", "collect"} /\ Fail /\ kid' = NoKid
  /\ UNCHANGED <<opt, repo, original, copy, records, swaps>>

\* The runner ends by itself.
KidExits ==
  /\ kid.alive /\ kid.plan.exit # "hang"
  /\ kid' = [kid EXCEPT !.alive = FALSE, !.stream = kid.plan.stream]
  /\ UNCHANGED <<opt, repo, original, copy, bench, records, swaps>>

\* capture_pipe and live_event_stream_error: limits seen while it runs or after.
CaptureErrors ==
  IF kid.plan.noisy \/ kid.plan.file \in {"symlink", "oversize"} THEN {"capture"} ELSE {}

Ended(outcome, stream) ==
  /\ kid' = [kid EXCEPT !.alive = FALSE, !.outcome = outcome, !.stream = stream]
  /\ bench' = [bench EXCEPT !.step = "collect"]
  /\ UNCHANGED <<opt, repo, original, copy, records, swaps>>

\* wait_for_runner: a limit kills the process group; an exit is collected; the
\* timeout kills.  What a killed runner wrote is a prefix.
PollLimit ==
  /\ bench.step = "wait" /\ kid.alive /\ CaptureErrors # {}
  /\ \E n \in 0..Len(kid.plan.stream) :
       Ended(CaptureErrors \cup {"exit"}, SubSeq(kid.plan.stream, 1, n))

PollExit ==
  /\ bench.step = "wait" /\ ~kid.alive
  /\ Ended(CaptureErrors \cup (IF kid.plan.exit = "fail" THEN {"exit"} ELSE {}), kid.stream)

PollTimeout ==
  /\ bench.step = "wait" /\ kid.alive
  /\ \E n \in 0..Len(kid.plan.stream) :
       Ended(CaptureErrors \cup {"timeout"}, SubSeq(kid.plan.stream, 1, n))

\* Mutant: the pinned copy is not verified again after the run.
Bug_Recheck == {}

\* The second verify_pinned_runner of run_once.
Recheck == IF copy = bench.pin THEN {} ELSE {"integrity"}

\* run_once after the runner: every check adds its errors; valid is none.
RunErrors ==
  LET s == ReadEvents(kid.plan.file, kid.stream)
      arm == opt.arms[bench.arm]
      whole == \A n \in {"run_start", "prefill_done", "run_end"} : Named(s, n) # {}
  IN  kid.outcome \cup Recheck
      \cup (IF s = <<>> THEN {"no_stream"} ELSE {})
      \cup (IF whole /\ The(s, "run_end").status = "ok" THEN {} ELSE {"status"})
      \cup (IF whole /\ Parses(s) /\ ~ReadErrors(kid.plan.file) THEN {} ELSE {"parse"})
      \cup (IF whole /\ Invoked(s, opt) THEN {} ELSE {"invocation"})
      \cup (IF whole /\ Matches(s, bench.oracle) THEN {} ELSE {"output"})
      \cup (IF whole /\ Performed(s, arm) /\ Drafted(s, arm) THEN {} ELSE {"contract"})

\* The record of this run: its completion, whether a comparison was made and
\* held, its rate.  What an invalid run parsed to is kept as evidence only.
RunRecord(errors) ==
  LET s == ReadEvents(kid.plan.file, kid.stream)
      r == [round |-> bench.round, arm |-> bench.arm, valid |-> errors = {}, ran |-> 0, restored |-> FALSE,
            ids |-> NoOutput, text |-> NoOutput, match |-> FALSE, rate |-> 0]
  IN  IF errors # {} THEN r
      ELSE [r EXCEPT !.ran = kid.ran, !.restored = kid.restored, !.ids = The(s, "run_end").completion,
                     !.text = The(s, "run_end").text,
                     !.match = bench.oracle.ids # NoOutput \/ bench.oracle.text # NoOutput,
                     !.rate = SteadyRate(s, opt.warmup)]

\* The reference run completes the oracle and is amended.
Adopted(oracle, r) ==
  [ids |-> IF oracle.ids = NoOutput THEN r.ids ELSE oracle.ids,
   text |-> IF oracle.text = NoOutput THEN r.text ELSE oracle.text]
HasOracle == bench.oracle.ids # NoOutput /\ bench.oracle.text # NoOutput

\* Mutant: a run with nothing to compare with stays valid.
Bug_Judged(r) ==
  IF r.valid /\ ~HasOracle /\ r.arm = 1
  THEN [oracle |-> Adopted(bench.oracle, r), record |-> [r EXCEPT !.match = TRUE]]
  ELSE [oracle |-> bench.oracle, record |-> r]

\* amend_oracle and invalidate_without_oracle.
Judged(r) ==
  CASE r.valid /\ ~HasOracle /\ r.arm = 1 ->
         [oracle |-> Adopted(bench.oracle, r), record |-> [r EXCEPT !.match = TRUE]]
    [] r.valid /\ ~HasOracle /\ r.arm # 1 ->
         [oracle |-> bench.oracle, record |-> [r EXCEPT !.valid = FALSE]]
    [] OTHER -> [oracle |-> bench.oracle, record |-> r]

\* The body of the campaign's loops: record, stop early or go on.
Collect ==
  /\ bench.step = "collect"
  /\ LET j == Judged(RunRecord(RunErrors))
         lastArm == bench.arm = Len(opt.arms)
         over == lastArm /\ bench.round = opt.repetitions
         stop == ~j.record.valid /\ ~opt.keepGoing
     IN  /\ records' = Append(records, j.record)
         /\ bench' = [bench EXCEPT
              !.oracle = j.oracle, !.stopped = stop,
              !.step = IF over \/ stop THEN "summary" ELSE "verify",
              !.arm = IF lastArm THEN 1 ELSE bench.arm + 1,
              !.round = IF lastArm THEN bench.round + 1 ELSE bench.round]
  /\ kid' = NoKid
  /\ UNCHANGED <<opt, repo, original, copy, swaps>>

\* numeric_stats over the rates of an arm's valid runs: count, range and twice
\* the median.
NumericStats(arm) ==
  LET rates == SelectSeq([i \in DOMAIN records |->
                            IF records[i].arm = arm /\ records[i].valid THEN records[i].rate ELSE 0],
                         LAMBDA x : x > 0)
      sorted == SortSeq(rates, <)
      n == Len(sorted)
  IN  IF n = 0 THEN [count |-> 0, low |-> 0, high |-> 0, median2 |-> 0]
      ELSE [count |-> n, low |-> sorted[1], high |-> sorted[n],
            median2 |-> sorted[(n + 1) \div 2] + sorted[n \div 2 + 1]]

\* summarize and BenchmarkReport::succeeded.
Summarize ==
  /\ bench.step = "summary"
  /\ LET good == records # <<>> /\ \A i \in DOMAIN records : records[i].valid /\ records[i].match
     IN  bench' = [bench EXCEPT !.step = "done",
                     !.report = IF good THEN "success" ELSE "invalid",
                     !.stats = [a \in DOMAIN opt.arms |-> NumericStats(a)]]
  /\ UNCHANGED <<opt, repo, original, copy, kid, records, swaps>>

\* Somebody rebuilds the executable, writes over the pinned copy, or puts its
\* bytes back, which a running kid remembers.
Swap ==
  /\ swaps < MaxSwaps /\ bench.step # "done" /\ swaps' = swaps + 1
  /\ \/ original' = original + 1 /\ UNCHANGED <<copy, kid>>
     \/ copy > 0 /\ copy' = copy + 10 /\ UNCHANGED <<original, kid>>
     \/ /\ copy # bench.pin /\ copy > 0 /\ copy' = bench.pin
        /\ kid' = [kid EXCEPT !.restored = bench.step \in {"wait", "collect"}]
        /\ UNCHANGED original
  /\ UNCHANGED <<opt, repo, bench, records>>

BNext ==
  \/ Open \/ PinExecutable \/ VerifyPinned \/ Spawn \/ RunAborts \/ KidExits
  \/ PollLimit \/ PollExit \/ PollTimeout \/ Collect \/ Summarize \/ Swap

BSpec == BInit /\ [][BNext]_bvars

----------------------------------------------------------------------------
(* Properties.                                                             *)

Reported == bench.report \in {"success", "invalid"}

\* A campaign that reports success ran every arm in every repetition, each time
\* the bytes that were pinned at the start, and all of them produced one and
\* the same output, the expected one where the command line gave it.  The bytes
\* are hashed before and after a run: other bytes that were run and replaced by
\* the pinned ones before the second hash are not noticed.
SuccessIsReal ==
  bench.report = "success" =>
    /\ {<<r.round, r.arm>> : r \in Range(records)} = (1..opt.repetitions) \X DOMAIN opt.arms
    /\ Len(records) = opt.repetitions * Len(opt.arms)
    /\ \A r \in Range(records) : r.ran = bench.pin \/ r.restored
    /\ \A r, q \in Range(records) : r.ids = q.ids /\ r.text = q.text
    /\ opt.ids # NoOutput => \A r \in Range(records) : r.ids = opt.ids

\* Even in a campaign that goes on past failures, every run recorded as valid
\* produced the output the summary names as the oracle: nothing is timed that
\* was never compared.
ValidRunsMatchTheOracle ==
  Reported => \A r \in Range(records) :
    r.valid => r.ids = bench.oracle.ids /\ r.text = bench.oracle.text
=============================================================================
