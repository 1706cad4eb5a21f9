------------------------------- MODULE Upgrade -------------------------------
(***************************************************************************)
(* `deltafin upgrade`, upgrade.rs: check the checkout and its toolchain,    *)
(* fetch, fast-forward when behind, rebuild with the build profile of the   *)
(* running binary, and verify what was built.  Git and Cargo are external.  *)
(*                                                                          *)
(* The upstream history is a line of revisions; a checkout has a prefix of  *)
(* it and possibly local commits on top.  The owner of the checkout may     *)
(* edit or commit, and upstream may move, at any time.                      *)
(***************************************************************************)
EXTENDS Naturals

CONSTANTS
  MaxRevision,      \* bound: revisions of upstream
  DataTree,         \* what each revision holds at the paths reserved for models and caches
  Obstacles,        \* what may be wrong with the checkout or the toolchain
  MaxEdits,         \* bound: steps of the owner
  MaxUpgradeStops   \* bound: commands that fail, upgrades that are killed

\* Everything the command looks for and refuses to go on with.
KnownObstacles ==
  {"script_shim", "foreign_owner", "no_checkout", "hip_kernels", "project_files", "ambient_cargo_config",
   "cargo_home", "other_workspace", "git_hooks", "ssh_remote", "target_symlink",
   "artifact_outside_target", "other_toplevel", "detached", "no_upstream", "local_remote"}

ASSUME UpgradeAssumption ==
  /\ Obstacles \subseteq KnownObstacles
  /\ MaxRevision \in Nat /\ MaxEdits \in Nat /\ MaxUpgradeStops \in Nat

VARIABLES
  wrong,       \* the obstacle in place, or "nothing"
  profile,     \* the embedded build profile, undecoded
  repo,        \* head, remote-tracking head, the remote itself, dirty worktree
  binary,      \* what the executable in target/ was built from
  upg,         \* the running upgrade
  edits, stops5

uvars == <<wrong, profile, repo, binary, upg, edits, stops5>>

-----------------------------------------------------------------------------
\* What option_env! may have left: overrides are the CUDA settings present,
\* archOk and sameCompiler say what is in them.
Profiles ==
  [format : {"v1", "v2", "none"}, source : {"bootstrap", "explicit"},
   root : {"none", "absolute", "relative"}, provider : {"none", "ON", "OFF"}, moe : {"ON", "OFF", "bad"},
   overrides : SUBSET {"arch", "cudacxx", "cmake", "toolkit"}, archOk : BOOLEAN, sameCompiler : BOOLEAN]

\* decode_profile_value: "-" is none, anything else is hex.
CudaProvider(p) == IF p.format = "v1" THEN p.moe = "ON" ELSE p.provider = "ON"
ExplicitRoot(p) == p.source = "explicit"

\* BuildProfile::parse accepts a profile whose fields agree.
ParseProfile(p) ==
  /\ p.format # "none"
  /\ p.root = (IF ExplicitRoot(p) THEN "absolute" ELSE "none")
  /\ p.moe \in {"ON", "OFF"}
  /\ p.provider \in (IF p.format = "v1" THEN {"none"} ELSE {"ON", "OFF"})
  /\ p.moe = "ON" => CudaProvider(p)
  /\ CudaProvider(p) => ExplicitRoot(p)
  /\ IF p.moe = "ON"
       THEN {"arch", "cudacxx", "cmake"} \subseteq p.overrides /\ p.archOk /\ p.sameCompiler
       ELSE /\ {"arch", "cudacxx", "cmake"} \cap p.overrides = {}
            /\ ~CudaProvider(p) => p.overrides = {}

\* command_environment: every profile variable is removed, then set from the
\* profile; what is not in the profile stays out.
CommandEnvironment(p) == [root |-> p.root, moe |-> p.moe, overrides |-> p.overrides]

\* loader_audit_policy: the roots the new binary may load from.
LoaderAuditPolicy(p) ==
  IF ~ExplicitRoot(p) THEN {"bootstrap"}
  ELSE {"torch"} \cup (IF p.overrides \cap {"toolkit", "cudacxx", "cmake"} # {} THEN {"toolkit"} ELSE {})

UInit ==
  /\ wrong \in Obstacles \cup {"nothing"}
  /\ profile \in Profiles
  /\ wrong # "nothing" => ParseProfile(profile)
  /\ repo = [base |-> 1, local |-> 0, tracking |-> 1, remote |-> 1, dirty |-> FALSE]
  /\ binary = [base |-> 1, local |-> 0, dirty |-> FALSE, env |-> CommandEnvironment(profile)]
  /\ upg = [pc |-> "idle", target |-> 0, edited |-> FALSE, result |-> "none"]
  /\ edits = 0 /\ stops5 = 0

-----------------------------------------------------------------------------
Works(check) == wrong # check

\* resolve_native_program and inspect_native_executable: git and cargo are
\* compiled programs of root or of this user, not writable by others.
InspectNativeExecutable == Works("script_shim")
ResolveNativeProgram == InspectNativeExecutable /\ Works("foreign_owner")
LocateRepository == Works("no_checkout")
\* The profile cannot describe device kernels compiled by HIPCC.
NotBuiltForHip == Works("hip_kernels")
RequireProjectFiles == Works("project_files")
RequireNoAmbientToolchain == Works("ambient_cargo_config")
RequireIsolatedCargoHome == Works("cargo_home")
PreflightCargo ==
  /\ RequireNoAmbientToolchain
  /\ ResolveNativeProgram /\ RequireIsolatedCargoHome
  /\ Works("other_workspace")
RequireNoExecutableGitConfiguration == Works("git_hooks")
RequireNativeHttpsRemote == Works("ssh_remote") /\ InspectNativeExecutable
RequireSafeTargetRoot == Works("target_symlink")
VerifyArtifact == Works("artifact_outside_target")

\* Mutant: changes of the owner are not looked for.
Bug_RequireCleanWorktree == TRUE

\* git status --porcelain, untracked files included, is empty.
RequireCleanWorktree == ~repo.dirty

\* A branch, checked out, with an upstream on a normal remote.
Tracked == Works("other_toplevel") /\ Works("detached") /\ Works("no_upstream") /\ Works("local_remote")

UpgradeAt(pc) == upg.pc = pc
UpgradeEnds(result) == upg' = [upg EXCEPT !.pc = "idle", !.result = result]
UpgradeGoes(pc) == upg' = [upg EXCEPT !.pc = pc]

\* run: the checkout, the kernels, the embedded profile, the toolchain.
RunUpgrade ==
  /\ UpgradeAt("idle")
  /\ upg' = IF /\ LocateRepository /\ NotBuiltForHip /\ ParseProfile(profile)
               /\ RequireProjectFiles /\ PreflightCargo
              THEN [pc |-> "state", target |-> 0, edited |-> FALSE, result |-> "none"]
              ELSE [upg EXCEPT !.result = "refused"]
  /\ UNCHANGED <<wrong, profile, repo, binary, edits, stops5>>

\* fetch_state up to and including git fetch.
FetchState ==
  /\ UpgradeAt("state")
  /\ IF Tracked /\ RequireCleanWorktree /\ RequireNoExecutableGitConfiguration /\ RequireNativeHttpsRemote
       THEN repo' = [repo EXCEPT !.tracking = repo.remote] /\ UpgradeGoes("relate")
       ELSE UpgradeEnds("refused") /\ UNCHANGED repo
  /\ UNCHANGED <<wrong, profile, binary, edits, stops5>>

\* relationship, from the two merge-base queries.
Relationship(r) ==
  CASE r.base = r.tracking /\ r.local = 0 -> "equal"
    [] r.base < r.tracking /\ r.local = 0 -> "behind"
    [] r.base = r.tracking /\ r.local > 0 -> "ahead"
    [] OTHER                              -> "diverged"

\* Mutant: incoming paths are not looked at.
Bug_RequireUpdatePreservesData(from, to) == TRUE

\* require_update_preserves_data: git diff of the two trees names no reserved
\* path.  Revisions between them that add one and take it away again pass.
RequireUpdatePreservesData(from, to) == DataTree[from] = DataTree[to]

\* fetch_state after the fetch: clean still, and how HEAD relates to upstream.
Relate ==
  /\ UpgradeAt("relate")
  /\ upg' = CASE ~RequireCleanWorktree \/ Relationship(repo) = "diverged" ->
                   [upg EXCEPT !.pc = "idle", !.result = "refused"]
              [] RequireCleanWorktree /\ Relationship(repo) = "behind" ->
                   IF RequireUpdatePreservesData(repo.base, repo.tracking)
                     THEN [upg EXCEPT !.pc = "merge", !.target = repo.tracking]
                     ELSE [upg EXCEPT !.pc = "idle", !.result = "refused"]
              [] OTHER -> [upg EXCEPT !.pc = "build"]
  /\ UNCHANGED <<wrong, profile, repo, binary, edits, stops5>>

\* apply_fast_forward: git merge --ff-only, which itself refuses a diverged
\* branch and leaves unrelated edits of the worktree alone.
ApplyFastForward ==
  /\ UpgradeAt("merge")
  /\ IF repo.local = 0
       THEN /\ repo' = [repo EXCEPT !.base = IF @ > upg.target THEN @ ELSE upg.target]
            /\ UpgradeGoes("verify")
       ELSE UpgradeEnds("refused") /\ UNCHANGED repo
  /\ UNCHANGED <<wrong, profile, binary, edits, stops5>>

\* HEAD is what was fetched, the worktree is clean, the new tree passes the
\* same preflight.
VerifyFastForward ==
  /\ UpgradeAt("verify")
  /\ IF /\ repo.base = upg.target /\ repo.local = 0
        /\ RequireCleanWorktree /\ RequireProjectFiles /\ PreflightCargo
       THEN UpgradeGoes("build") ELSE UpgradeEnds("refused")
  /\ UNCHANGED <<wrong, profile, repo, binary, edits, stops5>>

\* rebuild_native: cargo compiles the worktree as it is, also when nothing was
\* fetched.
RebuildNative ==
  /\ UpgradeAt("build")
  /\ IF RequireSafeTargetRoot
       THEN /\ binary' = [base |-> repo.base, local |-> repo.local, dirty |-> repo.dirty,
                          env |-> CommandEnvironment(profile)]
            /\ UpgradeGoes("artifact")
       ELSE UpgradeEnds("refused") /\ UNCHANGED binary
  /\ UNCHANGED <<wrong, profile, repo, edits, stops5>>

\* cargo_binary_artifact and verify_artifact_with_profile.
VerifyBuilt ==
  /\ UpgradeAt("artifact")
  /\ UpgradeEnds(IF VerifyArtifact /\ LoaderAuditPolicy(profile) # {} THEN "done" ELSE "refused")
  /\ UNCHANGED <<wrong, profile, repo, binary, edits, stops5>>

\* checked_with_environment: a command exits with a code that is not allowed;
\* or the upgrade is killed.
UpgradeStops ==
  /\ ~UpgradeAt("idle") /\ stops5 < MaxUpgradeStops
  /\ stops5' = stops5 + 1
  /\ UpgradeEnds("stopped")
  /\ UNCHANGED <<wrong, profile, repo, binary, edits>>

\* The owner edits, tidies up or commits; upstream moves.
OwnerSteps ==
  /\ edits < MaxEdits
  /\ edits' = edits + 1
  /\ \/ repo' = [repo EXCEPT !.dirty = ~@]
     \/ repo' = [repo EXCEPT !.dirty = FALSE, !.local = @ + 1]
  /\ upg' = [upg EXCEPT !.edited = TRUE]
  /\ UNCHANGED <<wrong, profile, binary, stops5>>

UpstreamMoves ==
  /\ repo.remote < MaxRevision
  /\ repo' = [repo EXCEPT !.remote = @ + 1]
  /\ UNCHANGED <<wrong, profile, binary, upg, edits, stops5>>

UNext ==
  \/ RunUpgrade \/ FetchState \/ Relate \/ ApplyFastForward \/ VerifyFastForward
  \/ RebuildNative \/ VerifyBuilt \/ UpgradeStops \/ OwnerSteps \/ UpstreamMoves

USpec == UInit /\ [][UNext]_uvars

-----------------------------------------------------------------------------
\* An upgrade that reports success left a binary built from HEAD, with the
\* profile of the binary it replaces, from a clean tree, and HEAD at or past the
\* upstream it fetched: also when an earlier upgrade was killed between the
\* fast-forward and the build.  Only an owner who edits while it runs can make
\* the binary differ.
UpgradedBinaryIsHead ==
  upg.result = "done" /\ ~upg.edited =>
    /\ binary = [base |-> repo.base, local |-> repo.local, dirty |-> FALSE,
                 env |-> CommandEnvironment(profile)]
    /\ repo.base = repo.tracking
    /\ wrong = "nothing"

\* No step of the upgrade drops a local commit or an edit of the owner, and it
\* moves HEAD only forward, along upstream, to a revision with the same tree at
\* the paths reserved for models and caches ("Downloaded models and caches remain
\* in place", upgrade.rs:826): what is merged is what was compared, whatever
\* upstream and the owner did between the two.
PreservesWork ==
  edits' = edits =>
    /\ repo'.local = repo.local /\ repo'.dirty = repo.dirty
    /\ repo'.base >= repo.base
    /\ DataTree[repo'.base] = DataTree[repo.base]
OwnersWorkIsPreserved == [][PreservesWork]_uvars
=============================================================================
