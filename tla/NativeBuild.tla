----------------------------- MODULE NativeBuild -----------------------------
(***************************************************************************)
(* The build driver, native/deltafin-native-build/src/lib.rs: the           *)
(* production build of the provider (run_production_build) and the native   *)
(* tests (run_native_tests).  Compilers, linkers and the programs they      *)
(* build are external: a command succeeds or fails, and may call Python by  *)
(* name on the way.  A panic and an Err both end the build here.            *)
(*                                                                          *)
(* What may be wrong with the machine is one member of Flaws; what decides  *)
(* the GPU back end (toolkits, variables, libraries) is spelled out.        *)
(***************************************************************************)
EXTENDS Naturals, Sequences, FiniteSets

CONSTANTS
  Toolkits,         \* CUDA installations: <<id, runtime major, minor, has nvcc, has runtime>>
  TestSpecs,        \* NATIVE_TEST_SPECS: [name, platform, flavor, cases: their platforms]
  Flaws,            \* what may be wrong with the machine
  LinkGraphs,       \* what the linker may produce: file -> set of [to, py, sys]
  PythonFiles,      \* files whose canonical name says Python
  DependencyLimit,
  OutputLimit, Timeout,   \* of a bounded child, in log chunks and polls
  MaxDenied               \* bound: calls of Python

VARIABLES
  site,     \* the machine: what the build reads and does not change
  job,      \* the running build; its reports hold the last test's
  marker,   \* the guards whose forbidden-python-attempted is on disk
  child,    \* the bounded child
  audit,    \* the dependency audit's worklist
  denied    \* ghost: calls of Python since the guard was armed

nvars == <<site, job, marker, child, audit, denied>>

None == "none"
NoToolkit == <<"none", "none", 0, FALSE, FALSE>>
Cuda == {"cuda12", "cuda13"}
Panic == "panic"
Id(t) == t[1]
HasNvcc(t) == t[4]
HasRuntime(t) == t[5]
NoChild == [state |-> "none", out |-> 0, age |-> 0, ok |-> FALSE]
NoAudit == [graph |-> [f \in {} |-> {}], pending |-> <<>>, visited |-> {}]

-----------------------------------------------------------------------------
\* validate_explicit_torch_root and find_torch_root: an explicit root is
\* checked file by file; without one the pinned CPU runtime is validated or
\* installed, and there is none for CUDA.
CudaPair(s) == {"torch_cuda", "c10_cuda"} \subseteq s.libs

ValidateExplicitTorchRoot(s) ==
  /\ s.wrong \notin {"torch_layout", "torch_symlink"}
  /\ s.libs = {} \/ CudaPair(s)
  /\ s.mode = "On" => s.os = "linux" /\ CudaPair(s)

FindTorchRoot(s) ==
  IF s.explicit THEN ValidateExplicitTorchRoot(s)
  ELSE s.mode # "On" /\ s.wrong # "toolchain_invalid"

ValidateTorchVersion(s) == s.wrong # "torch_version"

\* detect_libtorch_cxx11_abi
DetectAbi(s) == s.os = "linux" => s.wrong \notin {"abi_unknown", "abi_both"}

\* detect_gpu_runtime: what libc10_cuda depends on.
DetectGpuRuntime(s) ==
  CASE s.os # "linux" \/ s.libs = {} -> None
    [] s.os = "linux" /\ s.libs # {} /\ (~CudaPair(s) \/ Cardinality(s.refs) # 1) -> Panic
    [] OTHER -> CHOOSE r \in s.refs : TRUE

-----------------------------------------------------------------------------
\* parse_nvcc_version
NvccRelease(t) == <<t[2], t[3]>>

\* discover_nvcc: an explicit compiler, a toolkit variable, PATH.
DiscoverNvcc(s) ==
  LET named == SelectSeq(s.vars, HasNvcc)
  IN  IF s.cudacxx # NoToolkit THEN s.cudacxx
      ELSE IF named # <<>> THEN Head(named) ELSE s.path

\* find_cuda_provider: the first root with the runtime headers and libcudart.
\* The well-known places come before the variables.
FindCudaProvider(s) ==
  LET nvcc == DiscoverNvcc(s)
      roots == s.known \o s.vars \o (IF nvcc = NoToolkit THEN <<>> ELSE <<nvcc>>)
      have == SelectSeq(roots, HasRuntime)
  IN  IF have = <<>> THEN Panic ELSE Id(Head(have))

\* cuda_toolkit_root: the variables agree with each other and with the compiler.
CudaToolkitRoot(s, nvcc) ==
  LET named == {s.vars[i] : i \in DOMAIN s.vars}
  IN  IF named \subseteq {nvcc} THEN nvcc ELSE Panic

CudaArchitectures(s) == s.wrong # "cuda_architectures"

Bug_PlanCudaKernelBuild(s, major) ==
  LET nvcc == DiscoverNvcc(s)
  IN  CASE nvcc = NoToolkit -> IF s.mode = "On" THEN Panic ELSE None
        [] nvcc # NoToolkit /\ NvccRelease(nvcc) \notin {<<"cuda12", 6>>, <<"cuda13", 0>>} -> Panic
        [] OTHER -> IF CudaToolkitRoot(s, nvcc) # Panic /\ HasRuntime(nvcc) /\ CudaArchitectures(s)
                      THEN Id(nvcc) ELSE Panic

\* plan_cuda_kernel_build, after the version query.  NVCC of another major than LibTorch, or of
\* an unlisted release, is refused.
PlanCudaKernelBuild(s, major) ==
  LET nvcc == DiscoverNvcc(s)
  IN  CASE nvcc = NoToolkit -> IF s.mode = "On" THEN Panic ELSE None
        [] nvcc # NoToolkit /\ nvcc[2] # major -> Panic
        [] nvcc # NoToolkit /\ nvcc[2] = major /\ NvccRelease(nvcc) \notin {<<"cuda12", 6>>, <<"cuda13", 0>>} -> Panic
        [] OTHER -> IF CudaToolkitRoot(s, nvcc) # Panic /\ HasRuntime(nvcc) /\ CudaArchitectures(s)
                      THEN Id(nvcc) ELSE Panic

\* discover_hipcc, hip_toolkit_root, hip_runtime_directory, hip_architectures.
DiscoverHipcc(s) == s.hip # 0
HipToolkitRoot(s) == s.wrong # "hip_roots"
HipRuntimeDirectory(s) == s.wrong # "hip_runtime"
HipArchitectures(s) == s.wrong # "hip_architectures"

\* plan_hip_kernel_build: only on request.
PlanHipKernelBuild(s) ==
  IF s.mode # "On" THEN None
  ELSE IF DiscoverHipcc(s) /\ s.hip >= 6 /\ HipToolkitRoot(s) /\ HipRuntimeDirectory(s) /\ HipArchitectures(s)
         THEN "rocm" ELSE Panic

\* build_cuda_kernel up to the compiler runs.
KernelPlan(s, gpu) ==
  CASE s.os # "linux" \/ s.mode = "Off" -> IF s.mode = "On" THEN Panic ELSE None
    [] s.os = "linux" /\ s.mode # "Off" /\ gpu = None -> IF s.mode = "On" THEN Panic ELSE None
    [] s.os = "linux" /\ s.mode # "Off" /\ gpu = "rocm" -> PlanHipKernelBuild(s)
    [] OTHER -> PlanCudaKernelBuild(s, gpu)

\* CUDA kernels and the provider use one runtime directory.
RuntimesAgree(j) == j.gpu \in Cuda /\ j.kernel # None => j.kernel = j.provider

-----------------------------------------------------------------------------
\* resolve_required_native_tool, resolve_tool_path, validate_native_executable:
\* the variable's value or the first default found, which has to be an
\* executable file in a native format.
ResolveTool(s) == s.wrong \notin {"tool_missing", "tool_empty", "tool_not_executable", "tool_script"}

\* NativeToolchain::discover: CC, CXX and AR.
DiscoverToolchain(s) == s.os \in {"linux", "macos"} /\ ResolveTool(s)

\* PythonGuard::build clears a stale marker, compiles the denier, sees it deny
\* and mark, and installs it under every name of Python.
BuildGuard(s) == s.wrong \notin {"deny_template", "deny_compile", "deny_selftest", "deny_alias"}

\* validate_compiler: GCC or Clang by its own word.
ValidateCompiler(s) == s.wrong # "compiler_unknown"

\* metal_toolchain_under: the tools are root's and answer as Apple's.
MetalToolchainUnder(s, place) == place \in s.metal

\* discover_metal_toolchain: the selected Xcode, a mounted component, the
\* component xcodebuild names.
DiscoverMetal(s) ==
  \E place \in {"xcode", "cryptex", "component"} : MetalToolchainUnder(s, place)

\* A step's outputs replace only regular files and are nonempty files.
SafeOutputs(s) == s.wrong \notin {"prior_symlink", "empty_object"}

\* platform_matches
PlatformMatches(platform, s) == platform \in {"any", s.os}

\* run_native_tests: the tests for this host, or the one asked for, refused
\* when it is for another; output stays under the target directory.
SelectedTests(s) ==
  IF s.requested = "all" THEN SelectSeq(TestSpecs, LAMBDA t : PlatformMatches(t.platform, s))
  ELSE SelectSeq(TestSpecs, LAMBDA t : t.name = s.requested /\ PlatformMatches(t.platform, s))

NeedsProvider(todo) == \E i \in DOMAIN todo : todo[i].flavor # "none"

\* canonical_child_output
OutputStaysInside(s) == s.wrong # "output_escape"

-----------------------------------------------------------------------------
\* A machine without GPU libraries, and a Linux machine with some: what the
\* build never reads there keeps its first value.
Plain ==
  [os |-> "linux", mode |-> "Auto", explicit |-> TRUE, libs |-> {}, refs |-> {}, cudacxx |-> NoToolkit,
   path |-> NoToolkit, vars |-> <<>>, known |-> <<>>, hip |-> 0, metal |-> {}, wrong |-> "nothing", requested |-> "all"]

\* The provider's build directory and each CPU-only test's hold a guard.
Guards ==
  {"provider"} \cup {TestSpecs[i].name : i \in {k \in DOMAIN TestSpecs : TestSpecs[k].flavor = "none"}}

Requests == {"production", "all"} \cup {TestSpecs[i].name : i \in DOMAIN TestSpecs}
OneOrNone == {<<>>} \cup {<<t>> : t \in Toolkits}
NvccChoices == {t \in Toolkits : HasNvcc(t)} \cup {NoToolkit}

CpuSites ==
  {[Plain EXCEPT !.os = os, !.mode = mode, !.explicit = e, !.metal = m, !.wrong = w, !.requested = r] :
     os \in {"linux", "macos"}, mode \in {"Auto", "On", "Off"}, e \in BOOLEAN, m \in {{}, {"xcode"}, {"component"}},
     w \in Flaws \cup {"nothing"}, r \in Requests}

GpuSites ==
  {[Plain EXCEPT !.mode = mode, !.libs = libs, !.refs = refs, !.hip = hip, !.cudacxx = x, !.path = p, !.vars = v,
                 !.known = k, !.requested = "production"] :
     mode \in {"Auto", "On", "Off"}, libs \in {{"torch_cuda"}, {"torch_cuda", "c10_cuda"}},
     refs \in {{}, {"rocm"}, {"cuda12"}, {"cuda13"}, {"cuda12", "cuda13"}, {"rocm", "cuda12"}}, hip \in {0, 5, 6},
     x \in NvccChoices, p \in NvccChoices, v \in OneOrNone, k \in OneOrNone}

\* Without a GPU, Off plans what Auto plans, and the tests do not tell where the
\* Metal tools are: test builds start from one of each.
Sites ==
  {s \in CpuSites : s.requested # "production" => s.mode # "Off" /\ s.metal # {"component"}}
  \cup {s \in GpuSites : IF s.refs = {"rocm"} THEN s.vars = <<>> /\ s.known = <<>> /\ s.cudacxx = s.path
                         ELSE s.hip = 0}

FirstStep(s) ==
  CASE s.requested = "production" -> "torch"
    [] s.requested # "production" /\ (SelectedTests(s) = <<>> \/ ~OutputStaysInside(s)) ->
         IF s.requested = "all" /\ OutputStaysInside(s) THEN "green" ELSE "failed"
    [] OTHER -> IF NeedsProvider(SelectedTests(s)) THEN "torch" ELSE "next_test"

NInit ==
  /\ site \in Sites
  /\ job = [pc |-> FirstStep(site), todo |-> SelectedTests(site), gpu |-> None, provider |-> None,
            kernel |-> None, guard |-> None, cases |-> <<>>, reports |-> {}]
  /\ marker \in {{}, Guards}     \* an earlier build may have left some
  /\ child = NoChild
  /\ audit = NoAudit
  /\ denied = 0

Quiet == UNCHANGED <<site, marker, child, audit, denied>>
Goto(j, pc) == [j EXCEPT !.pc = pc]
Marked == job.guard \in marker
Check(ok, pc) == job' = Goto(job, IF ok THEN pc ELSE "failed") /\ Quiet

\* The checks of build_provider_artifacts that run no command.
Inspect ==
  \/ job.pc = "torch" /\ Check(FindTorchRoot(site) /\ ValidateTorchVersion(site) /\ DetectAbi(site), "gpu")
  \/ /\ job.pc = "gpu"
     /\ LET gpu == DetectGpuRuntime(site)
            provider == IF gpu \in Cuda THEN FindCudaProvider(site) ELSE None
        IN  job' = [Goto(job, IF Panic \in {gpu, provider} THEN "failed" ELSE "toolchain")
                      EXCEPT !.gpu = gpu, !.provider = provider]
     /\ Quiet
  \/ job.pc = "toolchain" /\ Check(DiscoverToolchain(site), "guard")

\* PythonGuard::build
Arm ==
  /\ job.pc = "guard"
  /\ marker' = marker \ {"provider"}
  /\ job' = [Goto(job, IF BuildGuard(site) THEN "compilers" ELSE "failed") EXCEPT !.guard = "provider"]
  /\ UNCHANGED <<site, child, audit, denied>>

Bug_RunGuarded(after) ==
  \E ok \in BOOLEAN, python \in BOOLEAN :
    /\ python => denied < MaxDenied /\ ~Marked
    /\ marker' = IF python THEN marker \cup {job.guard} ELSE marker
    /\ denied' = denied + (IF python THEN 1 ELSE 0)
    /\ job' = IF Marked \/ ~ok THEN Goto(job, "failed") ELSE after
    /\ UNCHANGED <<site, child, audit>>

\* One guarded command: prepare refuses a marker left by the one before, the
\* command may call Python and still succeed, assert_clean looks after it.
RunGuarded(after) ==
  \E ok \in BOOLEAN, python \in BOOLEAN :
    /\ python => denied < MaxDenied /\ ~Marked
    /\ marker' = IF python THEN marker \cup {job.guard} ELSE marker
    /\ denied' = denied + (IF python THEN 1 ELSE 0)
    /\ job' = IF job.guard \in marker' \/ ~ok THEN Goto(job, "failed") ELSE after
    /\ UNCHANGED <<site, child, audit>>

\* compile_cpp, compile_gemv, compile_c_test_main: a guarded compiler run whose
\* object is checked.
CompileOne(s, pc) == RunGuarded(Goto(job, IF SafeOutputs(s) THEN pc ELSE "failed"))

Compilers ==
  \/ job.pc = "compilers" /\ RunGuarded(Goto(job, IF ValidateCompiler(site) THEN "metal" ELSE "failed"))
  \/ job.pc = "cpu_compiler" /\ RunGuarded(Goto(job, IF ValidateCompiler(site) THEN "test_compile" ELSE "failed"))

\* build_embedded_metal_libraries, on macOS only.
BuildMetal ==
  /\ job.pc = "metal"
  /\ \/ site.os = "linux" /\ Check(TRUE, "kernel")
     \/ /\ site.os = "macos"
        /\ RunGuarded(Goto(job, IF DiscoverMetal(site) /\ SafeOutputs(site) THEN "kernel" ELSE "failed"))

\* build_cuda_kernel: nothing to build, or two guarded compiler runs.
BuildKernel ==
  /\ job.pc = "kernel"
  /\ LET plan == KernelPlan(site, job.gpu)
     IN  \/ plan \in {None, Panic} /\ Check(plan = None, "compile")
         \/ /\ plan \notin {None, Panic}
            /\ RunGuarded([Goto(job, "compile") EXCEPT !.kernel = plan])

\* The provider's C++ sources, the CPU kernel and, on macOS, the Objective-C ones.
Compile == job.pc = "compile" /\ CompileOne(site, "archive")

\* archive_objects and the end of build_provider_artifacts.
Archive ==
  /\ job.pc = "archive"
  /\ RunGuarded(Goto(job, IF ~RuntimesAgree(job) THEN "failed"
                          ELSE IF site.requested = "production" THEN "profile" ELSE "next_test"))

\* run_production_build after the artifacts: what is linked, and the profile
\* a later upgrade rebuilds with (emit_upgrade_build_profile).
EmitUpgradeBuildProfile(s, j) ==
  [source |-> s.explicit, moe |-> j.gpu \in Cuda /\ j.kernel # None, provider |-> j.provider # None]

LinkProduction ==
  /\ job.pc = "profile"
  /\ Check(site.wrong # "link_missing" /\ RuntimesAgree(job)
             /\ (EmitUpgradeBuildProfile(site, job).moe => EmitUpgradeBuildProfile(site, job).provider), "green")

-----------------------------------------------------------------------------
Test == Head(job.todo)

\* build_and_run_native_test; a CPU-only test always brings its own toolchain and
\* guard (build_and_run_cpu_only_test), the others share the provider's.
NextTest ==
  /\ job.pc = "next_test"
  /\ IF job.todo = <<>> THEN job' = Goto(job, "green") ELSE
     job' = [Goto(job, IF Test.flavor # "none" THEN "test_compile"
                       ELSE IF DiscoverToolchain(site) THEN "cpu_guard" ELSE "failed")
               EXCEPT !.reports = {}, !.guard = IF Test.flavor = "none" THEN Test.name ELSE "provider"]
  /\ Quiet

ArmCpuTest ==
  /\ job.pc = "cpu_guard"
  /\ marker' = marker \ {job.guard}
  /\ job' = Goto(job, IF BuildGuard(site) THEN "cpu_compiler" ELSE "failed")
  /\ UNCHANGED <<site, child, audit, denied>>

\* compile_test_source for the test and its flavor, then link_provider_test.
CompileTest == job.pc = "test_compile" /\ CompileOne(site, "test_link")

LinkTest ==
  /\ job.pc = "test_link"
  /\ RunGuarded(Goto(job, "audit"))
  /\ UNCHANGED audit

\* audit_dependency_graph starts from what was linked; on Linux it asks
\* ldconfig, where there is one, for the loader's directories.
StartAudit ==
  /\ job.pc = "audit"
  /\ \E g \in LinkGraphs : audit' = [graph |-> g, pending |-> <<"exe">>, visited |-> {}]
  /\ \E cached \in BOOLEAN :
       /\ cached => site.os = "linux"
       /\ job' = Goto(job, IF cached THEN "loader_cache" ELSE "auditing")
  /\ UNCHANGED <<site, marker, child, denied>>

\* platform_matches over the test's cases.
PlatformCases(t) == SelectSeq(t.cases, LAMBDA platform : PlatformMatches(platform, site))

\* Its loop up to the auditor's runs: a file seen before is passed over.
PopBinary ==
  /\ job.pc = "auditing"
  /\ IF audit.pending = <<>>
     THEN audit' = audit /\ job' = [Goto(job, "cases") EXCEPT !.cases = PlatformCases(Test)]
     ELSE LET binary == Head(audit.pending)
          IN  IF binary \in audit.visited
              THEN audit' = [audit EXCEPT !.pending = Tail(@)] /\ UNCHANGED job
              ELSE /\ audit' = [audit EXCEPT !.visited = @ \cup {binary}]
                   /\ job' = Goto(job, IF Cardinality(audit'.visited) > DependencyLimit \/ binary \in PythonFiles
                                       THEN "failed"
                                       ELSE IF site.os = "macos" THEN "install_name" ELSE "dependencies")
  /\ UNCHANGED <<site, marker, child, denied>>

\* run_bounded_child up to the spawn, for ldconfig, otool -D and the auditor.
SpawnAuditor ==
  /\ job.pc \in {"loader_cache", "install_name", "dependencies"} /\ child = NoChild
  /\ IF Marked THEN job' = Goto(job, "failed") /\ UNCHANGED child
     ELSE child' = [NoChild EXCEPT !.state = "running"] /\ UNCHANGED job
  /\ UNCHANGED <<site, marker, audit, denied>>

\* audit_macho_dependencies and audit_elf_dependencies on the auditor's
\* output: the names, then the files they resolve to.  macOS passes over its
\* own libraries; a name that does not resolve ends the audit.
Named(binary) == {e \in audit.graph[binary] : ~(site.os = "macos" /\ e.sys /\ ~e.py)}
Discovered(binary) == {e.to : e \in Named(binary)}
AuditRefuses(binary) ==
  \E e \in Named(binary) : e.py \/ e.to = "missing" \/ e.to \in PythonFiles

Discover(binary) ==
  LET found == Discovered(binary)
  IN  CHOOSE order \in [1 .. Cardinality(found) -> found] : {order[i] : i \in DOMAIN order} = found

\* Only what the executable itself names is followed.
Bug_AuditBinary ==
  LET binary == Head(audit.pending)
  IN  IF binary = "exe" /\ AuditRefuses(binary) THEN job' = Goto(job, "failed") /\ UNCHANGED audit
      ELSE /\ audit' = [audit EXCEPT !.pending = IF binary = "exe" THEN Tail(@) \o Discover(binary) ELSE Tail(@)]
           /\ job' = Goto(job, "auditing")

AuditBinary ==
  LET binary == Head(audit.pending)
  IN  IF AuditRefuses(binary) THEN job' = Goto(job, "failed") /\ UNCHANGED audit
      ELSE audit' = [audit EXCEPT !.pending = Tail(@) \o Discover(binary)] /\ job' = Goto(job, "auditing")

-----------------------------------------------------------------------------
\* run_native_test_cases: the cases of this platform in order, one bounded child
\* each; a test that has none fails.
SpawnCase ==
  /\ job.pc = "cases" /\ child = NoChild
  /\ IF job.cases # <<>> /\ ~Marked /\ site.wrong # "loader_variable"
       THEN child' = [NoChild EXCEPT !.state = "running"] /\ UNCHANGED job
       ELSE job' = Goto(job, "failed") /\ UNCHANGED child
  /\ UNCHANGED <<site, marker, audit, denied>>

\* The child on its own: it writes, calls Python, exits.
ChildRuns ==
  /\ child.state = "running"
  /\ \/ child.out <= OutputLimit /\ child' = [child EXCEPT !.out = @ + 1] /\ UNCHANGED <<marker, denied>>
     \/ denied < MaxDenied /\ ~Marked /\ marker' = marker \cup {job.guard} /\ denied' = denied + 1 /\ UNCHANGED child
     \/ \E ok \in BOOLEAN : child' = [child EXCEPT !.state = "exited", !.ok = ok] /\ UNCHANGED <<marker, denied>>
  /\ UNCHANGED <<site, job, audit>>

\* What its caller does with a child that ended within its limits.
Accept ==
  \/ job.pc = "loader_cache" /\ job' = Goto(job, "auditing") /\ UNCHANGED audit
  \/ job.pc = "install_name" /\ job' = Goto(job, "dependencies") /\ UNCHANGED audit
  \/ job.pc = "dependencies" /\ AuditBinary
  \/ /\ job.pc = "cases" /\ job' = Goto(job, "failed") /\ UNCHANGED audit  \* no PASS marker in its output
  \/ /\ job.pc = "cases" /\ Len(job.cases) > 1
     /\ job' = [job EXCEPT !.cases = Tail(@)] /\ UNCHANGED audit
  \/ /\ job.pc = "cases" /\ Len(job.cases) = 1
     /\ job' = [Goto(job, "next_test") EXCEPT !.cases = <<>>, !.todo = Tail(@),
                  !.reports = {[test |-> Test.name, graph |-> audit.graph]}]
     /\ audit' = NoAudit

Bug_Poll ==
  /\ child.state \in {"running", "exited"}
  /\ CASE child.state = "exited" ->
            /\ child' = NoChild
            /\ IF child.out > OutputLimit \/ ~child.ok
                 THEN job' = Goto(job, "failed") /\ UNCHANGED audit
                 ELSE Accept
       [] child.state = "running" /\ (child.out > OutputLimit \/ child.age >= Timeout) ->
            child' = NoChild /\ job' = Goto(job, "failed") /\ UNCHANGED audit
       [] OTHER -> child' = [child EXCEPT !.age = @ + 1] /\ UNCHANGED <<job, audit>>
  /\ UNCHANGED <<site, marker, denied>>

\* run_bounded_child's poll: the exit, the output, the clock, in this order;
\* the marker and the logs are looked at again after the exit.
Poll ==
  /\ child.state \in {"running", "exited"}
  /\ CASE child.state = "exited" ->
            /\ child' = NoChild
            /\ IF Marked \/ child.out > OutputLimit \/ ~child.ok
                 THEN job' = Goto(job, "failed") /\ UNCHANGED audit
                 ELSE Accept
       [] child.state = "running" /\ (child.out > OutputLimit \/ child.age >= Timeout) ->
            child' = NoChild /\ job' = Goto(job, "failed") /\ UNCHANGED audit     \* kill and wait
       [] OTHER -> child' = [child EXCEPT !.age = @ + 1] /\ UNCHANGED <<job, audit>>
  /\ UNCHANGED <<site, marker, denied>>

NNext ==
  \/ Inspect \/ Arm \/ Compilers \/ BuildMetal \/ BuildKernel \/ Compile \/ Archive \/ LinkProduction
  \/ NextTest \/ ArmCpuTest \/ CompileTest \/ LinkTest \/ StartAudit \/ PopBinary \/ SpawnAuditor \/ SpawnCase \/ ChildRuns \/ Poll

NSpec == NInit /\ [][NNext]_nvars

-----------------------------------------------------------------------------
\* The files a loader that resolves names as the audit does would map.
Follow(g, f) == {e.to : e \in {d \in g[f] : ~(site.os = "macos" /\ d.sys)}}
Closure(g) ==
  {f \in DOMAIN g : \A S \in SUBSET DOMAIN g :
     ("exe" \in S /\ \A x \in S : Follow(g, x) \cap DOMAIN g \subseteq S) => f \in S}

\* A reported native test maps no Python: the audit walked the whole closure
\* of what was linked before the test ran, whatever the cycles in it.
AuditedTestsMapNoPython ==
  \A r \in job.reports : Closure(r.graph) \cap PythonFiles = {} /\ Cardinality(Closure(r.graph)) <= DependencyLimit

\* A build that ends well never called Python once its guard was armed, not
\* even from a command that succeeded or in the last command of all.
GreenBuildCalledNoPython == job.pc = "green" => denied = 0

\* A finished build with CUDA kernels has one CUDA: the kernels' toolkit is of
\* LibTorch's major and its runtime directory is the provider's.
KernelsMatchLibTorch ==
  job.pc = "green" /\ job.gpu \in Cuda /\ job.kernel # None =>
    /\ job.kernel = job.provider
    /\ \E t \in Toolkits : Id(t) = job.kernel /\ t[2] = job.gpu

=============================================================================
