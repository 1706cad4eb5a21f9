---------------------------- MODULE PinnedInstall ----------------------------
(***************************************************************************)
(* The three installers of pinned files: K3 metadata (setup_k3.rs), the     *)
(* DSpark drafter (dspark_setup.rs) and the Qwen assistants                 *)
(* (setup_qwen.rs), over trusted_download.rs.  Each builds a directory      *)
(* "<name>.installing", fills it with verified files, writes a manifest     *)
(* (for K3 the tensor inventory), and renames it to its final name, under   *)
(* an advisory file lock.                                                   *)
(*                                                                          *)
(* A process may be killed between any two changes of the directory.  What  *)
(* it wrote stays: losing unsynced data to a power cut is not modelled.     *)
(* A file is a sequence of chunks, each genuine or not.                     *)
(***************************************************************************)
EXTENDS Naturals, Sequences, FiniteSets, Functions

CONSTANTS
  Installers,     \* processes that may run the same setup command
  NFiles,         \* pinned files
  Chunks,         \* size of every pinned file
  MaxFaults,      \* bound: rejected or corrupt responses
  MaxCrashes      \* bound: processes killed

ASSUME InstallAssumption ==
  /\ NFiles \in Nat \ {0} /\ Chunks \in Nat \ {0}
  /\ MaxFaults \in Nat /\ MaxCrashes \in Nat

VARIABLES
  kind,       \* which of the three installers this is
  dir,        \* the staging or the published directory
  lock,       \* holders of the flock on "<name>.install.lock"
  inst,       \* what each process is doing
  faults, crashes

pvars == <<kind, dir, lock, inst, faults, crashes>>

Files == 1..NFiles
Genuine == [i \in 1..Chunks |-> TRUE]

\* ResponseMeta: its status and its Content-Range against the one asked for.
Response == [status : {200, 206, 404}, range : {"asked", "other"}]
NoResponse == [status |-> 200, range |-> "asked"]

AtRest(outcome, clean) ==
  [pc |-> "idle", file |-> 1, found |-> <<>>, response |-> NoResponse,
   outcome |-> outcome, clean |-> clean]

\* marker: the file that keeps Spotlight out; foreign: a name nobody expects.
Empty == [at |-> "none", final |-> <<>>, part |-> <<>>, manifest |-> FALSE, mpart |-> FALSE,
          marker |-> FALSE, foreign |-> FALSE]

\* A Qwen directory fetched by an earlier tool has the files, and no manifest;
\* of what else it holds, the inert cache is bounded and ignored.
Legacy(foreign) ==
  [Empty EXCEPT !.at = "published", !.final = [f \in Files |-> Genuine], !.foreign = foreign]

Tampered == [Empty EXCEPT !.at = "staging", !.foreign = TRUE]

PInit ==
  /\ kind \in {"k3", "dspark", "qwen"}
  /\ dir \in {Empty, Tampered} \cup (IF kind = "qwen" THEN {Legacy(b) : b \in BOOLEAN} ELSE {})
  /\ lock = {}
  /\ inst = [p \in Installers |-> AtRest("none", TRUE)]
  /\ faults = 0 /\ crashes = 0

-----------------------------------------------------------------------------
\* Mutant: the size is checked, the digest is not.
Bug_Verifies(contents) == Len(contents) = Chunks

\* verify_regular_digest: exact size and digest.
Verifies(contents) == contents = Genuine

AllVerify(d) == \A f \in Files : f \in DOMAIN d.final /\ Verifies(d.final[f])

NoPartials(d) == DOMAIN d.part = {} /\ ~d.mpart

\* setup_k3: the audit does not look at the names.
K3AuditLocal(d) == d.marker /\ AllVerify(d) /\ d.manifest

K3ValidateStagingNames(d) == ~d.foreign

\* dspark_setup: every name is expected or refused, the manifest's too.
ValidateDirectoryNames(d, staging, manifest) ==
  /\ ~d.foreign
  /\ ~staging => NoPartials(d) /\ (d.manifest => manifest)

DSparkAuditLocal(d, manifest) ==
  /\ ValidateDirectoryNames(d, FALSE, manifest)
  /\ AllVerify(d)
  /\ manifest => d.manifest

\* setup_qwen: a missing manifest is accepted, a partial is not.
ValidatePublishedNames(d) == ~d.foreign /\ NoPartials(d)

QwenAuditModel(d) == ValidatePublishedNames(d) /\ d.marker /\ AllVerify(d)

QwenValidateStagingNames(d) == ~d.foreign

StagingNames(d) ==
  CASE kind = "k3"     -> K3ValidateStagingNames(d)
    [] kind = "dspark" -> ValidateDirectoryNames(d, TRUE, FALSE)
    [] kind = "qwen"   -> QwenValidateStagingNames(d)

Audit(d) ==
  CASE kind = "k3"     -> K3AuditLocal(d)
    [] kind = "dspark" -> DSparkAuditLocal(d, TRUE)
    [] kind = "qwen"   -> QwenAuditModel(d)

-----------------------------------------------------------------------------
PinAt(p, pc) == inst[p].pc = pc
PinGoes(p, pc) == inst' = [inst EXCEPT ![p].pc = pc]

\* Every return path drops the lock; the staging directory stays.
Ends(p, outcome, clean) ==
  /\ inst' = [inst EXCEPT ![p] = AtRest(outcome, clean)]
  /\ lock' = lock \ {p}

Fails(p) == Ends(p, "failed", inst[p].clean)
Succeeds(p) == Ends(p, "ok", inst[p].clean)

\* A response that does not match its pin, is refused, cut short or lost.
BadResponse == faults < MaxFaults /\ faults' = faults + 1

\* Mutant: the lock does not exclude.
Bug_Locked == FALSE

\* InstallationLock::acquire: flock, exclusive, without waiting.
Locked == lock # {}

LaunchRefused(p) ==
  /\ PinAt(p, "idle") /\ inst[p].outcome \notin {"ok", "busy"}
  /\ Locked
  /\ inst' = [inst EXCEPT ![p] = AtRest("busy", FALSE)]
  /\ UNCHANGED <<kind, dir, lock, faults, crashes>>

\* ensure_spotlight_marker, which every path takes before it looks closer.
Marked(d) == [d EXCEPT !.marker = TRUE]

\* install up to the first file, when nothing is published: the staging
\* directory is created or adopted, and its names are checked.
BeginStaging(p) ==
  LET staging == Marked([dir EXCEPT !.at = "staging"])
  IN  /\ dir' = staging
      /\ IF StagingNames(staging)
           THEN /\ lock' = lock \cup {p}
                /\ inst' = [inst EXCEPT ![p] = [AtRest("none", TRUE) EXCEPT !.pc = "file"]]
           ELSE /\ inst' = [inst EXCEPT ![p] = AtRest("failed", TRUE)]
                /\ UNCHANGED lock

Launch(p) ==
  /\ PinAt(p, "idle") /\ inst[p].outcome # "ok"
  /\ ~Locked
  /\ dir.at # "published"
  /\ BeginStaging(p)
  /\ UNCHANGED <<kind, faults, crashes>>

\* DSpark audits the remote tree, the small files and the header first.
AuditRemoteFails(p) ==
  /\ kind = "dspark"
  /\ PinAt(p, "idle") /\ inst[p].outcome # "ok"
  /\ ~Locked
  /\ dir.at # "published"
  /\ BadResponse
  /\ inst' = [inst EXCEPT ![p] = AtRest("failed", FALSE)]
  /\ UNCHANGED <<kind, dir, lock, crashes>>

\* When it is published: the copy is audited; Qwen adds a missing manifest.
Adopts(d) == kind = "qwen" /\ QwenAuditModel(d) /\ ~d.manifest

LaunchPublished(p) ==
  LET found == Marked(dir)
  IN  /\ PinAt(p, "idle") /\ inst[p].outcome # "ok"
      /\ ~Locked
      /\ dir.at = "published"
      /\ dir' = found
      /\ IF Adopts(found)
           THEN /\ lock' = lock \cup {p}
                /\ inst' = [inst EXCEPT ![p] = [AtRest("none", TRUE) EXCEPT !.pc = "manifest"]]
           ELSE /\ inst' = [inst EXCEPT ![p] = AtRest(IF Audit(found) THEN "ok" ELSE "failed", TRUE)]
                /\ UNCHANGED lock
      /\ UNCHANGED <<kind, faults, crashes>>

-----------------------------------------------------------------------------
\* The file at hand, when it is already there: it must verify.
Skip(p) ==
  LET f == inst[p].file
  IN  /\ PinAt(p, "file")
      /\ f \in DOMAIN dir.final
      /\ IF ~Verifies(dir.final[f]) THEN Fails(p)
         ELSE /\ inst' = [inst EXCEPT ![p].file = @ + 1,
                                      ![p].pc = IF f = NFiles THEN "manifest" ELSE "file"]
              /\ UNCHANGED lock
      /\ UNCHANGED <<kind, dir, faults, crashes>>

Missing(p) == PinAt(p, "file") /\ inst[p].file \notin DOMAIN dir.final

\* The files of a directory with f in it, which holds contents.
Holding(files, f, contents) ==
  [g \in DOMAIN files \cup {f} |-> IF g = f THEN contents ELSE files[g]]

\* secure_create_new: O_CREAT | O_EXCL.
CreateNew(p, exists, created, pc) ==
  IF exists THEN Fails(p) /\ UNCHANGED dir
            ELSE dir' = created /\ PinGoes(p, pc) /\ UNCHANGED lock

\* fetch_metadata_file of setup_k3: the payload is checked in memory before its
\* partial file is created.
FetchMetadata(p) ==
  LET f == inst[p].file
  IN  /\ kind = "k3" /\ Missing(p)
      /\ \/ /\ CreateNew(p, f \in DOMAIN dir.part, [dir EXCEPT !.part = Holding(@, f, <<>>)], "write")
            /\ UNCHANGED faults
         \/ /\ BadResponse
            /\ Ends(p, "failed", FALSE)
            /\ UNCHANGED dir
      /\ UNCHANGED <<kind, crashes>>

WriteMetadata(p) ==
  /\ PinAt(p, "write")
  /\ dir' = [dir EXCEPT !.part[inst[p].file] = Genuine]
  /\ PinGoes(p, "verify")
  /\ UNCHANGED <<kind, lock, faults, crashes>>

\* existing_part_size and open_part_append: resume at the length of the partial.
OpenPart(p) ==
  LET f == inst[p].file
      part == IF f \in DOMAIN dir.part THEN dir.part[f] ELSE <<>>
  IN  /\ kind # "k3" /\ Missing(p)
      /\ IF Len(part) = Chunks
           THEN PinGoes(p, "verify") /\ UNCHANGED dir
           ELSE /\ dir' = [dir EXCEPT !.part = Holding(@, f, part)]
                /\ \E r \in Response :
                     inst' = [inst EXCEPT ![p].pc = "transfer", ![p].found = part, ![p].response = r]
      /\ UNCHANGED <<kind, lock, faults, crashes>>

\* A whole file answers a request for its rest with the wrong bytes.
MayBeGenuine(r, start) ==
  \/ r.status = 206 /\ r.range = "asked"
  \/ r.status = 200 /\ start = 0

\* The body arrives in the partial before the response is judged; it is
\* bounded by what is missing.
Receive(p) ==
  LET f == inst[p].file
      me == inst[p]
  IN  /\ PinAt(p, "transfer") /\ Len(dir.part[f]) < Chunks
      /\ \E genuine \in BOOLEAN :
           /\ genuine => MayBeGenuine(me.response, Len(me.found))
           /\ dir' = [dir EXCEPT !.part[f] = Append(@, genuine)]
           /\ inst' = [inst EXCEPT ![p].clean = @ /\ genuine]
           /\ IF me.clean /\ ~genuine THEN BadResponse ELSE UNCHANGED faults
      /\ UNCHANGED <<kind, lock, crashes>>

\* validate_resume_response, and validate_download_response, which reads the
\* same way.
ValidateResumeResponse(r, start) ==
  IF start = 0 THEN r.status = 200 \/ (r.status = 206 /\ r.range = "asked")
               ELSE r.status = 206 /\ r.range = "asked"

Accept(p) ==
  LET me == inst[p]
  IN  /\ PinAt(p, "transfer")
      /\ ValidateResumeResponse(me.response, Len(me.found))
      /\ Len(dir.part[me.file]) = Chunks
      /\ PinGoes(p, "verify")
      /\ UNCHANGED <<kind, dir, lock, faults, crashes>>

\* Mutant: a rejected response is left in the partial.
Bug_Rollback(part, start) == part

\* rollback_partial: set_len to the length the launch found.
Rollback(part, start) == SubSeq(part, 1, start)

\* The response is refused, the body stops short, or the transport fails, which
\* it may at any point.
Reject(p) ==
  /\ PinAt(p, "transfer")
  /\ IF inst[p].clean THEN BadResponse ELSE UNCHANGED faults
  /\ dir' = [dir EXCEPT !.part[inst[p].file] = Rollback(@, Len(inst[p].found))]
  /\ Ends(p, "failed", FALSE)
  /\ UNCHANGED <<kind, crashes>>

MayPublish(part) == Verifies(part)

\* publish_hard_link, first the link ...
Link(p) ==
  LET f == inst[p].file
  IN  /\ PinAt(p, "verify")
      /\ IF MayPublish(dir.part[f])
           THEN /\ dir' = [dir EXCEPT !.final = Holding(@, f, dir.part[f])]
                /\ PinGoes(p, "unlink")
                /\ UNCHANGED lock
           ELSE Fails(p) /\ UNCHANGED dir
      /\ UNCHANGED <<kind, faults, crashes>>

\* ... then the removal of the partial.
Unlink(p) ==
  LET f == inst[p].file
  IN  /\ PinAt(p, "unlink")
      /\ dir' = [dir EXCEPT !.part = Restrict(@, DOMAIN @ \ {f})]
      /\ inst' = [inst EXCEPT ![p].file = @ + 1,
                              ![p].pc = IF f = NFiles THEN "manifest" ELSE "file"]
      /\ UNCHANGED <<kind, lock, faults, crashes>>

-----------------------------------------------------------------------------
Created == [dir EXCEPT !.mpart = TRUE]

\* build_inventory and publish_inventory of setup_k3.
BuildInventory(p) ==
  /\ kind = "k3" /\ PinAt(p, "manifest")
  /\ \/ /\ dir.manifest
        /\ PinGoes(p, "publish")
        /\ UNCHANGED <<dir, lock, faults>>
     \/ /\ ~dir.manifest
        /\ CreateNew(p, dir.mpart, Created, "rename")
        /\ UNCHANGED faults
     \/ /\ ~dir.manifest
        /\ BadResponse
        /\ Ends(p, "failed", FALSE)
        /\ UNCHANGED dir
  /\ UNCHANGED <<kind, crashes>>

\* write_manifest of dspark_setup removes a partial manifest, but the audit
\* before it does not let one through.
WriteManifest(p) ==
  /\ kind = "dspark" /\ PinAt(p, "manifest")
  /\ IF ~DSparkAuditLocal(dir, dir.manifest) THEN Fails(p) /\ UNCHANGED dir
     ELSE IF dir.manifest THEN PinGoes(p, "publish") /\ UNCHANGED <<dir, lock>>
     ELSE CreateNew(p, FALSE, Created, "rename")
  /\ UNCHANGED <<kind, faults, crashes>>

\* write_or_validate_manifest of setup_qwen.
WriteOrValidateManifest(p) ==
  /\ kind = "qwen" /\ PinAt(p, "manifest")
  /\ IF ~AllVerify(dir) THEN Fails(p) /\ UNCHANGED dir
     ELSE IF dir.manifest THEN PinGoes(p, "publish") /\ UNCHANGED <<dir, lock>>
     ELSE CreateNew(p, dir.mpart, Created, "rename")
  /\ UNCHANGED <<kind, faults, crashes>>

RenameManifest(p) ==
  /\ PinAt(p, "rename")
  /\ dir' = [dir EXCEPT !.manifest = TRUE, !.mpart = FALSE]
  /\ PinGoes(p, IF dir.at = "published" THEN "audit" ELSE "publish")
  /\ UNCHANGED <<kind, lock, faults, crashes>>

\* The last look at the staging directory; Qwen's does not read the names.
Complete(d) == IF kind = "qwen" THEN AllVerify(d) ELSE Audit(d)

\* rename_noreplace of the directory.
Publish(p) ==
  /\ PinAt(p, "publish")
  /\ IF Complete(dir) /\ dir.at = "staging"
       THEN dir' = [dir EXCEPT !.at = "published"] /\ PinGoes(p, "audit") /\ UNCHANGED lock
       ELSE Fails(p) /\ UNCHANGED dir
  /\ UNCHANGED <<kind, faults, crashes>>

AuditPublished(p) ==
  /\ PinAt(p, "audit")
  /\ IF Audit(dir) THEN Succeeds(p) ELSE Fails(p)
  /\ UNCHANGED <<kind, dir, faults, crashes>>

\* The kernel drops the lock of a killed process.
Crash(p) ==
  /\ ~PinAt(p, "idle") /\ crashes < MaxCrashes
  /\ crashes' = crashes + 1
  /\ Ends(p, "killed", FALSE)
  /\ UNCHANGED <<kind, dir, faults>>

Install(p) ==
  \/ Launch(p) \/ AuditRemoteFails(p) \/ LaunchPublished(p) \/ LaunchRefused(p)
  \/ Skip(p) \/ FetchMetadata(p) \/ WriteMetadata(p)
  \/ OpenPart(p) \/ Receive(p) \/ Accept(p) \/ Reject(p) \/ Link(p) \/ Unlink(p)
  \/ BuildInventory(p) \/ WriteManifest(p) \/ WriteOrValidateManifest(p) \/ RenameManifest(p)
  \/ Publish(p) \/ AuditPublished(p) \/ Crash(p)

PNext == \E p \in Installers : Install(p)

PSpec == PInit /\ [][PNext]_pvars

-----------------------------------------------------------------------------
PinTypeOK ==
  /\ kind \in {"k3", "dspark", "qwen"}
  /\ lock \subseteq Installers
  /\ DOMAIN dir.final \subseteq Files /\ DOMAIN dir.part \subseteq Files
  /\ faults \in 0..MaxFaults /\ crashes \in 0..MaxCrashes

Intact == dir.final = [f \in Files |-> Genuine]

\* However installers crash, resume, overlap and are lied to, a directory under
\* its final name holds every pinned file intact, with a manifest if this code
\* published it; and no one reports success without one.
PublishedIsAuthentic ==
  /\ dir.at = "published" => Intact
  /\ dir.at = "published" /\ dir.manifest => ~dir.foreign
  /\ dir.at = "published" /\ kind # "qwen" => dir.manifest
  /\ \A p \in Installers :
       inst[p].outcome = "ok" => dir.at = "published" /\ Intact /\ dir.manifest

\* What makes a launch fail that met no bad response: a kill, a file that is not
\* the installer's, or a partial with a wrong chunk.
Damaged ==
  crashes > 0 \/ dir.foreign \/ (\E f \in DOMAIN dir.part : FALSE \in Range(dir.part[f]))

\* A response that is refused leaves the partial as the launch found it, and no
\* verified file ever changes or goes away.
LeavesNoTrace ==
  /\ \A p \in Installers :
       PinAt(p, "transfer") /\ inst'[p].outcome = "failed"
         => dir'.part[inst[p].file] = inst[p].found
  /\ \A f \in DOMAIN dir.final :
       f \in DOMAIN dir'.final /\ dir'.final[f] = dir.final[f]

\* A failed launch can be repeated (dspark_setup.rs:433, setup_qwen.rs:490
\* "Re-run to resume"): without a crash or a corrupt partial, one that held the
\* lock and met only good responses completes; a refused response leaves the
\* partial as the launch found it, and no verified file ever changes.
FailedLaunchIsRepeatable ==
  /\ [](\A p \in Installers : inst[p].outcome = "failed" /\ inst[p].clean => Damaged)
  /\ [][LeavesNoTrace]_pvars

\* docs/COMPILED-RUNTIME.md:204-205: "an interrupted or partial install can be
\* reused safely": a launch that holds the lock and gets only good responses
\* does not fail, whatever was interrupted before it.
InterruptedInstallIsReusable ==
  ~dir.foreign => \A p \in Installers : ~(inst[p].outcome = "failed" /\ inst[p].clean)
==============================================================================
