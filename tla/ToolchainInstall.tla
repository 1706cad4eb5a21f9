-------------------------- MODULE ToolchainInstall --------------------------
(***************************************************************************)
(* deltafin-bootstrap: the pinned PyTorch wheel becomes a native toolchain *)
(* under .deltafin/toolchains.                                             *)
(*                                                                         *)
(* An installer downloads the wheel to a name of its own, checks size and  *)
(* digest, extracts the native files into a staging directory of its own,  *)
(* writes a manifest of what it extracted and a marker, and publishes with *)
(* a rename that never replaces.  Builds validate the published tree.      *)
(* Installers run beside each other and may be killed; the owner may touch *)
(* the published tree.  A wheel is a set of entries; a digest is the thing *)
(* itself.                                                                 *)
(***************************************************************************)
EXTENDS Naturals, FiniteSets, FiniteSetsExt

CONSTANTS
  Installers,
  Wheels,            \* set of sets of [path, kind, native, python, required, size]
  EntryLimit, ByteLimit,          \* ArchiveLimits
  MaxToolFaults, MaxToolKills, MaxTouches

VARIABLES
  pin,        \* the wheel the release pins
  manifestPin,\* the manifest derived from it when the release was made
  dest,       \* the published tree, or Absent
  litter,     \* wheels and staging trees left behind by killed installers
  inst,       \* per installer: step, its wheel, its staging tree
  told,       \* per installer: what it last reported, and the tree it reported on
  tfaults, tkills, touches

tivars == <<pin, manifestPin, dest, litter, inst, told, tfaults, tkills, touches>>

NoTree == [there |-> FALSE, files |-> {}, manifest |-> {}, marker |-> {}, open |-> FALSE]
Absent == NoTree
Idle == [step |-> "idle", wheel |-> {}, tree |-> NoTree]

----------------------------------------------------------------------------
(* The archive.                                                            *)

\* checked_add_bound over the entries' sizes.
Within(entries, limit) == MapThenSumSet(LAMBDA e : e.size, entries) <= limit

\* validate_archive_path: a portable relative path without traversal.
SafePath(e) == e.path # "unsafe"

\* encrypted, compression, is_symlink and validate_unix_kind.
PlainEntry(e) == e.kind \in {"file", "dir"}

\* preflight_zip_metadata: the footer's own account, before anything is parsed.
Preflight(wheel) == wheel # {} /\ Cardinality(wheel) <= EntryLimit

\* The entry loop of extract_native_layout: only plain entries of safe, unique
\* paths, within the limit.
Admissible(wheel) ==
  /\ \A e \in wheel : PlainEntry(e) /\ SafePath(e)
  /\ \A e, f \in wheel : e.path = f.path => e = f
  /\ Within(wheel, ByteLimit)

\* select_native_file: headers, libraries and licenses, never libtorch_python.
SelectNative(wheel) == {e \in wheel : e.kind = "file" /\ e.native /\ ~e.python}

\* RequiredLayout: every library and header a build needs was seen.
Complete(files) == Cardinality({e \in files : e.required}) = 2

\* ensure_no_python_library walks what was extracted.
NoPythonLibrary(files) == \A e \in files : ~e.python

\* files_manifest_text: path, size and digest of every file.
ManifestOf(files) == {[path |-> e.path, size |-> e.size, entry |-> e] : e \in files}

----------------------------------------------------------------------------
(* Validation of a published tree.                                         *)

\* validate_marker: it names the pinned artifact and the pinned manifest.
ValidMarker(tree) == tree.marker = pin

\* parse_files_manifest: native files only, none twice, a complete layout.
ParsedManifest(manifest) ==
  /\ manifest # {} /\ Cardinality(manifest) <= EntryLimit
  /\ {m.entry : m \in manifest} = SelectNative({m.entry : m \in manifest})
  /\ Complete({m.entry : m \in manifest})

\* Mutant: files that the manifest does not name are not noticed.
Bug_CompleteTree(tree) == tree.manifest \subseteq ManifestOf(tree.files)

\* validate_complete_tree and verify_manifest_entry: every file there is named
\* and every named file is there with its size and digest.
CompleteTree(tree) == ManifestOf(tree.files) = tree.manifest

\* validate_installed
ValidTree(tree) ==
  /\ tree.there /\ ~tree.open
  /\ ValidMarker(tree)
  /\ tree.manifest = manifestPin
  /\ ParsedManifest(tree.manifest)
  /\ CompleteTree(tree)

----------------------------------------------------------------------------
(* The installer.                                                          *)

TInit ==
  /\ pin \in Wheels
  /\ manifestPin = ManifestOf(SelectNative(pin))
  /\ dest = Absent /\ litter = 0
  /\ inst = [i \in Installers |-> Idle]
  /\ told = [i \in Installers |-> [result |-> "none", tree |-> NoTree]]
  /\ tfaults = 0 /\ tkills = 0 /\ touches = 0

Set(i, s) == inst' = [inst EXCEPT ![i] = s]
Report(i, result, tree) ==
  told' = [told EXCEPT ![i] = [result |-> result, tree |-> tree]]

\* Cleanup removes the wheel and the staging tree on every return.
Return(i, result, tree) == Set(i, Idle) /\ Report(i, result, tree)

\* Mutant: the staging names are fixed, so what a killed installer left is in
\* the way of the next.
Bug_Start(i) ==
  /\ inst[i].step = "idle"
  /\ \/ /\ dest # Absent
        /\ Return(i, IF ValidTree(dest) THEN "present" ELSE "error", dest)
     \/ /\ dest = Absent /\ litter > 0
        /\ Return(i, "error", NoTree)
     \/ /\ dest = Absent /\ litter = 0
        /\ Set(i, [Idle EXCEPT !.step = "download", !.tree.there = TRUE]) /\ UNCHANGED told
  /\ UNCHANGED <<pin, manifestPin, dest, litter, tfaults, tkills, touches>>

\* install: a tree that is there is validated and reported, or refused; else a
\* wheel file of a name nobody has.
Start(i) ==
  /\ inst[i].step = "idle"
  /\ \/ /\ dest # Absent
        /\ Return(i, IF ValidTree(dest) THEN "present" ELSE "error", dest)
     \/ /\ dest = Absent
        /\ Set(i, [Idle EXCEPT !.step = "download", !.tree.there = TRUE]) /\ UNCHANGED told
  /\ UNCHANGED <<pin, manifestPin, dest, litter, tfaults, tkills, touches>>

\* download_exact: only the pinned size and digest pass; a connection may break
\* or bring other bytes.
Download(i) ==
  /\ inst[i].step = "download"
  /\ \/ /\ Set(i, [inst[i] EXCEPT !.step = "extract", !.wheel = pin])
        /\ UNCHANGED <<told, tfaults>>
     \/ /\ tfaults < MaxToolFaults /\ tfaults' = tfaults + 1
        /\ Return(i, "fault", NoTree)
  /\ UNCHANGED <<pin, manifestPin, dest, litter, tkills, touches>>

\* extract_native_layout into staging, then ensure_no_python_library.
Extract(i) ==
  LET files == SelectNative(inst[i].wheel)
  IN  /\ inst[i].step = "extract"
      /\ IF /\ Preflight(inst[i].wheel) /\ Admissible(inst[i].wheel)
            /\ Complete(files) /\ NoPythonLibrary(files)
         THEN /\ Set(i, [inst[i] EXCEPT !.step = "manifest", !.tree.files = files])
              /\ UNCHANGED told
         ELSE Return(i, "error", NoTree)
      /\ UNCHANGED <<pin, manifestPin, dest, litter, tfaults, tkills, touches>>

\* write_files_manifest, then write_marker: only the pinned manifest is marked.
WriteManifest(i) ==
  LET t == inst[i].tree
      m == ManifestOf(t.files)
  IN  /\ inst[i].step = "manifest"
      /\ IF m = manifestPin
         THEN /\ Set(i, [inst[i] EXCEPT !.step = "publish", !.wheel = {},
                                        !.tree = [t EXCEPT !.manifest = m, !.marker = pin]])
              /\ UNCHANGED told
         ELSE Return(i, "error", NoTree)
      /\ UNCHANGED <<pin, manifestPin, dest, litter, tfaults, tkills, touches>>

\* rename_noreplace: the first one wins; who comes second reports the winner's
\* tree if it is the pinned one.
Publish(i) ==
  /\ inst[i].step = "publish"
  /\ \/ /\ dest = Absent
        /\ dest' = inst[i].tree
        /\ Set(i, [Idle EXCEPT !.step = "verify"]) /\ UNCHANGED told
     \/ /\ dest # Absent
        /\ Return(i, IF ValidTree(dest) THEN "present" ELSE "error", dest)
        /\ UNCHANGED dest
  /\ UNCHANGED <<pin, manifestPin, litter, tfaults, tkills, touches>>

\* The published tree is validated once more before it is reported.
Verify(i) ==
  /\ inst[i].step = "verify"
  /\ Return(i, IF dest # Absent /\ ValidTree(dest) THEN "installed" ELSE "error",
            IF dest = Absent THEN NoTree ELSE dest)
  /\ UNCHANGED <<pin, manifestPin, dest, litter, tfaults, tkills, touches>>

\* An input or output error after the download: before the rename nothing is
\* published, after it (the directory sync, the second validation) the tree stays.
IoError(i) ==
  /\ inst[i].step \in {"extract", "manifest", "publish", "verify"}
  /\ tfaults < MaxToolFaults /\ tfaults' = tfaults + 1
  /\ Return(i, "fault", NoTree)
  /\ UNCHANGED <<pin, manifestPin, dest, litter, tkills, touches>>

\* A killed installer cleans nothing up; its unique names stay behind.
Kill(i) ==
  /\ inst[i].step # "idle" /\ tkills < MaxToolKills
  /\ tkills' = tkills + 1
  /\ litter' = litter + (IF inst[i].step = "verify" THEN 0 ELSE 1)
  /\ Set(i, Idle)
  /\ UNCHANGED <<pin, manifestPin, dest, told, tfaults, touches>>

\* validate_repository_toolchain, which every build calls.
Build(i) ==
  /\ inst[i].step = "idle" /\ dest # Absent
  /\ Report(i, IF ValidTree(dest) THEN "built" ELSE "error", dest)
  /\ UNCHANGED <<pin, manifestPin, dest, litter, inst, tfaults, tkills, touches>>

\* The owner adds or drops a file of the tree, adds one to the manifest too,
\* makes the tree writable for others, or removes it.
Touch ==
  /\ dest # Absent /\ touches < MaxTouches
  /\ touches' = touches + 1
  /\ \/ \E e \in pin : e \notin dest.files /\ dest' = [dest EXCEPT !.files = @ \cup {e}]
     \/ \E e \in dest.files : dest' = [dest EXCEPT !.files = @ \ {e}]
     \/ dest' = [dest EXCEPT !.open = TRUE]
     \/ \E e \in pin : /\ e \notin dest.files
                       /\ dest' = [dest EXCEPT !.files = @ \cup {e}, !.manifest = ManifestOf(dest.files \cup {e})]
     \/ dest' = Absent
  /\ UNCHANGED <<pin, manifestPin, litter, inst, told, tfaults, tkills>>

TNext ==
  \/ \E i \in Installers :
       Start(i) \/ Download(i) \/ Extract(i) \/ WriteManifest(i) \/ Publish(i) \/ Verify(i)
       \/ IoError(i) \/ Kill(i) \/ Build(i)
  \/ Touch

TSpec == TInit /\ [][TNext]_tivars

----------------------------------------------------------------------------
(* Properties.                                                             *)

\* Whatever an installer or a build reports as usable is the native part of
\* the pinned wheel, whole and alone: no Python binding, no link, no addition,
\* nothing missing, whoever installed it and whatever the owner did since.
UsableToolchainIsExact ==
  \A i \in Installers : told[i].result \in {"present", "installed", "built"} =>
    /\ told[i].tree.files = {e \in pin : e.kind = "file" /\ e.native /\ ~e.python}
    /\ ~told[i].tree.open

\* What killed installers leave behind never stands in the way: an install of a
\* good release fails only through a fault of its own or a published tree that
\* somebody changed.
LitterNeverBlocks ==
  \A i \in Installers :
    told[i].result = "error" /\ touches = 0 =>
      ~(Preflight(pin) /\ Admissible(pin) /\ Complete({e \in pin : e.kind = "file" /\ e.native /\ ~e.python}))
=============================================================================
