---------------------------- MODULE SpineConvert ----------------------------
(***************************************************************************)
(* The conversion of one resident BF16 tensor to int8 rows and scales,      *)
(* spine_int8.rs convert_one: two partial files grown row by row, two       *)
(* published files, a receipt that vouches for both, and recovery from a    *)
(* kill between any two changes on disk.                                    *)
(*                                                                          *)
(* A row is the version of the source it was computed from: the owner may   *)
(* replace the tensor at any time.  ConversionLock keeps a second converter *)
(* out, so there is one.                                                    *)
(***************************************************************************)
EXTENDS Naturals, Sequences

CONSTANTS
  NRows,          \* rows of the tensor
  MaxVersions,    \* bound: replacements of the source
  MaxKills        \* bound: kills

ASSUME SpineAssumption == NRows \in Nat /\ MaxVersions \in Nat /\ MaxKills \in Nat

VARIABLES
  source,         \* version of the BF16 file, as FileIdentity tells it
  disk,           \* the files of the pair
  conv,           \* the running conversion
  kills

svars == <<source, disk, conv, kills>>

Absent == [there |-> FALSE, rows |-> <<>>]
File(rows) == [there |-> TRUE, rows |-> rows]
\* The identity a receipt names; 0 while it is incomplete.
NoReceipt == [there |-> FALSE, of |-> 0]

SInit ==
  /\ source = 1
  /\ disk = [data |-> Absent, scale |-> Absent, dataPart |-> Absent, scalePart |-> Absent,
             receipt |-> NoReceipt, receiptPart |-> NoReceipt]
  /\ conv = [pc |-> "idle", identity |-> 1, result |-> "none"]
  /\ kills = 0

In(pc) == conv.pc = pc
ConvGoes(pc) == conv' = [conv EXCEPT !.pc = pc]
ConvEnds(result) == conv' = [conv EXCEPT !.pc = "idle", !.result = result]

Whole(file, version) == file.there /\ file.rows = [r \in 1..NRows |-> version]

-----------------------------------------------------------------------------
\* select_targets and target_from_metadata: the identity every later step is
\* held to.
Preflight ==
  /\ In("idle")
  /\ conv' = [pc |-> "choose", identity |-> source, result |-> "none"]
  /\ UNCHANGED <<source, disk, kills>>

\* verify_receipt: the receipt names this source, and both files as they are.
VerifyReceipt ==
  /\ In("choose") /\ disk.receipt.there
  /\ ConvEnds(IF disk.receipt.of = conv.identity /\ source = conv.identity THEN "done" ELSE "failed")
  /\ UNCHANGED <<source, disk, kills>>

\* Mutant: published scales are expected to have their data published.
Bug_Unpaired == disk.data.there # disk.scale.there

\* Published data without scales, or scales without data, is refused.
Unpaired ==
  \/ disk.data.there /\ ~disk.scale.there
  \/ disk.scale.there /\ ~disk.data.there /\ ~disk.dataPart.there

RefuseUnpaired ==
  /\ In("choose") /\ ~disk.receipt.there
  /\ Unpaired
  /\ ConvEnds("failed")
  /\ UNCHANGED <<source, disk, kills>>

\* verify_complete_pair recomputes every row of the pair being recovered.
VerifyCompletePair ==
  LET data == IF disk.data.there THEN disk.data ELSE disk.dataPart
  IN  /\ In("choose") /\ ~disk.receipt.there
      /\ disk.scale.there /\ ~Unpaired
      /\ IF Whole(data, source) /\ Whole(disk.scale, source) /\ source = conv.identity
           THEN ConvGoes(IF disk.data.there THEN "tidy" ELSE "linkData")
           ELSE ConvEnds("failed")
      /\ UNCHANGED <<source, disk, kills>>

\* normalize_partial_lengths: rows that both partials have ...
Common(a, b) == IF Len(a) < Len(b) THEN Len(a) ELSE Len(b)

\* Mutant: rows found in the partials are trusted.
Bug_VerifiedRows(data, scale, version) == Common(data, scale)

\* ... of which those before the first that differs from the source are kept.
VerifiedRows(data, scale, version) ==
  LET n == Common(data, scale)
      Good(k) == \A r \in 1..k : data[r] = version /\ scale[r] = version
  IN  CHOOSE k \in 0..n : Good(k) /\ (k = n \/ ~Good(k + 1))

OpenPartials ==
  LET keep == VerifiedRows(disk.dataPart.rows, disk.scalePart.rows, source)
  IN  /\ In("choose") /\ ~disk.receipt.there
      /\ ~disk.scale.there /\ ~Unpaired
      /\ IF source # conv.identity THEN ConvEnds("failed") /\ UNCHANGED disk
         ELSE /\ disk' = [disk EXCEPT !.dataPart = File(SubSeq(@.rows, 1, keep)),
                                      !.scalePart = File(SubSeq(@.rows, 1, keep))]
              /\ ConvGoes("row")
      /\ UNCHANGED <<source, kills>>

\* A row is quantized, its scale is written, then its data.
WriteScale ==
  /\ In("row") /\ Len(disk.scalePart.rows) < NRows
  /\ Len(disk.scalePart.rows) = Len(disk.dataPart.rows)
  /\ disk' = [disk EXCEPT !.scalePart.rows = Append(@, source)]
  /\ UNCHANGED <<source, conv, kills>>

WriteData ==
  /\ In("row") /\ Len(disk.scalePart.rows) > Len(disk.dataPart.rows)
  /\ disk' = [disk EXCEPT !.dataPart.rows = Append(@, disk.scalePart.rows[Len(@) + 1])]
  /\ UNCHANGED <<source, conv, kills>>

\* require_open_identity and require_path_identity.
SourceUnchanged == source = conv.identity

FinishRows ==
  /\ In("row") /\ Len(disk.dataPart.rows) = NRows
  /\ IF SourceUnchanged THEN ConvGoes("linkScale") ELSE ConvEnds("failed")
  /\ UNCHANGED <<source, disk, kills>>

\* publish_hard_link of the scales, then of the data; each removal of a partial
\* is a step of its own.
LinkScale ==
  /\ In("linkScale")
  /\ disk' = [disk EXCEPT !.scale = disk.scalePart]
  /\ ConvGoes("unlinkScale")
  /\ UNCHANGED <<source, kills>>

UnlinkScale ==
  /\ In("unlinkScale")
  /\ disk' = [disk EXCEPT !.scalePart = Absent]
  /\ ConvGoes("linkData")
  /\ UNCHANGED <<source, kills>>

LinkData ==
  /\ In("linkData")
  /\ disk' = [disk EXCEPT !.data = disk.dataPart]
  /\ ConvGoes("tidy")
  /\ UNCHANGED <<source, kills>>

\* remove_redundant_link, for what the publication or a kill left.
RemoveRedundantLinks ==
  /\ In("tidy")
  /\ disk' = [disk EXCEPT !.scalePart = Absent, !.dataPart = Absent]
  /\ ConvGoes("receipt")
  /\ UNCHANGED <<source, kills>>

\* build_receipt; publish_receipt replaces a partial receipt that is not the
\* one to be written.
BuildReceipt ==
  /\ In("receipt")
  /\ IF SourceUnchanged
       THEN /\ disk' = [disk EXCEPT !.receiptPart =
                            IF @.of = conv.identity THEN @ ELSE [there |-> TRUE, of |-> 0]]
            /\ ConvGoes("writeReceipt")
       ELSE ConvEnds("failed") /\ UNCHANGED disk
  /\ UNCHANGED <<source, kills>>

WriteReceipt ==
  /\ In("writeReceipt")
  /\ disk' = [disk EXCEPT !.receiptPart.of = conv.identity]
  /\ ConvGoes("linkReceipt")
  /\ UNCHANGED <<source, kills>>

LinkReceipt ==
  /\ In("linkReceipt")
  /\ disk' = [disk EXCEPT !.receipt = disk.receiptPart]
  /\ ConvGoes("unlinkReceipt")
  /\ UNCHANGED <<source, kills>>

UnlinkReceipt ==
  /\ In("unlinkReceipt")
  /\ disk' = [disk EXCEPT !.receiptPart = NoReceipt]
  /\ ConvEnds(IF source = conv.identity THEN "done" ELSE "failed")
  /\ UNCHANGED <<source, kills>>

ReplaceSource ==
  /\ source < MaxVersions
  /\ source' = source + 1
  /\ UNCHANGED <<disk, conv, kills>>

KillConversion ==
  /\ ~In("idle") /\ kills < MaxKills
  /\ kills' = kills + 1
  /\ ConvEnds("killed")
  /\ UNCHANGED <<source, disk>>

SNext ==
  \/ Preflight \/ VerifyReceipt \/ RefuseUnpaired \/ VerifyCompletePair \/ OpenPartials
  \/ WriteScale \/ WriteData \/ FinishRows \/ LinkScale \/ UnlinkScale \/ LinkData
  \/ RemoveRedundantLinks \/ BuildReceipt \/ WriteReceipt \/ LinkReceipt \/ UnlinkReceipt
  \/ ReplaceSource \/ KillConversion

SSpec == SInit /\ [][SNext]_svars

-----------------------------------------------------------------------------
\* A receipt vouches for two complete files computed from one version of the
\* source, the one it names, and a conversion that reports success has one for
\* the source of its preflight: kills, resumes and a source replaced at any
\* moment notwithstanding.
ReceiptIsTruthful ==
  /\ disk.receipt.there => /\ Whole(disk.data, disk.receipt.of)
                           /\ Whole(disk.scale, disk.receipt.of)
  /\ conv.result = "done" => disk.receipt.there /\ disk.receipt.of = conv.identity

\* As long as the source is not replaced, a conversion fails in no state a kill
\* can leave: every interruption can be resumed.
EveryKillIsResumable == source = 1 => conv.result # "failed"

\* A spine receipt vouches for two complete files computed from the one source
\* version it names (spine_int8.rs), and every kill of a conversion whose source
\* stays can be resumed.
SpineReceiptsAreTruthful == ReceiptIsTruthful /\ EveryKillIsResumable
=============================================================================
