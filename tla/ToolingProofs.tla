----------------------------- MODULE ToolingProofs -----------------------------
(***************************************************************************)
(* The machines that work on files outside a generation, for every value of *)
(* their bounds: the spine conversion vouches only for what it finished,    *)
(* the heat file counts every observation once, an upgrade that reports     *)
(* success built HEAD and kept its owner's work, a setup that passed its    *)
(* checks fits, and a published directory of pinned files is whole.         *)
(***************************************************************************)
EXTENDS SpineConvert, ExpertHeat, Upgrade, OneShotSetup, PinnedInstall, SequenceLemmas

-----------------------------------------------------------------------------
(* SpineConvert: the inductive invariant.                                    *)

TensorFiles == [there : BOOLEAN, rows : Seq(Nat)]
Receipts == [there : BOOLEAN, of : Nat]
Disks ==
  [data : TensorFiles, scale : TensorFiles, dataPart : TensorFiles, scalePart : TensorFiles,
   receipt : Receipts, receiptPart : Receipts]
Phases ==
  {"idle", "choose", "row", "linkScale", "unlinkScale", "linkData", "tidy", "receipt",
   "writeReceipt", "linkReceipt", "unlinkReceipt"}
Conversions ==
  [pc : Phases, identity : Nat \ {0}, result : {"none", "done", "failed", "killed"}]

Typed ==
  /\ source \in Nat \ {0} /\ disk \in Disks /\ conv \in Conversions /\ kills \in Nat
  /\ conv.identity <= source
  /\ Len(disk.dataPart.rows) <= NRows /\ Len(disk.scalePart.rows) <= NRows

\* Complete pairs of one version: still partial, half published, published.
Ready(d, n) == Whole(d.dataPart, n) /\ Whole(d.scalePart, n)
Half(d, n) == Whole(d.dataPart, n) /\ Whole(d.scale, n)
Pair(d, n) == Whole(d.data, n) /\ Whole(d.scale, n)

\* A receipt is only ever beside the pair it names.
Vouched ==
  disk.receipt.there => /\ conv.pc \in {"idle", "choose", "unlinkReceipt"}
                        /\ disk.receipt.of \in 1..source
                        /\ Pair(disk, disk.receipt.of)

\* Scales are published first, and only whole, with data of their version at
\* hand: there is always something to resume from.
Published ==
  /\ disk.data.there => disk.scale.there
  /\ disk.scale.there =>
       \E n \in 1..source : IF disk.data.there THEN Pair(disk, n) ELSE Half(disk, n)
  /\ disk.receiptPart.of # 0 => disk.receiptPart.there

\* The rows written so far, all of the version read if it still is there.
Growing(d) ==
  /\ ~d.scale.there /\ d.dataPart.there /\ d.scalePart.there
  /\ Len(d.dataPart.rows) <= Len(d.scalePart.rows)
  /\ Len(d.scalePart.rows) <= Len(d.dataPart.rows) + 1
  /\ source = conv.identity =>
       /\ \A r \in 1..Len(d.dataPart.rows) : d.dataPart.rows[r] = source
       /\ \A r \in 1..Len(d.scalePart.rows) : d.scalePart.rows[r] = source

\* What a running conversion knows in each phase.
Phase ==
  /\ conv.pc = "row" => Growing(disk)
  /\ conv.pc = "linkScale" => ~disk.scale.there /\ Ready(disk, conv.identity)
  /\ conv.pc \in {"unlinkScale", "linkData"} => Half(disk, conv.identity)
  /\ conv.pc \in {"tidy", "receipt", "writeReceipt", "linkReceipt", "unlinkReceipt"} =>
       Pair(disk, conv.identity)
  /\ conv.pc = "writeReceipt" => disk.receiptPart.there
  /\ conv.pc = "linkReceipt" => disk.receiptPart.there /\ disk.receiptPart.of = conv.identity
  /\ conv.pc = "unlinkReceipt" => disk.receipt.there /\ disk.receipt.of = conv.identity

Ended ==
  /\ conv.pc # "idle" => conv.result = "none"
  /\ conv.result = "done" => disk.receipt.there /\ disk.receipt.of = conv.identity
  /\ source = 1 => conv.result # "failed"

ConvInv == Typed /\ Vouched /\ Published /\ Phase /\ Ended

-----------------------------------------------------------------------------
(* Operators.                                                                *)

\* A whole file of two versions has no rows to tell them apart by.
LEMMA WholeRows ==
  ASSUME NEW f \in TensorFiles, NEW n \in Nat, Whole(f, n)
  PROVE  f.there /\ Len(f.rows) = NRows /\ \A r \in 1..NRows : f.rows[r] = n
BY SpineAssumption DEF Whole, TensorFiles

\* A file whose rows are all there and all of one version is whole.
LEMMA RowsWhole ==
  ASSUME NEW f \in TensorFiles, NEW n \in Nat, f.there, Len(f.rows) = NRows,
         \A r \in 1..NRows : f.rows[r] = n
  PROVE  Whole(f, n)
BY SpineAssumption DEF Whole, TensorFiles

\* The rows a resumed conversion keeps: rows that both partials have of this
\* version, from the first one on.
Keepable(a, b, n, k) ==
  /\ k \in Nat /\ k <= Len(a) /\ k <= Len(b)
  /\ \A r \in 1..k : a[r] = n /\ b[r] = n

LEMMA KeptRows ==
  ASSUME NEW a \in Seq(Nat), NEW b \in Seq(Nat), NEW n \in Nat
  PROVE  Keepable(a, b, n, VerifiedRows(a, b, n))
<1> DEFINE c == Common(a, b)
           Good(k) == \A r \in 1..k : a[r] = n /\ b[r] = n
           T == {k \in Nat : k <= c /\ ~(k < c /\ Good(k + 1))}
<1>1. c \in Nat /\ c <= Len(a) /\ c <= Len(b)
  BY DEF Common
<1>2. PICK m \in T : \A k \in T : m <= k
  <2>1. c \in T /\ T \subseteq Nat
    BY <1>1
  <2> HIDE DEF T
  <2> QED BY <2>1, LeastNatural
<1>3. Good(m)
  <2>1. CASE m = 0
    BY <2>1
  <2>2. CASE m # 0
    <3>1. m - 1 \in Nat /\ m - 1 \notin T /\ m - 1 < c
      BY <1>1, <1>2, <2>2
    <3>2. (m - 1) + 1 = m /\ m - 1 <= c
      BY <1>1, <1>2, <3>1
    <3> HIDE DEF Good
    <3>3. Good((m - 1) + 1)
      BY <3>1, <3>2
    <3> QED BY <3>2, <3>3
  <2> QED BY <2>1, <2>2
<1>4. m \in 0..c /\ Good(m) /\ (m = c \/ ~Good(m + 1))
  BY <1>1, <1>2, <1>3
<1>5. VerifiedRows(a, b, n) = CHOOSE k \in 0..c : Good(k) /\ (k = c \/ ~Good(k + 1))
  BY DEF VerifiedRows
<1> HIDE DEF Good, T, c
<1>6. VerifiedRows(a, b, n) \in 0..c /\ Good(VerifiedRows(a, b, n))
  BY <1>4, <1>5
<1>7. PICK k : k = VerifiedRows(a, b, n)
  OBVIOUS
<1> QED BY <1>1, <1>6, <1>7 DEF Good, Keepable

\* The first rows of a file.
LEMMA FirstRows ==
  ASSUME NEW s \in Seq(Nat), NEW k \in Nat, k <= Len(s)
  PROVE  SubSeq(s, 1, k) \in Seq(Nat) /\ Len(SubSeq(s, 1, k)) = k
         /\ \A r \in 1..k : SubSeq(s, 1, k)[r] = s[r]
BY LenProperties, SubSeqProperties

\* One more row of the same version.
LEMMA OneMoreRow ==
  ASSUME NEW s \in Seq(Nat), NEW x \in Nat, NEW n, x = n,
         \A r \in 1..Len(s) : s[r] = n
  PROVE  \A r \in 1..Len(Append(s, x)) : Append(s, x)[r] = n
<1>1. SUFFICES ASSUME NEW r \in 1..Len(Append(s, x)) PROVE Append(s, x)[r] = n
  OBVIOUS
<1>2. CASE r \in 1..Len(s)
  BY <1>2
<1>3. CASE r = Len(s) + 1
  BY <1>3
<1> QED BY <1>2, <1>3

\* A file written with these rows.
LEMMA FileOf ==
  ASSUME NEW s \in Seq(Nat)
  PROVE  File(s) \in TensorFiles /\ File(s).there /\ File(s).rows = s
BY DEF File, TensorFiles

-----------------------------------------------------------------------------
(* Steps that leave the disk alone.                                          *)

\* What a running conversion finds before it starts is what its end reports.
LEMMA PreflightKeeps == ConvInv /\ Preflight => ConvInv'
<1> SUFFICES ASSUME ConvInv, Preflight PROVE ConvInv'
  OBVIOUS
<1>1. UNCHANGED <<source, disk, kills>>
  BY DEF Preflight
<1>2. conv'.pc = "choose" /\ conv'.identity = source /\ conv'.result = "none"
  BY DEF Preflight
<1>3. Typed'
  BY <1>1 DEF Preflight, ConvInv, Typed, Conversions, Phases
<1>4. Vouched'
  BY <1>1, <1>2 DEF ConvInv, Vouched, Pair, Whole
<1>5. Published'
  BY <1>1 DEF ConvInv, Published, Pair, Half, Whole
<1>6. Phase' /\ Ended'
  BY <1>1, <1>2 DEF Phase, Ended
<1> QED BY <1>3, <1>4, <1>5, <1>6 DEF ConvInv

\* The end of a conversion: nothing on disk changes, and the result is earned.
LEMMA ConversionEnds ==
  ASSUME ConvInv, UNCHANGED <<source, disk>>, kills' \in Nat, ~In("idle"),
         NEW r \in {"done", "failed", "killed"}, ConvEnds(r),
         r = "done" => disk.receipt.there /\ disk.receipt.of = conv.identity,
         source = 1 => r # "failed"
  PROVE  ConvInv'
<1>1. conv'.pc = "idle" /\ conv'.identity = conv.identity /\ conv'.result = r
  BY DEF ConvEnds, ConvInv, Typed, Conversions
<1>2. Typed'
  BY DEF ConvEnds, ConvInv, Typed, Conversions, Phases
<1>3. Vouched'
  BY <1>1 DEF ConvInv, Vouched, Pair, Whole
<1>4. Published'
  BY DEF ConvInv, Published, Pair, Half, Whole
<1>5. Phase' /\ Ended'
  BY <1>1 DEF Phase, Ended
<1> QED BY <1>2, <1>3, <1>4, <1>5 DEF ConvInv

LEMMA VerifyReceiptKeeps == ConvInv /\ VerifyReceipt => ConvInv'
<1> SUFFICES ASSUME ConvInv, VerifyReceipt PROVE ConvInv'
  OBVIOUS
<1>1. disk.receipt.there /\ In("choose") /\ UNCHANGED <<source, disk, kills>>
  BY DEF VerifyReceipt
<1>2. disk.receipt.of \in 1..source /\ conv.identity \in 1..source /\ kills \in Nat
  BY <1>1 DEF ConvInv, Vouched, Typed, Conversions
<1>3. ~In("idle")
  BY <1>1 DEF In
<1>4. CASE disk.receipt.of = conv.identity /\ source = conv.identity
  <2>1. ConvEnds("done")
    BY <1>4 DEF VerifyReceipt
  <2> QED BY <2>1, <1>1, <1>2, <1>3, <1>4, ConversionEnds
<1>5. CASE ~(disk.receipt.of = conv.identity /\ source = conv.identity)
  <2>1. ConvEnds("failed") /\ source # 1
    BY <1>2, <1>5 DEF VerifyReceipt
  <2> QED BY <2>1, <1>1, <1>2, <1>3, ConversionEnds
<1> QED BY <1>4, <1>5

LEMMA RefuseUnpairedKeeps == ConvInv /\ RefuseUnpaired => ConvInv'
<1>1. ~(ConvInv /\ RefuseUnpaired)
  BY DEF ConvInv, Published, RefuseUnpaired, Unpaired, Half, Whole
<1> QED BY <1>1

LEMMA VerifyCompletePairKeeps == ConvInv /\ VerifyCompletePair => ConvInv'
<1> SUFFICES ASSUME ConvInv, VerifyCompletePair PROVE ConvInv'
  OBVIOUS
<1> DEFINE data == IF disk.data.there THEN disk.data ELSE disk.dataPart
           fits == Whole(data, source) /\ Whole(disk.scale, source) /\ source = conv.identity
<1>1. /\ UNCHANGED <<source, disk, kills>> /\ In("choose")
      /\ ~disk.receipt.there /\ disk.scale.there
  BY DEF VerifyCompletePair
<1>2. kills \in Nat /\ ~In("idle") /\ source \in Nat /\ conv.identity \in 1..source
  BY <1>1 DEF ConvInv, Typed, Conversions, In
<1>3. CASE ~fits
  <2>1. ConvEnds("failed")
    BY <1>3 DEF VerifyCompletePair
  <2>2. source # 1
    <3>1. SUFFICES ASSUME source = 1 PROVE fits
      BY <1>3
    <3>2. PICK n \in 1..source : IF disk.data.there THEN Pair(disk, n) ELSE Half(disk, n)
      BY <1>1 DEF ConvInv, Published
    <3>3. n = source /\ source = conv.identity
      BY <1>2, <3>1
    <3> QED BY <3>2, <3>3 DEF Pair, Half
  <2> QED BY <2>1, <2>2, <1>1, <1>2, ConversionEnds
<1>4. CASE fits
  <2>1. ConvGoes(IF disk.data.there THEN "tidy" ELSE "linkData")
    BY <1>4 DEF VerifyCompletePair
  <2>2. /\ conv'.pc = IF disk.data.there THEN "tidy" ELSE "linkData"
        /\ conv'.identity = conv.identity /\ conv'.result = conv.result
    BY <2>1 DEF ConvGoes, ConvInv, Typed, Conversions
  <2>3. Typed'
    BY <1>1, <2>1 DEF ConvGoes, ConvInv, Typed, Conversions, Phases
  <2>4. Vouched'
    BY <1>1 DEF Vouched
  <2>5. Published'
    BY <1>1 DEF ConvInv, Published, Pair, Half, Whole
  <2>6. Phase'
    <3>1. IF disk.data.there THEN Pair(disk, conv.identity) ELSE Half(disk, conv.identity)
      BY <1>4 DEF Pair, Half
    <3>2. IF disk'.data.there THEN Pair(disk', conv'.identity) ELSE Half(disk', conv'.identity)
      BY <1>1, <2>2, <3>1
    <3> QED BY <1>1, <2>2, <3>2 DEF Phase
  <2>7. Ended'
    BY <1>1, <2>2 DEF ConvInv, Ended, In
  <2> QED BY <2>3, <2>4, <2>5, <2>6, <2>7 DEF ConvInv
<1> QED BY <1>3, <1>4

LEMMA FinishRowsKeeps == ConvInv /\ FinishRows => ConvInv'
<1> SUFFICES ASSUME ConvInv, FinishRows PROVE ConvInv'
  OBVIOUS
<1>1. /\ UNCHANGED <<source, disk, kills>> /\ In("row")
      /\ Len(disk.dataPart.rows) = NRows /\ Growing(disk)
  BY DEF FinishRows, ConvInv, Phase, In
<1>2. kills \in Nat /\ ~In("idle") /\ source \in Nat /\ conv.identity \in 1..source
  BY <1>1 DEF ConvInv, Typed, Conversions, In
<1>3. CASE source # conv.identity
  <2>1. ConvEnds("failed") /\ source # 1
    BY <1>2, <1>3 DEF FinishRows, SourceUnchanged
  <2> QED BY <2>1, <1>1, <1>2, ConversionEnds
<1>4. CASE source = conv.identity
  <2>1. ConvGoes("linkScale")
    BY <1>4 DEF FinishRows, SourceUnchanged
  <2>2. conv'.pc = "linkScale" /\ conv'.identity = conv.identity /\ conv'.result = conv.result
    BY <2>1 DEF ConvGoes, ConvInv, Typed, Conversions
  <2>3. Typed'
    BY <1>1, <2>1 DEF ConvGoes, ConvInv, Typed, Conversions, Phases
  <2>4. Vouched'
    BY <1>1, <2>2 DEF ConvInv, Vouched, In
  <2>5. Published'
    BY <1>1 DEF ConvInv, Published, Pair, Half, Whole
  <2>6. Phase'
    <3>1. disk.dataPart \in TensorFiles /\ disk.scalePart \in TensorFiles /\ NRows \in Nat
      BY SpineAssumption DEF ConvInv, Typed, Disks
    <3>2. Len(disk.scalePart.rows) = NRows
      <4>1. Len(disk.scalePart.rows) <= NRows /\ Len(disk.scalePart.rows) \in Nat
        BY <3>1 DEF ConvInv, Typed, TensorFiles
      <4> QED BY <1>1, <3>1, <4>1 DEF Growing
    <3>3. Ready(disk, source)
      BY <1>1, <1>2, <1>4, <3>1, <3>2, RowsWhole DEF Growing, Ready
    <3>4. ~disk'.scale.there /\ Ready(disk', conv'.identity)
      BY <1>1, <1>4, <2>2, <3>3 DEF Growing
    <3> QED BY <2>2, <3>4 DEF Phase
  <2>7. Ended'
    BY <1>1, <2>2 DEF ConvInv, Ended, In
  <2> QED BY <2>3, <2>4, <2>5, <2>6, <2>7 DEF ConvInv
<1> QED BY <1>3, <1>4

LEMMA KillKeeps == ConvInv /\ KillConversion => ConvInv'
<1> SUFFICES ASSUME ConvInv, KillConversion PROVE ConvInv'
  OBVIOUS
<1>1. kills' \in Nat /\ ~In("idle") /\ UNCHANGED <<source, disk>> /\ ConvEnds("killed")
  BY DEF KillConversion, ConvInv, Typed
<1> QED BY <1>1, ConversionEnds

\* A new version of the source leaves what is on disk as true as it was.
LEMMA ReplaceKeeps == ConvInv /\ ReplaceSource => ConvInv'
<1> SUFFICES ASSUME ConvInv, ReplaceSource PROVE ConvInv'
  OBVIOUS
<1>1. UNCHANGED <<disk, conv, kills>> /\ source' = source + 1
  BY DEF ReplaceSource
<1>2. source \in Nat \ {0} /\ conv.identity \in Nat \ {0} /\ conv.identity <= source
  BY DEF ConvInv, Typed, Conversions
<1>3. Typed'
  BY <1>1, <1>2 DEF ConvInv, Typed
<1>4. 1..source \subseteq 1..source'
  BY <1>1, <1>2
<1>5. Vouched'
  BY <1>1, <1>4 DEF ConvInv, Vouched
<1>6. Published'
  BY <1>1, <1>4 DEF ConvInv, Published
<1>7. Phase'
  <2>1. source' # conv'.identity
    BY <1>1, <1>2
  <2>2. Growing(disk) => Growing(disk)'
    BY <1>1, <2>1 DEF Growing
  <2> QED BY <1>1, <2>2 DEF ConvInv, Phase
<1>8. Ended'
  <2>1. source' # 1
    BY <1>1, <1>2
  <2> QED BY <1>1, <2>1 DEF ConvInv, Ended
<1> QED BY <1>3, <1>5, <1>6, <1>7, <1>8 DEF ConvInv

-----------------------------------------------------------------------------
(* Growing the partials.                                                     *)

LEMMA OpenPartialsKeeps == ConvInv /\ OpenPartials => ConvInv'
<1> SUFFICES ASSUME ConvInv, OpenPartials PROVE ConvInv'
  OBVIOUS
<1> DEFINE a == disk.dataPart.rows
           b == disk.scalePart.rows
           keep == VerifiedRows(a, b, source)
<1>1. /\ UNCHANGED <<source, kills>> /\ In("choose")
      /\ ~disk.receipt.there /\ ~disk.scale.there
  BY DEF OpenPartials
<1>2. /\ kills \in Nat /\ ~In("idle") /\ source \in Nat /\ conv.identity \in 1..source
      /\ a \in Seq(Nat) /\ b \in Seq(Nat) /\ disk \in Disks /\ NRows \in Nat
      /\ Len(a) <= NRows /\ Len(b) <= NRows
  BY <1>1, SpineAssumption DEF ConvInv, Typed, Conversions, In, Disks, TensorFiles
<1>3. CASE source # conv.identity
  <2>1. ConvEnds("failed") /\ UNCHANGED disk
    BY <1>3 DEF OpenPartials
  <2>2. source # 1
    BY <1>2, <1>3
  <2> QED BY <2>1, <2>2, <1>1, <1>2, ConversionEnds
<1>4. CASE source = conv.identity
  <2>1. /\ keep \in Nat /\ keep <= Len(a) /\ keep <= Len(b)
        /\ \A r \in 1..keep : a[r] = source /\ b[r] = source
    <3>1. Keepable(a, b, source, keep)
      BY <1>2, KeptRows
    <3> HIDE DEF keep
    <3> QED BY <3>1 DEF Keepable
  <2> HIDE DEF keep
  <2>2. PICK p : p = SubSeq(a, 1, keep)
    OBVIOUS
  <2>3. PICK q : q = SubSeq(b, 1, keep)
    OBVIOUS
  <2>4. /\ p \in Seq(Nat) /\ Len(p) = keep /\ \A r \in 1..keep : p[r] = source
        /\ q \in Seq(Nat) /\ Len(q) = keep /\ \A r \in 1..keep : q[r] = source
    BY <1>2, <2>1, <2>2, <2>3, FirstRows
  <2>5. ConvGoes("row") /\ disk' = [disk EXCEPT !.dataPart = File(p), !.scalePart = File(q)]
    BY <1>4, <2>2, <2>3 DEF OpenPartials, keep
  <2>6. PICK f \in TensorFiles : f = File(p) /\ f.there /\ f.rows = p
    BY <2>4, FileOf
  <2>7. PICK g \in TensorFiles : g = File(q) /\ g.there /\ g.rows = q
    BY <2>4, FileOf
  <2>8. /\ disk' \in Disks /\ disk'.dataPart = f /\ disk'.scalePart = g
        /\ disk'.data = disk.data /\ disk'.scale = disk.scale
        /\ disk'.receipt = disk.receipt /\ disk'.receiptPart = disk.receiptPart
    BY <1>2, <2>5, <2>6, <2>7 DEF Disks
  <2>9. conv'.pc = "row" /\ conv'.identity = conv.identity /\ conv'.result = conv.result
    BY <2>5 DEF ConvGoes, ConvInv, Typed, Conversions
  <2>10. Typed'
    <3>1. conv' \in Conversions
      BY <2>5 DEF ConvGoes, ConvInv, Typed, Conversions, Phases
    <3>2. keep <= NRows
      BY <1>2, <2>1
    <3>3. source' \in Nat \ {0} /\ kills' \in Nat /\ conv'.identity <= source'
      BY <1>1, <2>9 DEF ConvInv, Typed
    <3> QED BY <3>1, <3>2, <3>3, <2>4, <2>6, <2>7, <2>8 DEF Typed
  <2>11. Vouched' /\ Published'
    BY <1>1, <2>8 DEF ConvInv, Vouched, Published
  <2>12. Phase'
    <3>1. Growing(disk)'
      BY <1>1, <2>1, <2>4, <2>6, <2>7, <2>8 DEF Growing
    <3> QED BY <2>9, <3>1 DEF Phase
  <2>13. Ended'
    BY <1>1, <2>8, <2>9 DEF ConvInv, Ended, In
  <2> QED BY <2>10, <2>11, <2>12, <2>13 DEF ConvInv
<1> QED BY <1>3, <1>4

LEMMA WriteScaleKeeps == ConvInv /\ WriteScale => ConvInv'
<1> SUFFICES ASSUME ConvInv, WriteScale PROVE ConvInv'
  OBVIOUS
<1> DEFINE a == disk.dataPart.rows
           b == disk.scalePart.rows
<1>1. /\ UNCHANGED <<source, conv, kills>> /\ In("row") /\ Growing(disk)
      /\ Len(b) < NRows /\ Len(b) = Len(a)
  BY DEF WriteScale, ConvInv, Phase, In
<1>2. /\ a \in Seq(Nat) /\ b \in Seq(Nat) /\ disk \in Disks /\ source \in Nat /\ NRows \in Nat
      /\ disk.scalePart \in TensorFiles /\ Len(b) \in Nat
  BY SpineAssumption DEF ConvInv, Typed, Disks, TensorFiles
<1>3. PICK g : g = [disk.scalePart EXCEPT !.rows = Append(b, source)]
  OBVIOUS
<1>4. disk' = [disk EXCEPT !.scalePart = g]
  BY <1>3 DEF WriteScale
<1>5. PICK q : q = Append(b, source)
  OBVIOUS
<1>6. /\ q \in Seq(Nat) /\ Len(q) = Len(b) + 1 /\ q[Len(b) + 1] = source
      /\ \A r \in 1..Len(b) : q[r] = b[r]
  BY <1>2, <1>5
<1>7. g \in TensorFiles /\ g.there = disk.scalePart.there /\ g.rows = q
  BY <1>2, <1>3, <1>5, <1>6 DEF TensorFiles
<1>8. /\ disk' \in Disks /\ disk'.dataPart = disk.dataPart /\ disk'.scalePart = g
      /\ disk'.data = disk.data /\ disk'.scale = disk.scale
      /\ disk'.receipt = disk.receipt /\ disk'.receiptPart = disk.receiptPart
  BY <1>2, <1>4, <1>7 DEF Disks
<1>9. Typed'
  <2>1. Len(q) <= NRows
    BY <1>1, <1>2, <1>6
  <2> QED BY <1>1, <1>7, <1>8, <2>1 DEF ConvInv, Typed
<1>10. Vouched' /\ Published' /\ Ended'
  BY <1>1, <1>8 DEF ConvInv, Vouched, Published, Ended, In, Growing
<1>11. Phase'
  <2>1. source = conv.identity => \A r \in 1..Len(q) : q[r] = source
    BY <1>1, <1>2, <1>5, OneMoreRow DEF Growing
  <2>2. Len(a) <= Len(q) /\ Len(q) <= Len(a) + 1
    BY <1>1, <1>2, <1>6
  <2>3. Growing(disk)'
    <3>1. /\ ~disk.scale.there /\ disk.dataPart.there /\ disk.scalePart.there
          /\ source = conv.identity => \A r \in 1..Len(a) : a[r] = source
      BY <1>1 DEF Growing
    <3>2. g.there /\ g.rows = q
      BY <1>1, <1>7 DEF Growing
    <3>3. source' = source /\ conv' = conv
      BY <1>1
    <3> QED BY <1>8, <2>1, <2>2, <3>1, <3>2, <3>3 DEF Growing
  <2> QED BY <1>1, <2>3 DEF Phase, In
<1> QED BY <1>9, <1>10, <1>11 DEF ConvInv

LEMMA WriteDataKeeps == ConvInv /\ WriteData => ConvInv'
<1> SUFFICES ASSUME ConvInv, WriteData PROVE ConvInv'
  OBVIOUS
<1> DEFINE a == disk.dataPart.rows
           b == disk.scalePart.rows
<1>1. UNCHANGED <<source, conv, kills>> /\ In("row") /\ Growing(disk) /\ Len(b) > Len(a)
  BY DEF WriteData, ConvInv, Phase, In
<1>2. /\ a \in Seq(Nat) /\ b \in Seq(Nat) /\ disk \in Disks /\ source \in Nat /\ NRows \in Nat
      /\ disk.dataPart \in TensorFiles /\ Len(b) \in Nat /\ Len(a) \in Nat /\ Len(b) <= NRows
  BY SpineAssumption DEF ConvInv, Typed, Disks, TensorFiles
<1>3. PICK g : g = [disk.dataPart EXCEPT !.rows = Append(a, b[Len(a) + 1])]
  OBVIOUS
<1>4. disk' = [disk EXCEPT !.dataPart = g]
  BY <1>3 DEF WriteData
<1>5. PICK q : q = Append(a, b[Len(a) + 1])
  OBVIOUS
<1>6. /\ q \in Seq(Nat) /\ Len(q) = Len(a) + 1 /\ q[Len(a) + 1] = b[Len(a) + 1]
      /\ \A r \in 1..Len(a) : q[r] = a[r]
  <2>1. b[Len(a) + 1] \in Nat
    <3>1. Len(a) + 1 \in 1..Len(b)
      BY <1>1, <1>2
    <3> HIDE DEF a
    <3> QED BY <1>2, <3>1
  <2> QED BY <1>2, <1>5, <2>1
<1>7. g \in TensorFiles /\ g.there = disk.dataPart.there /\ g.rows = q
  BY <1>2, <1>3, <1>5, <1>6 DEF TensorFiles
<1>8. /\ disk' \in Disks /\ disk'.dataPart = g /\ disk'.scalePart = disk.scalePart
      /\ disk'.data = disk.data /\ disk'.scale = disk.scale
      /\ disk'.receipt = disk.receipt /\ disk'.receiptPart = disk.receiptPart
  BY <1>2, <1>4, <1>7 DEF Disks
<1>9. Typed'
  <2>1. Len(q) <= NRows
    BY <1>1, <1>2, <1>6
  <2> QED BY <1>1, <1>7, <1>8, <2>1 DEF ConvInv, Typed
<1>10. Vouched' /\ Published' /\ Ended'
  BY <1>1, <1>8 DEF ConvInv, Vouched, Published, Ended, In, Growing
<1>11. Phase'
  <2>1. source = conv.identity => \A r \in 1..Len(q) : q[r] = source
    <3>1. SUFFICES ASSUME source = conv.identity PROVE \A r \in 1..Len(q) : q[r] = source
      OBVIOUS
    <3>2. Len(a) + 1 \in 1..Len(b)
      BY <1>1, <1>2
    <3>3. b[Len(a) + 1] = source /\ \A r \in 1..Len(a) : a[r] = source
      BY <1>1, <3>1, <3>2 DEF Growing
    <3>4. PICK x \in Nat : x = b[Len(a) + 1]
      BY <1>2, <3>3
    <3>5. q = Append(a, x) /\ x = source
      BY <1>5, <3>3, <3>4
    <3> HIDE DEF a, b
    <3> QED BY <1>2, <3>3, <3>5, OneMoreRow
  <2>2. Len(q) <= Len(b) /\ Len(b) <= Len(q) + 1
    BY <1>1, <1>2, <1>6 DEF Growing
  <2>3. Growing(disk)'
    <3>1. /\ ~disk.scale.there /\ disk.scalePart.there
          /\ source = conv.identity => \A r \in 1..Len(b) : b[r] = source
      BY <1>1 DEF Growing
    <3>2. g.there /\ g.rows = q
      BY <1>1, <1>7 DEF Growing
    <3>3. source' = source /\ conv' = conv
      BY <1>1
    <3> QED BY <1>8, <2>1, <2>2, <3>1, <3>2, <3>3 DEF Growing
  <2> QED BY <1>1, <2>3 DEF Phase, In
<1> QED BY <1>9, <1>10, <1>11 DEF ConvInv

-----------------------------------------------------------------------------
(* Publishing the pair.                                                      *)

\* What a step from one phase to the next leaves of the running conversion.
LEMMA GoesOn ==
  ASSUME ConvInv, NEW pc \in Phases, ConvGoes(pc), ~In("idle")
  PROVE  /\ conv' \in Conversions /\ conv'.pc = pc /\ conv'.identity = conv.identity
         /\ conv'.result = "none"
BY DEF ConvGoes, ConvInv, Typed, Conversions, Ended, In

LEMMA LinkScaleKeeps == ConvInv /\ LinkScale => ConvInv'
<1> SUFFICES ASSUME ConvInv, LinkScale PROVE ConvInv'
  OBVIOUS
<1>1. /\ UNCHANGED <<source, kills>> /\ In("linkScale") /\ ConvGoes("unlinkScale")
      /\ disk' = [disk EXCEPT !.scale = disk.scalePart]
      /\ ~disk.scale.there /\ Ready(disk, conv.identity)
  BY DEF LinkScale, ConvInv, Phase, In
<1>2. /\ conv' \in Conversions /\ conv'.pc = "unlinkScale" /\ conv'.identity = conv.identity
      /\ conv'.result = "none"
  BY <1>1, GoesOn DEF Phases, In
<1>3. disk \in Disks /\ conv.identity \in 1..source
  BY DEF ConvInv, Typed, Conversions
<1>4. /\ disk' \in Disks /\ disk'.dataPart = disk.dataPart /\ disk'.scalePart = disk.scalePart
      /\ disk'.data = disk.data /\ disk'.scale = disk.scalePart
      /\ disk'.receipt = disk.receipt /\ disk'.receiptPart = disk.receiptPart
  BY <1>1, <1>3 DEF Disks
<1>5. Typed'
  BY <1>1, <1>2, <1>4 DEF ConvInv, Typed
<1>6. Half(disk', conv.identity) /\ ~disk.data.there /\ ~disk.receipt.there
  BY <1>1, <1>4 DEF ConvInv, Ready, Half, Whole, Published, Vouched, In
<1>7. Vouched' /\ Published'
  BY <1>1, <1>3, <1>4, <1>6 DEF ConvInv, Vouched, Published
<1>8. Phase' /\ Ended'
  BY <1>2, <1>6 DEF Phase, Ended
<1> QED BY <1>5, <1>7, <1>8 DEF ConvInv

LEMMA UnlinkScaleKeeps == ConvInv /\ UnlinkScale => ConvInv'
<1> SUFFICES ASSUME ConvInv, UnlinkScale PROVE ConvInv'
  OBVIOUS
<1>1. /\ UNCHANGED <<source, kills>> /\ In("unlinkScale") /\ ConvGoes("linkData")
      /\ disk' = [disk EXCEPT !.scalePart = Absent]
      /\ Half(disk, conv.identity)
  BY DEF UnlinkScale, ConvInv, Phase, In
<1>2. /\ conv' \in Conversions /\ conv'.pc = "linkData" /\ conv'.identity = conv.identity
      /\ conv'.result = "none"
  BY <1>1, GoesOn DEF Phases, In
<1>3. disk \in Disks /\ conv.identity \in 1..source
  BY DEF ConvInv, Typed, Conversions
<1>4. Absent \in TensorFiles /\ ~Absent.there /\ Absent.rows = <<>>
  BY DEF Absent, TensorFiles
<1>5. /\ disk' \in Disks /\ disk'.dataPart = disk.dataPart /\ disk'.scalePart = Absent
      /\ disk'.data = disk.data /\ disk'.scale = disk.scale
      /\ disk'.receipt = disk.receipt /\ disk'.receiptPart = disk.receiptPart
  BY <1>1, <1>3, <1>4 DEF Disks
<1>6. Typed'
  BY <1>1, <1>2, <1>4, <1>5, SpineAssumption DEF ConvInv, Typed
<1>7. Vouched' /\ Published'
  BY <1>1, <1>5 DEF ConvInv, Vouched, Published, In, Pair, Half
<1>8. Phase' /\ Ended'
  BY <1>1, <1>2, <1>5 DEF Phase, Ended, Half
<1> QED BY <1>6, <1>7, <1>8 DEF ConvInv

LEMMA LinkDataKeeps == ConvInv /\ LinkData => ConvInv'
<1> SUFFICES ASSUME ConvInv, LinkData PROVE ConvInv'
  OBVIOUS
<1>1. /\ UNCHANGED <<source, kills>> /\ In("linkData") /\ ConvGoes("tidy")
      /\ disk' = [disk EXCEPT !.data = disk.dataPart]
      /\ Half(disk, conv.identity)
  BY DEF LinkData, ConvInv, Phase, In
<1>2. /\ conv' \in Conversions /\ conv'.pc = "tidy" /\ conv'.identity = conv.identity
      /\ conv'.result = "none"
  BY <1>1, GoesOn DEF Phases, In
<1>3. disk \in Disks /\ conv.identity \in 1..source
  BY DEF ConvInv, Typed, Conversions
<1>4. /\ disk' \in Disks /\ disk'.dataPart = disk.dataPart /\ disk'.scalePart = disk.scalePart
      /\ disk'.data = disk.dataPart /\ disk'.scale = disk.scale
      /\ disk'.receipt = disk.receipt /\ disk'.receiptPart = disk.receiptPart
  BY <1>1, <1>3 DEF Disks
<1>5. Typed'
  BY <1>1, <1>2, <1>4 DEF ConvInv, Typed
<1>6. Pair(disk', conv.identity) /\ disk'.data.there /\ disk'.scale.there
  BY <1>1, <1>4 DEF Half, Pair, Whole
<1>7. Vouched' /\ Published'
  BY <1>1, <1>3, <1>4, <1>6 DEF ConvInv, Vouched, Published, In
<1>8. Phase' /\ Ended'
  BY <1>2, <1>6 DEF Phase, Ended
<1> QED BY <1>5, <1>7, <1>8 DEF ConvInv

LEMMA RemoveRedundantLinksKeeps == ConvInv /\ RemoveRedundantLinks => ConvInv'
<1> SUFFICES ASSUME ConvInv, RemoveRedundantLinks PROVE ConvInv'
  OBVIOUS
<1>1. /\ UNCHANGED <<source, kills>> /\ In("tidy") /\ ConvGoes("receipt")
      /\ disk' = [disk EXCEPT !.scalePart = Absent, !.dataPart = Absent]
      /\ Pair(disk, conv.identity)
  BY DEF RemoveRedundantLinks, ConvInv, Phase, In
<1>2. /\ conv' \in Conversions /\ conv'.pc = "receipt" /\ conv'.identity = conv.identity
      /\ conv'.result = "none"
  BY <1>1, GoesOn DEF Phases, In
<1>3. disk \in Disks /\ conv.identity \in 1..source
  BY DEF ConvInv, Typed, Conversions
<1>4. Absent \in TensorFiles /\ ~Absent.there /\ Absent.rows = <<>>
  BY DEF Absent, TensorFiles
<1>5. /\ disk' \in Disks /\ disk'.dataPart = Absent /\ disk'.scalePart = Absent
      /\ disk'.data = disk.data /\ disk'.scale = disk.scale
      /\ disk'.receipt = disk.receipt /\ disk'.receiptPart = disk.receiptPart
  BY <1>1, <1>3, <1>4 DEF Disks
<1>6. Typed'
  BY <1>1, <1>2, <1>4, <1>5, SpineAssumption DEF ConvInv, Typed
<1>7. Pair(disk', conv.identity) /\ disk'.data.there /\ disk'.scale.there
  BY <1>1, <1>5 DEF Pair, Whole
<1>8. Vouched' /\ Published'
  BY <1>1, <1>3, <1>5, <1>7 DEF ConvInv, Vouched, Published, In
<1>9. Phase' /\ Ended'
  BY <1>2, <1>7 DEF Phase, Ended
<1> QED BY <1>6, <1>8, <1>9 DEF ConvInv

-----------------------------------------------------------------------------
(* The receipt.                                                              *)

LEMMA BuildReceiptKeeps == ConvInv /\ BuildReceipt => ConvInv'
<1> SUFFICES ASSUME ConvInv, BuildReceipt PROVE ConvInv'
  OBVIOUS
<1>1. UNCHANGED <<source, kills>> /\ In("receipt") /\ Pair(disk, conv.identity)
  BY DEF BuildReceipt, ConvInv, Phase, In
<1>2. /\ disk \in Disks /\ conv.identity \in 1..source /\ kills \in Nat /\ source \in Nat
      /\ ~In("idle") /\ disk.receiptPart \in Receipts
  BY <1>1 DEF ConvInv, Typed, Conversions, In, Disks
<1>3. CASE source # conv.identity
  <2>1. ConvEnds("failed") /\ UNCHANGED disk /\ source # 1
    BY <1>2, <1>3 DEF BuildReceipt, SourceUnchanged
  <2> QED BY <2>1, <1>1, <1>2, ConversionEnds
<1>4. CASE source = conv.identity
  <2> DEFINE part == IF disk.receiptPart.of = conv.identity THEN disk.receiptPart
                     ELSE [there |-> TRUE, of |-> 0]
  <2>1. ConvGoes("writeReceipt") /\ disk' = [disk EXCEPT !.receiptPart = part]
    BY <1>4 DEF BuildReceipt, SourceUnchanged
  <2>2. part \in Receipts /\ part.there
    BY <1>2 DEF ConvInv, Published, Receipts
  <2> HIDE DEF part
  <2>3. /\ conv' \in Conversions /\ conv'.pc = "writeReceipt" /\ conv'.identity = conv.identity
        /\ conv'.result = "none"
    BY <1>2, <2>1, GoesOn DEF Phases
  <2>4. /\ disk' \in Disks /\ disk'.dataPart = disk.dataPart /\ disk'.scalePart = disk.scalePart
        /\ disk'.data = disk.data /\ disk'.scale = disk.scale
        /\ disk'.receipt = disk.receipt /\ disk'.receiptPart = part
    BY <1>2, <2>1, <2>2 DEF Disks
  <2>5. Typed'
    BY <1>1, <2>3, <2>4 DEF ConvInv, Typed
  <2>6. Vouched' /\ Published'
    BY <1>1, <2>2, <2>4 DEF ConvInv, Vouched, Published, In, Pair, Half
  <2>7. Phase' /\ Ended'
    BY <1>1, <2>2, <2>3, <2>4 DEF Phase, Ended, Pair
  <2> QED BY <2>5, <2>6, <2>7 DEF ConvInv
<1> QED BY <1>3, <1>4

LEMMA WriteReceiptKeeps == ConvInv /\ WriteReceipt => ConvInv'
<1> SUFFICES ASSUME ConvInv, WriteReceipt PROVE ConvInv'
  OBVIOUS
<1>1. /\ UNCHANGED <<source, kills>> /\ In("writeReceipt") /\ ConvGoes("linkReceipt")
      /\ Pair(disk, conv.identity) /\ disk.receiptPart.there
  BY DEF WriteReceipt, ConvInv, Phase, In
<1>2. /\ conv' \in Conversions /\ conv'.pc = "linkReceipt" /\ conv'.identity = conv.identity
      /\ conv'.result = "none"
  BY <1>1, GoesOn DEF Phases, In
<1>3. /\ disk \in Disks /\ conv.identity \in 1..source /\ conv.identity \in Nat \ {0}
      /\ disk.receiptPart \in Receipts
  BY DEF ConvInv, Typed, Conversions, Disks
<1>4. PICK part : part = [disk.receiptPart EXCEPT !.of = conv.identity]
  OBVIOUS
<1>5. disk' = [disk EXCEPT !.receiptPart = part]
  BY <1>4 DEF WriteReceipt
<1>6. part \in Receipts /\ part.there /\ part.of = conv.identity
  BY <1>1, <1>3, <1>4 DEF Receipts
<1>7. /\ disk' \in Disks /\ disk'.dataPart = disk.dataPart /\ disk'.scalePart = disk.scalePart
      /\ disk'.data = disk.data /\ disk'.scale = disk.scale
      /\ disk'.receipt = disk.receipt /\ disk'.receiptPart = part
  BY <1>3, <1>5, <1>6 DEF Disks
<1>8. Typed'
  BY <1>1, <1>2, <1>7 DEF ConvInv, Typed
<1>9. Vouched' /\ Published'
  BY <1>1, <1>6, <1>7 DEF ConvInv, Vouched, Published, In, Pair, Half
<1>10. Phase' /\ Ended'
  BY <1>1, <1>2, <1>6, <1>7 DEF Phase, Ended, Pair
<1> QED BY <1>8, <1>9, <1>10 DEF ConvInv

LEMMA LinkReceiptKeeps == ConvInv /\ LinkReceipt => ConvInv'
<1> SUFFICES ASSUME ConvInv, LinkReceipt PROVE ConvInv'
  OBVIOUS
<1>1. /\ UNCHANGED <<source, kills>> /\ In("linkReceipt") /\ ConvGoes("unlinkReceipt")
      /\ disk' = [disk EXCEPT !.receipt = disk.receiptPart]
      /\ Pair(disk, conv.identity)
      /\ disk.receiptPart.there /\ disk.receiptPart.of = conv.identity
  BY DEF LinkReceipt, ConvInv, Phase, In
<1>2. /\ conv' \in Conversions /\ conv'.pc = "unlinkReceipt" /\ conv'.identity = conv.identity
      /\ conv'.result = "none"
  BY <1>1, GoesOn DEF Phases, In
<1>3. disk \in Disks /\ conv.identity \in 1..source
  BY DEF ConvInv, Typed, Conversions
<1>4. /\ disk' \in Disks /\ disk'.dataPart = disk.dataPart /\ disk'.scalePart = disk.scalePart
      /\ disk'.data = disk.data /\ disk'.scale = disk.scale
      /\ disk'.receipt = disk.receiptPart /\ disk'.receiptPart = disk.receiptPart
  BY <1>1, <1>3 DEF Disks
<1>5. Typed'
  BY <1>1, <1>2, <1>4 DEF ConvInv, Typed
<1>6. Pair(disk', conv.identity)
  BY <1>1, <1>4 DEF Pair
<1>7. Vouched' /\ Published'
  BY <1>1, <1>2, <1>3, <1>4, <1>6 DEF ConvInv, Vouched, Published, Pair, Half
<1>8. Phase' /\ Ended'
  BY <1>1, <1>2, <1>4, <1>6 DEF Phase, Ended
<1> QED BY <1>5, <1>7, <1>8 DEF ConvInv

LEMMA UnlinkReceiptKeeps == ConvInv /\ UnlinkReceipt => ConvInv'
<1> SUFFICES ASSUME ConvInv, UnlinkReceipt PROVE ConvInv'
  OBVIOUS
<1> DEFINE r == IF source = conv.identity THEN "done" ELSE "failed"
<1>1. /\ UNCHANGED <<source, kills>> /\ In("unlinkReceipt") /\ ConvEnds(r)
      /\ disk' = [disk EXCEPT !.receiptPart = NoReceipt]
      /\ disk.receipt.there /\ disk.receipt.of = conv.identity
  BY DEF UnlinkReceipt, ConvInv, Phase, In
<1>2. /\ conv' \in Conversions /\ conv'.pc = "idle" /\ conv'.identity = conv.identity
      /\ conv'.result = r
  BY <1>1 DEF ConvEnds, ConvInv, Typed, Conversions, Phases
<1>3. disk \in Disks /\ conv.identity \in 1..source /\ source \in Nat
  BY DEF ConvInv, Typed, Conversions
<1>4. NoReceipt \in Receipts /\ NoReceipt.of = 0
  BY DEF NoReceipt, Receipts
<1>5. /\ disk' \in Disks /\ disk'.dataPart = disk.dataPart /\ disk'.scalePart = disk.scalePart
      /\ disk'.data = disk.data /\ disk'.scale = disk.scale
      /\ disk'.receipt = disk.receipt /\ disk'.receiptPart = NoReceipt
  BY <1>1, <1>3, <1>4 DEF Disks
<1>6. Typed'
  BY <1>1, <1>2, <1>5 DEF ConvInv, Typed
<1>7. Vouched' /\ Published'
  BY <1>1, <1>2, <1>4, <1>5 DEF ConvInv, Vouched, Published, Pair, Half
<1>8. Phase'
  BY <1>2 DEF Phase
<1>9. Ended'
  BY <1>1, <1>2, <1>3, <1>5 DEF Ended
<1> QED BY <1>6, <1>7, <1>8, <1>9 DEF ConvInv

-----------------------------------------------------------------------------
(* The theorems.                                                             *)

\* A stuttering step changes nothing the invariant speaks of.
LEMMA StutterKeeps == ConvInv /\ UNCHANGED svars => ConvInv'
<1> SUFFICES ASSUME ConvInv, UNCHANGED svars PROVE ConvInv'
  OBVIOUS
<1>1. UNCHANGED <<source, disk, conv, kills>>
  BY DEF svars
<1>2. Typed' /\ Vouched' /\ Published' /\ Ended'
  BY <1>1 DEF ConvInv, Typed, Vouched, Published, Ended
<1>3. Phase'
  BY <1>1 DEF ConvInv, Phase, Growing
<1> QED BY <1>2, <1>3 DEF ConvInv

LEMMA InitHolds == SInit => ConvInv
<1> SUFFICES ASSUME SInit PROVE ConvInv
  OBVIOUS
<1>1. Absent \in TensorFiles /\ ~Absent.there /\ Absent.rows = <<>>
  BY DEF Absent, TensorFiles
<1>2. NoReceipt \in Receipts /\ ~NoReceipt.there /\ NoReceipt.of = 0
  BY DEF NoReceipt, Receipts
<1>3. Typed
  BY <1>1, <1>2, SpineAssumption DEF SInit, Typed, Disks, Conversions, Phases
<1>4. Vouched /\ Published /\ Phase /\ Ended
  BY <1>1, <1>2 DEF SInit, Vouched, Published, Phase, Ended
<1> QED BY <1>3, <1>4 DEF ConvInv

\* In every behaviour of the conversion, for every number of rows, replacements
\* of the source and kills, what is on disk can be resumed from, and what a
\* running conversion has verified stays verified until it ends.
THEOREM ConversionInvariance == SSpec => []ConvInv
<1>1. ConvInv /\ [SNext]_svars => ConvInv'
  BY PreflightKeeps, VerifyReceiptKeeps, RefuseUnpairedKeeps, VerifyCompletePairKeeps,
     OpenPartialsKeeps, WriteScaleKeeps, WriteDataKeeps, FinishRowsKeeps, LinkScaleKeeps,
     UnlinkScaleKeeps, LinkDataKeeps, RemoveRedundantLinksKeeps, BuildReceiptKeeps,
     WriteReceiptKeeps, LinkReceiptKeeps, UnlinkReceiptKeeps, ReplaceKeeps, KillKeeps,
     StutterKeeps
  DEF SNext
<1> QED BY <1>1, InitHolds, PTL DEF SSpec

\* For every instance, a receipt vouches for two complete files computed from
\* the one version it names, a conversion that reports success has one for its
\* source, and none fails while the source is not replaced, wherever it is killed.
THEOREM SpineReceipts == SSpec => []SpineReceiptsAreTruthful
<1>1. ConvInv => SpineReceiptsAreTruthful
  BY DEF ConvInv, Vouched, Ended, Pair, SpineReceiptsAreTruthful, ReceiptIsTruthful,
         EveryKillIsResumable
<1> QED BY <1>1, ConversionInvariance, PTL

-----------------------------------------------------------------------------
(* Sums over a finite set.                                                   *)

\* g[t] is the sum of f over t, for every set t of members of S.
Chosen(t) == CHOOSE x \in t : TRUE
SumsTo(g, f, S) ==
  g = [t \in SUBSET S |-> IF t = {} THEN 0 ELSE f[Chosen(t)] + g[t \ {Chosen(t)}]]

\* Among sets of subsets of a finite set, one has no smaller one.
LEMMA SmallestSubset ==
  ASSUME NEW S, IsFiniteSet(S), NEW B, B \subseteq SUBSET S, B # {}
  PROVE  \E t \in B : \A x \in t : t \ {x} \notin B
<1> DEFINE sizes == {Cardinality(t) : t \in B}
<1>1. \A t \in B : IsFiniteSet(t) /\ Cardinality(t) \in Nat
  BY FS_Subset, FS_CardinalityType
<1>2. PICK m \in sizes : \A n \in sizes : m <= n
  <2>1. sizes \subseteq Nat /\ sizes # {}
    BY <1>1
  <2> HIDE DEF sizes
  <2> QED BY <2>1, LeastNatural
<1>3. PICK t \in B : m = Cardinality(t)
  BY <1>2
<1>4. ASSUME NEW x \in t PROVE t \ {x} \notin B
  <2>1. Cardinality(t \ {x}) = Cardinality(t) - 1
    BY <1>1, FS_RemoveElement
  <2>2. t \ {x} \in B => Cardinality(t) <= Cardinality(t) - 1
    BY <1>2, <1>3, <2>1
  <2> QED BY <1>1, <2>2
<1> QED BY <1>4

\* Such a sum exists.
LEMMA SumExists ==
  ASSUME NEW S, IsFiniteSet(S), NEW f \in [S -> Nat]
  PROVE  \E g \in [SUBSET S -> Nat] : SumsTo(g, f, S)
<1> DEFINE Step(g, t) == IF t = {} THEN 0 ELSE f[Chosen(t)] + g[t \ {Chosen(t)}]
           Upto(g, n) == \A t \in SUBSET S : Cardinality(t) <= n => g[t] = Step(g, t)
           bad == {n \in Nat : ~ \E g \in [SUBSET S -> Nat] : Upto(g, n)}
<1>1. \A t \in SUBSET S :
        IsFiniteSet(t) /\ Cardinality(t) \in Nat /\ Cardinality(t) <= Cardinality(S)
  BY FS_Subset, FS_CardinalityType
<1>2. \A t \in SUBSET S : t # {} => Chosen(t) \in t
  BY DEF Chosen
<1>3. \A g \in [SUBSET S -> Nat] : \A t \in SUBSET S : Step(g, t) \in Nat
  BY <1>2
<1>4. 0 \notin bad
  <2> DEFINE z == [t \in SUBSET S |-> 0]
  <2>1. z \in [SUBSET S -> Nat]
    OBVIOUS
  <2>2. ASSUME NEW t \in SUBSET S, Cardinality(t) <= 0 PROVE z[t] = Step(z, t)
    <3>1. t = {}
      BY <1>1, <2>2, FS_EmptySet
    <3> QED BY <3>1
  <2> QED BY <2>1, <2>2
<1>5. ASSUME NEW n \in Nat, n \notin bad PROVE n + 1 \notin bad
  <2>1. PICK g \in [SUBSET S -> Nat] : Upto(g, n)
    BY <1>5
  <2> DEFINE h == [t \in SUBSET S |-> Step(g, t)]
  <2>2. h \in [SUBSET S -> Nat]
    BY <1>3
  <2>3. ASSUME NEW t \in SUBSET S, Cardinality(t) <= n + 1 PROVE h[t] = Step(h, t)
    <3>1. CASE t = {}
      BY <3>1
    <3>2. CASE t # {}
      <4> DEFINE u == t \ {Chosen(t)}
      <4>1. u \in SUBSET S /\ Cardinality(u) = Cardinality(t) - 1
        BY <1>1, <1>2, <3>2, FS_RemoveElement
      <4>2. Cardinality(u) <= n
        BY <1>1, <2>3, <4>1
      <4>3. g[u] = Step(g, u) /\ h[u] = Step(g, u)
        BY <2>1, <4>1, <4>2
      <4>4. h[t] = f[Chosen(t)] + g[u] /\ Step(h, t) = f[Chosen(t)] + h[u]
        BY <3>2
      <4> QED BY <4>3, <4>4
    <3> QED BY <3>1, <3>2
  <2>4. Upto(h, n + 1)
    BY <2>3
  <2> QED BY <2>2, <2>4
<1>6. bad = {}
  <2> SUFFICES ASSUME bad # {} PROVE FALSE
    OBVIOUS
  <2> HIDE DEF bad
  <2>1. PICK m \in bad : \A n \in bad : m <= n
    <3>1. bad \subseteq Nat
      BY DEF bad
    <3> QED BY <3>1, LeastNatural
  <2>2. m \in Nat /\ m # 0
    BY <1>4, <2>1 DEF bad
  <2>3. m - 1 \in Nat /\ m - 1 \notin bad
    BY <2>1, <2>2
  <2>4. (m - 1) + 1 \notin bad
    BY <1>5, <2>3
  <2> QED BY <2>1, <2>2, <2>4
<1>7. PICK g \in [SUBSET S -> Nat] : Upto(g, Cardinality(S))
  <2>1. Cardinality(S) \in Nat
    BY FS_CardinalityType
  <2> QED BY <1>6, <2>1
<1>8. SumsTo(g, f, S)
  <2>1. \A t \in SUBSET S : g[t] = Step(g, t)
    BY <1>1, <1>7
  <2> QED BY <1>7, <2>1 DEF SumsTo
<1> QED BY <1>8

\* Two sums of functions that differ at one member at most differ as they do
\* there; so a sum is unique, and a natural number.
LEMMA SumChanges ==
  ASSUME NEW S, IsFiniteSet(S), NEW e \in [S -> Nat], NEW f \in [S -> Nat], NEW p \in S,
         \A x \in S \ {p} : e[x] = f[x], NEW g, SumsTo(g, e, S), NEW h, SumsTo(h, f, S)
  PROVE  /\ g[S] \in Nat /\ h[S] \in Nat
         /\ h[S] + e[p] = g[S] + f[p]
<1> DEFINE Fine(t) == /\ g[t] \in Nat /\ h[t] \in Nat
                      /\ IF p \in t THEN h[t] + e[p] = g[t] + f[p] ELSE h[t] = g[t]
           bad == {t \in SUBSET S : ~Fine(t)}
<1>1. bad = {}
  <2> SUFFICES ASSUME bad # {} PROVE FALSE
    OBVIOUS
  <2>1. PICK t \in bad : \A x \in t : t \ {x} \notin bad
    <3>1. bad \subseteq SUBSET S
      OBVIOUS
    <3> HIDE DEF bad
    <3> QED BY <3>1, SmallestSubset
  <2>2. t # {}
    <3> SUFFICES ASSUME t = {} PROVE FALSE
      OBVIOUS
    <3>1. g[t] = 0 /\ h[t] = 0
      BY <2>1 DEF SumsTo
    <3> QED BY <2>1, <3>1
  <2> DEFINE c == Chosen(t)
             u == t \ {c}
  <2>3. c \in t /\ c \in S /\ u \in SUBSET S
    BY <2>1, <2>2 DEF Chosen
  <2>4. Fine(u)
    BY <2>1, <2>3
  <2>5. g[t] = e[c] + g[u] /\ h[t] = f[c] + h[u]
    BY <2>1, <2>2 DEF SumsTo
  <2>6. e[c] \in Nat /\ f[c] \in Nat /\ e[p] \in Nat /\ f[p] \in Nat
    BY <2>3
  <2>7. ~Fine(t)
    BY <2>1
  <2> HIDE DEF c, bad
  <2>8. CASE c = p
    <3>1. p \in t /\ p \notin u
      BY <2>3, <2>8
    <3>2. g[u] \in Nat /\ h[u] = g[u]
      BY <2>4, <3>1
    <3> HIDE DEF u
    <3>3. Fine(t)
      BY <2>5, <2>6, <2>8, <3>1, <3>2
    <3> QED BY <2>7, <3>3
  <2>9. CASE c # p
    <3>1. (p \in t <=> p \in u) /\ e[c] = f[c]
      BY <2>3, <2>9
    <3> HIDE DEF u
    <3>2. CASE p \in t
      BY <2>4, <2>5, <2>6, <2>7, <3>1, <3>2
    <3>3. CASE p \notin t
      BY <2>4, <2>5, <2>6, <2>7, <3>1, <3>3
    <3> QED BY <3>2, <3>3
  <2> QED BY <2>8, <2>9
<1>2. S \in SUBSET S /\ S \notin bad
  BY <1>1
<1> QED BY <1>2

-----------------------------------------------------------------------------
(* ExpertHeat: the inductive invariant.                                      *)

Counts == [Slots -> Nat]
HeatPhases == {"idle", "harvest", "load", "rename", "fsync"}
RunRecords ==
  [pc : HeatPhases, deltas : Counts, passes : Nat, harvest : Counts, weight : Nat,
   at : 1 .. NSlots + 1, file : Counts, unread : BOOLEAN]

\* What all processes of r hold of a slot that the file does not.
Held(r, s) == MapThenSumSet(LAMBDA p : Unmerged(r[p])[s], Runs)
Known(s) == heat.slots[s] + ghost.lost[s] + Held(run, s)

HeatTyped ==
  /\ heat \in [ok : BOOLEAN, slots : Counts] /\ (~heat.ok => heat.slots = Zero)
  /\ run \in [Runs -> RunRecords] /\ heatLock \subseteq Runs
  /\ ghost \in [seen : Counts, lost : Counts, faults : Nat]
  /\ dirsync \in BOOLEAN

\* Who loads, renames or syncs has the lock, and nobody else: the file is as it
\* was when it was loaded.
HeatLocked ==
  /\ \A p \in Runs : p \in heatLock <=> run[p].pc \in {"load", "rename", "fsync"}
  /\ \A p, q \in heatLock : p = q

ReadAs(file, r) == IF r.unread THEN Zero ELSE file.slots

\* What a process took from its deltas is in its harvest, up to the slot where
\* it is; and the file to be renamed is the harvest added to what was read.
Harvested ==
  \A p \in Runs :
    /\ run[p].pc = "idle" => run[p].harvest = Zero
    /\ run[p].pc = "harvest" => \A s \in Slots : s >= run[p].at => run[p].harvest[s] = 0
    /\ run[p].pc = "rename" => run[p].file = Plus(ReadAs(heat, run[p]), run[p].harvest)

Counted ==
  \A s \in Slots : IF dirsync THEN Known(s) >= ghost.seen[s] ELSE Known(s) = ghost.seen[s]

HeatInv == HeatTyped /\ HeatLocked /\ Harvested /\ Counted

-----------------------------------------------------------------------------
(* Counts.                                                                   *)

LEMMA CountsAre ==
  ASSUME NEW a \in Counts, NEW b \in Counts
  PROVE  /\ Zero \in Counts /\ \A s \in Slots : Zero[s] = 0
         /\ Plus(a, b) \in Counts /\ \A s \in Slots : Plus(a, b)[s] = a[s] + b[s]
         /\ Plus(a, Zero) = a /\ Plus(Zero, a) = a
<1>1. Zero \in Counts /\ \A s \in Slots : Zero[s] = 0
  BY DEF Zero, Counts
<1>2. Plus(a, b) \in Counts /\ \A s \in Slots : Plus(a, b)[s] = a[s] + b[s]
  BY DEF Plus, Counts
<1>3. Plus(a, Zero) = a
  BY DEF Plus, Zero, Counts
<1>4. Plus(Zero, a) = a
  BY DEF Plus, Zero, Counts
<1> QED BY <1>1, <1>2, <1>3, <1>4

LEMMA UnmergedIs ==
  ASSUME NEW r \in RunRecords
  PROVE  Unmerged(r) \in Counts
BY CountsAre DEF Unmerged, RunRecords

\* The community module's sum is a sum.
LEMMA HeldIs ==
  ASSUME NEW r \in [Runs -> RunRecords], NEW s \in Slots
  PROVE  \E g : SumsTo(g, [p \in Runs |-> Unmerged(r[p])[s]], Runs) /\ Held(r, s) = g[Runs]
<1> DEFINE f == [p \in Runs |-> Unmerged(r[p])[s]]
           Def(g) == [t \in SUBSET Runs |-> IF t = {} THEN 0
                       ELSE Unmerged(r[CHOOSE x \in t : TRUE])[s]
                            + g[t \ {CHOOSE x \in t : TRUE}]]
           iter == CHOOSE g : g = Def(g)
<1>1. Held(r, s) = iter[Runs]
  BY DEF Held, MapThenSumSet, MapThenFoldSet
<1>2. \A g : SumsTo(g, f, Runs) <=> g = Def(g)
  <2> SUFFICES ASSUME NEW g
               PROVE  Def(g) = [t \in SUBSET Runs |->
                                  IF t = {} THEN 0 ELSE f[Chosen(t)] + g[t \ {Chosen(t)}]]
    BY DEF SumsTo
  <2>1. ASSUME NEW t \in SUBSET Runs, t # {}
        PROVE  Chosen(t) \in Runs /\ f[Chosen(t)] = Unmerged(r[Chosen(t)])[s]
    BY <2>1 DEF Chosen
  <2> QED BY <2>1 DEF Chosen
<1>3. f \in [Runs -> Nat]
  BY UnmergedIs DEF Counts
<1>4. \E g : g = Def(g)
  <2>1. PICK g \in [SUBSET Runs -> Nat] : SumsTo(g, f, Runs)
    BY <1>3, HeatAssumption, SumExists
  <2> HIDE DEF f, Def
  <2> QED BY <1>2, <2>1
<1>5. iter = Def(iter)
  <2> HIDE DEF Def
  <2> QED BY <1>4
<1>6. SumsTo(iter, f, Runs)
  BY <1>2, <1>5
<1> HIDE DEF iter
<1> QED BY <1>1, <1>6

\* A step of one process changes the sum by what it changes.
LEMMA OneHolder ==
  ASSUME NEW r \in [Runs -> RunRecords], NEW q \in [Runs -> RunRecords], NEW p \in Runs,
         \A x \in Runs \ {p} : q[x] = r[x], NEW s \in Slots
  PROVE  /\ Held(r, s) \in Nat /\ Held(q, s) \in Nat
         /\ Unmerged(r[p])[s] \in Nat /\ Unmerged(q[p])[s] \in Nat
         /\ Held(q, s) + Unmerged(r[p])[s] = Held(r, s) + Unmerged(q[p])[s]
<1> DEFINE e == [x \in Runs |-> Unmerged(r[x])[s]]
           f == [x \in Runs |-> Unmerged(q[x])[s]]
<1>1. e \in [Runs -> Nat] /\ f \in [Runs -> Nat]
  BY UnmergedIs DEF Counts
<1>2. \A x \in Runs \ {p} : e[x] = f[x]
  OBVIOUS
<1>3. PICK g : SumsTo(g, e, Runs) /\ Held(r, s) = g[Runs]
  BY HeldIs
<1>4. PICK h : SumsTo(h, f, Runs) /\ Held(q, s) = h[Runs]
  BY HeldIs
<1>5. e[p] = Unmerged(r[p])[s] /\ f[p] = Unmerged(q[p])[s] /\ e[p] \in Nat /\ f[p] \in Nat
  BY <1>1
<1> HIDE DEF e, f
<1>6. g[Runs] \in Nat /\ h[Runs] \in Nat /\ h[Runs] + e[p] = g[Runs] + f[p]
  BY <1>1, <1>2, <1>3, <1>4, HeatAssumption, SumChanges
<1> QED BY <1>3, <1>4, <1>5, <1>6

LEMMA HeldIsCount ==
  ASSUME NEW r \in [Runs -> RunRecords], NEW s \in Slots
  PROVE  /\ Held(r, s) \in Nat
         /\ (\A p \in Runs : Unmerged(r[p])[s] = 0) => Held(r, s) = 0
<1> DEFINE f == [p \in Runs |-> Unmerged(r[p])[s]]
<1>1. PICK g : SumsTo(g, f, Runs) /\ Held(r, s) = g[Runs]
  BY HeldIs
<1>2. ASSUME Runs = {} PROVE Held(r, s) = 0
  BY <1>1, <1>2 DEF SumsTo
<1>3. ASSUME NEW p \in Runs PROVE Held(r, s) \in Nat
  BY <1>3, OneHolder
<1>4. ASSUME \A p \in Runs : Unmerged(r[p])[s] = 0 PROVE Held(r, s) = 0
  <2> DEFINE B == {t \in SUBSET Runs : g[t] # 0}
  <2>1. B = {}
    <3> SUFFICES ASSUME B # {} PROVE FALSE
      OBVIOUS
    <3>1. PICK t \in B : \A x \in t : t \ {x} \notin B
      <4>1. B \subseteq SUBSET Runs
        OBVIOUS
      <4> HIDE DEF B
      <4> QED BY <4>1, HeatAssumption, SmallestSubset
    <3>2. t # {}
      BY <1>1, <3>1 DEF SumsTo
    <3>3. Chosen(t) \in t /\ g[t \ {Chosen(t)}] = 0
      BY <3>1, <3>2 DEF Chosen
    <3>4. g[t] = f[Chosen(t)] + g[t \ {Chosen(t)}]
      BY <1>1, <3>1, <3>2 DEF SumsTo
    <3>5. f[Chosen(t)] = 0
      BY <1>4, <3>1, <3>3
    <3>6. g[t] # 0
      BY <3>1
    <3> QED BY <3>3, <3>4, <3>5, <3>6
  <2> QED BY <1>1, <2>1
<1> QED BY <1>2, <1>3, <1>4

-----------------------------------------------------------------------------
(* The invariant.                                                            *)

LEMMA FreshIs ==
  /\ Fresh \in RunRecords /\ Fresh.pc = "idle" /\ Fresh.harvest = Zero
  /\ \A s \in Slots : Unmerged(Fresh)[s] = 0
<1>1. Zero \in Counts /\ \A s \in Slots : Zero[s] = 0
  BY DEF Zero, Counts
<1>2. Fresh \in RunRecords
  BY <1>1, HeatAssumption DEF Fresh, RunRecords, HeatPhases
<1>3. Unmerged(Fresh) = Plus(Zero, Zero)
  BY DEF Fresh, Unmerged
<1> QED BY <1>1, <1>2, <1>3, CountsAre DEF Fresh

LEMMA HeatStarts ==
  ASSUME HInit
  PROVE  HeatInv
<1>1. Zero \in Counts /\ \A s \in Slots : Zero[s] = 0
  BY DEF Zero, Counts
<1>2. HeatTyped /\ HeatLocked /\ Harvested
  BY <1>1, FreshIs DEF HInit, HeatTyped, HeatLocked, Harvested
<1>3. ASSUME NEW s \in Slots PROVE Held(run, s) = 0
  <2>1. run \in [Runs -> RunRecords] /\ \A p \in Runs : Unmerged(run[p])[s] = 0
    BY FreshIs DEF HInit
  <2> QED BY <2>1, HeldIsCount
<1>4. Counted
  BY <1>1, <1>3 DEF HInit, Counted, Known
<1> QED BY <1>2, <1>4 DEF HeatInv

\* What a step of p that leaves it as v does to the file and to the lock.
FileKept(p) ==
  /\ heat' \in [ok : BOOLEAN, slots : Counts] /\ (~heat'.ok => heat'.slots = Zero)
  /\ ghost' \in [seen : Counts, lost : Counts, faults : Nat]
  /\ dirsync' \in BOOLEAN /\ (dirsync => dirsync')
  /\ heat'.slots = heat.slots \/ p \in heatLock
Placed(p, v) ==
  /\ heatLock' \in {heatLock, heatLock \ {p}, heatLock \cup {p}}
  /\ p \in heatLock' <=> v.pc \in {"load", "rename", "fsync"}
  /\ p \in heatLock' => heatLock \subseteq {p}
  /\ v.pc = "idle" => v.harvest = Zero
  /\ v.pc = "harvest" => \A s \in Slots : s >= v.at => v.harvest[s] = 0
  /\ v.pc = "rename" => v.file = Plus(ReadAs(heat', v), v.harvest)
\* What is in the file, lost and held by p grows by what is observed.
Balanced(p, v) ==
  \A s \in Slots :
    LET before == heat.slots[s] + ghost.lost[s] + Unmerged(run[p])[s] + ghost'.seen[s]
        after == heat'.slots[s] + ghost'.lost[s] + Unmerged(v)[s] + ghost.seen[s]
    IN  IF dirsync' THEN after >= before ELSE after = before

\* A process's step keeps the invariant when what it does to the file, to what it
\* holds and to what was lost balances what was observed.
LEMMA StepKeeps ==
  ASSUME HeatInv, NEW p \in Runs, NEW v \in RunRecords, run' = [run EXCEPT ![p] = v],
         FileKept(p), Placed(p, v), Balanced(p, v)
  PROVE  HeatInv'
<1>0. HeatTyped /\ HeatLocked /\ Harvested /\ Counted
  BY DEF HeatInv
<1>1. /\ run \in [Runs -> RunRecords] /\ run' \in [Runs -> RunRecords] /\ run'[p] = v
      /\ \A x \in Runs \ {p} : run'[x] = run[x]
  BY <1>0 DEF HeatTyped
<1>a. /\ heatLock' \in {heatLock, heatLock \ {p}, heatLock \cup {p}}
      /\ heat' \in [ok : BOOLEAN, slots : Counts] /\ (~heat'.ok => heat'.slots = Zero)
      /\ ghost' \in [seen : Counts, lost : Counts, faults : Nat]
      /\ dirsync' \in BOOLEAN /\ (dirsync => dirsync')
  BY DEF FileKept, Placed
<1>2. HeatTyped'
  <2>1. heatLock' \subseteq Runs
    BY <1>0, <1>a DEF HeatTyped
  <2> QED BY <1>1, <1>a, <2>1 DEF HeatTyped
<1>3. HeatLocked'
  <2>1. \A x : x # p => (x \in heatLock' <=> x \in heatLock)
    BY <1>a
  <2>2. \A x \in Runs : x \in heatLock' <=> run'[x].pc \in {"load", "rename", "fsync"}
    BY <1>0, <1>1, <2>1 DEF HeatLocked, Placed
  <2>3. ASSUME NEW x \in heatLock', NEW y \in heatLock' PROVE x = y
    <3>1. CASE p \in heatLock'
      <4>1. heatLock' \subseteq {p}
        BY <3>1 DEF Placed
      <4>2. x = p /\ y = p
        BY <2>1, <2>3, <4>1
      <4> QED BY <4>2
    <3>2. CASE p \notin heatLock'
      <4>1. x \in heatLock /\ y \in heatLock
        BY <2>1, <2>3, <3>2
      <4> QED BY <1>0, <4>1 DEF HeatLocked
    <3> QED BY <3>1, <3>2
  <2> QED BY <2>2, <2>3 DEF HeatLocked
<1>4. Harvested'
  <2>1. ASSUME NEW x \in Runs \ {p}, run[x].pc = "rename" PROVE heat'.slots = heat.slots
    <3>1. x \in heatLock
      BY <1>0, <2>1 DEF HeatLocked
    <3>2. p \notin heatLock
      BY <1>0, <2>1, <3>1 DEF HeatLocked
    <3> QED BY <3>2 DEF FileKept
  <2> SUFFICES ASSUME NEW x \in Runs
               PROVE  /\ run'[x].pc = "idle" => run'[x].harvest = Zero
                      /\ run'[x].pc = "harvest" =>
                           \A s \in Slots : s >= run'[x].at => run'[x].harvest[s] = 0
                      /\ run'[x].pc = "rename" =>
                           run'[x].file = Plus(ReadAs(heat', run'[x]), run'[x].harvest)
    BY DEF Harvested
  <2>2. CASE x = p
    BY <1>1, <2>2 DEF Placed
  <2>3. CASE x # p
    BY <1>0, <1>1, <2>1, <2>3 DEF Harvested, ReadAs
  <2> QED BY <2>2, <2>3
<1>5. Counted'
  <2> SUFFICES ASSUME NEW s \in Slots
               PROVE  LET known == heat'.slots[s] + ghost'.lost[s] + Held(run', s)
                      IN  IF dirsync' THEN known >= ghost'.seen[s] ELSE known = ghost'.seen[s]
    BY DEF Counted, Known
  <2>1. /\ heat.slots[s] \in Nat /\ heat'.slots[s] \in Nat
        /\ ghost.lost[s] \in Nat /\ ghost'.lost[s] \in Nat
        /\ ghost.seen[s] \in Nat /\ ghost'.seen[s] \in Nat
    <3>1. /\ heat.slots \in Counts /\ heat'.slots \in Counts /\ ghost.lost \in Counts
          /\ ghost'.lost \in Counts /\ ghost.seen \in Counts /\ ghost'.seen \in Counts
      BY <1>0, <1>a DEF HeatTyped
    <3> QED BY <3>1 DEF Counts
  <2>2. /\ Held(run, s) \in Nat /\ Held(run', s) \in Nat
        /\ Unmerged(run[p])[s] \in Nat /\ Unmerged(v)[s] \in Nat
        /\ Held(run', s) + Unmerged(run[p])[s] = Held(run, s) + Unmerged(v)[s]
    <3> DEFINE q == run'
    <3>1. q \in [Runs -> RunRecords] /\ q[p] = v /\ \A x \in Runs \ {p} : q[x] = run[x]
      BY <1>1
    <3> HIDE DEF q
    <3>2. /\ Held(run, s) \in Nat /\ Held(q, s) \in Nat
          /\ Unmerged(run[p])[s] \in Nat /\ Unmerged(q[p])[s] \in Nat
          /\ Held(q, s) + Unmerged(run[p])[s] = Held(run, s) + Unmerged(q[p])[s]
      BY <1>1, <3>1, OneHolder
    <3> QED BY <3>1, <3>2 DEF q
  <2>3. LET known == heat.slots[s] + ghost.lost[s] + Held(run, s)
        IN  IF dirsync THEN known >= ghost.seen[s] ELSE known = ghost.seen[s]
    BY <1>0 DEF Counted, Known
  <2>4. LET before == heat.slots[s] + ghost.lost[s] + Unmerged(run[p])[s] + ghost'.seen[s]
            after == heat'.slots[s] + ghost'.lost[s] + Unmerged(v)[s] + ghost.seen[s]
        IN  IF dirsync' THEN after >= before ELSE after = before
    BY DEF Balanced
  <2>5. CASE dirsync'
    <3>0. dirsync \in BOOLEAN
      BY <1>0 DEF HeatTyped
    <3>1. heat.slots[s] + ghost.lost[s] + Held(run, s) >= ghost.seen[s]
      BY <2>1, <2>2, <2>3
    <3> QED BY <2>1, <2>2, <2>4, <2>5, <3>1
  <2>6. CASE dirsync' = FALSE
    <3>1. ~dirsync
      BY <1>a, <2>6
    <3>2. heat.slots[s] + ghost.lost[s] + Held(run, s) = ghost.seen[s]
      BY <2>3, <3>1
    <3>3. heat'.slots[s] + ghost'.lost[s] + Unmerged(v)[s] + ghost.seen[s]
            = heat.slots[s] + ghost.lost[s] + Unmerged(run[p])[s] + ghost'.seen[s]
      BY <2>4, <2>6
    <3>4. heat'.slots[s] + ghost'.lost[s] + Held(run', s) = ghost'.seen[s]
      BY <2>1, <2>2, <3>2, <3>3
    <3> QED BY <2>6, <3>4
  <2>7. dirsync' = TRUE \/ dirsync' = FALSE
    BY <1>a
  <2> QED BY <2>5, <2>6, <2>7
<1> QED BY <1>2, <1>3, <1>4, <1>5 DEF HeatInv

\* What the invariant says of one process.
LEMMA ProcessIs ==
  ASSUME HeatInv, NEW p \in Runs
  PROVE  /\ run[p] \in RunRecords /\ run[p].deltas \in Counts /\ run[p].harvest \in Counts
         /\ run[p].file \in Counts /\ run[p].passes \in Nat /\ run[p].weight \in Nat
         /\ run[p].at \in 1 .. NSlots + 1 /\ run[p].pc \in HeatPhases
         /\ p \in heatLock <=> run[p].pc \in {"load", "rename", "fsync"}
         /\ p \in heatLock => heatLock \subseteq {p}
         /\ run[p].pc = "idle" => run[p].harvest = Zero
         /\ run[p].pc = "harvest" => \A s \in Slots : s >= run[p].at => run[p].harvest[s] = 0
         /\ run[p].pc = "rename" => run[p].file = Plus(ReadAs(heat, run[p]), run[p].harvest)
         /\ run \in [Runs -> RunRecords] /\ heatLock \subseteq Runs /\ dirsync \in BOOLEAN
         /\ heat \in [ok : BOOLEAN, slots : Counts] /\ (~heat.ok => heat.slots = Zero)
         /\ ghost \in [seen : Counts, lost : Counts, faults : Nat]
         /\ heat.slots \in Counts /\ ghost.seen \in Counts /\ ghost.lost \in Counts
<1>1. HeatTyped /\ HeatLocked /\ Harvested
  BY DEF HeatInv
<1>2. run[p] \in RunRecords
  BY <1>1 DEF HeatTyped
<1>3. HeatTyped
  BY <1>1
<1> QED BY <1>1, <1>2, <1>3 DEF HeatTyped, HeatLocked, Harvested, RunRecords

\* What a process holds, by its phase.
LEMMA HoldsBoth ==
  ASSUME NEW r \in RunRecords, NEW s \in Slots
  PROVE  /\ r.deltas[s] \in Nat /\ r.harvest[s] \in Nat
         /\ r.pc # "fsync" => Unmerged(r)[s] = r.deltas[s] + r.harvest[s]
         /\ r.pc = "fsync" => Unmerged(r)[s] = r.deltas[s]
<1>1. r.deltas \in Counts /\ r.harvest \in Counts
  BY DEF RunRecords
<1> QED BY <1>1, CountsAre DEF Unmerged, Counts

LEMMA RestoredIs ==
  ASSUME NEW r \in RunRecords
  PROVE  /\ Restored(r) \in RunRecords /\ Restored(r).pc = "idle" /\ Restored(r).harvest = Zero
         /\ \A s \in Slots : Unmerged(Restored(r))[s] = r.deltas[s] + r.harvest[s]
         /\ Flushed(r) \in RunRecords /\ Flushed(r).pc = "idle" /\ Flushed(r).harvest = Zero
         /\ \A s \in Slots : Unmerged(Flushed(r))[s] = r.deltas[s]
<1>1. r.deltas \in Counts /\ r.harvest \in Counts /\ r.passes \in Nat /\ r.weight \in Nat
  BY DEF RunRecords
<1>2. /\ Zero \in Counts /\ \A s \in Slots : Zero[s] = 0
      /\ Plus(r.deltas, r.harvest) \in Counts
      /\ \A s \in Slots : Plus(r.deltas, r.harvest)[s] = r.deltas[s] + r.harvest[s]
  BY <1>1, CountsAre
<1>3. /\ Restored(r) \in RunRecords /\ Restored(r).pc = "idle" /\ Restored(r).harvest = Zero
      /\ Restored(r).deltas = Plus(r.deltas, r.harvest)
  <2> DEFINE d == Plus(r.deltas, r.harvest)
             n == r.passes + r.weight
  <2>1. d \in Counts /\ n \in Nat /\ Zero \in Counts
    BY <1>1, <1>2
  <2>2. Restored(r) = [r EXCEPT !.pc = "idle", !.deltas = d, !.passes = n, !.harvest = Zero,
                                !.weight = 0, !.file = Zero, !.unread = FALSE]
    BY DEF Restored
  <2> HIDE DEF d, n
  <2>3. Restored(r) = [pc |-> "idle", deltas |-> d, passes |-> n, harvest |-> Zero,
                       weight |-> 0, at |-> r.at, file |-> Zero, unread |-> FALSE]
    BY <2>2 DEF RunRecords
  <2>4. r.at \in 1 .. NSlots + 1
    BY DEF RunRecords
  <2>5. Restored(r) \in RunRecords
    BY <2>1, <2>3, <2>4 DEF RunRecords, HeatPhases
  <2> QED BY <2>3, <2>5 DEF d
<1>4. /\ Flushed(r) \in RunRecords /\ Flushed(r).pc = "idle" /\ Flushed(r).harvest = Zero
      /\ Flushed(r).deltas = r.deltas
  BY <1>1, <1>2 DEF Flushed, RunRecords, HeatPhases
<1>5. ASSUME NEW s \in Slots
      PROVE  /\ Unmerged(Restored(r))[s] = r.deltas[s] + r.harvest[s]
             /\ Unmerged(Flushed(r))[s] = r.deltas[s]
  <2>1. /\ Unmerged(Restored(r))[s] = Restored(r).deltas[s] + Restored(r).harvest[s]
        /\ Unmerged(Flushed(r))[s] = Flushed(r).deltas[s] + Flushed(r).harvest[s]
    BY <1>3, <1>4, HoldsBoth
  <2>2. r.deltas[s] \in Nat /\ r.harvest[s] \in Nat /\ Zero[s] = 0
    BY <1>1, <1>2 DEF Counts
  <2> QED BY <1>2, <1>3, <1>4, <2>1, <2>2
<1> QED BY <1>3, <1>4, <1>5

-----------------------------------------------------------------------------
(* One lemma per action.                                                     *)

LEMMA ObserveKeeps ==
  ASSUME HeatInv, NEW p \in Runs, NEW present \in (SUBSET Slots) \ {{}},
         ObserveLayerRoutes(p, present)
  PROVE  HeatInv'
<1> DEFINE once == [s \in Slots |-> IF s \in present THEN 1 ELSE 0]
           r == run[p]
           v == [r EXCEPT !.deltas = Plus(r.deltas, once)]
<1>1. once \in Counts
  BY DEF Counts
<1>2. run' = [run EXCEPT ![p] = v] /\ ghost' = [ghost EXCEPT !.seen = Plus(ghost.seen, once)]
  BY DEF ObserveLayerRoutes
<1>3. UNCHANGED <<heat, heatLock, temp, dirsync>>
  BY DEF ObserveLayerRoutes
<1> HIDE DEF once
<1>4. /\ Plus(r.deltas, once) \in Counts /\ Plus(ghost.seen, once) \in Counts
      /\ \A s \in Slots : Plus(r.deltas, once)[s] = r.deltas[s] + once[s]
      /\ \A s \in Slots : Plus(ghost.seen, once)[s] = ghost.seen[s] + once[s]
  BY <1>1, ProcessIs, CountsAre
<1>5. r \in RunRecords
  BY ProcessIs
<1>6. v \in RunRecords /\ v.pc = r.pc /\ v.harvest = r.harvest /\ v.at = r.at /\ v.file = r.file
      /\ v.deltas = Plus(r.deltas, once) /\ v.unread = r.unread
  BY <1>4, <1>5 DEF RunRecords
<1>7. ghost' \in [seen : Counts, lost : Counts, faults : Nat]
      /\ ghost'.seen = Plus(ghost.seen, once) /\ ghost'.lost = ghost.lost
  BY <1>2, <1>4, ProcessIs
<1> HIDE DEF v
<1>8. ASSUME NEW s \in Slots
      PROVE  heat.slots[s] + ghost.lost[s] + Unmerged(v)[s] + ghost.seen[s] =
             heat.slots[s] + ghost.lost[s] + Unmerged(r)[s] + ghost'.seen[s]
  <2>1. /\ heat.slots[s] \in Nat /\ ghost.lost[s] \in Nat /\ ghost.seen[s] \in Nat
        /\ once[s] \in Nat /\ r.deltas[s] \in Nat /\ r.harvest[s] \in Nat
    BY <1>1, <1>5, HoldsBoth, ProcessIs DEF Counts
  <2>2. ghost'.seen[s] = ghost.seen[s] + once[s] /\ v.deltas[s] = r.deltas[s] + once[s]
    BY <1>4, <1>6, <1>7
  <2>3. CASE r.pc = "fsync"
    <3>1. Unmerged(v)[s] = v.deltas[s] /\ Unmerged(r)[s] = r.deltas[s]
      BY <1>5, <1>6, <2>3, HoldsBoth
    <3> QED BY <2>1, <2>2, <3>1
  <2>4. CASE r.pc # "fsync"
    <3>1. Unmerged(v)[s] = v.deltas[s] + r.harvest[s]
          /\ Unmerged(r)[s] = r.deltas[s] + r.harvest[s]
      BY <1>5, <1>6, <2>4, HoldsBoth
    <3> QED BY <2>1, <2>2, <3>1
  <2> QED BY <2>3, <2>4
<1>9. Balanced(p, v)
  <2>1. \A s \in Slots :
          /\ heat.slots[s] \in Nat /\ ghost.lost[s] \in Nat /\ ghost'.seen[s] \in Nat
          /\ Unmerged(r)[s] \in Nat
    BY <1>4, <1>5, <1>7, UnmergedIs, ProcessIs DEF Counts
  <2> QED BY <1>3, <1>7, <1>8, <2>1 DEF Balanced
<1>10. FileKept(p)
  BY <1>3, <1>7, ProcessIs DEF FileKept
<1>11. Placed(p, v)
  BY <1>3, <1>6, ProcessIs DEF Placed, ReadAs
<1> QED BY <1>2, <1>6, <1>9, <1>10, <1>11, StepKeeps

\* A step that leaves the file and what is counted as they are.
Silent ==
  /\ heat' = heat /\ dirsync' = dirsync
  /\ ghost' = ghost \/ ghost' = [ghost EXCEPT !.faults = @ + 1]

\* One that leaves what the process holds, too.
LEMMA PrivateKeeps ==
  ASSUME HeatInv, NEW p \in Runs, NEW v \in RunRecords, run' = [run EXCEPT ![p] = v],
         Silent, Placed(p, v),
         \A s \in Slots : Unmerged(v)[s] = Unmerged(run[p])[s]
  PROVE  HeatInv'
<1>1. /\ ghost' \in [seen : Counts, lost : Counts, faults : Nat]
      /\ ghost'.seen = ghost.seen /\ ghost'.lost = ghost.lost
      /\ heat' = heat /\ dirsync' = dirsync
  BY ProcessIs DEF Silent
<1>2. FileKept(p)
  BY <1>1, ProcessIs DEF FileKept
<1>3. Balanced(p, v)
  <2>1. \A s \in Slots :
          heat.slots[s] \in Nat /\ ghost.lost[s] \in Nat /\ ghost.seen[s] \in Nat
    BY ProcessIs DEF Counts
  <2>2. \A s \in Slots : Unmerged(v)[s] \in Nat /\ Unmerged(run[p])[s] \in Nat
    BY UnmergedIs, ProcessIs DEF Counts
  <2>3. dirsync' \in BOOLEAN
    BY <1>1, ProcessIs
  <2> QED BY <1>1, <2>1, <2>2, <2>3 DEF Balanced
<1> QED BY <1>2, <1>3, StepKeeps

LEMMA NotePassKeeps ==
  ASSUME HeatInv, NEW p \in Runs, NotePassCommitted(p)
  PROVE  HeatInv'
<1> DEFINE r == run[p]
           n == r.passes + 1
           v == [r EXCEPT !.passes = n]
<1>1. run' = [run EXCEPT ![p] = v] /\ UNCHANGED <<heat, heatLock, ghost, dirsync>>
  BY DEF NotePassCommitted
<1>2. r \in RunRecords /\ n \in Nat
  BY ProcessIs
<1> HIDE DEF n
<1>3. v \in RunRecords /\ v.pc = r.pc /\ v.deltas = r.deltas /\ v.harvest = r.harvest
      /\ v.at = r.at /\ v.file = r.file /\ v.unread = r.unread
  BY <1>2 DEF RunRecords
<1> HIDE DEF v
<1>4. Placed(p, v)
  BY <1>1, <1>3, ProcessIs DEF Placed, ReadAs
<1>5. Unmerged(v) = Unmerged(r)
  BY <1>3 DEF Unmerged
<1>6. Silent
  BY <1>1 DEF Silent
<1> QED BY <1>1, <1>3, <1>4, <1>5, <1>6, PrivateKeeps

LEMMA FlushKeeps ==
  ASSUME HeatInv, NEW p \in Runs, FlushBestEffort(p)
  PROVE  HeatInv'
<1> DEFINE r == run[p]
           n == r.weight + r.passes
           v == [r EXCEPT !.pc = "harvest", !.weight = n, !.passes = 0, !.at = 1]
<1>1. /\ run' = [run EXCEPT ![p] = v] /\ UNCHANGED <<heat, heatLock, ghost, dirsync>>
      /\ r.pc = "idle"
  BY DEF FlushBestEffort, HeatAt
<1>2. r \in RunRecords /\ n \in Nat /\ 1 \in 1 .. NSlots + 1
  BY ProcessIs, HeatAssumption
<1> HIDE DEF n
<1>3. v \in RunRecords /\ v.pc = "harvest" /\ v.deltas = r.deltas /\ v.harvest = r.harvest
  BY <1>2 DEF RunRecords, HeatPhases
<1> HIDE DEF v
<1>4. v.harvest = Zero
  BY <1>1, <1>3, ProcessIs
<1>5. Placed(p, v)
  BY <1>1, <1>3, <1>4, ProcessIs DEF Placed, Zero
<1>6. Unmerged(v) = Unmerged(r)
  BY <1>1, <1>3 DEF Unmerged
<1>7. Silent
  BY <1>1 DEF Silent
<1> QED BY <1>1, <1>3, <1>5, <1>6, <1>7, PrivateKeeps

LEMMA HarvestKeeps ==
  ASSUME HeatInv, NEW p \in Runs, HarvestSlot(p)
  PROVE  HeatInv'
<1> DEFINE r == run[p]
           k == r.at
           h == [r.harvest EXCEPT ![k] = r.deltas[k]]
           d == [r.deltas EXCEPT ![k] = 0]
           v == [r EXCEPT !.harvest = h, !.deltas = d, !.at = k + 1]
<1>1. run' = [run EXCEPT ![p] = v] /\ UNCHANGED <<heat, heatLock, ghost, dirsync>>
  BY DEF HarvestSlot
<1>2. r.pc = "harvest" /\ k <= NSlots /\ k \in Slots /\ k + 1 \in 1 .. NSlots + 1
  BY ProcessIs, HeatAssumption DEF HarvestSlot, HeatAt, Slots
<1>3. r \in RunRecords /\ h \in Counts /\ d \in Counts
  BY <1>2, ProcessIs DEF Counts
<1>4. /\ h[k] = r.deltas[k] /\ d[k] = 0 /\ r.harvest[k] = 0
      /\ \A s \in Slots \ {k} : h[s] = r.harvest[s] /\ d[s] = r.deltas[s]
  BY <1>2, ProcessIs DEF Counts
<1> HIDE DEF h, d
<1>5. v \in RunRecords /\ v.pc = "harvest" /\ v.deltas = d /\ v.harvest = h /\ v.at = k + 1
  BY <1>2, <1>3 DEF RunRecords
<1> HIDE DEF v
<1>6. \A s \in Slots : s >= k + 1 => h[s] = 0
  BY <1>2, <1>4, ProcessIs DEF Slots
<1>7. Placed(p, v)
  BY <1>1, <1>2, <1>5, <1>6, ProcessIs DEF Placed
<1>8. ASSUME NEW s \in Slots PROVE Unmerged(v)[s] = Unmerged(r)[s]
  <2>1. Unmerged(v)[s] = d[s] + h[s] /\ Unmerged(r)[s] = r.deltas[s] + r.harvest[s]
    BY <1>2, <1>3, <1>5, HoldsBoth
  <2>2. d[s] \in Nat /\ h[s] \in Nat /\ r.deltas[s] \in Nat /\ r.harvest[s] \in Nat
    BY <1>3, HoldsBoth DEF Counts
  <2> QED BY <1>4, <2>1, <2>2
<1>9. Silent
  BY <1>1 DEF Silent
<1> QED BY <1>1, <1>5, <1>7, <1>8, <1>9, PrivateKeeps

\* What is put back is what was held, unless the file already counts it.
LEMMA RestoreKeeps ==
  ASSUME HeatInv, NEW p \in Runs, run[p].pc # "fsync", run' = [run EXCEPT ![p] = Restored(@)],
         Silent, heatLock' = heatLock \ {p}
  PROVE  HeatInv'
<1> DEFINE r == run[p]
           v == Restored(r)
<1>1. r \in RunRecords
  BY ProcessIs
<1>2. v \in RunRecords /\ v.pc = "idle" /\ v.harvest = Zero
      /\ \A s \in Slots : Unmerged(v)[s] = Unmerged(r)[s]
  <2>1. \A s \in Slots : Unmerged(r)[s] = r.deltas[s] + r.harvest[s]
    BY <1>1, HoldsBoth
  <2> QED BY <1>1, <2>1, RestoredIs
<1> HIDE DEF v
<1>3. Placed(p, v)
  BY <1>2 DEF Placed
<1>4. run' = [run EXCEPT ![p] = v]
  BY DEF v
<1> QED BY <1>2, <1>3, <1>4, PrivateKeeps

LEMMA AcquireKeeps ==
  ASSUME HeatInv, NEW p \in Runs, Acquire(p)
  PROVE  HeatInv'
<1> DEFINE r == run[p]
<1>1. /\ UNCHANGED <<heat, ghost, dirsync>> /\ r.pc = "harvest" /\ r \in RunRecords
      /\ p \notin heatLock
  BY ProcessIs DEF Acquire, HeatAt
<1>2. CASE Nothing(p) /\ run' = [run EXCEPT ![p] = Flushed(@)] /\ UNCHANGED heatLock
  <2> DEFINE v == Flushed(r)
  <2>1. v \in RunRecords /\ v.pc = "idle" /\ v.harvest = Zero
        /\ \A s \in Slots : Unmerged(v)[s] = r.deltas[s]
    BY <1>1, RestoredIs
  <2>2. run' = [run EXCEPT ![p] = v]
    BY <1>2
  <2> HIDE DEF v
  <2>3. Placed(p, v)
    BY <1>1, <1>2, <2>1 DEF Placed
  <2>4. ASSUME NEW s \in Slots PROVE Unmerged(v)[s] = Unmerged(r)[s]
    <3>1. r.harvest[s] = 0
      BY <1>2 DEF Nothing, Zero
    <3>2. Unmerged(r)[s] = r.deltas[s] + r.harvest[s] /\ r.deltas[s] \in Nat
      BY <1>1, HoldsBoth
    <3> QED BY <2>1, <3>1, <3>2
  <2>5. Silent
    BY <1>1 DEF Silent
  <2> QED BY <1>1, <2>1, <2>2, <2>3, <2>4, <2>5, PrivateKeeps
<1>3. CASE run' = [run EXCEPT ![p] = Restored(@)] /\ UNCHANGED heatLock
  <2>1. heatLock' = heatLock \ {p} /\ run[p].pc # "fsync"
    BY <1>1, <1>3
  <2>2. Silent
    BY <1>1 DEF Silent
  <2> QED BY <1>1, <1>3, <2>1, <2>2, RestoreKeeps
<1>4. CASE /\ ~AcquireFails(p) /\ heatLock' = heatLock \cup {p}
           /\ run' = [run EXCEPT ![p].pc = "load"]
  <2> DEFINE v == [r EXCEPT !.pc = "load"]
  <2>1. v \in RunRecords /\ v.pc = "load" /\ v.deltas = r.deltas /\ v.harvest = r.harvest
    BY <1>1 DEF RunRecords, HeatPhases
  <2>2. run' = [run EXCEPT ![p] = v]
    BY <1>4
  <2> HIDE DEF v
  <2>3. Placed(p, v)
    BY <1>4, <2>1 DEF Placed, AcquireFails
  <2>4. \A s \in Slots : Unmerged(v)[s] = Unmerged(r)[s]
    BY <1>1, <2>1 DEF Unmerged
  <2>5. heat' = heat /\ dirsync' = dirsync /\ ghost' = ghost
    BY <1>1
  <2> HIDE DEF r
  <2>6. Silent
    BY <2>5 DEF Silent
  <2> QED BY <2>1, <2>2, <2>3, <2>4, <2>5, <2>6, PrivateKeeps DEF r
<1> QED BY <1>2, <1>3, <1>4 DEF Acquire

LEMMA MergeLockedKeeps ==
  ASSUME HeatInv, NEW p \in Runs, MergeLocked(p)
  PROVE  HeatInv'
<1> DEFINE r == run[p]
<1>1. UNCHANGED <<heat, dirsync>> /\ r.pc = "load" /\ r \in RunRecords
  BY ProcessIs DEF MergeLocked, HeatAt
<1>2. ASSUME NEW unread \in BOOLEAN,
             run' = [run EXCEPT ![p].pc = "rename", ![p].unread = unread,
                                ![p].file = Plus(LoadSnapshot(heat, unread), run[p].harvest)],
             ghost' = IF unread THEN [ghost EXCEPT !.faults = @ + 1] ELSE ghost,
             UNCHANGED heatLock
      PROVE  HeatInv'
  <2> DEFINE f == Plus(LoadSnapshot(heat, unread), r.harvest)
             v == [r EXCEPT !.pc = "rename", !.unread = unread, !.file = f]
  <2>1. run' = [run EXCEPT ![p] = v]
    BY <1>2
  <2>2. LoadSnapshot(heat, unread) = (IF unread THEN Zero ELSE heat.slots)
    BY ProcessIs DEF LoadSnapshot
  <2>3. f = Plus(IF unread THEN Zero ELSE heat.slots, r.harvest) /\ f \in Counts
    BY <2>2, ProcessIs, CountsAre
  <2> HIDE DEF f
  <2>4. /\ v \in RunRecords /\ v.pc = "rename" /\ v.deltas = r.deltas /\ v.harvest = r.harvest
        /\ v.file = f /\ v.unread = unread
    BY <1>1, <2>3 DEF RunRecords, HeatPhases
  <2> HIDE DEF v
  <2>5. Placed(p, v)
    <3>1. v.file = Plus(ReadAs(heat', v), v.harvest)
      BY <1>1, <2>3, <2>4 DEF ReadAs
    <3> QED BY <1>1, <1>2, <2>4, <3>1, ProcessIs DEF Placed
  <2>6. Unmerged(v) = Unmerged(r)
    BY <1>1, <2>4 DEF Unmerged
  <2>7. Silent
    BY <1>1, <1>2 DEF Silent
  <2> QED BY <1>1, <2>1, <2>4, <2>5, <2>6, <2>7, PrivateKeeps
<1>3. CASE /\ ghost' = [ghost EXCEPT !.faults = @ + 1]
           /\ run' = [run EXCEPT ![p] = Restored(@)] /\ heatLock' = heatLock \ {p}
  <2>1. Silent /\ run[p].pc # "fsync" /\ heatLock' = heatLock \ {p}
    BY <1>1, <1>3 DEF Silent
  <2> QED BY <1>3, <2>1, RestoreKeeps
<1>4. \A unread \in IF Fault THEN BOOLEAN ELSE {FALSE} : unread \in BOOLEAN
  OBVIOUS
<1> QED BY <1>2, <1>3, <1>4 DEF MergeLocked

LEMMA RenameKeeps ==
  ASSUME HeatInv, NEW p \in Runs, RenameHeat(p)
  PROVE  HeatInv'
<1> DEFINE r == run[p]
<1>1. UNCHANGED dirsync /\ r.pc = "rename" /\ r \in RunRecords /\ p \in heatLock
  BY ProcessIs DEF RenameHeat, HeatAt
<1>2. CASE /\ heat' = [ok |-> TRUE, slots |-> run[p].file]
           /\ run' = [run EXCEPT ![p].pc = "fsync"] /\ UNCHANGED heatLock
           /\ ghost' = [ghost EXCEPT !.lost = IF run[p].unread THEN Plus(@, heat.slots) ELSE @]
  <2> DEFINE v == [r EXCEPT !.pc = "fsync"]
             gone == IF r.unread THEN heat.slots ELSE Zero
  <2>1. v \in RunRecords /\ v.pc = "fsync" /\ v.deltas = r.deltas
    BY <1>1 DEF RunRecords, HeatPhases
  <2>2. run' = [run EXCEPT ![p] = v]
    BY <1>2
  <2> HIDE DEF v
  <2>3. heat'.slots = Plus(ReadAs(heat, r), r.harvest) /\ heat'.ok = TRUE
        /\ heat' \in [ok : BOOLEAN, slots : Counts]
    BY <1>1, <1>2, ProcessIs
  <2>g. /\ ghost' \in [seen : Counts, lost : Counts, faults : Nat] /\ ghost'.seen = ghost.seen
        /\ gone \in Counts
        /\ \A s \in Slots : ghost'.lost[s] = ghost.lost[s] + gone[s]
    <3>1. /\ gone \in Counts /\ Plus(ghost.lost, gone) \in Counts
          /\ \A s \in Slots : Plus(ghost.lost, gone)[s] = ghost.lost[s] + gone[s]
          /\ Plus(ghost.lost, Zero) = ghost.lost
      BY ProcessIs, CountsAre
    <3>2. ghost' = [ghost EXCEPT !.lost = Plus(ghost.lost, gone)]
      BY <1>2, <3>1
    <3> HIDE DEF gone
    <3>3. /\ ghost' \in [seen : Counts, lost : Counts, faults : Nat] /\ ghost'.seen = ghost.seen
          /\ ghost'.lost = Plus(ghost.lost, gone)
      BY <3>1, <3>2, ProcessIs
    <3> QED BY <3>1, <3>3
  <2>4. Placed(p, v)
    BY <1>1, <1>2, <2>1, ProcessIs DEF Placed
  <2>5. FileKept(p)
    BY <1>1, <1>2, <2>3, <2>g, ProcessIs DEF FileKept
  <2>6. ASSUME NEW s \in Slots
        PROVE  /\ heat'.slots[s] + ghost'.lost[s] + Unmerged(v)[s] + ghost.seen[s]
                    = heat.slots[s] + ghost.lost[s] + Unmerged(r)[s] + ghost'.seen[s]
               /\ heat.slots[s] + ghost.lost[s] + Unmerged(r)[s] + ghost'.seen[s] \in Nat
    <3>1. heat'.slots[s] + gone[s] = heat.slots[s] + r.harvest[s]
      <4>1. /\ ReadAs(heat, r) \in Counts /\ \A a \in Slots : Zero[a] = 0
            /\ heat.slots \in Counts /\ r.harvest \in Counts
        BY ProcessIs, CountsAre DEF ReadAs
      <4>2. heat'.slots[s] = ReadAs(heat, r)[s] + r.harvest[s]
        BY <2>3, <4>1, CountsAre
      <4>3. heat.slots[s] \in Nat /\ r.harvest[s] \in Nat
        BY <4>1 DEF Counts
      <4> QED BY <4>1, <4>2, <4>3 DEF ReadAs
    <3>2. Unmerged(v)[s] = r.deltas[s] /\ Unmerged(r)[s] = r.deltas[s] + r.harvest[s]
          /\ r.deltas[s] \in Nat /\ r.harvest[s] \in Nat
      BY <1>1, <2>1, HoldsBoth
    <3>3. heat.slots[s] \in Nat /\ ghost.lost[s] \in Nat /\ ghost.seen[s] \in Nat
      BY ProcessIs DEF Counts
    <3>4. /\ gone[s] \in Nat /\ heat'.slots[s] \in Nat /\ ghost'.lost[s] = ghost.lost[s] + gone[s]
          /\ ghost'.seen = ghost.seen
      BY <2>3, <2>g DEF Counts
    <3> HIDE DEF gone, r
    <3> QED BY <3>1, <3>2, <3>3, <3>4
  <2>7. Balanced(p, v)
    BY <2>6 DEF Balanced
  <2> QED BY <2>1, <2>2, <2>4, <2>5, <2>7, StepKeeps
<1>3. CASE /\ ghost' = [ghost EXCEPT !.faults = @ + 1] /\ UNCHANGED heat
           /\ run' = [run EXCEPT ![p] = Restored(@)] /\ heatLock' = heatLock \ {p}
  <2>1. Silent /\ run[p].pc # "fsync" /\ heatLock' = heatLock \ {p}
    BY <1>1, <1>3 DEF Silent
  <2> QED BY <1>3, <2>1, RestoreKeeps
<1> QED BY <1>2, <1>3 DEF RenameHeat

LEMMA FsyncKeeps ==
  ASSUME HeatInv, NEW p \in Runs, FsyncDirectory(p)
  PROVE  HeatInv'
<1> DEFINE r == run[p]
<1>1. UNCHANGED heat /\ r.pc = "fsync" /\ r \in RunRecords /\ heatLock' = heatLock \ {p}
  BY ProcessIs DEF FsyncDirectory, HeatAt
<1>2. CASE run' = [run EXCEPT ![p] = Flushed(@)] /\ UNCHANGED <<ghost, dirsync>>
  <2> DEFINE v == Flushed(r)
  <2>1. v \in RunRecords /\ v.pc = "idle" /\ v.harvest = Zero
        /\ \A s \in Slots : Unmerged(v)[s] = Unmerged(r)[s]
    <3>1. \A s \in Slots : Unmerged(r)[s] = r.deltas[s]
      BY <1>1, HoldsBoth
    <3> QED BY <1>1, <3>1, RestoredIs
  <2>2. run' = [run EXCEPT ![p] = v]
    BY <1>2
  <2> HIDE DEF v
  <2>3. Placed(p, v)
    BY <1>1, <2>1 DEF Placed
  <2>4. Silent
    BY <1>1, <1>2 DEF Silent
  <2> QED BY <1>1, <1>2, <2>1, <2>2, <2>3, <2>4, PrivateKeeps
<1>3. CASE /\ ghost' = [ghost EXCEPT !.faults = @ + 1]
           /\ run' = [run EXCEPT ![p] = Restored(@)] /\ dirsync' = TRUE
  <2> DEFINE v == Restored(r)
  <2>1. v \in RunRecords /\ v.pc = "idle" /\ v.harvest = Zero
        /\ \A s \in Slots : Unmerged(v)[s] = r.deltas[s] + r.harvest[s]
    BY <1>1, RestoredIs
  <2>2. run' = [run EXCEPT ![p] = v]
    BY <1>3
  <2> HIDE DEF v
  <2>3. Placed(p, v)
    BY <1>1, <2>1 DEF Placed
  <2>4. /\ ghost' \in [seen : Counts, lost : Counts, faults : Nat]
        /\ ghost'.seen = ghost.seen /\ ghost'.lost = ghost.lost
    BY <1>3, ProcessIs
  <2>5. FileKept(p)
    BY <1>1, <1>3, <2>4, ProcessIs DEF FileKept
  <2>6. ASSUME NEW s \in Slots
        PROVE  heat'.slots[s] + ghost'.lost[s] + Unmerged(v)[s] + ghost.seen[s]
                 >= heat.slots[s] + ghost.lost[s] + Unmerged(r)[s] + ghost'.seen[s]
    <3>1. Unmerged(r)[s] = r.deltas[s] /\ r.deltas[s] \in Nat /\ r.harvest[s] \in Nat
      BY <1>1, HoldsBoth
    <3>2. heat.slots[s] \in Nat /\ ghost.lost[s] \in Nat /\ ghost.seen[s] \in Nat
      BY ProcessIs DEF Counts
    <3> QED BY <1>1, <2>1, <2>4, <3>1, <3>2
  <2>7. Balanced(p, v)
    BY <1>3, <2>6 DEF Balanced
  <2> QED BY <2>1, <2>2, <2>3, <2>5, <2>7, StepKeeps
<1> QED BY <1>2, <1>3 DEF FsyncDirectory

LEMMA KillRunKeeps ==
  ASSUME HeatInv, NEW p \in Runs, KillRun(p)
  PROVE  HeatInv'
<1> DEFINE r == run[p]
           l == Plus(ghost.lost, Unmerged(r))
           v == Fresh
<1>1. /\ run' = [run EXCEPT ![p] = v] /\ heatLock' = heatLock \ {p} /\ UNCHANGED <<heat, dirsync>>
      /\ ghost' = [ghost EXCEPT !.faults = @ + 1, !.lost = l]
  BY DEF KillRun
<1>2. r \in RunRecords /\ Unmerged(r) \in Counts
  BY ProcessIs, UnmergedIs
<1>3. l \in Counts /\ \A s \in Slots : l[s] = ghost.lost[s] + Unmerged(r)[s]
  BY <1>2, ProcessIs, CountsAre
<1> HIDE DEF l, v
<1>4. /\ ghost' \in [seen : Counts, lost : Counts, faults : Nat]
      /\ ghost'.seen = ghost.seen /\ ghost'.lost = l
  <2>1. /\ ghost \in [seen : Counts, lost : Counts, faults : Nat]
        /\ ghost' = [ghost EXCEPT !.faults = ghost.faults + 1, !.lost = l]
    BY <1>1, ProcessIs
  <2>2. ghost.faults + 1 \in Nat
    BY <2>1
  <2> QED BY <1>3, <2>1, <2>2
<1>5. v \in RunRecords /\ v.pc = "idle" /\ v.harvest = Zero /\ \A s \in Slots : Unmerged(v)[s] = 0
  BY FreshIs DEF v
<1>6. Placed(p, v)
  BY <1>1, <1>5 DEF Placed
<1>7. FileKept(p)
  BY <1>1, <1>4, ProcessIs DEF FileKept
<1>8. Balanced(p, v)
  <2>1. \A s \in Slots : /\ heat.slots[s] \in Nat /\ ghost.lost[s] \in Nat
                         /\ ghost.seen[s] \in Nat /\ Unmerged(r)[s] \in Nat
    BY <1>2, ProcessIs DEF Counts
  <2>2. dirsync' \in BOOLEAN
    BY <1>1, ProcessIs
  <2> QED BY <1>1, <1>3, <1>4, <1>5, <2>1, <2>2 DEF Balanced
<1> QED BY <1>1, <1>5, <1>6, <1>7, <1>8, StepKeeps

LEMMA DamageKeeps ==
  ASSUME HeatInv, DamageHeat
  PROVE  HeatInv'
<1> DEFINE l == Plus(ghost.lost, heat.slots)
<1>1. HeatTyped /\ HeatLocked /\ Harvested /\ Counted
  BY DEF HeatInv
<1>2. /\ heatLock = {} /\ UNCHANGED <<heatLock, run, dirsync>>
      /\ ghost' = [ghost EXCEPT !.faults = @ + 1, !.lost = l]
      /\ heat' = [ok |-> FALSE, slots |-> Zero]
  BY DEF DamageHeat
<1>3. /\ heat.slots \in Counts /\ ghost.lost \in Counts /\ ghost.seen \in Counts
      /\ run \in [Runs -> RunRecords]
  BY <1>1 DEF HeatTyped
<1>4. /\ l \in Counts /\ \A s \in Slots : l[s] = ghost.lost[s] + heat.slots[s]
      /\ Zero \in Counts /\ \A s \in Slots : Zero[s] = 0
  BY <1>3, CountsAre
<1> HIDE DEF l
<1>5. ghost'.seen = ghost.seen /\ ghost'.lost = l
      /\ ghost' \in [seen : Counts, lost : Counts, faults : Nat]
  <2>1. /\ ghost \in [seen : Counts, lost : Counts, faults : Nat]
        /\ ghost' = [ghost EXCEPT !.faults = ghost.faults + 1, !.lost = l]
    BY <1>1, <1>2 DEF HeatTyped
  <2>2. ghost.faults + 1 \in Nat
    BY <2>1
  <2> QED BY <1>4, <2>1, <2>2
<1>6. HeatTyped'
  BY <1>1, <1>2, <1>4, <1>5 DEF HeatTyped
<1>7. HeatLocked'
  BY <1>1, <1>2 DEF HeatLocked
<1>8. Harvested'
  <2>1. \A p \in Runs : run[p].pc # "rename"
    BY <1>1, <1>2 DEF HeatLocked
  <2> QED BY <1>1, <1>2, <2>1 DEF Harvested
<1>9. ASSUME NEW s \in Slots
      PROVE  heat'.slots[s] + ghost'.lost[s] + Held(run', s)
               = heat.slots[s] + ghost.lost[s] + Held(run, s)
  <2>1. Held(run, s) \in Nat /\ run' = run
    BY <1>2, <1>3, HeldIsCount
  <2>2. heat.slots[s] \in Nat /\ ghost.lost[s] \in Nat
    BY <1>3 DEF Counts
  <2>3. heat'.slots[s] = 0 /\ ghost'.lost[s] = ghost.lost[s] + heat.slots[s]
    BY <1>2, <1>4, <1>5
  <2> QED BY <2>1, <2>2, <2>3
<1>10. Counted'
  BY <1>1, <1>2, <1>5, <1>9 DEF Counted, Known
<1> QED BY <1>6, <1>7, <1>8, <1>10 DEF HeatInv

LEMMA HeatRests ==
  ASSUME HeatInv, UNCHANGED hvars
  PROVE  HeatInv'
<1>1. UNCHANGED <<heat, heatLock, run, ghost, dirsync>>
  BY DEF hvars
<1>2. HeatTyped' /\ HeatLocked' /\ Harvested' /\ Counted'
  BY <1>1 DEF HeatInv, HeatTyped, HeatLocked, Harvested, Counted, Known
<1> QED BY <1>2 DEF HeatInv

\* In every behaviour of any finite number of processes that share a heat file
\* (expert_heat.rs), one of them at most is between load and fsync, and what each
\* holds is where its phase says.
THEOREM HeatInvariance == HSpec => []HeatInv
<1>1. HInit => HeatInv
  BY HeatStarts
<1>2. ASSUME HeatInv, [HNext]_hvars PROVE HeatInv'
  <2>1. CASE UNCHANGED hvars
    BY <1>2, <2>1, HeatRests
  <2>2. CASE DamageHeat
    BY <1>2, <2>2, DamageKeeps
  <2>3. ASSUME NEW p \in Runs,
               \/ \E present \in (SUBSET Slots) \ {{}} : ObserveLayerRoutes(p, present)
               \/ NotePassCommitted(p) \/ FlushBestEffort(p) \/ HarvestSlot(p) \/ Acquire(p)
               \/ MergeLocked(p) \/ RenameHeat(p) \/ FsyncDirectory(p) \/ KillRun(p)
        PROVE  HeatInv'
    BY <1>2, <2>3, ObserveKeeps, NotePassKeeps, FlushKeeps, HarvestKeeps, AcquireKeeps,
       MergeLockedKeeps, RenameKeeps, FsyncKeeps, KillRunKeeps
  <2> QED BY <1>2, <2>1, <2>2, <2>3 DEF HNext
<1> QED BY <1>1, <1>2, PTL DEF HSpec

\* For every finite set of processes and any number of slots, observations and
\* faults, each observation is in the file, held by exactly one process, or lost
\* with a killed process, a damaged file or a file that a flush could not read and
\* replaced; and counted once unless a directory fsync failed after the rename.
THEOREM HeatIsCounted == HSpec => []HeatCountsOnce
<1>1. ASSUME HeatInv PROVE HeatCountsOnce
  <2>1. Counted
    BY <1>1 DEF HeatInv
  <2> QED BY <2>1 DEF Counted, Known, Held, HeatCountsOnce
<1> QED BY <1>1, HeatInvariance, PTL

-----------------------------------------------------------------------------
(* Upgrade: the inductive invariant.                                         *)

Repositories ==
  [base : Nat, local : Nat, tracking : Nat, remote : Nat, dirty : BOOLEAN]
UpgradePhases == {"idle", "state", "relate", "merge", "verify", "build", "artifact"}
Endings == {"none", "refused", "stopped", "done"}
Upgrades == [pc : UpgradePhases, target : Nat, edited : BOOLEAN, result : Endings]

UpgradeTyped ==
  /\ repo \in Repositories /\ upg \in Upgrades
  /\ edits \in Nat /\ stops5 \in Nat /\ wrong \in KnownObstacles \cup {"nothing"}
  /\ upg.pc # "idle" => upg.result = "none"

\* What was looked for and not found stays out of the way.
Checkout ==
  {"no_checkout", "hip_kernels", "project_files", "ambient_cargo_config", "script_shim", "foreign_owner",
   "cargo_home", "other_workspace"}
Remote ==
  {"other_toplevel", "detached", "no_upstream", "local_remote", "git_hooks", "ssh_remote"}
Cleared ==
  /\ upg.pc # "idle" => wrong \notin Checkout
  /\ upg.pc \notin {"idle", "state"} => wrong \notin Remote
  /\ upg.pc = "artifact" => wrong # "target_symlink"
  /\ upg.result = "done" => wrong = "nothing"

\* HEAD moves to a tree that was compared with its own.
Looked == upg.pc = "merge" => RequireUpdatePreservesData(repo.base, upg.target)

BuiltFromHead ==
  binary = [base |-> repo.base, local |-> repo.local, dirty |-> FALSE,
            env |-> CommandEnvironment(profile)]

\* While the owner keeps out of it, what was verified is still so.
Verified ==
  ~upg.edited =>
    /\ upg.pc \in {"merge", "verify", "build", "artifact"} => ~repo.dirty
    /\ upg.pc \in {"merge", "verify"} => upg.target = repo.tracking
    /\ upg.pc = "merge" => repo.base < repo.tracking /\ repo.local = 0
    /\ upg.pc = "verify" => repo.base = repo.tracking /\ repo.local = 0
    /\ upg.pc \in {"build", "artifact"} => repo.base = repo.tracking
    /\ upg.pc = "artifact" \/ upg.result = "done" => BuiltFromHead
    /\ upg.result = "done" => repo.base = repo.tracking

UpgradeInv == UpgradeTyped /\ Cleared /\ Looked /\ Verified

LEMMA UpgradeStarts == UInit => UpgradeInv
BY UpgradeAssumption
DEF UInit, UpgradeInv, UpgradeTyped, Cleared, Looked, Verified, Repositories, Upgrades,
    UpgradePhases, Endings

\* The fields of the two records that change.
LEMMA UpgradeRecords ==
  ASSUME NEW u \in Upgrades, NEW r \in Repositories
  PROVE  /\ \A x \in Endings : [u EXCEPT !.result = x] \in Upgrades
         /\ \A pc \in UpgradePhases, x \in Endings : [u EXCEPT !.pc = pc, !.result = x] \in Upgrades
         /\ [u EXCEPT !.edited = TRUE] \in Upgrades
         /\ [r EXCEPT !.dirty = ~r.dirty] \in Repositories
         /\ [r EXCEPT !.dirty = FALSE, !.local = r.local + 1] \in Repositories
<1>1. \A x \in Endings : [u EXCEPT !.result = x] \in Upgrades
  BY DEF Upgrades
<1>2. \A pc \in UpgradePhases, x \in Endings : [u EXCEPT !.pc = pc, !.result = x] \in Upgrades
  BY DEF Upgrades
<1>3. [u EXCEPT !.edited = TRUE] \in Upgrades
  BY DEF Upgrades
<1>4. [r EXCEPT !.dirty = ~r.dirty] \in Repositories
  BY DEF Repositories
<1>5. [r EXCEPT !.dirty = FALSE, !.local = r.local + 1] \in Repositories
  <2>1. r.local + 1 \in Nat
    BY DEF Repositories
  <2> QED BY <2>1 DEF Repositories
<1> QED BY <1>1, <1>2, <1>3, <1>4, <1>5

LEMMA RunUpgradeKeeps == ASSUME UpgradeInv, RunUpgrade PROVE UpgradeInv'
<1> USE DEF UpgradeInv, UpgradeTyped, Repositories, Upgrades, UpgradePhases, Endings
<1>1. /\ upg.pc = "idle" /\ UNCHANGED <<wrong, profile, repo, binary, edits, stops5>>
      /\ \/ /\ upg' = [pc |-> "state", target |-> 0, edited |-> FALSE, result |-> "none"]
            /\ wrong \notin Checkout
         \/ upg' = [upg EXCEPT !.result = "refused"]
  BY DEF RunUpgrade, UpgradeAt, LocateRepository, NotBuiltForHip, RequireProjectFiles, PreflightCargo,
         RequireNoAmbientToolchain, ResolveNativeProgram, InspectNativeExecutable,
         RequireIsolatedCargoHome, Works, Checkout
<1>2. UpgradeTyped'
  <2>1. CASE upg' = [upg EXCEPT !.result = "refused"]
    <3>1. upg' \in Upgrades
      <4>1. upg \in Upgrades /\ repo \in Repositories
        OBVIOUS
      <4> HIDE DEF UpgradeInv, UpgradeTyped, Repositories, Upgrades
      <4> QED BY <2>1, <4>1, UpgradeRecords
    <3>2. upg'.pc = "idle"
      BY <1>1, <2>1
    <3> QED BY <1>1, <3>1, <3>2
  <2>2. CASE upg' = [pc |-> "state", target |-> 0, edited |-> FALSE, result |-> "none"]
    BY <1>1, <2>2
  <2> QED BY <1>1, <2>1, <2>2
<1>3. Cleared' /\ Looked' /\ Verified'
  BY <1>1 DEF Cleared, Looked, Verified
<1> QED BY <1>2, <1>3

LEMMA FetchKeeps == ASSUME UpgradeInv, FetchState PROVE UpgradeInv'
<1> USE DEF UpgradeInv, UpgradeTyped, Repositories, Upgrades, UpgradePhases, Endings
<1>1. /\ upg.pc = "state" /\ UNCHANGED <<wrong, profile, binary, edits, stops5>>
      /\ \/ /\ repo' = [repo EXCEPT !.tracking = repo.remote]
            /\ upg' = [upg EXCEPT !.pc = "relate"] /\ wrong \notin Remote
         \/ upg' = [upg EXCEPT !.pc = "idle", !.result = "refused"] /\ repo' = repo
  BY DEF FetchState, UpgradeAt, UpgradeGoes, UpgradeEnds, Tracked,
         RequireNoExecutableGitConfiguration, RequireNativeHttpsRemote, InspectNativeExecutable,
         Works, Remote
<1>2. UpgradeTyped'
  BY <1>1
<1>3. Cleared' /\ Looked' /\ Verified'
  BY <1>1 DEF Cleared, Looked, Verified
<1> QED BY <1>2, <1>3

LEMMA RelateKeeps == ASSUME UpgradeInv, Relate PROVE UpgradeInv'
<1> USE DEF UpgradeInv, UpgradeTyped, Repositories, Upgrades, UpgradePhases, Endings
<1>0. /\ Relationship(repo) \in {"equal", "behind", "ahead", "diverged"}
      /\ Relationship(repo) = "behind" => repo.base < repo.tracking /\ repo.local = 0
      /\ Relationship(repo) \in {"equal", "ahead"} => repo.base = repo.tracking
  BY DEF Relationship
<1>1. /\ upg.pc = "relate" /\ UNCHANGED <<wrong, profile, repo, binary, edits, stops5>>
      /\ \/ upg' = [upg EXCEPT !.pc = "idle", !.result = "refused"]
         \/ /\ upg' = [upg EXCEPT !.pc = "merge", !.target = repo.tracking]
            /\ RequireUpdatePreservesData(repo.base, repo.tracking)
            /\ ~repo.dirty /\ repo.base < repo.tracking /\ repo.local = 0
         \/ /\ upg' = [upg EXCEPT !.pc = "build"]
            /\ ~repo.dirty /\ repo.base = repo.tracking
  BY <1>0 DEF Relate, UpgradeAt, RequireCleanWorktree
<1>2. UpgradeTyped'
  BY <1>1
<1>3. Cleared' /\ Looked' /\ Verified'
  BY <1>1 DEF Cleared, Looked, Verified, RequireUpdatePreservesData
<1> QED BY <1>2, <1>3

\* git merge --ff-only takes HEAD to the target it was checked against.
LEMMA MergeIs ==
  ASSUME UpgradeInv, ApplyFastForward
  PROVE  /\ upg.pc = "merge" /\ UNCHANGED <<wrong, profile, binary, edits, stops5>>
         /\ \/ /\ \E b \in {repo.base, upg.target} :
                    repo' = [repo EXCEPT !.base = b] /\ b >= repo.base /\ b >= upg.target
               /\ upg' = [upg EXCEPT !.pc = "verify"]
            \/ upg' = [upg EXCEPT !.pc = "idle", !.result = "refused"] /\ repo' = repo
BY DEF ApplyFastForward, UpgradeInv, UpgradeTyped, Repositories, Upgrades, UpgradeAt,
       UpgradeGoes, UpgradeEnds

LEMMA FastForwardKeeps == ASSUME UpgradeInv, ApplyFastForward PROVE UpgradeInv'
<1> USE DEF UpgradeInv, UpgradeTyped, Repositories, Upgrades, UpgradePhases, Endings
<1>0. repo.base \in Nat /\ upg.target \in Nat /\ repo.tracking \in Nat
  OBVIOUS
<1>1. CASE upg' = [upg EXCEPT !.pc = "idle", !.result = "refused"] /\ repo' = repo
  BY <1>1, MergeIs DEF Cleared, Looked, Verified
<1>2. CASE ~(upg' = [upg EXCEPT !.pc = "idle", !.result = "refused"] /\ repo' = repo)
  <2>1. PICK b \in {repo.base, upg.target} :
          repo' = [repo EXCEPT !.base = b] /\ b >= repo.base /\ b >= upg.target
    BY <1>2, MergeIs
  <2>2. upg' = [upg EXCEPT !.pc = "verify"] /\ upg.pc = "merge"
        /\ UNCHANGED <<wrong, profile, binary, edits, stops5>>
    BY <1>2, MergeIs
  <2>3. UpgradeTyped'
    BY <1>0, <2>1, <2>2
  <2>4. ~upg.edited => b = repo.tracking
    BY <1>0, <2>1, <2>2 DEF Verified
  <2>5. Cleared' /\ Looked'
    BY <2>2 DEF Cleared, Looked
  <2>6. Verified'
    BY <2>1, <2>2, <2>4 DEF Verified
  <2> QED BY <2>3, <2>5, <2>6
<1> QED BY <1>1, <1>2

LEMMA VerifyKeeps == ASSUME UpgradeInv, VerifyFastForward PROVE UpgradeInv'
<1> USE DEF UpgradeInv, UpgradeTyped, Repositories, Upgrades, UpgradePhases, Endings
<1>1. /\ upg.pc = "verify" /\ UNCHANGED <<wrong, profile, repo, binary, edits, stops5>>
      /\ \/ upg' = [upg EXCEPT !.pc = "build"] /\ ~repo.dirty
         \/ upg' = [upg EXCEPT !.pc = "idle", !.result = "refused"]
  BY DEF VerifyFastForward, UpgradeAt, UpgradeGoes, UpgradeEnds, RequireCleanWorktree
<1>2. UpgradeTyped'
  BY <1>1
<1>3. Cleared' /\ Looked' /\ Verified'
  BY <1>1 DEF Cleared, Looked, Verified
<1> QED BY <1>2, <1>3

LEMMA RebuildKeeps == ASSUME UpgradeInv, RebuildNative PROVE UpgradeInv'
<1> USE DEF UpgradeInv, UpgradeTyped, Repositories, Upgrades, UpgradePhases, Endings
<1>1. /\ upg.pc = "build" /\ UNCHANGED <<wrong, profile, repo, edits, stops5>>
      /\ \/ /\ binary' = [base |-> repo.base, local |-> repo.local, dirty |-> repo.dirty,
                          env |-> CommandEnvironment(profile)]
            /\ upg' = [upg EXCEPT !.pc = "artifact"] /\ wrong # "target_symlink"
         \/ upg' = [upg EXCEPT !.pc = "idle", !.result = "refused"] /\ binary' = binary
  BY DEF RebuildNative, UpgradeAt, UpgradeGoes, UpgradeEnds, RequireSafeTargetRoot, Works
<1>2. UpgradeTyped'
  BY <1>1
<1>3. Cleared' /\ Looked'
  BY <1>1 DEF Cleared, Looked
<1>4. Verified'
  BY <1>1 DEF Verified, BuiltFromHead, CommandEnvironment
<1> QED BY <1>2, <1>3, <1>4

LEMMA VerifyBuiltKeeps == ASSUME UpgradeInv, VerifyBuilt PROVE UpgradeInv'
<1> USE DEF UpgradeInv, UpgradeTyped, Repositories, Upgrades, UpgradePhases, Endings
<1>1. /\ upg.pc = "artifact" /\ UNCHANGED <<wrong, profile, repo, binary, edits, stops5>>
      /\ \/ /\ upg' = [upg EXCEPT !.pc = "idle", !.result = "done"]
            /\ wrong # "artifact_outside_target"
         \/ upg' = [upg EXCEPT !.pc = "idle", !.result = "refused"]
  BY DEF VerifyBuilt, UpgradeAt, UpgradeEnds, VerifyArtifact, Works
<1>2. wrong # "artifact_outside_target" => wrong = "nothing"
  BY <1>1 DEF Cleared, Checkout, Remote, KnownObstacles
<1>3. UpgradeTyped'
  BY <1>1
<1>4. Cleared' /\ Looked'
  BY <1>1, <1>2 DEF Cleared, Looked
<1>5. Verified'
  BY <1>1 DEF Verified, BuiltFromHead, CommandEnvironment
<1> QED BY <1>3, <1>4, <1>5

LEMMA OthersKeep ==
  ASSUME UpgradeInv, UpgradeStops \/ OwnerSteps \/ UpstreamMoves PROVE UpgradeInv'
<1> USE DEF UpgradeInv, UpgradeTyped, Repositories, Upgrades, UpgradePhases, Endings
<1>1. CASE UpgradeStops
  <2>1. /\ upg' = [upg EXCEPT !.pc = "idle", !.result = "stopped"] /\ stops5' = stops5 + 1
        /\ UNCHANGED <<wrong, profile, repo, binary, edits>>
    BY <1>1 DEF UpgradeStops, UpgradeEnds
  <2>2. UpgradeTyped'
    <3>1. upg' \in Upgrades
      <4>1. upg \in Upgrades /\ repo \in Repositories
        OBVIOUS
      <4> HIDE DEF UpgradeInv, UpgradeTyped, Repositories, Upgrades
      <4> QED BY <2>1, <4>1, UpgradeRecords
    <3>2. upg'.pc = "idle"
      BY <2>1
    <3> QED BY <2>1, <3>1, <3>2
  <2>3. Cleared' /\ Looked' /\ Verified'
    BY <2>1 DEF Cleared, Looked, Verified
  <2> QED BY <2>2, <2>3
<1>2. CASE OwnerSteps
  <2>1. /\ \/ repo' = [repo EXCEPT !.dirty = ~repo.dirty]
           \/ repo' = [repo EXCEPT !.dirty = FALSE, !.local = repo.local + 1]
        /\ upg' = [upg EXCEPT !.edited = TRUE] /\ edits' = edits + 1
        /\ UNCHANGED <<wrong, profile, binary, stops5>>
    BY <1>2 DEF OwnerSteps
  <2>2. UpgradeTyped'
    <3>1. repo' \in Repositories
      <4>1. upg \in Upgrades /\ repo \in Repositories
        OBVIOUS
      <4> HIDE DEF UpgradeInv, UpgradeTyped, Repositories, Upgrades
      <4>2. [repo EXCEPT !.dirty = ~repo.dirty] \in Repositories
        BY <4>1, UpgradeRecords
      <4>3. [repo EXCEPT !.dirty = FALSE, !.local = repo.local + 1] \in Repositories
        BY <4>1, UpgradeRecords
      <4> QED BY <2>1, <4>2, <4>3
    <3>2. upg' \in Upgrades
      <4>1. upg \in Upgrades /\ repo \in Repositories
        OBVIOUS
      <4> HIDE DEF UpgradeInv, UpgradeTyped, Repositories, Upgrades
      <4> QED BY <2>1, <4>1, UpgradeRecords
    <3>3. upg'.pc = upg.pc /\ upg'.result = upg.result /\ edits' \in Nat
      BY <2>1
    <3> QED BY <2>1, <3>1, <3>2, <3>3
  <2>3. Cleared' /\ Looked' /\ Verified'
    BY <2>1 DEF Cleared, Looked, Verified, RequireUpdatePreservesData
  <2> QED BY <2>2, <2>3
<1>3. CASE UpstreamMoves
  BY <1>3 DEF UpstreamMoves, Cleared, Looked, Verified, BuiltFromHead, CommandEnvironment,
              RequireUpdatePreservesData
<1> QED BY <1>1, <1>2, <1>3

\* In every behaviour of an upgrade (upgrade.rs), for every number of revisions,
\* edits of the owner and stops: what it looked for and did not find stays out of
\* its way, and what it verified is so until the owner steps in.
THEOREM UpgradeInvariance == USpec => []UpgradeInv
<1>1. UpgradeInv /\ UNCHANGED uvars => UpgradeInv'
  BY DEF uvars, UpgradeInv, UpgradeTyped, Cleared, Looked, Verified, BuiltFromHead
<1>2. UpgradeInv /\ [UNext]_uvars => UpgradeInv'
  BY <1>1, RunUpgradeKeeps, FetchKeeps, RelateKeeps, FastForwardKeeps, VerifyKeeps, RebuildKeeps,
     VerifyBuiltKeeps, OthersKeep DEF UNext
<1> QED BY <1>2, UpgradeStarts, PTL DEF USpec

\* For every instance, an upgrade that reports success while the owner kept out of
\* it leaves a binary built from HEAD of a clean tree with the profile of the old
\* one, wherever earlier ones were killed.
THEOREM SuccessIsHead == USpec => []UpgradedBinaryIsHead
<1>1. UpgradeInv => UpgradedBinaryIsHead
  BY DEF UpgradeInv, Cleared, Verified, BuiltFromHead, UpgradedBinaryIsHead
<1> QED BY <1>1, UpgradeInvariance, PTL

\* For every history of upstream, whatever its revisions do to the reserved paths,
\* and every number of edits and stops: no step of an upgrade drops a commit or an
\* edit of the owner, or moves HEAD to a tree that differs at a path reserved for
\* data (apply_fast_forward, require_update_preserves_data).
THEOREM WorkIsPreserved == USpec => OwnersWorkIsPreserved
<1>1. ASSUME UpgradeInv, [UNext]_uvars PROVE [PreservesWork]_uvars
  <2> USE DEF UpgradeInv, UpgradeTyped, Repositories, Upgrades
  <2>0. repo.base \in Nat /\ upg.target \in Nat /\ edits \in Nat
    BY <1>1
  <2>1. CASE ApplyFastForward
    <3>1. CASE repo' = repo
      BY <3>1, <2>0 DEF PreservesWork
    <3>2. CASE repo' # repo
      <4>1. PICK b \in {repo.base, upg.target} :
              repo' = [repo EXCEPT !.base = b] /\ b >= repo.base /\ upg.pc = "merge"
        BY <1>1, <2>1, <3>2, MergeIs
      <4>2. DataTree[repo.base] = DataTree[upg.target]
        BY <1>1, <4>1 DEF Looked, RequireUpdatePreservesData
      <4>3. DataTree[b] = DataTree[repo.base]
        BY <4>1, <4>2
      <4>4. repo'.local = repo.local /\ repo'.dirty = repo.dirty /\ repo'.base = b
        BY <1>1, <4>1
      <4> QED BY <4>1, <4>3, <4>4 DEF PreservesWork
    <3> QED BY <3>1, <3>2
  <2>2. CASE OwnerSteps
    BY <2>0, <2>2 DEF OwnerSteps, PreservesWork
  <2>3. CASE FetchState \/ UpstreamMoves
    <3>1. repo'.local = repo.local /\ repo'.dirty = repo.dirty /\ repo'.base = repo.base
      BY <1>1, <2>3 DEF FetchState, UpstreamMoves
    <3> QED BY <2>0, <3>1 DEF PreservesWork
  <2>4. CASE repo' = repo
    BY <2>0, <2>4 DEF PreservesWork
  <2> QED BY <1>1, <2>1, <2>2, <2>3, <2>4 DEF UNext, RunUpgrade, Relate, VerifyFastForward,
             RebuildNative, VerifyBuilt, UpgradeStops, uvars
<1> QED BY <1>1, UpgradeInvariance, PTL DEF USpec, OwnersWorkIsPreserved

-----------------------------------------------------------------------------
(* OneShotSetup: the inductive invariant.                                    *)

Modes == {"full", "stream"}
SetupPhases ==
  {"idle", "meta", "replan", "dspark", "qwen", "replan2", "weights", "spine"}
Volumes ==
  [free : Nat, meta : Found, dspark : Found, qwen : Found,
   resident : 0 .. ResidentBytes1, experts : 0 .. ExpertBytes1, temp : 0 .. TempBytes,
   spine : 0 .. SpineBytes]
Setups ==
  [pc : SetupPhases, mode : Modes \cup {"auto"},
   result : {"none", "failed", "no_room", "enospc", "unconverted", "stopped", "complete"}]

SetupTyped ==
  /\ options \in [mode : Modes \cup {"auto"}, qwen : BOOLEAN]
  /\ volume \in Volumes /\ setup \in Setups /\ foreign \in Nat /\ stops \in Nat
  /\ cleared \in BOOLEAN

\* Metadata comes first, and a running setup has a mode and nothing damaged.
Order ==
  /\ setup.pc # "idle" =>
       setup.mode \in Modes /\ setup.result = "none" /\ volume.meta # "damaged"
  /\ setup.pc \notin {"idle", "meta"} => volume.meta = "ok"
  /\ setup.pc = "qwen" => options.qwen

\* What is still to be fetched beside what is already on the way.
ToFetch(v, mode) ==
  LET missing == (ResidentBytes1 - v.resident)
                 + (IF mode = "full" THEN ExpertBytes1 - v.experts ELSE 0)
  IN  IF missing > v.temp THEN missing - v.temp ELSE 0

\* The room a setup lives on, as long as nobody else takes any: at every point
\* the rest of its downloads fits, and the headroom beside it; and once the room
\* of anything was checked, the spine fits to the end.
Room ==
  /\ cleared => volume.free + volume.spine >= SpineBytes
  /\ setup.pc = "meta" /\ volume.meta = "absent" => volume.free >= MetaBytes + Headroom
  /\ setup.pc = "dspark" /\ volume.dspark = "absent" =>
       volume.free >= DSparkBytes + Headroom
                      + (IF options.qwen /\ volume.qwen = "absent" THEN QwenBytes ELSE 0)
  /\ setup.pc \in {"dspark", "qwen"} /\ options.qwen /\ volume.qwen = "absent" =>
       volume.free >= QwenBytes + Headroom
  /\ setup.pc = "weights" =>
       \/ WeightsMissing(setup.mode) = 0
       \/ volume.free >= ToFetch(volume, setup.mode) + TempBytes + Headroom

Accepted(mode) == ~InspectFails /\ IsComplete(CalculatePlan(mode))
Acceptable == \E m \in Modes : Accepted(m)

SetupInv ==
  /\ SetupTyped /\ Order
  /\ foreign = 0 => Room /\ setup.result # "enospc"
  /\ foreign = 0 /\ cleared => setup.result # "unconverted"
  /\ setup.pc = "spine" \/ setup.result = "complete" => Acceptable

-----------------------------------------------------------------------------
(* Amounts.                                                                  *)

LEMMA SizesAre ==
  /\ MetaBytes \in Nat /\ MetaBytes > 0 /\ DSparkBytes \in Nat /\ DSparkBytes > 0
  /\ QwenBytes \in Nat /\ QwenBytes > 0 /\ ResidentBytes1 \in Nat /\ ExpertBytes1 \in Nat
  /\ TempBytes \in Nat /\ Headroom \in Nat /\ SpineBytes \in Nat /\ SpineBytes <= Headroom
  /\ Capacity \in Nat
BY SetupAssumption

LEMMA VolumeIs ==
  ASSUME SetupTyped
  PROVE  /\ volume.free \in Nat /\ volume.resident \in 0 .. ResidentBytes1
         /\ volume.experts \in 0 .. ExpertBytes1 /\ volume.temp \in 0 .. TempBytes
         /\ volume.spine \in 0 .. SpineBytes
         /\ volume.meta \in Found /\ volume.dspark \in Found /\ volume.qwen \in Found
         /\ options.qwen \in BOOLEAN /\ cleared \in BOOLEAN
         /\ setup.pc \in SetupPhases /\ setup.mode \in Modes \cup {"auto"}
BY DEF SetupTyped, Volumes, Setups

\* Damaged metadata ends every plan.
LEMMA InspectIs == ASSUME SetupTyped, volume.meta = "damaged" PROVE InspectFails
BY VolumeIs DEF InspectFails, Wanted, Parts

LEMMA MissingIs ==
  ASSUME SetupTyped
  PROVE  /\ MissingOf("meta") = (IF volume.meta = "absent" THEN MetaBytes ELSE 0)
         /\ MissingOf("dspark") = (IF volume.dspark = "absent" THEN DSparkBytes ELSE 0)
         /\ MissingOf("qwen") = (IF volume.qwen = "absent" THEN QwenBytes ELSE 0)
         /\ \A part \in Parts : MissingOf(part) \in Nat
<1>1. SizeOf("meta") = MetaBytes /\ SizeOf("dspark") = DSparkBytes /\ SizeOf("qwen") = QwenBytes
  BY DEF SizeOf
<1> QED BY <1>1, SizesAre DEF MissingOf, Parts

LEMMA CommonIs ==
  ASSUME SetupTyped
  PROVE  /\ CommonMissing \in Nat
         /\ CommonMissing >= MissingOf("meta")
         /\ CommonMissing >= MissingOf("dspark") + (IF options.qwen THEN MissingOf("qwen") ELSE 0)
<1>1. /\ MissingOf("meta") \in Nat /\ MissingOf("dspark") \in Nat /\ MissingOf("qwen") \in Nat
      /\ options.qwen \in BOOLEAN
  BY MissingIs, VolumeIs DEF Parts
<1> QED BY <1>1 DEF CommonMissing

LEMMA WeightsAre ==
  ASSUME SetupTyped, NEW m \in Modes
  PROVE  /\ WeightsMissing(m) \in Nat /\ WeightWork(m) \in Nat /\ WeightPeak(m) \in Nat
         /\ volume.meta # "absent" =>
              /\ WeightWork(m) = WeightsMissing(m)
              /\ WeightsMissing(m) > 0 => WeightPeak(m) = WeightsMissing(m) + TempBytes
         /\ WeightsMissing(m) =
              (ResidentBytes1 - volume.resident)
              + (IF m = "full" THEN ExpertBytes1 - volume.experts ELSE 0)
<1>1. /\ ResidentBytes1 - volume.resident \in Nat /\ ExpertBytes1 - volume.experts \in Nat
      /\ ResidentBytes1 \in Nat /\ ExpertBytes1 \in Nat /\ TempBytes \in Nat
  BY VolumeIs, SizesAre
<1>2. WeightsMissing(m) \in Nat /\ WeightBytes(m) \in Nat
  BY <1>1 DEF WeightsMissing, WeightBytes
<1>3. WeightWork(m) \in Nat /\ WeightPeak(m) \in Nat
  BY <1>1, <1>2 DEF WeightWork, WeightPeak
<1> QED BY <1>2, <1>3 DEF WeightsMissing, WeightWork, WeightPeak

\* A plan that fits has room for all of its parts and the headroom beside them.
LEMMA FitsIs ==
  ASSUME SetupTyped, NEW m \in Modes, HasCapacity(CalculatePlan(m)),
         CommonMissing > 0 \/ WeightWork(m) > 0
  PROVE  volume.free >= CommonMissing + WeightPeak(m) + Headroom
<1>1. CommonMissing \in Nat /\ WeightWork(m) \in Nat /\ WeightPeak(m) \in Nat
  BY CommonIs, WeightsAre
<1>2. CommonMissing + WeightWork(m) # 0
  BY <1>1
<1>3. CalculatePlan(m).required = CommonMissing + WeightPeak(m) + Headroom
  BY <1>2 DEF CalculatePlan
<1> QED BY <1>1, <1>3, SizesAre, VolumeIs DEF HasCapacity

LEMMA CompleteIs ==
  ASSUME SetupTyped, NEW m \in Modes
  PROVE  IsComplete(CalculatePlan(m)) <=> CommonMissing + WeightWork(m) = 0
BY DEF IsComplete, CalculatePlan

\* What was accepted depends on the installation and the options alone.
LEMMA AcceptedStays ==
  ASSUME Acceptable, options' = options,
         \A f \in {"meta", "dspark", "qwen", "resident", "experts"} : volume'[f] = volume[f]
  PROVE  Acceptable'
<1>1. /\ volume'["meta"] = volume["meta"] /\ volume'["dspark"] = volume["dspark"]
      /\ volume'["qwen"] = volume["qwen"] /\ volume'["resident"] = volume["resident"]
      /\ volume'["experts"] = volume["experts"]
  OBVIOUS
<1>2. PICK m \in Modes : Accepted(m)
  BY DEF Acceptable
<1>3. Accepted(m)'
  BY <1>1, <1>2
  DEF Accepted, InspectFails, Wanted, Parts, IsComplete, CalculatePlan, CommonMissing,
      MissingOf, WeightWork, WeightBytes, WeightsMissing, SizeOf
<1> QED BY <1>3 DEF Acceptable

LEMMA SetupStarts == OInit => SetupInv
<1> SUFFICES ASSUME OInit PROVE SetupInv
  OBVIOUS
<1>1. SetupTyped
  <2>1. /\ volume.free \in Nat
        /\ volume = [free |-> volume.free, meta |-> volume.meta, dspark |-> volume.dspark,
                     qwen |-> volume.qwen, resident |-> volume.resident,
                     experts |-> volume.experts, temp |-> volume.temp, spine |-> volume.spine]
        /\ volume.meta \in Found /\ volume.dspark \in Found /\ volume.qwen \in Found
        /\ volume.resident \in 0 .. ResidentBytes1 /\ volume.experts \in 0 .. ExpertBytes1
        /\ volume.temp \in 0 .. TempBytes /\ volume.spine \in 0 .. SpineBytes
    BY SizesAre DEF OInit
  <2>2. volume \in Volumes
    BY <2>1 DEF Volumes
  <2>3. setup \in Setups
    BY DEF OInit, Setups, SetupPhases
  <2> QED BY <2>2, <2>3 DEF OInit, SetupTyped, Modes
<1>2. setup.pc = "idle" /\ setup.result = "none" /\ ~cleared
  BY DEF OInit
<1> QED BY <1>1, <1>2 DEF SetupInv, Order, Room

-----------------------------------------------------------------------------
(* One lemma for each step.                                                  *)

Unmoved == UNCHANGED <<options, foreign, stops>>

\* A check that passes with something to download leaves room for the spine.
LEMMA ClearsIs ==
  ASSUME SetupTyped, NEW m \in Modes, Clears(CalculatePlan(m))
  PROVE  /\ cleared' \in BOOLEAN
         /\ cleared' => cleared \/ volume.free + volume.spine >= SpineBytes
         /\ ~HasCapacity(CalculatePlan(m)) => cleared' = cleared
<1>1. cleared \in BOOLEAN
  BY VolumeIs
<1>2. cleared' = (cleared \/ (HasCapacity(CalculatePlan(m)) /\ ~IsComplete(CalculatePlan(m))))
  BY DEF Clears
<1>3. ASSUME HasCapacity(CalculatePlan(m)), ~IsComplete(CalculatePlan(m))
      PROVE  volume.free + volume.spine >= SpineBytes
  <2>1. /\ CommonMissing \in Nat /\ WeightWork(m) \in Nat /\ WeightPeak(m) \in Nat
        /\ volume.free \in Nat /\ volume.spine \in Nat
    BY CommonIs, WeightsAre, VolumeIs, SizesAre
  <2>2. CommonMissing > 0 \/ WeightWork(m) > 0
    BY <1>3, <2>1, CompleteIs
  <2>3. volume.free >= CommonMissing + WeightPeak(m) + Headroom
    BY <1>3, <2>2, FitsIs
  <2> QED BY <2>1, <2>3, SizesAre
<1> QED BY <1>1, <1>2, <1>3

\* A setup that gives up leaves everything as it is.
LEMMA SetupEndKeeps ==
  ASSUME SetupInv, options' = options, volume' = volume, foreign' = foreign, stops' \in Nat,
         cleared' = cleared, NEW r \in {"failed", "no_room", "stopped", "enospc", "unconverted"},
         r = "enospc" => foreign # 0, r = "unconverted" => foreign # 0 \/ ~cleared,
         setup' = [setup EXCEPT !.pc = "idle", !.result = r]
  PROVE  SetupInv'
<1>1. /\ setup'.pc = "idle" /\ setup'.result = r /\ setup'.mode = setup.mode
      /\ setup \in Setups
  BY DEF SetupInv, SetupTyped, Setups
<1>2. SetupTyped'
  <2>1. setup' \in Setups
    BY <1>1 DEF Setups, SetupPhases
  <2> QED BY <2>1 DEF SetupInv, SetupTyped
<1>3. Order'
  BY <1>1 DEF SetupInv, Order
<1>4. /\ foreign' = 0 => Room' /\ setup'.result # "enospc"
      /\ foreign' = 0 /\ cleared' => setup'.result # "unconverted"
  BY <1>1 DEF SetupInv, Room
<1> QED BY <1>1, <1>2, <1>3, <1>4 DEF SetupInv

\* A setup goes on to its next phase and changes nothing else.
LEMMA GoKeeps ==
  ASSUME SetupInv, Unmoved, volume' = volume, cleared' \in BOOLEAN, NEW pc \in SetupPhases, pc # "idle",
         NEW m \in Modes, setup' = [pc |-> pc, mode |-> m, result |-> "none"],
         volume.meta # "damaged", pc # "meta" => volume.meta = "ok",
         pc = "qwen" => options.qwen, foreign = 0 => Room', pc = "spine" => Acceptable
  PROVE  SetupInv'
<1>1. SetupTyped'
  BY DEF SetupInv, SetupTyped, Setups, Unmoved
<1>2. Order'
  BY DEF SetupInv, Order, Unmoved
<1>3. pc = "spine" => Acceptable'
  BY AcceptedStays DEF Unmoved
<1>4. Order' /\ SetupTyped' /\ setup'.pc = pc /\ setup'.result = "none" /\ foreign' = foreign
  BY <1>1, <1>2 DEF Unmoved
<1> QED BY <1>3, <1>4 DEF SetupInv

LEMMA RunSetupKeeps == ASSUME SetupInv, RunSetup PROVE SetupInv'
<1>0. SetupTyped /\ options' = options /\ volume' = volume /\ foreign' = foreign /\ stops' = stops
      /\ setup.pc = "idle" /\ stops \in Nat
  BY DEF RunSetup, SetupInv, SetupTyped, PcIs
<1>p. PICK m \in Modes : Plan = CalculatePlan(m)
  BY DEF Plan, Modes, SetupInv, SetupTyped
<1>c. /\ cleared' \in BOOLEAN
      /\ cleared' => cleared \/ volume.free + volume.spine >= SpineBytes
      /\ InspectFails \/ ~HasCapacity(Plan) => cleared' = cleared
  <2>1. CASE InspectFails
    BY <1>0, <2>1, VolumeIs DEF RunSetup
  <2>2. CASE ~InspectFails
    BY <1>0, <1>p, <2>2, ClearsIs DEF RunSetup
  <2> QED BY <2>1, <2>2
<1>1. CASE InspectFails \/ ~HasCapacity(Plan)
  <2>1. \E r \in {"failed", "no_room"} : setup' = [setup EXCEPT !.pc = "idle", !.result = r]
    BY <1>1 DEF RunSetup, SetupEnds
  <2> QED BY <1>0, <1>1, <1>c, <2>1, SetupEndKeeps
<1>2. CASE ~InspectFails /\ HasCapacity(Plan)
  <2>1. m \in Modes /\ Plan = CalculatePlan(m)
    BY <1>p
  <2>2. setup' = [pc |-> "meta", mode |-> m, result |-> "none"]
    <3>1. setup' = [pc |-> "meta", mode |-> Plan.mode, result |-> "none"]
      BY <1>2 DEF RunSetup
    <3>2. Plan.mode = m
      BY <2>1 DEF CalculatePlan
    <3> QED BY <3>1, <3>2
  <2>3. volume.meta # "damaged"
    BY <1>0, <1>2, InspectIs
  <2>4. volume.meta = "absent" => volume.free >= MetaBytes + Headroom
    <3> SUFFICES ASSUME volume.meta = "absent" PROVE volume.free >= MetaBytes + Headroom
      OBVIOUS
    <3>1. /\ CommonMissing \in Nat /\ CommonMissing >= MetaBytes
          /\ WeightPeak(m) \in Nat /\ MetaBytes > 0
      BY <1>0, CommonIs, MissingIs, WeightsAre, SizesAre
    <3>2. volume.free >= CommonMissing + WeightPeak(m) + Headroom
      BY <1>0, <1>2, <2>1, <3>1, FitsIs, SizesAre
    <3> QED BY <1>0, <3>1, <3>2, SizesAre, VolumeIs
  <2>5. foreign = 0 => Room'
    BY <1>0, <1>c, <2>2, <2>4 DEF SetupInv, Room
  <2> QED BY <1>0, <1>c, <2>2, <2>3, <2>5, GoKeeps DEF Unmoved, SetupPhases
<1> QED BY <1>1, <1>2

\* Installing a part takes its size and leaves the room of those behind it.
LEMMA InstallKeeps ==
  ASSUME SetupInv, NEW part \in Parts, InstallPart(part)
  PROVE  SetupInv'
<1>0. /\ SetupTyped /\ Order /\ Unmoved /\ setup.pc = part /\ setup \in Setups
      /\ setup.mode \in Modes /\ setup.result = "none" /\ volume \in Volumes
      /\ part \in {"meta", "dspark", "qwen"} /\ stops \in Nat /\ foreign \in Nat
      /\ cleared' = cleared /\ cleared \in BOOLEAN
  BY DEF InstallPart, SetupInv, SetupTyped, Order, PcIs, Unmoved, Parts
<1>1. /\ MissingOf("meta") = (IF volume.meta = "absent" THEN MetaBytes ELSE 0)
      /\ MissingOf("dspark") = (IF volume.dspark = "absent" THEN DSparkBytes ELSE 0)
      /\ MissingOf("qwen") = (IF volume.qwen = "absent" THEN QwenBytes ELSE 0)
      /\ MissingOf(part) \in Nat
  BY <1>0, MissingIs
<1>a. ASSUME foreign = 0, MissingOf(part) # 0
      PROVE  volume.free >= MissingOf(part) + Headroom
  <2>1. Room
    BY <1>a DEF SetupInv
  <2>2. volume.free \in Nat /\ options.qwen \in BOOLEAN
    BY <1>0, VolumeIs
  <2>3. CASE part = "meta"
    BY <1>0, <1>1, <1>a, <2>1, <2>3 DEF Room
  <2>4. CASE part = "dspark"
    <3>1. volume.dspark = "absent" /\ MissingOf(part) = DSparkBytes
      BY <1>1, <1>a, <2>4
    <3>2. volume.free >= DSparkBytes + Headroom
                         + (IF options.qwen /\ volume.qwen = "absent" THEN QwenBytes ELSE 0)
      BY <1>0, <2>1, <2>4, <3>1 DEF Room
    <3> QED BY <2>2, <3>1, <3>2, SizesAre
  <2>5. CASE part = "qwen"
    <3>1. volume.qwen = "absent" /\ MissingOf(part) = QwenBytes /\ options.qwen
      BY <1>0, <1>1, <1>a, <2>5 DEF Order
    <3> QED BY <1>0, <2>1, <2>5, <3>1 DEF Room
  <2> QED BY <1>0, <2>3, <2>4, <2>5
<1>2. CASE ~(MissingOf(part) <= volume.free)
  <2>1. foreign # 0
    BY <1>0, <1>1, <1>2, <1>a, SizesAre, VolumeIs
  <2>2. setup' = [setup EXCEPT !.pc = "idle", !.result = "enospc"] /\ volume' = volume
    BY <1>2 DEF InstallPart, SetupEnds
  <2> QED BY <1>0, <2>1, <2>2, SetupEndKeeps DEF Unmoved
<1>3. CASE MissingOf(part) <= volume.free
  <2>1. /\ volume' = [volume EXCEPT ![part] = "ok", !.free = volume.free - MissingOf(part)]
        /\ setup' = [setup EXCEPT !.pc = NextPc(part)]
    BY <1>3 DEF InstallPart, SetupGoes
  <2>2. volume.free - MissingOf(part) \in Nat /\ volume.free \in Nat
    BY <1>0, <1>1, <1>3, VolumeIs
  <2>3. volume' \in Volumes
    BY <1>0, <2>1, <2>2 DEF Volumes, Found
  <2>4. /\ NextPc(part) \in SetupPhases \ {"idle", "meta", "dspark", "weights", "spine"}
        /\ NextPc(part) = "qwen" => part = "dspark" /\ options.qwen
    BY <1>0, VolumeIs DEF NextPc, SetupPhases
  <2>5. setup' \in Setups /\ setup'.pc = NextPc(part) /\ setup'.mode = setup.mode
        /\ setup'.result = "none"
    BY <1>0, <2>1, <2>4 DEF Setups
  <2>6. SetupTyped'
    BY <1>0, <2>3, <2>5 DEF SetupTyped, Unmoved
  <2>7. volume'.meta = "ok" /\ volume.meta # "damaged"
    BY <1>0, <2>1 DEF Volumes, Order
  <2>8. Order'
    BY <1>0, <2>1, <2>4, <2>5, <2>7 DEF Order, Unmoved, Volumes
  <2>9. ASSUME foreign' = 0 PROVE Room'
    <3>1. Room /\ foreign = 0
      BY <1>0, <2>9 DEF SetupInv, Unmoved
    <3>2. /\ volume'.free = volume.free - MissingOf(part) /\ volume'.spine = volume.spine
          /\ volume'.qwen = (IF part = "qwen" THEN "ok" ELSE volume.qwen)
      BY <1>0, <2>1 DEF Volumes
    <3>3. cleared' => volume'.free + volume'.spine >= SpineBytes
      <4>1. CASE MissingOf(part) = 0
        BY <1>0, <3>1, <3>2, <4>1, <1>1, SizesAre, VolumeIs DEF Room, Order
      <4>2. CASE MissingOf(part) # 0
        <5>1. volume.free - MissingOf(part) >= Headroom
          BY <1>0, <1>1, <1>a, <3>1, <4>2, SizesAre, VolumeIs
        <5> QED BY <2>2, <3>2, <5>1, SizesAre, VolumeIs, <1>0
      <4> QED BY <4>1, <4>2
    <3>4. NextPc(part) = "qwen" /\ volume.qwen = "absent" => volume'.free >= QwenBytes + Headroom
      BY <1>0, <1>1, <2>4, <3>1, <3>2, SizesAre, VolumeIs DEF Room
    <3> QED BY <2>4, <2>5, <3>2, <3>3, <3>4 DEF Room
  <2> QED BY <1>0, <2>4, <2>5, <2>6, <2>8, <2>9 DEF SetupInv
<1> QED BY <1>2, <1>3

\* Planning again is what the room behind it comes from.
LEMMA ReplanKeeps ==
  ASSUME SetupInv, Replan("replan", "dspark") \/ Replan("replan2", "weights")
  PROVE  SetupInv'
<1> DEFINE next == IF setup.pc = "replan" THEN "dspark" ELSE "weights"
           m == setup.mode
<1>0. /\ SetupTyped /\ Order /\ Unmoved /\ volume' = volume /\ setup \in Setups
      /\ setup.pc \in {"replan", "replan2"} /\ m \in Modes /\ setup.result = "none"
      /\ volume.meta = "ok" /\ stops \in Nat
      /\ ~InspectFails /\ HasCapacity(CalculatePlan(m)) => setup' = [setup EXCEPT !.pc = next]
  BY DEF Replan, SetupInv, SetupTyped, Order, PcIs, Unmoved, SetupGoes
<1>c. /\ cleared' \in BOOLEAN
      /\ cleared' => cleared \/ volume.free + volume.spine >= SpineBytes
      /\ InspectFails \/ ~HasCapacity(CalculatePlan(m)) => cleared' = cleared
  <2>1. CASE InspectFails
    BY <1>0, <2>1, VolumeIs DEF Replan
  <2>2. CASE ~InspectFails
    BY <1>0, <2>2, ClearsIs DEF Replan
  <2> QED BY <2>1, <2>2
<1>1. CASE InspectFails \/ ~HasCapacity(CalculatePlan(m))
  <2>1. \E r \in {"failed", "no_room"} : setup' = [setup EXCEPT !.pc = "idle", !.result = r]
    BY <1>1 DEF Replan, SetupEnds
  <2> QED BY <1>0, <1>1, <1>c, <2>1, SetupEndKeeps DEF Unmoved
<1>2. CASE ~InspectFails /\ HasCapacity(CalculatePlan(m))
  <2>1. setup' = [pc |-> next, mode |-> m, result |-> "none"]
    BY <1>0, <1>2 DEF Setups
  <2>2. /\ CommonMissing \in Nat /\ WeightPeak(m) \in Nat /\ WeightWork(m) = WeightsMissing(m)
        /\ WeightsMissing(m) \in Nat
        /\ WeightsMissing(m) > 0 => WeightPeak(m) = WeightsMissing(m) + TempBytes
        /\ CommonMissing >= (IF volume.dspark = "absent" THEN DSparkBytes ELSE 0)
                            + (IF options.qwen /\ volume.qwen = "absent" THEN QwenBytes ELSE 0)
    <3>1. /\ CommonMissing \in Nat
          /\ CommonMissing >= MissingOf("dspark") + (IF options.qwen THEN MissingOf("qwen") ELSE 0)
      BY <1>0, CommonIs
    <3>2. options.qwen \in BOOLEAN
      BY <1>0, VolumeIs
    <3>3. CommonMissing >= (IF volume.dspark = "absent" THEN DSparkBytes ELSE 0)
                           + (IF options.qwen /\ volume.qwen = "absent" THEN QwenBytes ELSE 0)
      BY <1>0, <3>1, <3>2, MissingIs, SizesAre
    <3> QED BY <1>0, <3>1, <3>3, WeightsAre
  <2>3. CommonMissing > 0 \/ WeightsMissing(m) > 0 =>
          volume.free >= CommonMissing + WeightPeak(m) + Headroom
    BY <1>0, <1>2, <2>2, FitsIs
  <2>4. ASSUME foreign = 0 PROVE Room'
    <3>1. Room
      BY <2>4 DEF SetupInv
    <3>2. ToFetch(volume, m) \in Nat /\ ToFetch(volume, m) <= WeightsMissing(m)
      <4>1. volume.temp \in Nat /\ WeightsMissing(m) \in Nat
        BY <1>0, <2>2, VolumeIs, SizesAre
      <4>2. ToFetch(volume, m) = IF WeightsMissing(m) > volume.temp
                                 THEN WeightsMissing(m) - volume.temp ELSE 0
        BY DEF ToFetch, WeightsMissing
      <4> QED BY <4>1, <4>2
    <3>3. volume.free \in Nat /\ options.qwen \in BOOLEAN
      BY <1>0, VolumeIs
    <3>4. volume.dspark = "absent" =>
            volume.free >= DSparkBytes + Headroom
                           + (IF options.qwen /\ volume.qwen = "absent" THEN QwenBytes ELSE 0)
      BY <2>2, <2>3, <3>3, SizesAre
    <3>5. options.qwen /\ volume.qwen = "absent" => volume.free >= QwenBytes + Headroom
      BY <2>2, <2>3, <3>3, SizesAre
    <3>6. \/ WeightsMissing(m) = 0
          \/ volume.free >= ToFetch(volume, m) + TempBytes + Headroom
      BY <2>2, <2>3, <3>2, <3>3, SizesAre
    <3>7. WeightsMissing(setup.mode)' = WeightsMissing(m)
          /\ ToFetch(volume, setup.mode)' = ToFetch(volume, m)
      BY <1>0, <2>1 DEF WeightsMissing, ToFetch
    <3> QED BY <1>0, <2>1, <3>1, <3>4, <3>5, <3>6, <3>7, <1>c DEF Room, Unmoved
  <2> QED BY <1>0, <1>c, <2>1, <2>4, GoKeeps DEF SetupPhases
<1> QED BY <1>1, <1>2

\* Fetching and unpacking keep the balance: what is on the way needs no room twice.
LEMMA WeightsKeep == ASSUME SetupInv, FetchWeights \/ UnpackWeights PROVE SetupInv'
<1> DEFINE m == setup.mode
<1>0. /\ SetupTyped /\ Order /\ Unmoved /\ setup.pc = "weights" /\ setup \in Setups
      /\ m \in Modes /\ setup.result = "none" /\ volume \in Volumes /\ volume.meta = "ok"
      /\ WeightsMissing(m) > 0 /\ stops \in Nat
      /\ volume.temp < TempBytes \/ volume.temp > 0
      /\ cleared' = cleared /\ cleared \in BOOLEAN
  <2>1. /\ SetupTyped /\ Order /\ Unmoved /\ setup.pc = "weights" /\ setup \in Setups
        /\ m \in Modes /\ setup.result = "none" /\ volume \in Volumes /\ volume.meta = "ok"
        /\ stops \in Nat /\ cleared' = cleared /\ cleared \in BOOLEAN
    BY DEF FetchWeights, UnpackWeights, SetupInv, SetupTyped, Order, PcIs, Unmoved
  <2>2. WeightsMissing(m) \in Nat /\ volume.temp \in Nat
    BY <2>1, WeightsAre, VolumeIs, SizesAre
  <2> QED BY <2>1, <2>2 DEF FetchWeights, UnpackWeights
<1>1. /\ WeightsMissing(m) \in Nat /\ volume.free \in Nat /\ volume.temp \in 0 .. TempBytes
      /\ ToFetch(volume, m) = IF WeightsMissing(m) > volume.temp
                              THEN WeightsMissing(m) - volume.temp ELSE 0
      /\ ToFetch(volume, m) \in Nat
  <2>1. WeightsMissing(m) \in Nat /\ volume.free \in Nat /\ volume.temp \in 0 .. TempBytes
    BY <1>0, WeightsAre, VolumeIs
  <2>2. ToFetch(volume, m) = IF WeightsMissing(m) > volume.temp
                             THEN WeightsMissing(m) - volume.temp ELSE 0
    BY DEF ToFetch, WeightsMissing
  <2> QED BY <2>1, <2>2, SizesAre
<1>2. foreign = 0 =>
        /\ volume.free >= ToFetch(volume, m) + TempBytes + Headroom
        /\ volume.free > 0 /\ Room
  <2>1. foreign = 0 => Room
    BY DEF SetupInv
  <2>2. foreign = 0 => volume.free >= ToFetch(volume, m) + TempBytes + Headroom
    BY <1>0, <1>1, <2>1 DEF Room
  <2> QED BY <1>0, <1>1, <2>1, <2>2, SizesAre
<1>3. CASE volume.free = 0
  <2>1. foreign # 0
    BY <1>2, <1>3
  <2>2. setup' = [setup EXCEPT !.pc = "idle", !.result = "enospc"] /\ volume' = volume
    BY <1>3 DEF FetchWeights, UnpackWeights, SetupEnds
  <2> QED BY <1>0, <2>1, <2>2, SetupEndKeeps DEF Unmoved
\* The balance after a step that keeps the metadata.
<1>4. ASSUME volume' \in Volumes, setup' = setup, volume'.meta = "ok",
             foreign = 0 /\ cleared => volume'.free + volume'.spine >= SpineBytes,
             foreign = 0 => \/ WeightsMissing(m)' = 0
                            \/ volume'.free >= ToFetch(volume, m)' + TempBytes + Headroom
      PROVE  SetupInv'
  <2>1. SetupTyped' /\ Order'
    BY <1>0, <1>4 DEF SetupTyped, Order, Unmoved
  <2>2. foreign' = 0 => Room'
    BY <1>0, <1>4 DEF Room, Unmoved
  <2> QED BY <1>0, <1>4, <2>1, <2>2 DEF SetupInv, Unmoved
<1>5. CASE volume.free # 0 /\ FetchWeights
  <2>1. /\ volume' = [volume EXCEPT !.temp = volume.temp + 1, !.free = volume.free - 1]
        /\ setup' = setup /\ volume.temp < TempBytes /\ WeightsMissing(m) > volume.temp
    BY <1>5 DEF FetchWeights
  <2>2. /\ volume' \in Volumes /\ volume'.meta = "ok" /\ volume'.free = volume.free - 1
        /\ volume'.spine = volume.spine /\ volume'.temp = volume.temp + 1
        /\ volume'.resident = volume.resident /\ volume'.experts = volume.experts
    <3>1. volume.free - 1 \in Nat /\ volume.temp + 1 \in 0 .. TempBytes
      BY <1>1, <1>5, <2>1, SizesAre
    <3> QED BY <1>0, <2>1, <3>1 DEF Volumes
  <2>3. WeightsMissing(m)' = WeightsMissing(m)
    BY <2>1, <2>2 DEF WeightsMissing
  <2>4. ToFetch(volume, m)' = ToFetch(volume, m) - 1
    <3>1. ToFetch(volume, m)' = IF WeightsMissing(m)' > volume'.temp
                                THEN WeightsMissing(m)' - volume'.temp ELSE 0
      BY DEF ToFetch, WeightsMissing
    <3> QED BY <1>1, <2>1, <2>2, <2>3, <3>1
  <2>5. ToFetch(volume, m) >= 1
    BY <1>1, <2>1
  <2>6. foreign = 0 => volume'.free >= ToFetch(volume, m)' + TempBytes + Headroom
    BY <1>1, <1>2, <2>2, <2>4, SizesAre
  <2>7. foreign = 0 /\ cleared => volume'.free + volume'.spine >= SpineBytes
    BY <1>0, <1>1, <1>2, <2>2, <2>5, SizesAre, VolumeIs
  <2> QED BY <1>4, <2>1, <2>2, <2>6, <2>7
<1>6. CASE volume.free # 0 /\ UnpackWeights
  <2>1. /\ volume.temp > 0 /\ setup' = setup
        /\ \/ /\ volume.resident < ResidentBytes1
              /\ volume' = [volume EXCEPT !.temp = volume.temp - 1,
                                          !.resident = volume.resident + 1]
           \/ /\ m = "full" /\ volume.experts < ExpertBytes1
              /\ volume' = [volume EXCEPT !.temp = volume.temp - 1, !.experts = volume.experts + 1]
    BY <1>6 DEF UnpackWeights
  <2>2. /\ volume' \in Volumes /\ volume'.meta = "ok" /\ volume'.free = volume.free
        /\ volume'.spine = volume.spine /\ volume'.temp = volume.temp - 1
        /\ \/ volume'.resident = volume.resident + 1 /\ volume'.experts = volume.experts
           \/ m = "full" /\ volume'.resident = volume.resident
              /\ volume'.experts = volume.experts + 1
    <3>0. volume.temp - 1 \in 0 .. TempBytes
      BY <1>1, <2>1, SizesAre
    <3>1. CASE /\ volume.resident < ResidentBytes1
               /\ volume' = [volume EXCEPT !.temp = volume.temp - 1,
                                           !.resident = volume.resident + 1]
      <4>1. volume.resident + 1 \in 0 .. ResidentBytes1
        BY <1>0, <3>1, VolumeIs, SizesAre
      <4> QED BY <1>0, <3>0, <3>1, <4>1 DEF Volumes
    <3>2. CASE /\ m = "full" /\ volume.experts < ExpertBytes1
               /\ volume' = [volume EXCEPT !.temp = volume.temp - 1, !.experts = volume.experts + 1]
      <4>1. volume.experts + 1 \in 0 .. ExpertBytes1
        BY <1>0, <3>2, VolumeIs, SizesAre
      <4> QED BY <1>0, <3>0, <3>2, <4>1 DEF Volumes
    <3> QED BY <2>1, <3>1, <3>2
  <2>3. WeightsMissing(m)' = WeightsMissing(m) - 1
    <3>1. /\ WeightsMissing(m) = (ResidentBytes1 - volume.resident)
                                 + (IF m = "full" THEN ExpertBytes1 - volume.experts ELSE 0)
          /\ WeightsMissing(m)' = (ResidentBytes1 - volume'.resident)
                                 + (IF m = "full" THEN ExpertBytes1 - volume'.experts ELSE 0)
      BY <2>1 DEF WeightsMissing
    <3>2. /\ volume.resident \in Nat /\ volume.experts \in Nat /\ ResidentBytes1 \in Nat
          /\ ExpertBytes1 \in Nat
      BY <1>0, VolumeIs, SizesAre
    <3> QED BY <2>2, <3>1, <3>2
  <2>4. ToFetch(volume, m)' <= ToFetch(volume, m) /\ ToFetch(volume, m)' \in Nat
    <3>1. ToFetch(volume, m)' = IF WeightsMissing(m)' > volume'.temp
                                THEN WeightsMissing(m)' - volume'.temp ELSE 0
      BY DEF ToFetch, WeightsMissing
    <3> QED BY <1>1, <2>2, <2>3, <3>1
  <2>5. foreign = 0 => volume'.free >= ToFetch(volume, m)' + TempBytes + Headroom
    BY <1>1, <1>2, <2>2, <2>4, SizesAre
  <2>6. foreign = 0 /\ cleared => volume'.free + volume'.spine >= SpineBytes
    BY <1>0, <1>2, <2>2 DEF Room
  <2> QED BY <1>4, <2>1, <2>2, <2>5, <2>6
<1> QED BY <1>3, <1>5, <1>6

LEMMA FinishKeeps == ASSUME SetupInv, FinishSetup PROVE SetupInv'
<1>0. /\ SetupTyped /\ Order /\ Unmoved /\ setup.pc = "weights" /\ setup \in Setups
      /\ setup.mode \in Modes /\ setup.result = "none" /\ volume' = volume /\ stops \in Nat
      /\ volume.meta = "ok" /\ cleared' = cleared /\ cleared \in BOOLEAN
  BY DEF FinishSetup, SetupInv, SetupTyped, Order, PcIs, Unmoved
<1>1. CASE ~InspectFails /\ IsComplete(CalculatePlan(setup.mode))
  <2>1. setup' = [pc |-> "spine", mode |-> setup.mode, result |-> "none"]
    BY <1>0, <1>1 DEF FinishSetup, SetupGoes, Setups
  <2>2. Acceptable
    BY <1>0, <1>1 DEF Acceptable, Accepted
  <2>3. foreign = 0 => Room'
    BY <1>0, <2>1 DEF SetupInv, Room
  <2> QED BY <1>0, <2>1, <2>2, <2>3, GoKeeps DEF SetupPhases
<1>2. CASE ~(~InspectFails /\ IsComplete(CalculatePlan(setup.mode)))
  <2>1. setup' = [setup EXCEPT !.pc = "idle", !.result = "failed"]
    BY <1>2 DEF FinishSetup, SetupEnds
  <2> QED BY <1>0, <2>1, SetupEndKeeps DEF Unmoved
<1> QED BY <1>1, <1>2

LEMMA ConvertKeeps == ASSUME SetupInv, ConvertSpine PROVE SetupInv'
<1>0. /\ SetupTyped /\ Order /\ Unmoved /\ setup.pc = "spine" /\ setup \in Setups
      /\ setup.mode \in Modes /\ setup.result = "none" /\ stops \in Nat
      /\ volume \in Volumes /\ volume.meta = "ok" /\ Acceptable
      /\ volume.free \in Nat /\ volume.spine \in 0 .. SpineBytes
      /\ cleared' = cleared /\ cleared \in BOOLEAN
  BY VolumeIs DEF ConvertSpine, SetupInv, SetupTyped, Order, PcIs, Unmoved
<1>1. foreign = 0 => Room
  BY DEF SetupInv
<1>2. CASE volume.spine = SpineBytes
  <2>1. setup' = [setup EXCEPT !.pc = "idle", !.result = "complete"] /\ volume' = volume
    BY <1>2 DEF ConvertSpine, SetupEnds
  <2>2. setup' \in Setups /\ setup'.pc = "idle" /\ setup'.result = "complete"
    BY <1>0, <2>1 DEF Setups, SetupPhases
  <2>3. SetupTyped' /\ Order'
    BY <1>0, <2>1, <2>2 DEF SetupTyped, Order, Unmoved
  <2>4. foreign' = 0 => Room'
    BY <1>0, <1>1, <2>1, <2>2 DEF Room, Unmoved
  <2>5. Acceptable'
    BY <1>0, <2>1, AcceptedStays DEF Unmoved
  <2> QED BY <2>2, <2>3, <2>4, <2>5 DEF SetupInv
<1>3. CASE volume.spine # SpineBytes /\ volume.free = 0
  <2>1. foreign # 0 \/ ~cleared
    BY <1>0, <1>1, <1>3, SizesAre DEF Room
  <2>2. setup' = [setup EXCEPT !.pc = "idle", !.result = "unconverted"] /\ volume' = volume
    BY <1>3 DEF ConvertSpine, SetupEnds
  <2> QED BY <1>0, <2>1, <2>2, SetupEndKeeps DEF Unmoved
<1>4. CASE volume.spine # SpineBytes /\ volume.free # 0
  <2>1. /\ volume' = [volume EXCEPT !.spine = volume.spine + 1, !.free = volume.free - 1]
        /\ setup' = setup
    BY <1>4 DEF ConvertSpine
  <2>2. volume.spine + 1 \in 0 .. SpineBytes /\ volume.free - 1 \in Nat
    BY <1>0, <1>4, SizesAre
  <2>3. /\ volume' \in Volumes /\ volume'.free = volume.free - 1
        /\ volume'.spine = volume.spine + 1 /\ volume'.meta = volume.meta
        /\ volume'.dspark = volume.dspark /\ volume'.qwen = volume.qwen
        /\ volume'.resident = volume.resident /\ volume'.experts = volume.experts
    BY <1>0, <2>1, <2>2 DEF Volumes
  <2>4. SetupTyped' /\ Order'
    BY <1>0, <2>1, <2>3 DEF SetupTyped, Order, Unmoved
  <2>5. foreign' = 0 => Room'
    BY <1>0, <1>1, <2>1, <2>3, SizesAre DEF Room, Unmoved
  <2>6. Acceptable'
    BY <1>0, <2>3, AcceptedStays DEF Unmoved
  <2> QED BY <1>0, <2>1, <2>4, <2>5, <2>6 DEF SetupInv
<1> QED BY <1>2, <1>3, <1>4

LEMMA StopKeeps == ASSUME SetupInv, StopSetup PROVE SetupInv'
<1>1. /\ options' = options /\ volume' = volume /\ foreign' = foreign /\ stops' \in Nat
      /\ cleared' = cleared /\ setup' = [setup EXCEPT !.pc = "idle", !.result = "stopped"]
  BY DEF StopSetup, SetupEnds, SetupInv, SetupTyped
<1> QED BY <1>1, SetupEndKeeps

\* From here on somebody else uses the volume.
LEMMA ForeignKeeps == ASSUME SetupInv, ForeignUse PROVE SetupInv'
<1>0. /\ SetupTyped /\ Order /\ volume \in Volumes /\ foreign \in Nat /\ foreign' = foreign + 1
      /\ UNCHANGED <<options, setup, cleared, stops>> /\ volume.free \in Nat
  BY VolumeIs DEF ForeignUse, SetupInv, SetupTyped
<1>1. PICK n \in Nat : volume' = [volume EXCEPT !.free = n]
  BY <1>0 DEF ForeignUse
<1>2. /\ volume' \in Volumes /\ volume'.meta = volume.meta
      /\ volume'.dspark = volume.dspark /\ volume'.qwen = volume.qwen
      /\ volume'.resident = volume.resident /\ volume'.experts = volume.experts
  BY <1>0, <1>1 DEF Volumes
<1>3. SetupTyped' /\ Order'
  BY <1>0, <1>2 DEF SetupTyped, Order
<1>4. Acceptable => Acceptable'
  BY <1>0, <1>2, AcceptedStays
<1>5. foreign' # 0
  BY <1>0
<1> QED BY <1>0, <1>3, <1>4, <1>5 DEF SetupInv

LEMMA SetupStutters == ASSUME SetupInv, UNCHANGED ovars PROVE SetupInv'
<1>1. SetupTyped' /\ Order' /\ (Room => Room')
  BY DEF ovars, SetupInv, SetupTyped, Order, Room, WeightsMissing, ToFetch
<1>2. Acceptable => Acceptable'
  BY AcceptedStays DEF ovars
<1> QED BY <1>1, <1>2 DEF SetupInv, ovars

\* In every behaviour of setups (one_shot_setup.rs) that begin on any root, for all
\* sizes: while nobody else takes room, the rest of the downloads fits at every
\* point, headroom included, and the spine fits once any check asked for room.
THEOREM SetupInvariance == OSpec => []SetupInv
<1>1. SetupInv /\ [ONext]_ovars => SetupInv'
  BY RunSetupKeeps, InstallKeeps, ReplanKeeps, WeightsKeep, FinishKeeps, ConvertKeeps, StopKeeps,
     ForeignKeeps, SetupStutters DEF ONext
<1> QED BY <1>1, SetupStarts, PTL DEF OSpec

\* For all sizes of the parts and every root to begin on, a setup that passed its
\* capacity checks runs out of room for a download only when another program took
\* some; it runs out in the conversion of the spine only then or when no check
\* asked for any room; and one that reports success is accepted by the audit.
THEOREM SetupFits == OSpec => []SetupFitsOrStops
<1>1. SetupInv => SetupFitsOrStops
  <2> SUFFICES ASSUME SetupInv PROVE SetupFitsOrStops
    OBVIOUS
  <2>1. /\ foreign \in Nat /\ (setup.result = "enospc" => foreign > 0)
        /\ setup.result = "unconverted" => foreign > 0 \/ ~cleared
    BY DEF SetupInv, SetupTyped
  <2>2. Acceptable => AuditInstalled
    BY DEF Acceptable, Accepted, AuditInstalled, Modes
  <2> QED BY <2>1, <2>2 DEF SetupInv, SetupFitsOrStops
<1> QED BY <1>1, SetupInvariance, PTL

-----------------------------------------------------------------------------
(* PinnedInstall: the inductive invariant.                                   *)

Contents == UNION {[D -> Seq(BOOLEAN)] : D \in SUBSET Files}
Directories ==
  [at : {"none", "staging", "published"}, final : Contents, part : Contents,
   manifest : BOOLEAN, mpart : BOOLEAN, marker : BOOLEAN, foreign : BOOLEAN]
InstallPhases ==
  {"idle", "file", "write", "transfer", "verify", "unlink", "manifest", "rename", "publish", "audit"}
Launches ==
  [pc : InstallPhases, file : Nat, found : Seq(BOOLEAN), response : Response,
   outcome : {"none", "ok", "busy", "failed", "killed"}, clean : BOOLEAN]

InstallTyped ==
  /\ kind \in {"k3", "dspark", "qwen"} /\ dir \in Directories
  /\ lock \subseteq Installers /\ inst \in [Installers -> Launches]
  /\ faults \in 0..MaxFaults /\ crashes \in 0..MaxCrashes

\* Only verified bytes get a final name, and only a whole directory does; a
\* manifest is only written where nothing foreign is.
Sound(d) ==
  /\ \A f \in DOMAIN d.final : d.final[f] = Genuine
  /\ \A f \in DOMAIN d.part : Len(d.part[f]) <= Chunks
  /\ d.at = "published" => DOMAIN d.final = Files /\ (kind # "qwen" => d.manifest)
  /\ d.manifest => ~d.foreign

\* What a launch that holds the lock knows in each phase: which files are done,
\* what the partial at hand holds, and where the directory is.
OverFiles(v) == v.pc \in {"file", "write", "transfer", "verify", "unlink"}
Knows(d, v) ==
  /\ v.outcome = "none" /\ ~d.foreign /\ d.marker /\ d.at # "none"
  /\ OverFiles(v) =>
       /\ v.file \in Files /\ d.at = "staging"
       /\ \A f \in 1..v.file - 1 : f \in DOMAIN d.final
  /\ ~OverFiles(v) => DOMAIN d.final = Files
  /\ v.pc \in {"write", "transfer", "verify"} =>
       v.file \in DOMAIN d.part /\ v.file \notin DOMAIN d.final
  /\ v.pc = "write" => kind = "k3" /\ d.part[v.file] = <<>>
  /\ v.pc = "transfer" =>
       /\ kind # "k3"
       /\ Len(v.found) <= Len(d.part[v.file])
       /\ \A i \in 1..Len(v.found) : d.part[v.file][i] = v.found[i]
       /\ v.clean => \A i \in Len(v.found) + 1..Len(d.part[v.file]) : d.part[v.file][i]
  /\ v.pc = "verify" =>
       Len(d.part[v.file]) = Chunks /\ (kind = "k3" => d.part[v.file] = Genuine)
  /\ v.pc = "unlink" =>
       v.file \in DOMAIN d.part \cap DOMAIN d.final /\ d.part[v.file] = Genuine
  /\ v.pc \in {"manifest", "rename"} /\ d.at = "published" => kind = "qwen" /\ ~d.manifest
  /\ v.pc = "publish" => d.at = "staging" /\ d.manifest
  /\ v.pc = "audit" => d.at = "published" /\ d.manifest

\* Unless one was killed, every partial is the business of a running launch.
Residue(d, v) ==
  /\ \A f \in DOMAIN d.part \cap DOMAIN d.final : v.pc = "unlink" /\ v.file = f
  /\ d.mpart => v.pc = "rename"
  /\ kind = "k3" =>
       \A f \in DOMAIN d.part : v.pc \in {"write", "verify", "unlink"} /\ v.file = f

\* A partial has a wrong chunk that no rollback takes away.
Tainted(d, v) ==
  \E f \in DOMAIN d.part : \E i \in 1..Len(d.part[f]) :
    /\ ~d.part[f][i]
    /\ v.pc = "transfer" /\ v.file = f => i <= Len(v.found)

Faultless(v) == v.outcome = "failed" /\ v.clean

InstallInv ==
  /\ InstallTyped /\ Sound(dir)
  /\ \A p, q \in lock : p = q
  /\ \A p \in Installers :
       /\ p \in lock <=> inst[p].pc # "idle"
       /\ p \in lock => Knows(dir, inst[p])
       /\ inst[p].outcome = "ok" => dir.at = "published" /\ dir.manifest
       /\ lock \subseteq {p} =>
            /\ crashes = 0 => Residue(dir, inst[p])
            /\ (\E q \in Installers : Faultless(inst[q])) =>
                 crashes > 0 \/ dir.foreign \/ Tainted(dir, inst[p])

-----------------------------------------------------------------------------
(* The contents of a directory.                                              *)

LEMMA ContentsAre ==
  /\ \A c \in Contents :
       DOMAIN c \subseteq Files /\ \A f \in DOMAIN c : c[f] \in Seq(BOOLEAN)
  /\ \A D \in SUBSET Files : \A c \in [D -> Seq(BOOLEAN)] : c \in Contents
BY DEF Contents

\* A new file, a file that changes, and one that goes away.
LEMMA FileAdded ==
  ASSUME NEW c \in Contents, NEW f \in Files, NEW s \in Seq(BOOLEAN)
  PROVE  LET e == Holding(c, f, s) IN
         /\ e \in Contents /\ DOMAIN e = DOMAIN c \cup {f} /\ e[f] = s
         /\ \A g \in DOMAIN c : g # f => e[g] = c[g]
<1> DEFINE e == Holding(c, f, s)
<1>1. DOMAIN e = DOMAIN c \cup {f} /\ e[f] = s /\ \A g \in DOMAIN c : g # f => e[g] = c[g]
  BY DEF Holding
<1>2. e \in [DOMAIN c \cup {f} -> Seq(BOOLEAN)]
  <2>1. e = [g \in DOMAIN c \cup {f} |-> e[g]]
    BY DEF Holding
  <2>2. \A g \in DOMAIN c \cup {f} : e[g] \in Seq(BOOLEAN)
    BY <1>1, ContentsAre
  <2> QED BY <2>1, <2>2
<1>3. DOMAIN c \cup {f} \in SUBSET Files
  BY ContentsAre
<1> QED BY <1>1, <1>2, <1>3, ContentsAre

LEMMA FileChanged ==
  ASSUME NEW c \in Contents, NEW f \in DOMAIN c, NEW s \in Seq(BOOLEAN)
  PROVE  LET e == [c EXCEPT ![f] = s] IN
         /\ e \in Contents /\ DOMAIN e = DOMAIN c /\ e[f] = s
         /\ \A g \in DOMAIN c : g # f => e[g] = c[g]
<1> DEFINE e == [c EXCEPT ![f] = s]
<1>1. c = [g \in DOMAIN c |-> c[g]] /\ DOMAIN c \in SUBSET Files
  <2>1. PICK D \in SUBSET Files : c \in [D -> Seq(BOOLEAN)]
    BY DEF Contents
  <2> QED BY <2>1
<1>2. \A g \in DOMAIN c : c[g] \in Seq(BOOLEAN)
  BY ContentsAre
<1>3. DOMAIN e = DOMAIN c /\ e[f] = s /\ \A g \in DOMAIN c : g # f => e[g] = c[g]
  BY <1>1
<1>4. e \in [DOMAIN c -> Seq(BOOLEAN)]
  BY <1>1, <1>2, <1>3
<1> QED BY <1>1, <1>3, <1>4, ContentsAre

LEMMA FileRemoved ==
  ASSUME NEW c \in Contents, NEW f
  PROVE  /\ Restrict(c, DOMAIN c \ {f}) \in Contents
         /\ DOMAIN Restrict(c, DOMAIN c \ {f}) = DOMAIN c \ {f}
         /\ \A g \in DOMAIN c \ {f} : Restrict(c, DOMAIN c \ {f})[g] = c[g]
<1> DEFINE e == Restrict(c, DOMAIN c \ {f})
<1>1. DOMAIN e = DOMAIN c \ {f} /\ \A g \in DOMAIN e : e[g] = c[g]
  BY DEF Restrict
<1>2. e \in [DOMAIN c \ {f} -> Seq(BOOLEAN)]
  BY <1>1, ContentsAre DEF Restrict
<1>3. DOMAIN c \ {f} \in SUBSET Files
  BY ContentsAre
<1> QED BY <1>1, <1>2, <1>3, ContentsAre

LEMMA GenuineIs ==
  /\ Genuine \in Seq(BOOLEAN) /\ Len(Genuine) = Chunks /\ \A i \in 1..Chunks : Genuine[i]
  /\ \A s \in Seq(BOOLEAN) : Len(s) = Chunks /\ s # Genuine => \E i \in 1..Len(s) : ~s[i]
<1>1. Chunks \in Nat
  BY InstallAssumption
<1>2. Genuine \in Seq(BOOLEAN) /\ Len(Genuine) = Chunks /\ \A i \in 1..Chunks : Genuine[i]
  <2>1. Genuine \in [1..Chunks -> BOOLEAN]
    BY DEF Genuine
  <2> QED BY <1>1, <2>1 DEF Genuine
<1>3. ASSUME NEW s \in Seq(BOOLEAN), Len(s) = Chunks, \A i \in 1..Len(s) : s[i]
      PROVE  s = Genuine
  <2>1. s = [i \in 1..Len(s) |-> s[i]]
    OBVIOUS
  <2>2. \A i \in 1..Len(s) : s[i] \in BOOLEAN
    OBVIOUS
  <2>3. \A i \in 1..Len(s) : s[i] = TRUE
    BY <1>3, <2>2
  <2> QED BY <1>3, <2>1, <2>3 DEF Genuine
<1> QED BY <1>2, <1>3

-----------------------------------------------------------------------------
(* One step of a launch, when nobody else holds the lock.                    *)

LEMMA InstallerStep ==
  ASSUME InstallInv, NEW p \in Installers, lock \subseteq {p},
         NEW v \in Launches, inst' = [inst EXCEPT ![p] = v],
         kind' = kind, NEW d \in Directories, dir' = d,
         lock' = IF v.pc = "idle" THEN {} ELSE {p},
         faults' \in 0..MaxFaults, crashes' \in 0..MaxCrashes, crashes' = 0 => crashes = 0,
         Sound(d), v.pc # "idle" => Knows(d, v),
         (dir.at = "published" /\ dir.manifest) \/ v.outcome = "ok" =>
           d.at = "published" /\ d.manifest,
         crashes' = 0 => Residue(d, v),
         crashes' = 0 /\ ~d.foreign /\ ~Tainted(d, v) =>
           ~Faultless(v) /\ ~dir.foreign /\ ~Tainted(dir, inst[p])
  PROVE  InstallInv'
<1>1. inst \in [Installers -> Launches] /\ inst' \in [Installers -> Launches] /\ inst'[p] = v
  BY DEF InstallInv, InstallTyped
<1>2. \A q \in Installers : q # p => inst'[q] = inst[q] /\ inst[q].pc = "idle"
  BY <1>1 DEF InstallInv
<1>3. InstallTyped'
  BY <1>1 DEF InstallInv, InstallTyped
<1>4. Sound(dir)'
  BY DEF Sound, Genuine, Files
<1>5. \A x, y \in lock' : x = y
  OBVIOUS
<1>6. \A q \in Installers : q \in lock' <=> inst'[q].pc # "idle"
  BY <1>1, <1>2
<1>7. \A q \in Installers : q \in lock' => Knows(dir, inst[q])'
  <2>1. ASSUME NEW q \in lock' PROVE q = p /\ v.pc # "idle"
    BY <2>1
  <2>2. v.pc # "idle" => Knows(dir, inst[p])'
    BY <1>1 DEF Knows, OverFiles, Genuine, Files
  <2> QED BY <2>1, <2>2
<1>8. \A q \in Installers : inst'[q].outcome = "ok" => dir'.at = "published" /\ dir'.manifest
  BY <1>1, <1>2 DEF InstallInv
<1>9. ASSUME NEW q \in Installers, lock' \subseteq {q}
      PROVE  /\ (crashes = 0 => Residue(dir, inst[q]))'
             /\ (\E r \in Installers : Faultless(inst'[r])) =>
                  crashes' > 0 \/ dir'.foreign \/ Tainted(dir', inst'[q])
  <2>1. q = p \/ (v.pc = "idle" /\ inst'[q].pc = "idle")
    BY <1>2, <1>9
  <2>2. Residue(d, v) => Residue(dir, inst[q])'
    BY <1>1, <2>1 DEF Residue
  <2>3. Tainted(d, v) => Tainted(dir', inst'[q])
    <3>1. CASE q = p
      BY <1>1, <3>1 DEF Tainted
    <3>2. CASE v.pc = "idle" /\ inst'[q].pc = "idle"
      BY <3>2 DEF Tainted
    <3> QED BY <2>1, <3>1, <3>2
  <2>4. ASSUME NEW r \in Installers, Faultless(inst'[r]), ~(crashes' > 0), ~d.foreign, ~Tainted(d, v)
        PROVE  FALSE
    <3>1. crashes' = 0 /\ crashes = 0
      BY <2>4
    <3>2. ~Faultless(v) /\ ~dir.foreign /\ ~Tainted(dir, inst[p])
      BY <2>4, <3>1
    <3>3. r # p /\ Faultless(inst[r])
      BY <1>1, <1>2, <2>4, <3>2 DEF Faultless
    <3>4. crashes > 0 \/ dir.foreign \/ Tainted(dir, inst[p])
      BY <3>3 DEF InstallInv
    <3> QED BY <3>1, <3>2, <3>4
  <2> QED BY <2>2, <2>3, <2>4
<1> QED BY <1>3, <1>4, <1>5, <1>6, <1>7, <1>8, <1>9 DEF InstallInv

\* What a launch knows before its step.
LEMMA LaunchIs ==
  ASSUME InstallInv, NEW p \in Installers
  PROVE  /\ inst \in [Installers -> Launches] /\ inst[p] \in Launches /\ dir \in Directories
         /\ faults \in 0..MaxFaults /\ crashes \in 0..MaxCrashes /\ Sound(dir)
         /\ inst[p].pc # "idle" => lock = {p} /\ Knows(dir, inst[p])
         /\ lock = {} => inst[p].pc = "idle"
         /\ lock \subseteq {p} /\ crashes = 0 => Residue(dir, inst[p])
BY DEF InstallInv, InstallTyped

LEMMA AtRestIs ==
  ASSUME NEW o \in {"none", "ok", "busy", "failed", "killed"}, NEW c \in BOOLEAN
  PROVE  /\ AtRest(o, c) \in Launches /\ AtRest(o, c).pc = "idle"
         /\ AtRest(o, c).outcome = o /\ AtRest(o, c).clean = c /\ AtRest(o, c).file = 1
BY DEF AtRest, Launches, InstallPhases, Response, NoResponse

\* A launch ends, and the directory stays as it is.
LEMMA LaunchEnds ==
  ASSUME InstallInv, NEW p \in Installers, lock \subseteq {p},
         NEW o \in {"none", "ok", "busy", "failed", "killed"}, NEW c \in BOOLEAN,
         inst' = [inst EXCEPT ![p] = AtRest(o, c)], lock' = lock \ {p},
         kind' = kind, dir' = dir,
         faults' \in 0..MaxFaults, crashes' \in 0..MaxCrashes, crashes' = 0 => crashes = 0,
         o = "ok" => dir.at = "published" /\ dir.manifest,
         crashes' = 0 => Residue(dir, AtRest(o, c)),
         o = "failed" /\ c => crashes' > 0 \/ dir.foreign \/ Tainted(dir, AtRest(o, c))
  PROVE  InstallInv'
<1>1. /\ AtRest(o, c) \in Launches /\ AtRest(o, c).pc = "idle"
      /\ AtRest(o, c).outcome = o /\ AtRest(o, c).clean = c
  BY AtRestIs
<1> DEFINE v == AtRest(o, c)
<1> HIDE DEF v
<1>2. v \in Launches /\ v.pc = "idle" /\ v.outcome = o /\ v.clean = c
  BY <1>1 DEF v
<1>3. dir \in Directories /\ Sound(dir)
  BY LaunchIs
<1>4. inst' = [inst EXCEPT ![p] = v] /\ lock' = IF v.pc = "idle" THEN {} ELSE {p}
  BY <1>2 DEF v
<1>5. crashes' = 0 => Residue(dir, v)
  BY DEF v
<1>6. Tainted(dir, inst[p]) => Tainted(dir, v)
  BY <1>2 DEF Tainted
<1>7. ASSUME crashes' = 0, ~dir.foreign, ~Tainted(dir, v) PROVE ~Faultless(v)
  <2>1. ~(crashes' > 0)
    BY <1>7
  <2> QED BY <1>2, <1>7, <2>1 DEF Faultless, v
<1>8. v.outcome = "ok" => dir.at = "published" /\ dir.manifest
  BY <1>2
<1> QED BY <1>2, <1>3, <1>4, <1>5, <1>6, <1>7, <1>8, InstallerStep

\* AtRest at another phase.
LEMMA Begun ==
  ASSUME NEW pc \in InstallPhases, NEW v, v = [AtRest("none", TRUE) EXCEPT !.pc = pc]
  PROVE  /\ v \in Launches /\ v.pc = pc /\ v.outcome = "none" /\ v.file = 1
BY AtRestIs DEF AtRest, Launches, InstallPhases

LEMMA MarkedIs ==
  ASSUME NEW d \in Directories
  PROVE  /\ Marked(d) \in Directories /\ Marked(d).marker
         /\ Marked(d).at = d.at /\ Marked(d).final = d.final /\ Marked(d).part = d.part
         /\ Marked(d).manifest = d.manifest /\ Marked(d).mpart = d.mpart
         /\ Marked(d).foreign = d.foreign
BY DEF Marked, Directories

LEMMA NewFilesAreFirst == 1 \in Files
BY InstallAssumption DEF Files

LEMMA StartKeeps == ASSUME InstallInv, NEW p \in Installers, Launch(p) PROVE InstallInv'
<1> DEFINE e == [dir EXCEPT !.at = "staging"]
           d == Marked(e)
<1>0. /\ inst[p] \in Launches /\ dir \in Directories /\ Sound(dir) /\ inst[p].pc = "idle"
      /\ crashes = 0 => Residue(dir, inst[p])
  BY LaunchIs DEF Launch, Locked
<1>1. e \in Directories /\ e.at = "staging" /\ e.final = dir.final /\ e.part = dir.part
      /\ e.manifest = dir.manifest /\ e.mpart = dir.mpart /\ e.foreign = dir.foreign
  BY <1>0 DEF Directories
<1>2. /\ d \in Directories /\ d.marker /\ d.at = "staging" /\ d.final = dir.final
      /\ d.part = dir.part /\ d.manifest = dir.manifest /\ d.mpart = dir.mpart
      /\ d.foreign = dir.foreign
  BY <1>1, MarkedIs
<1>3. /\ dir' = d /\ kind' = kind /\ lock = {} /\ faults' = faults /\ crashes' = crashes
      /\ dir.at # "published"
      /\ IF StagingNames(d)
           THEN /\ lock' = lock \cup {p}
                /\ inst' = [inst EXCEPT ![p] = [AtRest("none", TRUE) EXCEPT !.pc = "file"]]
           ELSE /\ inst' = [inst EXCEPT ![p] = AtRest("failed", TRUE)]
                /\ lock' = lock
  BY DEF Launch, Locked, BeginStaging
<1> HIDE DEF d, e
<1>4. Sound(d)
  BY <1>0, <1>2 DEF Sound
<1>5. faults' \in 0..MaxFaults /\ crashes' \in 0..MaxCrashes
  BY <1>3, LaunchIs
<1>6. StagingNames(d) <=> ~d.foreign
  BY DEF StagingNames, K3ValidateStagingNames, ValidateDirectoryNames, QwenValidateStagingNames,
         InstallInv, InstallTyped
<1>7. CASE StagingNames(d)
  <2> DEFINE v == [AtRest("none", TRUE) EXCEPT !.pc = "file"]
  <2>1. v \in Launches /\ v.pc = "file" /\ v.outcome = "none" /\ v.file = 1
    <3>1. "file" \in InstallPhases
      BY DEF InstallPhases
    <3> QED BY <3>1, Begun
  <2>2. inst' = [inst EXCEPT ![p] = v] /\ lock' = {p}
    BY <1>3, <1>7
  <2> HIDE DEF v
  <2>3. Knows(d, v)
    BY <1>2, <1>6, <1>7, <2>1, NewFilesAreFirst DEF Knows, OverFiles
  <2>4. crashes' = 0 => Residue(d, v)
    BY <1>0, <1>2, <1>3, <2>1 DEF Residue
  <2>5. Tainted(dir, inst[p]) => Tainted(d, v)
    BY <1>2, <2>1 DEF Tainted
  <2>6. ~Faultless(v)
    BY <2>1 DEF Faultless
  <2> QED BY <1>2, <1>3, <1>4, <1>5, <2>1, <2>2, <2>3, <2>4, <2>5, <2>6, InstallerStep
<1>8. CASE ~StagingNames(d)
  <2> DEFINE v == AtRest("failed", TRUE)
  <2>1. v \in Launches /\ v.pc = "idle" /\ v.outcome = "failed"
    BY AtRestIs
  <2>2. inst' = [inst EXCEPT ![p] = v] /\ lock' = {}
    BY <1>3, <1>8
  <2> HIDE DEF v
  <2>4. crashes' = 0 => Residue(d, v)
    BY <1>0, <1>2, <1>3, <2>1 DEF Residue
  <2> QED BY <1>2, <1>3, <1>4, <1>5, <1>6, <1>8, <2>1, <2>2, <2>4, InstallerStep
<1> QED BY <1>7, <1>8

LEMMA AuditRemoteKeeps ==
  ASSUME InstallInv, NEW p \in Installers, AuditRemoteFails(p) PROVE InstallInv'
<1>1. /\ lock = {} /\ lock' = lock /\ dir' = dir /\ kind' = kind /\ crashes' = crashes
      /\ inst' = [inst EXCEPT ![p] = AtRest("failed", FALSE)] /\ faults' = faults + 1
      /\ faults < MaxFaults
  BY DEF AuditRemoteFails, Locked, BadResponse
<1>2. /\ faults \in 0..MaxFaults /\ crashes \in 0..MaxCrashes /\ inst[p].pc = "idle"
      /\ crashes = 0 => Residue(dir, inst[p])
  BY <1>1, LaunchIs
<1>3. faults' \in 0..MaxFaults
  BY <1>1, <1>2, InstallAssumption
<1>4. crashes' = 0 => Residue(dir, AtRest("failed", FALSE))
  BY <1>1, <1>2, AtRestIs DEF Residue
<1> QED BY <1>1, <1>2, <1>3, <1>4, LaunchEnds

\* Who finds the lock held leaves everything as it is.
LEMMA RefusedKeeps ==
  ASSUME InstallInv, NEW p \in Installers, LaunchRefused(p) PROVE InstallInv'
<1>1. /\ inst' = [inst EXCEPT ![p] = AtRest("busy", FALSE)] /\ inst[p].pc = "idle"
      /\ lock' = lock /\ dir' = dir /\ kind' = kind /\ faults' = faults /\ crashes' = crashes
      /\ lock # {}
  BY DEF LaunchRefused, PinAt, Locked
<1> DEFINE v == AtRest("busy", FALSE)
<1>2. v \in Launches /\ v.pc = "idle" /\ v.outcome = "busy"
  BY AtRestIs
<1> HIDE DEF v
<1>3. inst \in [Installers -> Launches] /\ inst' \in [Installers -> Launches] /\ inst'[p] = v
      /\ \A q \in Installers : q # p => inst'[q] = inst[q]
  BY <1>1, <1>2 DEF InstallInv, InstallTyped, v
<1>4. p \notin lock
  BY <1>1 DEF InstallInv
<1>5. (InstallTyped /\ Sound(dir) /\ \A x, y \in lock : x = y)'
  BY <1>1, <1>3 DEF InstallInv, InstallTyped, Sound, Genuine, Files
<1>6. ASSUME NEW q \in Installers
      PROVE  /\ q \in lock' <=> inst'[q].pc # "idle"
             /\ (q \in lock => Knows(dir, inst[q]))'
             /\ inst'[q].outcome = "ok" => dir'.at = "published" /\ dir'.manifest
             /\ (lock \subseteq {q} =>
                  /\ crashes = 0 => Residue(dir, inst[q])
                  /\ (\E r \in Installers : Faultless(inst[r])) =>
                       crashes > 0 \/ dir.foreign \/ Tainted(dir, inst[q]))'
  <2>1. CASE q = p
    BY <1>1, <1>2, <1>3, <1>4, <2>1
  <2>2. CASE q # p
    <3>1. inst'[q] = inst[q]
      BY <1>3, <2>2
    <3>2. (\E r \in Installers : Faultless(inst'[r])) => \E r \in Installers : Faultless(inst[r])
      BY <1>2, <1>3 DEF Faultless
    <3>3. dir' = dir /\ kind' = kind
      BY <1>1
    <3>4. Knows(dir, inst[q]) => Knows(dir, inst[q])'
      <4> DEFINE u == inst[q]
      <4>1. u' = u
        BY <3>1
      <4> HIDE DEF u
      <4>2. Knows(dir, u) => Knows(dir, u)'
        BY <3>3, <4>1 DEF Knows, OverFiles, Genuine, Files
      <4> QED BY <4>2 DEF u
    <3>5. /\ Residue(dir, inst[q]) => Residue(dir, inst[q])'
          /\ Tainted(dir, inst[q]) => Tainted(dir, inst[q])'
      BY <3>1, <3>3 DEF Residue, Tainted
    <3> QED BY <1>1, <3>1, <3>2, <3>3, <3>4, <3>5 DEF InstallInv
  <2> QED BY <2>1, <2>2
<1> QED BY <1>5, <1>6 DEF InstallInv

\* A directory with every file verifies, and holds no partial.
LEMMA WholeAudits ==
  ASSUME NEW d \in Directories, Sound(d), DOMAIN d.final = Files, d.marker, ~d.foreign,
         NEW v, Residue(d, v), v.pc \notin {"unlink", "rename"}
  PROVE  /\ AllVerify(d) /\ NoPartials(d)
         /\ kind \in {"k3", "dspark", "qwen"} /\ (kind # "qwen" => d.manifest) => Audit(d)
<1>1. AllVerify(d)
  BY DEF Sound, AllVerify, Verifies
<1>2. DOMAIN d.part \subseteq Files
  <2>1. d.part \in Contents
    BY DEF Directories
  <2> QED BY <2>1, ContentsAre
<1>3. NoPartials(d)
  BY <1>2 DEF NoPartials, Residue
<1> QED BY <1>1, <1>3 DEF Audit, K3AuditLocal, DSparkAuditLocal, ValidateDirectoryNames,
                         QwenAuditModel, ValidatePublishedNames

LEMMA PublishedKeeps ==
  ASSUME InstallInv, NEW p \in Installers, LaunchPublished(p) PROVE InstallInv'
<1> DEFINE d == Marked(dir)
<1>0. /\ inst[p] \in Launches /\ dir \in Directories /\ Sound(dir) /\ inst[p].pc = "idle"
      /\ crashes = 0 => Residue(dir, inst[p])
      /\ faults \in 0..MaxFaults /\ crashes \in 0..MaxCrashes
      /\ kind \in {"k3", "dspark", "qwen"}
  <2>1. lock = {}
    BY DEF LaunchPublished, Locked
  <2> QED BY <2>1, LaunchIs DEF InstallInv, InstallTyped
<1>2. /\ d \in Directories /\ d.marker /\ d.at = dir.at /\ d.final = dir.final
      /\ d.part = dir.part /\ d.manifest = dir.manifest /\ d.mpart = dir.mpart
      /\ d.foreign = dir.foreign
  BY <1>0, MarkedIs
<1>3. /\ dir' = d /\ kind' = kind /\ lock = {} /\ faults' = faults /\ crashes' = crashes
      /\ dir.at = "published"
      /\ IF Adopts(d)
           THEN /\ lock' = lock \cup {p}
                /\ inst' = [inst EXCEPT ![p] = [AtRest("none", TRUE) EXCEPT !.pc = "manifest"]]
           ELSE /\ inst' = [inst EXCEPT ![p] = AtRest(IF Audit(d) THEN "ok" ELSE "failed", TRUE)]
                /\ lock' = lock
  BY DEF LaunchPublished, Locked
<1> HIDE DEF d
<1>4. Sound(d) /\ DOMAIN d.final = Files /\ (kind # "qwen" => d.manifest)
  BY <1>0, <1>2, <1>3 DEF Sound
<1>5. faults' \in 0..MaxFaults /\ crashes' \in 0..MaxCrashes
  BY <1>0, <1>3
<1>7. CASE Adopts(d)
  <2> DEFINE v == [AtRest("none", TRUE) EXCEPT !.pc = "manifest"]
  <2>1. v \in Launches /\ v.pc = "manifest" /\ v.outcome = "none"
    <3>1. "manifest" \in InstallPhases
      BY DEF InstallPhases
    <3> QED BY <3>1, Begun
  <2>2. inst' = [inst EXCEPT ![p] = v] /\ lock' = {p}
    BY <1>3, <1>7
  <2> HIDE DEF v
  <2>3. Knows(d, v)
    BY <1>2, <1>3, <1>4, <1>7, <2>1
       DEF Knows, OverFiles, Adopts, QwenAuditModel, ValidatePublishedNames
  <2>4. crashes' = 0 => Residue(d, v)
    BY <1>0, <1>2, <1>3, <2>1 DEF Residue
  <2>5. Tainted(dir, inst[p]) => Tainted(d, v)
    BY <1>2, <2>1 DEF Tainted
  <2>6. ~Faultless(v) /\ v.outcome # "ok"
    BY <2>1 DEF Faultless
  <2> QED BY <1>2, <1>3, <1>4, <1>5, <2>1, <2>2, <2>3, <2>4, <2>5, <2>6, InstallerStep
<1>8. CASE ~Adopts(d)
  <2> DEFINE o == IF Audit(d) THEN "ok" ELSE "failed"
             v == AtRest(o, TRUE)
  <2>1. v \in Launches /\ v.pc = "idle" /\ v.outcome = o
    BY AtRestIs
  <2>2. inst' = [inst EXCEPT ![p] = v] /\ lock' = {}
    BY <1>3, <1>8, <2>1
  <2> HIDE DEF v
  <2>3. o = "ok" => d.manifest
    BY <1>0, <1>8 DEF Audit, K3AuditLocal, DSparkAuditLocal, Adopts
  <2>4. crashes' = 0 => Residue(d, v)
    BY <1>0, <1>2, <1>3, <2>1 DEF Residue
  <2>5. Tainted(dir, inst[p]) => Tainted(d, v)
    BY <1>2, <2>1 DEF Tainted
  <2>6. crashes' = 0 /\ ~d.foreign => Audit(d)
    BY <1>0, <1>2, <1>4, <2>1, <2>4, WholeAudits
  <2>7. crashes' = 0 /\ ~d.foreign => ~Faultless(v)
    BY <2>1, <2>6 DEF Faultless
  <2>8. v.outcome = "ok" => d.at = "published" /\ d.manifest
    BY <1>2, <1>3, <2>1, <2>3
  <2> HIDE DEF o
  <2> QED BY <1>2, <1>3, <1>4, <1>5, <2>1, <2>2, <2>4, <2>5, <2>7, <2>8, InstallerStep
<1> QED BY <1>7, <1>8

-----------------------------------------------------------------------------
(* Steps from file to file.                                                  *)

LEMMA NextFile ==
  ASSUME NEW f \in Files, NEW D \in SUBSET Files, f \in D, \A g \in 1..f - 1 : g \in D
  PROVE  IF f = NFiles THEN D = Files ELSE f + 1 \in Files /\ \A g \in 1..(f + 1) - 1 : g \in D
<1>1. NFiles \in Nat /\ f \in 1..NFiles /\ f \in Nat
  BY InstallAssumption DEF Files
<1>2. \A g \in 1..f : g \in D
  <2>1. \A g \in 1..f : g = f \/ g \in 1..f - 1
    BY <1>1
  <2> QED BY <2>1
<1>3. CASE f = NFiles
  BY <1>2, <1>3 DEF Files
<1>4. CASE f # NFiles
  <2>1. f + 1 \in 1..NFiles /\ (f + 1) - 1 = f
    BY <1>1, <1>4
  <2> QED BY <1>2, <1>4, <2>1 DEF Files
<1> QED BY <1>3, <1>4

LEMMA FinalIs ==
  ASSUME NEW d \in Directories
  PROVE  /\ d.final \in Contents /\ d.part \in Contents
         /\ DOMAIN d.final \in SUBSET Files /\ DOMAIN d.part \in SUBSET Files
BY ContentsAre DEF Directories

\* A launch that is done with a file goes to the next, or to the manifest.
LEMMA AdvanceKeeps ==
  ASSUME InstallInv, NEW p \in Installers, inst[p].pc \in {"file", "unlink"},
         kind' = kind, lock' = lock, faults' = faults, crashes' = crashes,
         inst' = [inst EXCEPT ![p].file = @ + 1,
                              ![p].pc = IF inst[p].file = NFiles THEN "manifest" ELSE "file"],
         inst[p].file \in DOMAIN dir.final,
         NEW d \in Directories, dir' = d, Sound(d), d.at = dir.at, d.final = dir.final,
         d.manifest = dir.manifest, d.mpart = dir.mpart, d.marker = dir.marker,
         d.foreign = dir.foreign,
         DOMAIN d.part = IF inst[p].pc = "file" THEN DOMAIN dir.part
                                                ELSE DOMAIN dir.part \ {inst[p].file},
         \A g \in DOMAIN d.part : d.part[g] = dir.part[g]
  PROVE  InstallInv'
<1> DEFINE u == inst[p]
           f == u.file
           v == [u EXCEPT !.file = f + 1, !.pc = IF f = NFiles THEN "manifest" ELSE "file"]
<1>1. /\ inst \in [Installers -> Launches] /\ u \in Launches /\ dir \in Directories
      /\ faults \in 0..MaxFaults /\ crashes \in 0..MaxCrashes /\ Sound(dir)
      /\ lock = {p} /\ Knows(dir, u) /\ (crashes = 0 => Residue(dir, u))
  BY LaunchIs
<1>2. f \in Files /\ \A g \in 1..f - 1 : g \in DOMAIN dir.final
  BY <1>1 DEF Knows, OverFiles
<1>3. /\ v \in Launches /\ v.pc = (IF f = NFiles THEN "manifest" ELSE "file")
      /\ v.file = f + 1 /\ v.outcome = u.outcome
  <2>1. f + 1 \in Nat
    BY <1>2, InstallAssumption DEF Files
  <2>2. {"manifest", "file"} \subseteq InstallPhases
    BY DEF InstallPhases
  <2> DEFINE x == IF f = NFiles THEN "manifest" ELSE "file"
  <2>3. x \in InstallPhases
    BY <2>2
  <2> HIDE DEF x
  <2>4. v = [u EXCEPT !.file = f + 1, !.pc = x]
    BY DEF x
  <2> HIDE DEF f
  <2>5. v \in Launches /\ v.pc = x /\ v.file = f + 1 /\ v.outcome = u.outcome
    BY <1>1, <2>1, <2>3, <2>4 DEF Launches
  <2> QED BY <2>5 DEF x
<1>4. inst' = [inst EXCEPT ![p] = v]
  BY <1>1
<1> HIDE DEF v
<1>5. IF f = NFiles THEN DOMAIN d.final = Files
      ELSE f + 1 \in Files /\ \A g \in 1..(f + 1) - 1 : g \in DOMAIN d.final
  BY <1>1, <1>2, NextFile, FinalIs
<1>6. Knows(d, v)
  BY <1>1, <1>3, <1>5 DEF Knows, OverFiles
<1>7. crashes' = 0 => Residue(d, v)
  <2>1. ASSUME crashes' = 0 PROVE Residue(d, v)
    <3>1. Residue(dir, u)
      BY <1>1, <2>1
    <3>2. CASE u.pc = "file"
      BY <1>3, <3>1, <3>2 DEF Residue
    <3>3. CASE u.pc = "unlink"
      BY <1>3, <3>1, <3>3 DEF Residue
    <3> QED BY <3>2, <3>3
  <2> QED BY <2>1
<1>8. Tainted(dir, u) => Tainted(d, v)
  <2>1. ASSUME NEW g \in DOMAIN dir.part, NEW i \in 1..Len(dir.part[g]), ~dir.part[g][i]
        PROVE  g \in DOMAIN d.part
    <3>1. CASE u.pc = "unlink" /\ g = f
      <4>1. dir.part[g] = Genuine
        BY <1>1, <3>1 DEF Knows
      <4> QED BY <2>1, <4>1, GenuineIs
    <3> QED BY <3>1
  <2> QED BY <1>3, <2>1 DEF Tainted
<1>9. ~Faultless(v) /\ v.outcome # "ok" /\ v.pc # "idle"
  BY <1>1, <1>3 DEF Faultless, Knows
<1> QED BY <1>1, <1>3, <1>4, <1>6, <1>7, <1>8, <1>9, InstallerStep

LEMMA SkipKeeps == ASSUME InstallInv, NEW p \in Installers, Skip(p) PROVE InstallInv'
<1>1. dir \in Directories /\ Sound(dir)
  BY LaunchIs
<1>2. /\ inst[p].pc = "file" /\ inst[p].file \in DOMAIN dir.final
      /\ Verifies(dir.final[inst[p].file])
  BY <1>1 DEF Skip, PinAt, Sound, Verifies
<1>3. /\ inst' = [inst EXCEPT ![p].file = @ + 1,
                              ![p].pc = IF inst[p].file = NFiles THEN "manifest" ELSE "file"]
      /\ lock' = lock /\ kind' = kind /\ dir' = dir /\ faults' = faults /\ crashes' = crashes
  BY <1>2 DEF Skip
<1> QED BY <1>1, <1>2, <1>3, AdvanceKeeps

LEMMA UnlinkPartKeeps == ASSUME InstallInv, NEW p \in Installers, Unlink(p) PROVE InstallInv'
<1> DEFINE f == inst[p].file
           c == Restrict(dir.part, DOMAIN dir.part \ {f})
           d == [dir EXCEPT !.part = c]
<1>1. /\ dir \in Directories /\ Sound(dir) /\ inst[p].pc = "unlink" /\ f \in DOMAIN dir.final
  BY LaunchIs DEF Unlink, PinAt, Knows
<1>2. c \in Contents /\ DOMAIN c = DOMAIN dir.part \ {f} /\ \A g \in DOMAIN c : c[g] = dir.part[g]
  <2>1. dir.part \in Contents
    BY <1>1, FinalIs
  <2>2. c = Restrict(dir.part, DOMAIN dir.part \ {f})
    OBVIOUS
  <2> HIDE DEF c, f
  <2> QED BY <2>1, <2>2, FileRemoved
<1>3. /\ inst' = [inst EXCEPT ![p].file = @ + 1,
                              ![p].pc = IF inst[p].file = NFiles THEN "manifest" ELSE "file"]
      /\ lock' = lock /\ kind' = kind /\ dir' = d /\ faults' = faults /\ crashes' = crashes
  BY DEF Unlink
<1> HIDE DEF c
<1>4. /\ d \in Directories /\ d.part = c /\ d.at = dir.at /\ d.final = dir.final
      /\ d.manifest = dir.manifest /\ d.mpart = dir.mpart /\ d.marker = dir.marker
      /\ d.foreign = dir.foreign
  BY <1>1, <1>2 DEF Directories
<1> HIDE DEF d
<1>5. Sound(d)
  BY <1>1, <1>2, <1>4 DEF Sound
<1> QED BY <1>1, <1>2, <1>3, <1>4, <1>5, AdvanceKeeps

-----------------------------------------------------------------------------
(* Steps on the partial of the file at hand.                                 *)

\* What becomes of the partial f of dir in d.
OnlyPart(d, f) ==
  /\ d \in Directories /\ d.at = dir.at /\ d.final = dir.final /\ d.manifest = dir.manifest
  /\ d.mpart = dir.mpart /\ d.marker = dir.marker /\ d.foreign = dir.foreign
  /\ DOMAIN d.part = DOMAIN dir.part \cup {f}
  /\ \A g \in DOMAIN dir.part : g # f => d.part[g] = dir.part[g]

LEMMA PartReplaced ==
  ASSUME InstallInv, NEW f \in DOMAIN dir.part, NEW s \in Seq(BOOLEAN)
  PROVE  LET d == [dir EXCEPT !.part[f] = s] IN OnlyPart(d, f) /\ d.part[f] = s
<1> DEFINE c == [dir.part EXCEPT ![f] = s]
           d == [dir EXCEPT !.part = c]
<1>1. dir \in Directories /\ dir.part \in Contents
  BY FinalIs DEF InstallInv, InstallTyped
<1>2. /\ c \in Contents /\ DOMAIN c = DOMAIN dir.part /\ c[f] = s
      /\ \A g \in DOMAIN dir.part : g # f => c[g] = dir.part[g]
  BY <1>1, FileChanged
<1>3. [dir EXCEPT !.part[f] = s] = d
  BY <1>1 DEF Directories
<1> HIDE DEF c
<1>4. OnlyPart(d, f) /\ d.part = c
  BY <1>1, <1>2 DEF OnlyPart, Directories
<1> QED BY <1>2, <1>3, <1>4

LEMMA PartAdded ==
  ASSUME InstallInv, NEW f \in Files, NEW s \in Seq(BOOLEAN)
  PROVE  LET d == [dir EXCEPT !.part = Holding(@, f, s)] IN OnlyPart(d, f) /\ d.part[f] = s
<1> DEFINE c == Holding(dir.part, f, s)
           d == [dir EXCEPT !.part = c]
<1>1. dir \in Directories /\ dir.part \in Contents
  BY FinalIs DEF InstallInv, InstallTyped
<1>2. /\ c \in Contents /\ DOMAIN c = DOMAIN dir.part \cup {f} /\ c[f] = s
      /\ \A g \in DOMAIN dir.part : g # f => c[g] = dir.part[g]
  BY <1>1, FileAdded
<1> HIDE DEF c
<1>4. OnlyPart(d, f) /\ d.part = c
  BY <1>1, <1>2 DEF OnlyPart, Directories
<1>5. d = [dir EXCEPT !.part = Holding(@, f, s)]
  BY DEF c
<1> QED BY <1>2, <1>4, <1>5

LEMMA PartIs ==
  ASSUME InstallInv, NEW f \in DOMAIN dir.part
  PROVE  dir.part[f] \in Seq(BOOLEAN) /\ Len(dir.part[f]) \in Nat /\ Len(dir.part[f]) <= Chunks
<1>1. dir.part \in Contents /\ Sound(dir)
  BY FinalIs DEF InstallInv, InstallTyped
<1> QED BY <1>1, ContentsAre DEF Sound

\* A launch works on the partial of its file, and keeps what was wrong with it.
LEMMA PartKeeps ==
  ASSUME InstallInv, NEW p \in Installers, inst[p].pc # "idle", OverFiles(inst[p]),
         inst[p].file \notin DOMAIN dir.final,
         NEW d, OnlyPart(d, inst[p].file), dir' = d, Len(d.part[inst[p].file]) <= Chunks,
         NEW v \in Launches, inst' = [inst EXCEPT ![p] = v], v.file = inst[p].file,
         v.outcome = "none", v.pc \in {"write", "transfer", "verify"},
         v.pc = "write" => kind = "k3" /\ d.part[v.file] = <<>>,
         v.pc = "transfer" =>
           /\ kind # "k3" /\ Len(v.found) <= Len(d.part[v.file])
           /\ \A i \in 1..Len(v.found) : d.part[v.file][i] = v.found[i]
           /\ v.clean => \A i \in Len(v.found) + 1..Len(d.part[v.file]) : d.part[v.file][i],
         v.pc = "verify" =>
           Len(d.part[v.file]) = Chunks /\ (kind = "k3" => d.part[v.file] = Genuine),
         v.file \in DOMAIN dir.part =>
           \A i \in 1..Len(dir.part[v.file]) :
             ~dir.part[v.file][i] /\ (inst[p].pc = "transfer" => i <= Len(inst[p].found)) =>
               /\ i \in 1..Len(d.part[v.file]) /\ ~d.part[v.file][i]
               /\ v.pc = "transfer" => i <= Len(v.found),
         kind' = kind, lock' = lock, faults' \in 0..MaxFaults, crashes' = crashes
  PROVE  InstallInv'
<1> DEFINE u == inst[p]
           f == u.file
<1>1. /\ u \in Launches /\ crashes \in 0..MaxCrashes /\ Sound(dir) /\ lock = {p} /\ Knows(dir, u)
      /\ crashes = 0 => Residue(dir, u)
  BY LaunchIs
<1>2. f \in Files /\ dir.at = "staging" /\ \A g \in 1..f - 1 : g \in DOMAIN dir.final
  BY <1>1 DEF Knows
<1>3. Sound(d)
  BY <1>1, <1>2 DEF Sound, OnlyPart
<1>4. Knows(d, v)
  BY <1>1, <1>2 DEF Knows, OverFiles, OnlyPart
<1>5. crashes' = 0 => Residue(d, v)
  <2>1. ASSUME crashes = 0 PROVE Residue(d, v)
    <3>1. Residue(dir, u)
      BY <1>1, <2>1
    <3>2. \A g \in DOMAIN d.part \cap DOMAIN d.final : FALSE
      BY <3>1 DEF Residue, OnlyPart, OverFiles, Knows
    <3>3. ~d.mpart
      BY <3>1 DEF Residue, OnlyPart, OverFiles
    <3>4. ASSUME kind = "k3", NEW g \in DOMAIN d.part
          PROVE  v.pc \in {"write", "verify", "unlink"} /\ v.file = g
      BY <3>1, <3>4 DEF Residue, OnlyPart
    <3> QED BY <3>2, <3>3, <3>4 DEF Residue
  <2> QED BY <2>1
<1>6. Tainted(dir, u) => Tainted(d, v)
  <2>1. ASSUME NEW g \in DOMAIN dir.part, NEW i \in 1..Len(dir.part[g]), ~dir.part[g][i],
               u.pc = "transfer" /\ u.file = g => i <= Len(u.found)
        PROVE  Tainted(d, v)
    <3>1. g \in DOMAIN d.part
      BY DEF OnlyPart
    <3>2. CASE g = f
      BY <2>1, <3>1, <3>2 DEF Tainted
    <3>3. CASE g # f
      <4>1. d.part[g] = dir.part[g]
        BY <3>3 DEF OnlyPart
      <4> QED BY <2>1, <3>1, <3>3, <4>1 DEF Tainted
    <3> QED BY <3>2, <3>3
  <2> QED BY <2>1 DEF Tainted
<1>7. ~Faultless(v) /\ v.outcome # "ok" /\ v.pc # "idle" /\ d \in Directories
  BY DEF Faultless, OnlyPart
<1>8. dir.at # "published" /\ d.foreign = dir.foreign
  BY <1>2 DEF OnlyPart
<1> QED BY <1>1, <1>3, <1>4, <1>5, <1>6, <1>7, <1>8, InstallerStep

\* Where a launch without a final file stands.
LEMMA AtHandIs ==
  ASSUME InstallInv, NEW p \in Installers, inst[p].pc \in {"file", "write", "transfer", "verify"},
         inst[p].pc = "file" => inst[p].file \notin DOMAIN dir.final
  PROVE  /\ inst[p] \in Launches /\ OverFiles(inst[p]) /\ inst[p].pc # "idle" /\ lock = {p}
         /\ inst[p].file \in Files /\ inst[p].file \notin DOMAIN dir.final
         /\ inst[p].outcome = "none" /\ inst[p].found \in Seq(BOOLEAN)
         /\ faults \in 0..MaxFaults /\ crashes \in 0..MaxCrashes /\ Knows(dir, inst[p])
         /\ inst \in [Installers -> Launches]
         /\ crashes = 0 => Residue(dir, inst[p])
<1>1. /\ inst[p] \in Launches /\ lock = {p} /\ Knows(dir, inst[p])
      /\ faults \in 0..MaxFaults /\ crashes \in 0..MaxCrashes
      /\ inst \in [Installers -> Launches]
      /\ crashes = 0 => Residue(dir, inst[p])
  BY LaunchIs
<1>2. OverFiles(inst[p])
  BY DEF OverFiles
<1>3. inst[p].found \in Seq(BOOLEAN)
  BY <1>1 DEF Launches
<1> QED BY <1>1, <1>2, <1>3 DEF Knows

\* A launch goes to a phase.
LEMMA GoesIs ==
  ASSUME NEW p \in Installers, inst \in [Installers -> Launches], NEW pc \in InstallPhases,
         PinGoes(p, pc)
  PROVE  \E v \in Launches :
           /\ inst' = [inst EXCEPT ![p] = v] /\ v.pc = pc /\ v.file = inst[p].file
           /\ v.found = inst[p].found /\ v.outcome = inst[p].outcome /\ v.clean = inst[p].clean
<1> DEFINE v == [inst[p] EXCEPT !.pc = pc]
<1>1. inst' = [inst EXCEPT ![p] = v]
  BY DEF PinGoes
<1>2. inst[p] \in Launches
  OBVIOUS
<1>3. /\ v \in Launches /\ v.pc = pc /\ v.file = inst[p].file
      /\ v.found = inst[p].found /\ v.outcome = inst[p].outcome /\ v.clean = inst[p].clean
  BY <1>2 DEF Launches
<1> HIDE DEF v
<1> QED BY <1>1, <1>3

LEMMA PhasesAre ==
  InstallPhases =
    {"idle", "file", "write", "transfer", "verify", "unlink", "manifest", "rename", "publish", "audit"}
BY DEF InstallPhases

\* A bad response is counted.
LEMMA FaultsCounted ==
  ASSUME faults \in 0..MaxFaults, BadResponse \/ faults' = faults
  PROVE  faults' \in 0..MaxFaults
BY InstallAssumption DEF BadResponse

LEMMA FetchMetadataKeeps ==
  ASSUME InstallInv, NEW p \in Installers, FetchMetadata(p) PROVE InstallInv'
<1> DEFINE f == inst[p].file
<1>1. /\ inst[p].pc = "file" /\ f \notin DOMAIN dir.final /\ kind = "k3"
      /\ kind' = kind /\ crashes' = crashes
  BY DEF FetchMetadata, Missing, PinAt
<1>2. /\ inst[p] \in Launches /\ OverFiles(inst[p]) /\ lock = {p} /\ f \in Files
      /\ inst[p].outcome = "none" /\ inst \in [Installers -> Launches]
      /\ faults \in 0..MaxFaults /\ crashes \in 0..MaxCrashes
      /\ crashes = 0 => Residue(dir, inst[p])
  BY <1>1, AtHandIs
<1>3. crashes = 0 => /\ DOMAIN dir.part = {} /\ \A o, c : Residue(dir, AtRest(o, c))
  BY <1>1, <1>2 DEF Residue
<1>4. CASE /\ BadResponse /\ Ends(p, "failed", FALSE) /\ dir' = dir
  <2>1. faults' \in 0..MaxFaults
    BY <1>2, <1>4, FaultsCounted
  <2> QED BY <1>1, <1>2, <1>3, <1>4, <2>1, LaunchEnds DEF Ends
<1>5. CASE f \in DOMAIN dir.part /\ Fails(p) /\ dir' = dir /\ faults' = faults
  <2>1. crashes' > 0
    BY <1>1, <1>2, <1>3, <1>5
  <2>2. inst[p].clean \in BOOLEAN
    BY <1>2 DEF Launches
  <2>3. /\ inst' = [inst EXCEPT ![p] = AtRest("failed", inst[p].clean)] /\ lock' = lock \ {p}
        /\ dir' = dir /\ faults' = faults
    BY <1>5 DEF Ends, Fails
  <2>4. ~(crashes' = 0)
    BY <2>1
  <2> HIDE DEF f
  <2> QED BY <1>1, <1>2, <2>1, <2>2, <2>3, <2>4, LaunchEnds
<1>6. CASE /\ f \notin DOMAIN dir.part /\ dir' = [dir EXCEPT !.part = Holding(@, f, <<>>)]
           /\ PinGoes(p, "write") /\ lock' = lock /\ faults' = faults
  <2>1. PICK v \in Launches :
             /\ inst' = [inst EXCEPT ![p] = v] /\ v.pc = "write" /\ v.file = inst[p].file
             /\ v.outcome = inst[p].outcome
    BY <1>2, <1>6, GoesIs, PhasesAre
  <2> DEFINE d == [dir EXCEPT !.part = Holding(@, f, <<>>)]
  <2>2. <<>> \in Seq(BOOLEAN) /\ Len(<<>>) = 0
    OBVIOUS
  <2>3. OnlyPart(d, f) /\ d.part[f] = <<>>
    BY <1>2, <2>2, PartAdded
  <2>4. dir' = d
    BY <1>6
  <2> HIDE DEF d
  <2>5. Len(d.part[f]) <= Chunks
    BY <2>2, <2>3, InstallAssumption
  <2>6. v.file = f /\ v.file \notin DOMAIN dir.part /\ lock' = lock /\ faults' \in 0..MaxFaults
    BY <1>2, <1>6, <2>1
  <2> QED BY <1>1, <1>2, <2>1, <2>3, <2>4, <2>5, <2>6, PartKeeps
<1>7. FetchMetadata(p) => <1>4!1 \/ <1>5!1 \/ <1>6!1
  BY DEF FetchMetadata, CreateNew
<1> QED BY <1>4, <1>5, <1>6, <1>7

LEMMA WriteMetadataKeeps ==
  ASSUME InstallInv, NEW p \in Installers, WriteMetadata(p) PROVE InstallInv'
<1> DEFINE f == inst[p].file
           d == [dir EXCEPT !.part[f] = Genuine]
<1>1. /\ inst[p].pc = "write" /\ dir' = d /\ PinGoes(p, "verify")
      /\ kind' = kind /\ lock' = lock /\ faults' = faults /\ crashes' = crashes
  BY DEF WriteMetadata, PinAt
<1>2. /\ inst[p] \in Launches /\ OverFiles(inst[p]) /\ lock = {p} /\ f \in Files
      /\ inst[p].outcome = "none" /\ inst \in [Installers -> Launches] /\ f \notin DOMAIN dir.final
      /\ faults \in 0..MaxFaults /\ crashes \in 0..MaxCrashes /\ Knows(dir, inst[p])
  BY <1>1, AtHandIs
<1>3. kind = "k3" /\ f \in DOMAIN dir.part /\ dir.part[f] = <<>>
  BY <1>1, <1>2 DEF Knows
<1>4. PICK v \in Launches :
             /\ inst' = [inst EXCEPT ![p] = v] /\ v.pc = "verify" /\ v.file = inst[p].file
             /\ v.outcome = inst[p].outcome
  BY <1>1, <1>2, GoesIs, PhasesAre
<1>5. OnlyPart(d, f) /\ d.part[f] = Genuine
  BY <1>3, PartReplaced, GenuineIs
<1> HIDE DEF d
<1>6. Len(d.part[f]) = Chunks /\ Len(d.part[f]) <= Chunks
  BY <1>5, GenuineIs, InstallAssumption
<1>7. \A i \in 1..Len(dir.part[f]) : FALSE
  BY <1>3
<1> QED BY <1>1, <1>2, <1>3, <1>4, <1>5, <1>6, <1>7, PartKeeps

\* The directory as it is.
LEMMA SamePart ==
  ASSUME InstallInv, NEW f \in DOMAIN dir.part PROVE OnlyPart(dir, f)
BY DEF OnlyPart, InstallInv, InstallTyped

LEMMA OpenPartKeeps ==
  ASSUME InstallInv, NEW p \in Installers, OpenPart(p) PROVE InstallInv'
<1> DEFINE f == inst[p].file
           part == IF f \in DOMAIN dir.part THEN dir.part[f] ELSE <<>>
<1>1. /\ inst[p].pc = "file" /\ f \notin DOMAIN dir.final /\ kind # "k3"
      /\ kind' = kind /\ lock' = lock /\ faults' = faults /\ crashes' = crashes
  BY DEF OpenPart, Missing, PinAt
<1>2. /\ inst[p] \in Launches /\ OverFiles(inst[p]) /\ lock = {p} /\ f \in Files
      /\ inst[p].outcome = "none" /\ inst \in [Installers -> Launches]
      /\ faults \in 0..MaxFaults
  BY <1>1, AtHandIs
<1>3. part \in Seq(BOOLEAN) /\ Len(part) \in Nat /\ Len(part) <= Chunks
  <2>1. <<>> \in Seq(BOOLEAN) /\ Len(<<>>) = 0
    OBVIOUS
  <2>2. CASE f \in DOMAIN dir.part
    BY <2>2, PartIs
  <2>3. CASE f \notin DOMAIN dir.part
    <3>1. part = <<>>
      BY <2>3
    <3> HIDE DEF part
    <3> QED BY <2>1, <3>1, InstallAssumption
  <2> QED BY <2>2, <2>3
<1>4. CASE Len(part) = Chunks /\ PinGoes(p, "verify") /\ dir' = dir
  <2>1. f \in DOMAIN dir.part /\ Len(dir.part[f]) = Chunks
    BY <1>4, InstallAssumption
  <2>2. PICK v \in Launches :
             /\ inst' = [inst EXCEPT ![p] = v] /\ v.pc = "verify" /\ v.file = inst[p].file
             /\ v.outcome = inst[p].outcome
    BY <1>2, <1>4, GoesIs, PhasesAre
  <2>3. OnlyPart(dir, f)
    BY <2>1, SamePart
  <2>4. Len(dir.part[f]) <= Chunks /\ faults' \in 0..MaxFaults
    BY <1>1, <1>2, <1>3, <2>1
  <2>5. inst[p].pc # "idle" /\ inst[p].pc # "transfer"
    BY <1>1
  <2> QED BY <1>1, <1>2, <1>4, <2>1, <2>2, <2>3, <2>4, <2>5, PartKeeps
<1>5. ASSUME NEW r \in Response, dir' = [dir EXCEPT !.part = Holding(@, f, part)],
             inst' = [inst EXCEPT ![p].pc = "transfer", ![p].found = part, ![p].response = r]
      PROVE  InstallInv'
  <2> DEFINE d == [dir EXCEPT !.part = Holding(@, f, part)]
             v == [inst[p] EXCEPT !.pc = "transfer", !.found = part, !.response = r]
  <2> HIDE DEF part
  <2>1. OnlyPart(d, f) /\ d.part[f] = part
    BY <1>2, <1>3, PartAdded
  <2>2. inst' = [inst EXCEPT ![p] = v] /\ dir' = d
    BY <1>2, <1>5
  <2>3. /\ v \in Launches /\ v.pc = "transfer" /\ v.file = f /\ v.found = part
        /\ v.outcome = "none"
    BY <1>2, <1>3, PhasesAre DEF Launches
  <2> HIDE DEF d, v
  <2>4. /\ \A i \in 1..Len(v.found) : d.part[v.file][i] = v.found[i]
        /\ \A i \in Len(v.found) + 1..Len(d.part[v.file]) : FALSE
        /\ Len(d.part[f]) <= Chunks /\ Len(v.found) <= Len(d.part[v.file])
        /\ faults' \in 0..MaxFaults
    BY <1>1, <1>2, <1>3, <2>1, <2>3
  <2>5. v.file \in DOMAIN dir.part => part = dir.part[v.file]
    BY <2>3 DEF part
  <2>6. inst[p].pc # "idle" /\ v.file = inst[p].file
    BY <1>1, <2>3
  <2>7. v.file \in DOMAIN dir.part =>
          \A i \in 1..Len(dir.part[v.file]) :
            ~dir.part[v.file][i] =>
              i \in 1..Len(d.part[v.file]) /\ ~d.part[v.file][i] /\ i <= Len(v.found)
    BY <1>3, <2>1, <2>3, <2>5
  <2> HIDE DEF f
  <2>8. /\ OnlyPart(d, inst[p].file) /\ Len(d.part[inst[p].file]) <= Chunks
        /\ inst[p].file \notin DOMAIN dir.final
    BY <1>1, <2>1, <2>4 DEF f
  <2> QED BY <1>1, <1>2, <2>2, <2>3, <2>4, <2>6, <2>7, <2>8, PartKeeps
<1>6. OpenPart(p) => \/ <1>4!1
                     \/ \E r \in Response :
                          /\ dir' = [dir EXCEPT !.part = Holding(@, f, part)]
                          /\ inst' = [inst EXCEPT ![p].pc = "transfer", ![p].found = part,
                                                  ![p].response = r]
  BY DEF OpenPart
<1> QED BY <1>4, <1>5, <1>6

\* A launch in a transfer.
LEMMA TransferIs ==
  ASSUME InstallInv, NEW p \in Installers, inst[p].pc = "transfer"
  PROVE  LET v == inst[p] part == dir.part[inst[p].file] IN
         /\ kind # "k3" /\ v.file \in DOMAIN dir.part
         /\ part \in Seq(BOOLEAN) /\ Len(part) \in Nat /\ Len(part) <= Chunks
         /\ v.found \in Seq(BOOLEAN) /\ Len(v.found) \in Nat
         /\ Len(v.found) <= Len(part)
         /\ \A i \in 1..Len(v.found) : part[i] = v.found[i]
         /\ v.clean => \A i \in Len(v.found) + 1..Len(part) : part[i]
<1>1. Knows(dir, inst[p]) /\ inst[p].found \in Seq(BOOLEAN)
  BY AtHandIs
<1>2. inst[p].file \in DOMAIN dir.part
  BY <1>1 DEF Knows
<1>3. LET part == dir.part[inst[p].file] IN
        part \in Seq(BOOLEAN) /\ Len(part) \in Nat /\ Len(part) <= Chunks
  BY <1>2, PartIs
<1> QED BY <1>1, <1>2, <1>3 DEF Knows

LEMMA ReceiveKeeps ==
  ASSUME InstallInv, NEW p \in Installers, Receive(p) PROVE InstallInv'
<1> DEFINE f == inst[p].file
           part == dir.part[f]
           found == inst[p].found
<1>1. /\ inst[p].pc = "transfer" /\ Len(part) < Chunks
      /\ kind' = kind /\ lock' = lock /\ crashes' = crashes
  BY DEF Receive, PinAt
<1>2. PICK genuine \in BOOLEAN :
        /\ dir' = [dir EXCEPT !.part[f] = Append(part, genuine)]
        /\ inst' = [inst EXCEPT ![p].clean = inst[p].clean /\ genuine]
        /\ BadResponse \/ faults' = faults
  BY DEF Receive
<1>3. /\ inst[p] \in Launches /\ OverFiles(inst[p]) /\ lock = {p} /\ f \in Files
      /\ inst[p].outcome = "none" /\ inst \in [Installers -> Launches] /\ f \notin DOMAIN dir.final
      /\ faults \in 0..MaxFaults
  BY <1>1, AtHandIs
<1>4. /\ kind # "k3" /\ f \in DOMAIN dir.part
      /\ part \in Seq(BOOLEAN) /\ Len(part) \in Nat /\ Len(part) <= Chunks
      /\ found \in Seq(BOOLEAN) /\ Len(found) \in Nat
      /\ Len(found) <= Len(part)
      /\ \A i \in 1..Len(found) : part[i] = found[i]
      /\ inst[p].clean => \A i \in Len(found) + 1..Len(part) : part[i]
  BY <1>1, TransferIs
<1> DEFINE s == Append(part, genuine)
           d == [dir EXCEPT !.part[f] = s]
           v == [inst[p] EXCEPT !.clean = inst[p].clean /\ genuine]
<1>5. /\ s \in Seq(BOOLEAN) /\ Len(s) = Len(part) + 1 /\ s[Len(part) + 1] = genuine
      /\ \A i \in 1..Len(part) : s[i] = part[i]
  BY <1>4
<1>6. inst' = [inst EXCEPT ![p] = v] /\ dir' = d
  BY <1>2, <1>3
<1> HIDE DEF s
<1>7. OnlyPart(d, f) /\ d.part[f] = s
  BY <1>4, <1>5, PartReplaced
<1>8. /\ v \in Launches /\ v.pc = "transfer" /\ v.file = f /\ v.found = found
      /\ v.outcome = "none" /\ (v.clean => inst[p].clean /\ genuine)
  <2>1. (inst[p].clean /\ genuine) \in BOOLEAN
    BY <1>3 DEF Launches
  <2>2. v \in Launches
    BY <1>1, <1>3, <2>1 DEF Launches
  <2> QED BY <1>1, <1>3, <2>2 DEF Launches
<1> HIDE DEF d, v, f, part, found
<1>9. /\ Len(s) <= Chunks /\ Len(found) <= Len(s) /\ faults' \in 0..MaxFaults
      /\ \A i \in 1..Len(found) : s[i] = found[i]
      /\ v.clean => \A i \in Len(found) + 1..Len(s) : s[i]
      /\ \A i \in 1..Len(part) : i \in 1..Len(s) /\ s[i] = part[i]
  <2>1. Len(s) <= Chunks
    BY <1>1, <1>4, <1>5, InstallAssumption
  <2>2. faults' \in 0..MaxFaults
    BY <1>2, <1>3, FaultsCounted
  <2>3. ASSUME v.clean, NEW i \in Len(found) + 1..Len(s) PROVE s[i]
    <3>1. i = Len(part) + 1 \/ i \in Len(found) + 1..Len(part)
      BY <1>4, <1>5
    <3>2. i \in Len(found) + 1..Len(part) => i \in 1..Len(part)
      BY <1>4
    <3> QED BY <1>4, <1>5, <1>8, <2>3, <3>1, <3>2
  <2> QED BY <1>4, <1>5, <2>1, <2>2, <2>3
<1>10. inst[p].pc # "idle"
  BY <1>1
<1>11. /\ v.file = inst[p].file /\ OnlyPart(d, inst[p].file) /\ OverFiles(inst[p])
       /\ Len(d.part[inst[p].file]) <= Chunks /\ inst[p].file \notin DOMAIN dir.final
  BY <1>3, <1>7, <1>8, <1>9 DEF f
<1>12. /\ Len(v.found) <= Len(d.part[v.file])
       /\ \A i \in 1..Len(v.found) : d.part[v.file][i] = v.found[i]
       /\ v.clean => \A i \in Len(v.found) + 1..Len(d.part[v.file]) : d.part[v.file][i]
  BY <1>7, <1>8, <1>9
<1>13. \A i \in 1..Len(dir.part[v.file]) :
         ~dir.part[v.file][i] /\ i <= Len(inst[p].found) =>
           i \in 1..Len(d.part[v.file]) /\ ~d.part[v.file][i] /\ i <= Len(v.found)
  BY <1>7, <1>8, <1>9 DEF part, found
<1> QED BY <1>1, <1>4, <1>6, <1>8, <1>9, <1>10, <1>11, <1>12, <1>13, PartKeeps

LEMMA AcceptKeeps ==
  ASSUME InstallInv, NEW p \in Installers, Accept(p) PROVE InstallInv'
<1> DEFINE f == inst[p].file
<1>1. /\ inst[p].pc = "transfer" /\ Len(dir.part[f]) = Chunks /\ PinGoes(p, "verify")
      /\ kind' = kind /\ lock' = lock /\ faults' = faults /\ crashes' = crashes /\ dir' = dir
  BY DEF Accept, PinAt
<1>2. /\ inst[p] \in Launches /\ OverFiles(inst[p]) /\ lock = {p} /\ f \in Files
      /\ inst[p].outcome = "none" /\ inst \in [Installers -> Launches] /\ f \notin DOMAIN dir.final
      /\ faults \in 0..MaxFaults
  BY <1>1, AtHandIs
<1>3. kind # "k3" /\ f \in DOMAIN dir.part /\ Len(dir.part[f]) <= Chunks
  BY <1>1, TransferIs
<1>4. PICK v \in Launches :
             /\ inst' = [inst EXCEPT ![p] = v] /\ v.pc = "verify" /\ v.file = inst[p].file
             /\ v.outcome = inst[p].outcome
  BY <1>1, <1>2, GoesIs, PhasesAre
<1>5. OnlyPart(dir, f)
  BY <1>3, SamePart
<1>6. inst[p].pc # "idle" /\ faults' \in 0..MaxFaults
  BY <1>1, <1>2
<1> QED BY <1>1, <1>2, <1>3, <1>4, <1>5, <1>6, PartKeeps

LEMMA RejectKeeps ==
  ASSUME InstallInv, NEW p \in Installers, Reject(p) PROVE InstallInv'
<1> DEFINE f == inst[p].file
           part == dir.part[f]
           found == inst[p].found
           s == Rollback(part, Len(found))
           d == [dir EXCEPT !.part[f] = s]
           v == AtRest("failed", FALSE)
<1>1. /\ inst[p].pc = "transfer" /\ dir' = d /\ inst' = [inst EXCEPT ![p] = v]
      /\ lock' = lock \ {p} /\ kind' = kind /\ crashes' = crashes
      /\ BadResponse \/ faults' = faults
  BY DEF Reject, Ends, PinAt
<1>2. /\ lock = {p} /\ faults \in 0..MaxFaults /\ crashes \in 0..MaxCrashes
      /\ Knows(dir, inst[p]) /\ f \notin DOMAIN dir.final
      /\ crashes = 0 => Residue(dir, inst[p])
  BY <1>1, AtHandIs
<1>3. /\ kind # "k3" /\ f \in DOMAIN dir.part
      /\ part \in Seq(BOOLEAN) /\ Len(part) \in Nat /\ Len(part) <= Chunks
      /\ found \in Seq(BOOLEAN) /\ Len(found) \in Nat
      /\ Len(found) <= Len(part)
  BY <1>1, TransferIs
<1>4. /\ s \in Seq(BOOLEAN) /\ Len(s) = Len(found)
      /\ \A i \in 1..Len(found) : s[i] = part[i]
  <2>1. Len(found) \in 0..Len(part)
    BY <1>3
  <2> HIDE DEF part, found
  <2> QED BY <1>3, <2>1, PrefixOf DEF Rollback
<1> HIDE DEF s
<1>5. OnlyPart(d, f) /\ d.part[f] = s
  BY <1>3, <1>4, PartReplaced
<1>6. v \in Launches /\ v.pc = "idle" /\ v.outcome = "failed" /\ ~v.clean
  BY AtRestIs
<1> HIDE DEF d, v
<1>7. d \in Directories /\ Sound(d) /\ faults' \in 0..MaxFaults
  <2>1. Sound(dir) /\ Len(s) <= Chunks
    BY <1>3, <1>4, LaunchIs, InstallAssumption
  <2> QED BY <1>1, <1>2, <1>3, <1>5, <2>1, FaultsCounted DEF Sound, OnlyPart
<1>8. crashes' = 0 => Residue(d, v)
  <2>1. ASSUME crashes = 0 PROVE Residue(d, v)
    BY <1>1, <1>2, <1>3, <1>5, <2>1 DEF Residue, OnlyPart
  <2> QED BY <1>1, <2>1
<1>9. Tainted(dir, inst[p]) => Tainted(d, v)
  <2>1. ASSUME NEW g \in DOMAIN dir.part, NEW i \in 1..Len(dir.part[g]), ~dir.part[g][i],
               inst[p].file = g => i <= Len(inst[p].found)
        PROVE  Tainted(d, v)
    <3>1. g \in DOMAIN d.part
      BY <1>5 DEF OnlyPart
    <3>2. CASE g = f
      <4>1. i \in 1..Len(found) /\ d.part[g] = s /\ ~part[i]
        BY <1>5, <2>1, <3>2
      <4>2. i \in 1..Len(d.part[g]) /\ ~d.part[g][i]
        BY <1>4, <4>1
      <4> QED BY <1>6, <3>1, <4>2 DEF Tainted
    <3>3. CASE g # f
      <4>1. d.part[g] = dir.part[g]
        BY <1>5, <3>3 DEF OnlyPart
      <4> QED BY <1>6, <2>1, <3>1, <4>1 DEF Tainted
    <3> QED BY <3>2, <3>3
  <2> QED BY <1>1, <2>1 DEF Tainted
<1>10. ~Faultless(v)
  BY <1>6 DEF Faultless
<1>11. dir.at # "published" /\ d.foreign = dir.foreign
  BY <1>1, <1>2, <1>5 DEF Knows, OverFiles, OnlyPart
<1> QED BY <1>1, <1>2, <1>6, <1>7, <1>8, <1>9, <1>10, <1>11, InstallerStep

LEMMA LinkKeeps == ASSUME InstallInv, NEW p \in Installers, Link(p) PROVE InstallInv'
<1> DEFINE f == inst[p].file
           part == dir.part[f]
<1>1. /\ inst[p].pc = "verify"
      /\ kind' = kind /\ faults' = faults /\ crashes' = crashes
      /\ IF MayPublish(part)
           THEN /\ dir' = [dir EXCEPT !.final = Holding(dir.final, f, part)]
                /\ PinGoes(p, "unlink")
                /\ lock' = lock
           ELSE Fails(p) /\ dir' = dir
  BY DEF Link, PinAt
<1>2. /\ inst[p] \in Launches /\ lock = {p} /\ f \in Files
      /\ inst[p].outcome = "none" /\ inst \in [Installers -> Launches] /\ f \notin DOMAIN dir.final
      /\ faults \in 0..MaxFaults /\ crashes \in 0..MaxCrashes /\ Knows(dir, inst[p])
      /\ crashes = 0 => Residue(dir, inst[p])
  BY <1>1, AtHandIs
<1>3. /\ f \in DOMAIN dir.part /\ Len(part) = Chunks /\ (kind = "k3" => part = Genuine)
      /\ part \in Seq(BOOLEAN)
  BY <1>1, <1>2, PartIs DEF Knows
<1>4. CASE MayPublish(part)
  <2> DEFINE c == Holding(dir.final, f, part)
             d == [dir EXCEPT !.final = c]
  <2>1. part = Genuine
    BY <1>4 DEF MayPublish, Verifies
  <2>2. dir \in Directories /\ dir.final \in Contents /\ Sound(dir)
    BY LaunchIs, FinalIs
  <2>3. /\ c \in Contents /\ DOMAIN c = DOMAIN dir.final \cup {f} /\ c[f] = part
        /\ \A g \in DOMAIN dir.final : g # f => c[g] = dir.final[g]
    <3>1. c = Holding(dir.final, f, part)
      OBVIOUS
    <3>2. f \in Files /\ part \in Seq(BOOLEAN) /\ dir.final \in Contents
      BY <1>2, <1>3, <2>2
    <3> HIDE DEF c, f, part
    <3>3. LET e == Holding(dir.final, f, part) IN
          /\ e \in Contents /\ DOMAIN e = DOMAIN dir.final \cup {f} /\ e[f] = part
          /\ \A g \in DOMAIN dir.final : g # f => e[g] = dir.final[g]
      BY <3>2, FileAdded
    <3> QED BY <3>1, <3>3
  <2> HIDE DEF c
  <2>4. /\ d \in Directories /\ d.final = c /\ d.part = dir.part /\ d.at = dir.at
        /\ d.manifest = dir.manifest /\ d.mpart = dir.mpart /\ d.marker = dir.marker
        /\ d.foreign = dir.foreign
    BY <2>2, <2>3 DEF Directories
  <2>5. dir' = d /\ lock' = lock /\ PinGoes(p, "unlink")
    BY <1>1, <1>4 DEF c
  <2>6. PICK v \in Launches :
             /\ inst' = [inst EXCEPT ![p] = v] /\ v.pc = "unlink" /\ v.file = inst[p].file
             /\ v.outcome = inst[p].outcome
    BY <1>2, <2>5, GoesIs, PhasesAre
  <2> HIDE DEF d
  <2>7. Sound(d)
    <3>1. \A g \in DOMAIN d.final : d.final[g] = Genuine
      BY <2>1, <2>2, <2>3, <2>4 DEF Sound
    <3>2. d.at # "published"
      BY <1>1, <1>2, <2>4 DEF Knows, OverFiles
    <3> QED BY <2>2, <2>4, <3>1, <3>2 DEF Sound
  <2>8. Knows(d, v)
    BY <1>1, <1>2, <1>3, <2>1, <2>3, <2>4, <2>6 DEF Knows, OverFiles
  <2>9. crashes' = 0 => Residue(d, v)
    <3>1. ASSUME crashes = 0 PROVE Residue(d, v)
      BY <1>1, <1>2, <2>3, <2>4, <2>6, <3>1 DEF Residue
    <3> QED BY <1>1, <3>1
  <2>10. Tainted(dir, inst[p]) => Tainted(d, v)
    BY <2>4, <2>6 DEF Tainted
  <2>11. ~Faultless(v) /\ v.outcome # "ok" /\ v.pc # "idle" /\ dir.at # "published"
    BY <1>1, <1>2, <2>6 DEF Faultless, Knows, OverFiles
  <2> QED BY <1>1, <1>2, <2>4, <2>5, <2>6, <2>7, <2>8, <2>9, <2>10, <2>11, InstallerStep
<1>5. CASE ~MayPublish(part)
  <2>1. kind # "k3" /\ part # Genuine
    BY <1>3, <1>5 DEF MayPublish, Verifies
  <2>2. Tainted(dir, AtRest("failed", inst[p].clean))
    <3>1. PICK i \in 1..Len(part) : ~part[i]
      BY <1>3, <2>1, GenuineIs
    <3>2. AtRest("failed", inst[p].clean).pc = "idle"
      BY DEF AtRest
    <3> QED BY <1>3, <3>1, <3>2 DEF Tainted
  <2>3. crashes' = 0 => Residue(dir, AtRest("failed", inst[p].clean))
    <3>1. ASSUME crashes = 0 PROVE Residue(dir, AtRest("failed", inst[p].clean))
      BY <1>1, <1>2, <2>1, <3>1 DEF Residue
    <3> QED BY <1>1, <3>1
  <2>4. /\ inst' = [inst EXCEPT ![p] = AtRest("failed", inst[p].clean)] /\ lock' = lock \ {p}
        /\ dir' = dir
    BY <1>1, <1>5 DEF Ends, Fails
  <2>5. inst[p].clean \in BOOLEAN /\ faults' \in 0..MaxFaults /\ crashes' \in 0..MaxCrashes
        /\ lock \subseteq {p} /\ crashes' = crashes /\ kind' = kind
    BY <1>1, <1>2 DEF Launches
  <2> QED BY <2>2, <2>3, <2>4, <2>5, LaunchEnds
<1> QED BY <1>4, <1>5

-----------------------------------------------------------------------------
(* The manifest, the publication and the end.                                *)

\* Where a launch with every file stands.
LEMMA AllThere ==
  ASSUME InstallInv, NEW p \in Installers,
         inst[p].pc \in {"manifest", "rename", "publish", "audit"}
  PROVE  /\ inst[p] \in Launches /\ lock = {p} /\ inst[p].outcome = "none"
         /\ inst[p].clean \in BOOLEAN /\ dir \in Directories /\ Sound(dir)
         /\ faults \in 0..MaxFaults /\ crashes \in 0..MaxCrashes /\ Knows(dir, inst[p])
         /\ inst \in [Installers -> Launches] /\ kind \in {"k3", "dspark", "qwen"}
         /\ DOMAIN dir.final = Files /\ dir.marker /\ ~dir.foreign
         /\ crashes = 0 => Residue(dir, inst[p])
         /\ crashes = 0 /\ inst[p].pc # "rename" => AllVerify(dir) /\ NoPartials(dir)
         /\ AllVerify(dir)
<1>1. /\ inst[p] \in Launches /\ lock = {p} /\ Knows(dir, inst[p]) /\ dir \in Directories
      /\ faults \in 0..MaxFaults /\ crashes \in 0..MaxCrashes /\ Sound(dir)
      /\ inst \in [Installers -> Launches]
      /\ crashes = 0 => Residue(dir, inst[p])
  BY LaunchIs
<1>2. DOMAIN dir.final = Files /\ dir.marker /\ ~dir.foreign /\ inst[p].outcome = "none"
  BY <1>1 DEF Knows, OverFiles
<1>3. crashes = 0 /\ inst[p].pc # "rename" => AllVerify(dir) /\ NoPartials(dir)
  BY <1>1, <1>2, WholeAudits
<1>4. AllVerify(dir)
  BY <1>1, <1>2 DEF AllVerify, Sound, Verifies
<1>5. inst[p].clean \in BOOLEAN /\ kind \in {"k3", "dspark", "qwen"}
  BY <1>1 DEF Launches, InstallInv, InstallTyped
<1> QED BY <1>1, <1>2, <1>3, <1>4, <1>5

\* A launch with every file that gives up blames a crash or a response.
LEMMA GivesUp ==
  ASSUME InstallInv, NEW p \in Installers,
         inst[p].pc \in {"manifest", "publish", "audit"},
         NEW o \in {"ok", "failed"}, NEW c \in BOOLEAN, Ends(p, o, c),
         kind' = kind, dir' = dir, crashes' = crashes, BadResponse \/ faults' = faults,
         o = "ok" => dir.at = "published" /\ dir.manifest,
         o = "failed" /\ c => crashes > 0
  PROVE  InstallInv'
<1>1. /\ lock = {p} /\ faults \in 0..MaxFaults /\ crashes \in 0..MaxCrashes
      /\ crashes = 0 => Residue(dir, inst[p])
  BY AllThere
<1>2. crashes' = 0 => Residue(dir, AtRest(o, c))
  <2>1. ASSUME crashes = 0 PROVE Residue(dir, AtRest(o, c))
    BY <1>1, <2>1 DEF Residue
  <2> QED BY <2>1
<1>3. faults' \in 0..MaxFaults
  BY <1>1, FaultsCounted
<1> QED BY <1>1, <1>2, <1>3, LaunchEnds DEF Ends

\* A launch with every file goes on, and no file changes.
LEMMA GoesOnWhole ==
  ASSUME InstallInv, NEW p \in Installers,
         inst[p].pc \in {"manifest", "rename", "publish"},
         NEW pc \in {"rename", "publish", "audit"}, PinGoes(p, pc),
         NEW d \in Directories, dir' = d, d.final = dir.final, d.part = dir.part,
         d.marker = dir.marker, d.foreign = dir.foreign,
         d.at \in {dir.at, "published"}, d.manifest \in {dir.manifest, TRUE},
         d.at = "published" /\ kind # "qwen" => d.manifest,
         pc = "rename" /\ d.at = "published" => kind = "qwen" /\ ~d.manifest,
         pc = "publish" => d.at = "staging" /\ d.manifest,
         pc = "audit" => d.at = "published" /\ d.manifest,
         crashes = 0 /\ d.mpart => pc = "rename",
         kind' = kind, lock' = lock, faults' = faults, crashes' = crashes
  PROVE  InstallInv'
<1>1. /\ lock = {p} /\ inst[p].outcome = "none" /\ Sound(dir)
      /\ faults \in 0..MaxFaults /\ crashes \in 0..MaxCrashes /\ Knows(dir, inst[p])
      /\ inst \in [Installers -> Launches]
      /\ DOMAIN dir.final = Files /\ dir.marker /\ ~dir.foreign
      /\ crashes = 0 => Residue(dir, inst[p])
  BY AllThere
<1>2. PICK v \in Launches :
             /\ inst' = [inst EXCEPT ![p] = v] /\ v.pc = pc /\ v.file = inst[p].file
             /\ v.outcome = inst[p].outcome
  <2>1. pc \in InstallPhases
    BY PhasesAre
  <2> QED BY <1>1, <2>1, GoesIs
<1>3. Sound(d)
  BY <1>1 DEF Sound
<1>4. Knows(d, v)
  BY <1>1, <1>2 DEF Knows, OverFiles
<1>5. crashes' = 0 => Residue(d, v)
  <2>1. ASSUME crashes = 0 PROVE Residue(d, v)
    BY <1>1, <1>2, <2>1 DEF Residue
  <2> QED BY <2>1
<1>6. Tainted(dir, inst[p]) => Tainted(d, v)
  BY <1>2 DEF Tainted
<1>7. ~Faultless(v) /\ v.outcome # "ok" /\ v.pc # "idle"
  BY <1>1, <1>2 DEF Faultless
<1>8. dir.at = "published" /\ dir.manifest => d.at = "published" /\ d.manifest
  OBVIOUS
<1> QED BY <1>1, <1>2, <1>3, <1>4, <1>5, <1>6, <1>7, <1>8, InstallerStep

LEMMA Made ==
  ASSUME dir \in Directories
  PROVE  /\ Created \in Directories /\ Created.mpart /\ Created.at = dir.at
         /\ Created.final = dir.final /\ Created.part = dir.part
         /\ Created.manifest = dir.manifest /\ Created.marker = dir.marker
         /\ Created.foreign = dir.foreign
BY DEF Created, Directories

\* The manifest's partial file is made, where there is no manifest.
LEMMA ManifestBegins ==
  ASSUME InstallInv, NEW p \in Installers, inst[p].pc = "manifest", ~dir.manifest,
         dir' = Created, PinGoes(p, "rename"),
         kind' = kind, lock' = lock, faults' = faults, crashes' = crashes
  PROVE  InstallInv'
<1>1. dir \in Directories /\ Knows(dir, inst[p]) /\ Sound(dir)
  BY AllThere
<1>2. /\ Created \in Directories /\ Created.mpart /\ Created.at = dir.at
      /\ Created.final = dir.final /\ Created.part = dir.part
      /\ Created.manifest = dir.manifest /\ Created.marker = dir.marker
      /\ Created.foreign = dir.foreign
  BY <1>1, Made
<1>3. dir.at = "published" => kind = "qwen"
  BY <1>1 DEF Knows
<1> QED BY <1>2, <1>3, GoesOnWhole

\* A manifest that is there is accepted before the publication.
LEMMA ManifestStays ==
  ASSUME InstallInv, NEW p \in Installers, inst[p].pc = "manifest", dir.manifest,
         dir' = dir, PinGoes(p, "publish"),
         kind' = kind, lock' = lock, faults' = faults, crashes' = crashes
  PROVE  InstallInv'
<1>1. /\ dir \in Directories /\ Knows(dir, inst[p]) /\ Sound(dir)
      /\ crashes = 0 => Residue(dir, inst[p])
  BY AllThere
<1>2. dir.at = "staging"
  BY <1>1 DEF Knows, Directories
<1>3. crashes = 0 => ~dir.mpart
  BY <1>1 DEF Residue
<1> QED BY <1>1, <1>2, <1>3, GoesOnWhole

LEMMA InventoryKeeps ==
  ASSUME InstallInv, NEW p \in Installers, BuildInventory(p) PROVE InstallInv'
<1>1. inst[p].pc = "manifest" /\ kind' = kind /\ crashes' = crashes
  BY DEF BuildInventory, PinAt
<1>2. /\ inst[p].clean \in BOOLEAN /\ crashes \in 0..MaxCrashes
      /\ crashes = 0 => NoPartials(dir)
  BY <1>1, AllThere
<1>3. CASE dir.manifest /\ PinGoes(p, "publish") /\ dir' = dir /\ lock' = lock /\ faults' = faults
  BY <1>1, <1>3, ManifestStays
<1>4. CASE ~dir.manifest /\ ~dir.mpart /\ dir' = Created /\ PinGoes(p, "rename") /\ lock' = lock
           /\ faults' = faults
  BY <1>1, <1>4, ManifestBegins
<1>5. CASE dir.mpart /\ Fails(p) /\ dir' = dir /\ faults' = faults
  <2>1. crashes > 0
    BY <1>2, <1>5 DEF NoPartials
  <2>2. Ends(p, "failed", inst[p].clean)
    BY <1>5 DEF Fails
  <2> QED BY <1>1, <1>2, <1>5, <2>1, <2>2, GivesUp
<1>6. CASE BadResponse /\ Ends(p, "failed", FALSE) /\ dir' = dir
  BY <1>1, <1>6, GivesUp
<1>7. <1>3!1 \/ <1>4!1 \/ <1>5!1 \/ <1>6!1
  BY DEF BuildInventory, CreateNew
<1> QED BY <1>3, <1>4, <1>5, <1>6, <1>7

LEMMA WriteManifestKeeps ==
  ASSUME InstallInv, NEW p \in Installers, WriteManifest(p) PROVE InstallInv'
<1>1. /\ inst[p].pc = "manifest" /\ kind = "dspark" /\ kind' = kind /\ crashes' = crashes
      /\ faults' = faults
  BY DEF WriteManifest, PinAt
<1>2. /\ inst[p].clean \in BOOLEAN /\ crashes \in 0..MaxCrashes /\ ~dir.foreign
      /\ crashes = 0 => NoPartials(dir)
      /\ AllVerify(dir)
  BY <1>1, AllThere
<1>3. CASE ~DSparkAuditLocal(dir, dir.manifest) /\ Fails(p) /\ dir' = dir
  <2>1. crashes > 0
    BY <1>2, <1>3 DEF DSparkAuditLocal, ValidateDirectoryNames
  <2>2. Ends(p, "failed", inst[p].clean)
    BY <1>3 DEF Fails
  <2> QED BY <1>1, <1>2, <1>3, <2>1, <2>2, GivesUp
<1>4. CASE dir.manifest /\ PinGoes(p, "publish") /\ dir' = dir /\ lock' = lock
  BY <1>1, <1>4, ManifestStays
<1>5. CASE ~dir.manifest /\ dir' = Created /\ PinGoes(p, "rename") /\ lock' = lock
  BY <1>1, <1>5, ManifestBegins
<1>6. <1>3!1 \/ <1>4!1 \/ <1>5!1
  BY DEF WriteManifest, CreateNew
<1> QED BY <1>3, <1>4, <1>5, <1>6

LEMMA WriteOrValidateKeeps ==
  ASSUME InstallInv, NEW p \in Installers, WriteOrValidateManifest(p) PROVE InstallInv'
<1>1. /\ inst[p].pc = "manifest" /\ kind = "qwen" /\ kind' = kind /\ crashes' = crashes
      /\ faults' = faults
  BY DEF WriteOrValidateManifest, PinAt
<1>2. /\ inst[p].clean \in BOOLEAN /\ crashes \in 0..MaxCrashes
      /\ crashes = 0 => NoPartials(dir)
      /\ AllVerify(dir)
  BY <1>1, AllThere
<1>3. CASE dir.mpart /\ Fails(p) /\ dir' = dir
  <2>1. crashes > 0
    BY <1>2, <1>3 DEF NoPartials
  <2>2. Ends(p, "failed", inst[p].clean)
    BY <1>3 DEF Fails
  <2> QED BY <1>1, <1>2, <1>3, <2>1, <2>2, GivesUp
<1>4. CASE dir.manifest /\ PinGoes(p, "publish") /\ dir' = dir /\ lock' = lock
  BY <1>1, <1>4, ManifestStays
<1>5. CASE ~dir.manifest /\ dir' = Created /\ PinGoes(p, "rename") /\ lock' = lock
  BY <1>1, <1>5, ManifestBegins
<1>6. <1>3!1 \/ <1>4!1 \/ <1>5!1
  BY <1>2 DEF WriteOrValidateManifest, CreateNew
<1> QED BY <1>3, <1>4, <1>5, <1>6

LEMMA RenameManifestKeeps ==
  ASSUME InstallInv, NEW p \in Installers, RenameManifest(p) PROVE InstallInv'
<1> DEFINE d == [dir EXCEPT !.manifest = TRUE, !.mpart = FALSE]
           pc == IF dir.at = "published" THEN "audit" ELSE "publish"
<1>1. /\ inst[p].pc = "rename" /\ kind' = kind /\ crashes' = crashes
      /\ faults' = faults /\ lock' = lock /\ dir' = d /\ PinGoes(p, pc)
  BY DEF RenameManifest, PinAt
<1>2. dir \in Directories /\ Knows(dir, inst[p]) /\ Sound(dir)
  BY <1>1, AllThere
<1>3. /\ d \in Directories /\ d.manifest /\ ~d.mpart /\ d.at = dir.at
      /\ d.final = dir.final /\ d.part = dir.part /\ d.marker = dir.marker
      /\ d.foreign = dir.foreign
  BY <1>2 DEF Directories
<1>4. dir.at \in {"staging", "published"}
  BY <1>2 DEF Knows, Directories
<1> HIDE DEF d
<1>5. CASE dir.at = "published"
  <2>1. PinGoes(p, "audit")
    BY <1>1, <1>5
  <2> QED BY <1>1, <1>3, <1>5, <2>1, GoesOnWhole
<1>6. CASE dir.at = "staging"
  <2>1. PinGoes(p, "publish")
    BY <1>1, <1>6
  <2> QED BY <1>1, <1>3, <1>6, <2>1, GoesOnWhole
<1> QED BY <1>4, <1>5, <1>6

LEMMA PublishKeeps == ASSUME InstallInv, NEW p \in Installers, Publish(p) PROVE InstallInv'
<1> DEFINE d == [dir EXCEPT !.at = "published"]
<1>1. /\ inst[p].pc = "publish" /\ kind' = kind /\ crashes' = crashes /\ faults' = faults
  BY DEF Publish, PinAt
<1>2. /\ dir \in Directories /\ Knows(dir, inst[p]) /\ Sound(dir) /\ inst[p].clean \in BOOLEAN
      /\ crashes \in 0..MaxCrashes /\ kind \in {"k3", "dspark", "qwen"}
      /\ DOMAIN dir.final = Files /\ dir.marker /\ ~dir.foreign
      /\ crashes = 0 => Residue(dir, inst[p])
      /\ AllVerify(dir)
  BY <1>1, AllThere
<1>3. dir.at = "staging" /\ dir.manifest
  BY <1>1, <1>2 DEF Knows
<1>4. CASE Complete(dir) /\ dir' = d /\ PinGoes(p, "audit") /\ lock' = lock
  <2>1. /\ d \in Directories /\ d.at = "published" /\ d.manifest /\ d.mpart = dir.mpart
        /\ d.final = dir.final /\ d.part = dir.part /\ d.marker = dir.marker
        /\ d.foreign = dir.foreign
    BY <1>2, <1>3 DEF Directories
  <2>2. crashes = 0 => ~d.mpart
    BY <1>1, <1>2, <2>1 DEF Residue
  <2> HIDE DEF d
  <2> QED BY <1>1, <1>4, <2>1, <2>2, GoesOnWhole
<1>5. CASE ~Complete(dir) /\ Fails(p) /\ dir' = dir
  <2>1. crashes > 0
    <3>1. crashes = 0 => Audit(dir)
      BY <1>1, <1>2, <1>3, WholeAudits
    <3> QED BY <1>2, <1>5, <3>1 DEF Complete
  <2>2. Ends(p, "failed", inst[p].clean)
    BY <1>5 DEF Fails
  <2> QED BY <1>1, <1>2, <1>5, <2>1, <2>2, GivesUp
<1>6. <1>4!1 \/ <1>5!1
  BY <1>3 DEF Publish
<1> QED BY <1>4, <1>5, <1>6

LEMMA AuditKeeps ==
  ASSUME InstallInv, NEW p \in Installers, AuditPublished(p) PROVE InstallInv'
<1>1. /\ inst[p].pc = "audit" /\ kind' = kind /\ crashes' = crashes /\ faults' = faults
      /\ dir' = dir
  BY DEF AuditPublished, PinAt
<1>2. /\ dir \in Directories /\ Knows(dir, inst[p]) /\ Sound(dir) /\ inst[p].clean \in BOOLEAN
      /\ crashes \in 0..MaxCrashes /\ kind \in {"k3", "dspark", "qwen"}
      /\ DOMAIN dir.final = Files /\ dir.marker /\ ~dir.foreign
      /\ crashes = 0 => Residue(dir, inst[p])
  BY <1>1, AllThere
<1>3. dir.at = "published" /\ dir.manifest
  BY <1>1, <1>2 DEF Knows
<1>4. CASE Audit(dir) /\ Succeeds(p)
  <2>1. Ends(p, "ok", inst[p].clean)
    BY <1>4 DEF Succeeds
  <2> QED BY <1>1, <1>2, <1>3, <2>1, GivesUp
<1>5. CASE ~Audit(dir) /\ Fails(p)
  <2>1. crashes > 0
    <3>1. crashes = 0 => Audit(dir)
      BY <1>1, <1>2, <1>3, WholeAudits
    <3> QED BY <1>2, <1>5, <3>1
  <2>2. Ends(p, "failed", inst[p].clean)
    BY <1>5 DEF Fails
  <2> QED BY <1>1, <1>2, <2>1, <2>2, GivesUp
<1> QED BY <1>4, <1>5 DEF AuditPublished

LEMMA KillLaunchKeeps == ASSUME InstallInv, NEW p \in Installers, Crash(p) PROVE InstallInv'
<1>1. /\ inst[p].pc # "idle" /\ crashes < MaxCrashes /\ crashes' = crashes + 1
      /\ inst' = [inst EXCEPT ![p] = AtRest("killed", FALSE)] /\ lock' = lock \ {p}
      /\ kind' = kind /\ dir' = dir /\ faults' = faults
  BY DEF Crash, PinAt, Ends
<1>2. lock = {p} /\ crashes \in 0..MaxCrashes /\ faults \in 0..MaxFaults
  BY <1>1, LaunchIs
<1>3. crashes' \in 0..MaxCrashes /\ crashes' # 0 /\ faults' \in 0..MaxFaults
  BY <1>1, <1>2, InstallAssumption
<1> QED BY <1>1, <1>2, <1>3, LaunchEnds

LEMMA InstallStutters == ASSUME InstallInv, UNCHANGED pvars PROVE InstallInv'
<1>1. /\ kind' = kind /\ dir' = dir /\ lock' = lock /\ inst' = inst /\ faults' = faults
      /\ crashes' = crashes
  BY DEF pvars
<1>2. (InstallTyped /\ Sound(dir) /\ \A x, y \in lock : x = y)'
  BY <1>1 DEF InstallInv, InstallTyped, Sound, Genuine, Files
<1>3. ASSUME NEW p \in Installers
      PROVE  /\ Knows(dir, inst[p]) => Knows(dir, inst[p])'
             /\ Residue(dir, inst[p]) => Residue(dir, inst[p])'
             /\ Tainted(dir, inst[p]) => Tainted(dir, inst[p])'
  BY <1>1 DEF Knows, OverFiles, Genuine, Files, Residue, Tainted
<1> QED BY <1>1, <1>2, <1>3 DEF InstallInv

LEMMA InstallStarts == PInit => InstallInv
<1> SUFFICES ASSUME PInit PROVE InstallInv
  OBVIOUS
<1>1. /\ kind \in {"k3", "dspark", "qwen"} /\ lock = {} /\ faults = 0 /\ crashes = 0
      /\ inst = [p \in Installers |-> AtRest("none", TRUE)]
      /\ dir \in {Empty, Tampered} \cup (IF kind = "qwen" THEN {Legacy(b) : b \in BOOLEAN} ELSE {})
  BY DEF PInit
<1>2. /\ AtRest("none", TRUE) \in Launches /\ AtRest("none", TRUE).pc = "idle"
      /\ AtRest("none", TRUE).outcome = "none"
  BY AtRestIs
<1>3. <<>> \in Contents /\ DOMAIN <<>> = {}
  <2>1. <<>> \in [{} -> Seq(BOOLEAN)]
    OBVIOUS
  <2> QED BY <2>1, ContentsAre
<1>4. [f \in Files |-> Genuine] \in Contents
  <2>1. [f \in Files |-> Genuine] \in [Files -> Seq(BOOLEAN)]
    BY GenuineIs
  <2> QED BY <2>1, ContentsAre
<1>5. /\ dir \in Directories /\ ~dir.mpart /\ dir.part = <<>> /\ ~dir.manifest
      /\ dir.final = <<>> \/ dir.final = [f \in Files |-> Genuine]
      /\ dir.at = "published" => kind = "qwen" /\ dir.final = [f \in Files |-> Genuine]
  <2>1. CASE dir = Empty
    BY <1>3, <2>1 DEF Empty, Directories
  <2>2. CASE dir = Tampered
    BY <1>3, <2>2 DEF Empty, Tampered, Directories
  <2>3. CASE kind = "qwen" /\ \E b \in BOOLEAN : dir = Legacy(b)
    BY <1>3, <1>4, <2>3 DEF Empty, Legacy, Directories
  <2> QED BY <1>1, <2>1, <2>2, <2>3
<1>6. Sound(dir)
  BY <1>3, <1>5 DEF Sound
<1>7. \A p \in Installers : Residue(dir, inst[p]) /\ ~Faultless(inst[p])
  BY <1>1, <1>2, <1>3, <1>5 DEF Residue, Faultless
<1>8. InstallTyped
  <2>1. inst \in [Installers -> Launches]
    BY <1>1, <1>2
  <2>2. 0 \in 0..MaxFaults /\ 0 \in 0..MaxCrashes
    BY InstallAssumption
  <2> QED BY <1>1, <1>5, <2>1, <2>2 DEF InstallTyped
<1> QED BY <1>1, <1>2, <1>6, <1>7, <1>8 DEF InstallInv

LEMMA LaunchKeeps == ASSUME InstallInv, NEW p \in Installers, Install(p) PROVE InstallInv'
BY StartKeeps, AuditRemoteKeeps, PublishedKeeps, RefusedKeeps, SkipKeeps, FetchMetadataKeeps,
   WriteMetadataKeeps, OpenPartKeeps, ReceiveKeeps, AcceptKeeps, RejectKeeps, LinkKeeps,
   UnlinkPartKeeps, InventoryKeeps, WriteManifestKeeps, WriteOrValidateKeeps, RenameManifestKeeps,
   PublishKeeps, AuditKeeps, KillLaunchKeeps DEF Install

LEMMA InstallStep == ASSUME InstallInv, [PNext]_pvars PROVE InstallInv'
BY LaunchKeeps, InstallStutters DEF PNext

\* The inductive invariant of the installers.
THEOREM InstallInvariance == PSpec => []InstallInv
<1>1. InstallInv /\ [PNext]_pvars => InstallInv'
  BY InstallStep
<1> QED BY <1>1, InstallStarts, PTL DEF PSpec

LEMMA WholeIsIntact ==
  ASSUME InstallInv, dir.at = "published" PROVE Intact /\ (kind # "qwen" => dir.manifest)
<1>1. dir \in Directories /\ Sound(dir)
  BY DEF InstallInv, InstallTyped
<1>2. DOMAIN dir.final = Files /\ \A f \in Files : dir.final[f] = Genuine
  BY <1>1 DEF Sound
<1>3. dir.final = [f \in DOMAIN dir.final |-> dir.final[f]]
  <2>1. PICK D \in SUBSET Files : dir.final \in [D -> Seq(BOOLEAN)]
    BY <1>1, FinalIs DEF Contents
  <2> QED BY <2>1
<1> QED BY <1>1, <1>2, <1>3 DEF Intact, Sound

\* PublishedIsAuthentic, for any number of installers, files, chunks, bad
\* responses and kills.
THEOREM PublishedAuthentic == PSpec => []PublishedIsAuthentic
<1>1. InstallInv => PublishedIsAuthentic
  BY WholeIsIntact DEF PublishedIsAuthentic, InstallInv, Sound
<1> QED BY <1>1, InstallInvariance, PTL

-----------------------------------------------------------------------------
(* Failed launches are repeatable.                                           *)

LEMMA DamageIs ==
  ASSUME InstallInv, NEW p \in Installers, inst[p].outcome = "failed", inst[p].clean
  PROVE  Damaged
<1>1. PICK q \in Installers : lock \subseteq {q}
  BY DEF InstallInv, InstallTyped
<1>2. crashes > 0 \/ dir.foreign \/ Tainted(dir, inst[q])
  BY <1>1 DEF InstallInv, Faultless
<1>3. ASSUME NEW f \in DOMAIN dir.part, NEW i \in 1..Len(dir.part[f]), ~dir.part[f][i]
      PROVE  FALSE \in Range(dir.part[f])
  <2>1. dir.part[f] \in Seq(BOOLEAN)
    BY PartIs
  <2>2. i \in DOMAIN dir.part[f] /\ dir.part[f][i] = FALSE
    BY <1>3, <2>1
  <2> QED BY <2>2 DEF Range
<1> QED BY <1>2, <1>3 DEF Tainted, Damaged

\* Only a link changes the final names, and it adds one.
LEMMA FinalStays ==
  ASSUME InstallInv, NEW p \in Installers, Install(p)
  PROVE  \A f \in DOMAIN dir.final : f \in DOMAIN dir'.final /\ dir'.final[f] = dir.final[f]
<1>1. dir \in Directories /\ dir.final \in Contents /\ Sound(dir)
  BY LaunchIs, FinalIs
<1>2. CASE Link(p)
  <2> DEFINE f == inst[p].file
             part == dir.part[f]
  <2>1. CASE MayPublish(part)
    <3>1. dir' = [dir EXCEPT !.final = Holding(dir.final, f, part)]
      BY <1>2, <2>1 DEF Link
    <3>2. dir'.final = Holding(dir.final, f, part)
      BY <1>1, <3>1 DEF Directories
    <3>3. part = Genuine
      BY <2>1 DEF MayPublish, Verifies
    <3> QED BY <1>1, <3>2, <3>3 DEF Holding, Sound
  <2>2. CASE ~MayPublish(part)
    BY <1>2, <2>2 DEF Link
  <2> QED BY <2>1, <2>2
<1>3. CASE ~Link(p)
  <2>1. dir'.final = dir.final
    <3>1. CASE Launch(p)
      BY <1>1, <3>1 DEF Launch, BeginStaging, Marked, Directories
    <3>2. CASE AuditRemoteFails(p) \/ LaunchRefused(p) \/ Skip(p) \/ Accept(p) \/ AuditPublished(p)
               \/ Crash(p)
      BY <3>2 DEF AuditRemoteFails, LaunchRefused, Skip, Accept, AuditPublished, Crash
    <3>3. CASE LaunchPublished(p)
      BY <1>1, <3>3 DEF LaunchPublished, Marked, Directories
    <3>4. CASE FetchMetadata(p)
      BY <1>1, <3>4 DEF FetchMetadata, CreateNew, Directories
    <3>5. CASE WriteMetadata(p)
      BY <1>1, <3>5 DEF WriteMetadata, Directories
    <3>6. CASE OpenPart(p)
      BY <1>1, <3>6 DEF OpenPart, Directories
    <3>7. CASE Receive(p)
      BY <1>1, <3>7 DEF Receive, Directories
    <3>8. CASE Reject(p)
      BY <1>1, <3>8 DEF Reject, Directories
    <3>9. CASE Unlink(p)
      BY <1>1, <3>9 DEF Unlink, Directories
    <3>10. CASE BuildInventory(p)
      BY <1>1, <3>10, Made DEF BuildInventory, CreateNew
    <3>11. CASE WriteManifest(p)
      BY <1>1, <3>11, Made DEF WriteManifest, CreateNew
    <3>12. CASE WriteOrValidateManifest(p)
      BY <1>1, <3>12, Made DEF WriteOrValidateManifest, CreateNew
    <3>13. CASE RenameManifest(p)
      BY <1>1, <3>13 DEF RenameManifest, Directories
    <3>14. CASE Publish(p)
      BY <1>1, <3>14 DEF Publish, Directories
    <3> QED BY <1>3, <3>1, <3>2, <3>3, <3>4, <3>5, <3>6, <3>7, <3>8, <3>9, <3>10, <3>11, <3>12,
               <3>13, <3>14 DEF Install
  <2> QED BY <2>1
<1> QED BY <1>2, <1>3

\* A launch never touches what another one is doing.
LEMMA OthersRest ==
  ASSUME InstallInv, NEW p \in Installers, Install(p), NEW q \in Installers, q # p
  PROVE  inst'[q] = inst[q]
<1>1. inst \in [Installers -> Launches]
  BY LaunchIs
<1>2. CASE Launch(p) \/ AuditRemoteFails(p) \/ LaunchPublished(p) \/ LaunchRefused(p)
  BY <1>1, <1>2
     DEF Launch, BeginStaging, AuditRemoteFails, LaunchPublished, LaunchRefused
<1>3. CASE Skip(p) \/ FetchMetadata(p) \/ WriteMetadata(p) \/ OpenPart(p) \/ Receive(p)
  BY <1>1, <1>3
     DEF Skip, FetchMetadata, WriteMetadata, OpenPart, Receive, CreateNew, PinGoes, Fails, Ends
<1>4. CASE Accept(p) \/ Reject(p) \/ Link(p) \/ Unlink(p) \/ Crash(p)
  BY <1>1, <1>4 DEF Accept, Reject, Link, Unlink, Crash, PinGoes, Fails, Ends
<1>5. CASE BuildInventory(p) \/ WriteManifest(p) \/ WriteOrValidateManifest(p)
  BY <1>1, <1>5
     DEF BuildInventory, WriteManifest, WriteOrValidateManifest, CreateNew, PinGoes, Fails, Ends
<1>6. CASE RenameManifest(p) \/ Publish(p) \/ AuditPublished(p)
  BY <1>1, <1>6 DEF RenameManifest, Publish, AuditPublished, PinGoes, Fails, Succeeds, Ends
<1> QED BY <1>2, <1>3, <1>4, <1>5, <1>6 DEF Install

\* A transfer that fails puts the partial back.
LEMMA RefusalRestores ==
  ASSUME InstallInv, NEW p \in Installers, Install(p), inst[p].pc = "transfer",
         inst'[p].outcome = "failed"
  PROVE  dir'.part[inst[p].file] = inst[p].found
<1> DEFINE f == inst[p].file
           part == dir.part[f]
           found == inst[p].found
           s == Rollback(part, Len(found))
<1>1. /\ inst \in [Installers -> Launches] /\ inst[p] \in Launches /\ inst[p].outcome = "none"
  BY AtHandIs
<1>2. /\ f \in DOMAIN dir.part
      /\ part \in Seq(BOOLEAN) /\ Len(part) \in Nat
      /\ found \in Seq(BOOLEAN) /\ Len(found) \in Nat
      /\ Len(found) <= Len(part)
      /\ \A i \in 1..Len(found) : part[i] = found[i]
  BY TransferIs
<1>3. Reject(p)
  <2>1. CASE Receive(p)
    <3>1. inst'[p].outcome = "none"
      BY <1>1, <2>1 DEF Receive, Launches
    <3> QED BY <3>1
  <2>2. CASE Accept(p)
    <3>1. inst'[p].outcome = "none"
      BY <1>1, <2>2 DEF Accept, PinGoes, Launches
    <3> QED BY <3>1
  <2>3. CASE Crash(p)
    <3>1. inst'[p].outcome = "killed"
      BY <1>1, <2>3 DEF Crash, Ends, AtRest
    <3> QED BY <3>1
  <2> QED BY <2>1, <2>2, <2>3
          DEF Install, Launch, AuditRemoteFails, LaunchPublished, LaunchRefused, Skip,
              FetchMetadata, Missing, WriteMetadata, OpenPart, Link, Unlink, BuildInventory,
              WriteManifest, WriteOrValidateManifest, RenameManifest, Publish, AuditPublished,
              PinAt
<1>4. s \in Seq(BOOLEAN) /\ Len(s) = Len(found) /\ \A i \in 1..Len(found) : s[i] = part[i]
  <2>1. Len(found) \in 0..Len(part)
    BY <1>2
  <2> HIDE DEF part, found
  <2> QED BY <1>2, <2>1, PrefixOf DEF Rollback
<1>5. dir' = [dir EXCEPT !.part[f] = s]
  BY <1>3 DEF Reject
<1> HIDE DEF s
<1>6. dir'.part[f] = s
  BY <1>2, <1>4, <1>5, PartReplaced
<1>7. s = found
  <2> HIDE DEF part, found
  <2>1. \A i \in 1..Len(found) : s[i] = found[i]
    BY <1>2, <1>4
  <2> QED BY <1>2, <1>4, <2>1
<1> QED BY <1>6, <1>7

\* FailedLaunchIsRepeatable, for any number of installers, files, chunks, bad
\* responses and kills.
THEOREM LaunchesRepeat == PSpec => FailedLaunchIsRepeatable
<1>1. InstallInv => \A p \in Installers : inst[p].outcome = "failed" /\ inst[p].clean => Damaged
  BY DamageIs
<1>2. ASSUME InstallInv, [PNext]_pvars PROVE [LeavesNoTrace]_pvars
  <2>1. ASSUME NEW q \in Installers, Install(q) PROVE LeavesNoTrace
    <3>1. ASSUME NEW p \in Installers, PinAt(p, "transfer"), inst'[p].outcome = "failed"
          PROVE  dir'.part[inst[p].file] = inst[p].found
      <4>1. inst[p].pc = "transfer"
        BY <3>1 DEF PinAt
      <4>2. inst[p].outcome = "none"
        BY <1>2, <4>1, AtHandIs
      <4>3. q = p
        BY <1>2, <2>1, <3>1, <4>2, OthersRest
      <4> QED BY <1>2, <2>1, <3>1, <4>1, <4>3, RefusalRestores
    <3> QED BY <1>2, <2>1, <3>1, FinalStays DEF LeavesNoTrace
  <2> QED BY <1>2, <2>1 DEF PNext
<1> QED BY <1>1, <1>2, InstallInvariance, PTL DEF FailedLaunchIsRepeatable, PSpec

=============================================================================
