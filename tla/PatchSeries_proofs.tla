------------------------- MODULE PatchSeries_proofs -------------------------
(***************************************************************************)
(* A run of apply.sh that succeeds leaves a tree that can be built, for any  *)
(* series of patches and any history of killed runs, resets and edits.       *)
(***************************************************************************)
EXTENDS PatchSeries, TLAPS

Patches == 1 .. Len(Series)

TypeInv ==
    /\ tree \in [Files -> Int]
    /\ version \in [Patches -> Nat \ {0}]
    /\ pc \in {"idle", "patch", "remove", "write"}
    /\ at \in 1 .. (Len(Series) + 1)
    /\ done \in Nat
    /\ pc \in {"remove", "write"} => at \in Patches /\ done <= Len(Series[at])

(* While git apply works on a patch, the files it has not written do not      *)
(* carry it.                                                                *)
HalfApplied ==
    pc \in {"remove", "write"} =>
        \A k \in 1 .. Len(Series[at]) :
            IF pc = "write" /\ k <= done THEN tree[Series[at][k]] = version[at]
            ELSE tree[Series[at][k]] <= Stock

(* The marker is written last, so it tells of all files of patch 0001.       *)
MarkerTells == tree[MarkerFile] > Stock => Patched(MarkedPatch)

(* What the loop has passed is patched, and a run has no exit code yet.      *)
LoopInv ==
    pc # "idle" => exit = "none" /\ \A i \in 1 .. (at - 1) : i \in Patches => Patched(i)

Inv == TypeInv /\ HalfApplied /\ MarkerTells /\ LoopInv /\ ExitZeroMeansPatched

-----------------------------------------------------------------------------
(* The files of a patch are files of the tree.                               *)
LEMMA PatchFiles ==
    /\ Len(Series) \in Nat
    /\ \A i \in Patches : Len(Series[i]) \in Nat
    /\ \A i \in Patches : FilesOf(i) \subseteq Files
    /\ \A i \in Patches : \A k \in 1 .. Len(Series[i]) : Series[i][k] \in FilesOf(i)
    /\ MarkedPatch \in Patches /\ MarkerFile \in FilesOf(MarkedPatch)
    /\ MarkerFile \in Files
<1>1. Len(Series) \in Nat /\ \A i \in Patches : Series[i] \in Seq(STRING)
  BY SeriesAssumption DEF SeriesAssumption, Patches
<1>2. \A i \in Patches : Len(Series[i]) \in Nat
  BY <1>1
<1>3. MarkedPatch \in Patches /\ MarkerFile \in FilesOf(MarkedPatch)
  BY <1>1, <1>2, MarkerAssumption DEF MarkerAssumption, FilesOf, Patches
<1> QED
  BY <1>1, <1>2, <1>3 DEF FilesOf, Files, Patches

(* A patch stays in place when its files do and its version only grows.      *)
LEMMA PatchedStays ==
    ASSUME TypeInv, NEW i \in Patches, Patched(i),
           \A f \in FilesOf(i) : tree'[f] = tree[f],
           version'[i] \in Nat, version[i] <= version'[i]
    PROVE  Patched(i)'
<1>1. PICK v \in 1 .. version[i] : \A f \in FilesOf(i) : tree[f] = v
  BY DEF Patched
<1>2. version[i] \in Nat
  BY DEF TypeInv
<1>3. v \in 1 .. version'[i]
  BY <1>2
<1> QED
  BY <1>1, <1>3 DEF Patched, FilesOf

(* A step that leaves tree and versions alone leaves every patch alone.      *)
LEMMA SamePatched ==
    ASSUME UNCHANGED <<tree, version>>
    PROVE  \A i : Patched(i)' <=> Patched(i)
BY DEF Patched, FilesOf

LEMMA InitInv == Init => Inv
<1> SUFFICES ASSUME Init PROVE Inv
  OBVIOUS
<1> USE PatchFiles DEF Init, Stock, Absent
<1>1. TypeInv
  BY DEF TypeInv, Patches
<1>2. HalfApplied /\ LoopInv /\ ExitZeroMeansPatched
  BY DEF HalfApplied, LoopInv, ExitZeroMeansPatched
<1>3. MarkerTells
  BY DEF MarkerTells
<1> QED
  BY <1>1, <1>2, <1>3 DEF Inv

-----------------------------------------------------------------------------
(* Between runs, and between patches.                                       *)
LEMMA StartInv == Inv /\ Run => Inv'
<1> SUFFICES ASSUME Inv, Run PROVE Inv'
  OBVIOUS
<1> USE SamePatched DEF Inv, Run
<1>1. TypeInv'
  BY PatchFiles DEF TypeInv
<1>2. HalfApplied' /\ MarkerTells'
  BY DEF HalfApplied, MarkerTells
<1>3. LoopInv' /\ ExitZeroMeansPatched'
  BY PatchFiles DEF LoopInv, ExitZeroMeansPatched, Patches
<1> QED
  BY <1>1, <1>2, <1>3

LEMMA SkipInv == Inv /\ Skip => Inv'
<1> SUFFICES ASSUME Inv, Skip PROVE Inv'
  OBVIOUS
<1> USE SamePatched DEF Inv, Skip, AtPatch
<1>1. at \in Patches /\ Len(Series) \in Nat
  BY PatchFiles DEF TypeInv, Patches
<1>2. TypeInv'
  BY <1>1 DEF TypeInv, Patches
<1>3. HalfApplied' /\ MarkerTells' /\ ExitZeroMeansPatched'
  BY DEF HalfApplied, MarkerTells, LoopInv, ExitZeroMeansPatched
<1>4. Patched(at)
  <2>1. CASE Reversible(at)
    <3>1. version[at] \in 1 .. version[at]
      BY <1>1 DEF TypeInv
    <3> QED
      BY <2>1, <3>1 DEF Reversible, Patched
  <2>2. CASE Marked(at)
    BY <2>2 DEF Marked, MarkerTells
  <2> QED
    BY <2>1, <2>2
<1>5. LoopInv'
  BY <1>1, <1>4 DEF LoopInv, Patches
<1> QED
  BY <1>2, <1>3, <1>5

LEMMA EndInv == Inv /\ (Refuse \/ Finish \/ Kill) => Inv'
<1> SUFFICES ASSUME Inv, Refuse \/ Finish \/ Kill PROVE Inv'
  OBVIOUS
<1> USE SamePatched DEF Inv, Refuse, Finish, Kill, Exit, AtPatch
<1>1. TypeInv'
  BY DEF TypeInv
<1>2. HalfApplied' /\ MarkerTells' /\ LoopInv'
  BY DEF HalfApplied, MarkerTells, LoopInv
<1>3. ExitZeroMeansPatched'
  <2>1. CASE Refuse \/ Kill
    BY <2>1 DEF ExitZeroMeansPatched
  <2>2. CASE Finish
    BY <2>2, PatchFiles DEF ExitZeroMeansPatched, LoopInv, TypeInv, Patches
  <2> QED
    BY <2>1, <2>2
<1> QED
  BY <1>1, <1>2, <1>3

LEMMA RestoreInv == Inv /\ Restore => Inv'
<1> SUFFICES ASSUME Inv, Restore PROVE Inv'
  OBVIOUS
<1> USE PatchFiles DEF Inv, Restore, Stock
<1>1. TypeInv'
  BY DEF TypeInv
<1>2. HalfApplied' /\ LoopInv' /\ ExitZeroMeansPatched' /\ MarkerTells'
  BY DEF HalfApplied, LoopInv, ExitZeroMeansPatched, MarkerTells
<1> QED
  BY <1>1, <1>2

LEMMA EditInv == ASSUME NEW i \in Patches, Inv, Edit(i) PROVE Inv'
<1> USE DEF Inv, Edit
<1>1. TypeInv'
  BY DEF TypeInv
<1>2. HalfApplied' /\ LoopInv' /\ ExitZeroMeansPatched'
  BY DEF HalfApplied, LoopInv, ExitZeroMeansPatched
<1>3. version[MarkedPatch] <= version'[MarkedPatch] /\ version'[MarkedPatch] \in Nat
  BY PatchFiles DEF TypeInv
<1>4. MarkerTells'
  BY <1>3, PatchFiles, PatchedStays DEF MarkerTells
<1> QED
  BY <1>1, <1>2, <1>4

-----------------------------------------------------------------------------
(* git apply.                                                               *)
LEMMA ApplyInv == Inv /\ Apply => Inv'
<1> SUFFICES ASSUME Inv, Apply PROVE Inv'
  OBVIOUS
<1> USE SamePatched DEF Inv, Apply, AtPatch
<1>1. at \in Patches
  BY PatchFiles DEF TypeInv, Patches
<1>2. TypeInv'
  BY <1>1, PatchFiles DEF TypeInv
<1>3. \A k \in 1 .. Len(Series[at]) : tree[Series[at][k]] = Stock
  BY <1>1, PatchFiles DEF Applies
<1>4. HalfApplied'
  BY <1>3 DEF HalfApplied, Stock
<1>5. MarkerTells' /\ LoopInv' /\ ExitZeroMeansPatched'
  BY DEF MarkerTells, LoopInv, ExitZeroMeansPatched
<1> QED
  BY <1>2, <1>4, <1>5

LEMMA AllRemovedInv == Inv /\ AllRemoved => Inv'
<1> SUFFICES ASSUME Inv, AllRemoved PROVE Inv'
  OBVIOUS
<1> USE SamePatched DEF Inv, AllRemoved
<1>1. TypeInv'
  BY PatchFiles DEF TypeInv
<1>2. HalfApplied'
  BY DEF HalfApplied
<1>3. MarkerTells' /\ LoopInv' /\ ExitZeroMeansPatched'
  BY DEF MarkerTells, LoopInv, ExitZeroMeansPatched
<1> QED
  BY <1>1, <1>2, <1>3

(* All files of the patch have been written in its present version.          *)
LEMMA AllWrittenInv == Inv /\ AllWritten => Inv'
<1> SUFFICES ASSUME Inv, AllWritten PROVE Inv'
  OBVIOUS
<1> USE SamePatched DEF Inv, AllWritten
<1>1. at \in Patches /\ Len(Series) \in Nat /\ version[at] \in Nat \ {0}
  BY PatchFiles DEF TypeInv
<1>2. TypeInv'
  BY <1>1 DEF TypeInv, Patches
<1>3. Patched(at)
  <2>1. \A f \in FilesOf(at) : tree[f] = version[at]
    BY <1>1, PatchFiles DEF HalfApplied, FilesOf
  <2>2. version[at] \in 1 .. version[at]
    BY <1>1
  <2> QED
    BY <2>1, <2>2 DEF Patched
<1>4. LoopInv'
  BY <1>1, <1>3 DEF LoopInv, Patches
<1>5. HalfApplied' /\ MarkerTells' /\ ExitZeroMeansPatched'
  BY DEF HalfApplied, MarkerTells, ExitZeroMeansPatched
<1> QED
  BY <1>2, <1>4, <1>5

(* A file of the patch being applied belongs to no other patch.              *)
LEMMA OnlyThisPatch ==
    ASSUME NEW i \in Patches, NEW j \in Patches, i # j,
           NEW k \in 1 .. Len(Series[i])
    PROVE  Series[i][k] \notin FilesOf(j)
BY PatchFiles, SeriesAssumption DEF SeriesAssumption, Patches

(* A step that changes one file of the patch at hand leaves the patches that  *)
(* the loop has passed.                                                     *)
LEMMA PassedStay ==
    ASSUME Inv, at \in Patches, NEW k \in 1 .. Len(Series[at]), NEW x,
           tree' = [tree EXCEPT ![Series[at][k]] = x],
           UNCHANGED <<version, at>>,
           NEW i \in Patches, i # at, Patched(i)
    PROVE  Patched(i)'
<1>1. Series[at][k] \notin FilesOf(i)
  BY OnlyThisPatch
<1>2. \A f \in FilesOf(i) : tree'[f] = tree[f]
  BY <1>1, PatchFiles DEF Inv, TypeInv
<1>3. version[i] \in Nat
  BY DEF Inv, TypeInv
<1> QED
  BY <1>2, <1>3, PatchedStays DEF Inv

LEMMA RemoveFileInv == Inv /\ RemoveFile => Inv'
<1> SUFFICES ASSUME Inv, RemoveFile PROVE Inv'
  OBVIOUS
<1> DEFINE file == Series[at][done + 1]
<1>1. /\ at \in Patches /\ done + 1 \in 1 .. Len(Series[at]) /\ file \in FilesOf(at)
      /\ file \in Files /\ tree' = [tree EXCEPT ![file] = Absent]
      /\ pc = "remove" /\ pc' = pc /\ done' = done + 1 /\ UNCHANGED <<version, at, exit>>
  BY PatchFiles DEF Inv, TypeInv, RemoveFile
<1> HIDE DEF file
<1>2. TypeInv'
  BY <1>1, PatchFiles DEF Inv, TypeInv, Absent
<1>3. HalfApplied'
  BY <1>1, PatchFiles DEF Inv, TypeInv, HalfApplied, Absent, Stock
<1>4. MarkerTells'
  <2> SUFFICES ASSUME tree'[MarkerFile] > Stock PROVE Patched(MarkedPatch)'
    BY DEF MarkerTells
  <2>1. at # MarkedPatch
    BY <1>1, <1>2, <1>3, PatchFiles, MarkerAssumption
    DEF TypeInv, HalfApplied, MarkerAssumption, Stock
  <2>2. MarkerFile # file
    BY <1>1, <2>1, PatchFiles, OnlyThisPatch DEF file
  <2>3. Patched(MarkedPatch)
    BY <1>1, <2>2, PatchFiles DEF Inv, TypeInv, MarkerTells
  <2> QED
    BY <1>1, <2>1, <2>3, PatchFiles, PassedStay DEF file
<1>5. LoopInv'
  <2>1. \A i \in 1 .. (at - 1) : i \in Patches => i # at /\ Patched(i)
    BY <1>1 DEF Inv, LoopInv, Patches
  <2>2. \A i \in 1 .. (at - 1) : i \in Patches => Patched(i)'
    BY <1>1, <2>1, PassedStay DEF file
  <2> QED
    BY <1>1, <2>2 DEF Inv, LoopInv
<1>6. ExitZeroMeansPatched'
  BY <1>1 DEF Inv, LoopInv, ExitZeroMeansPatched
<1> QED
  BY <1>2, <1>3, <1>4, <1>5, <1>6 DEF Inv

(* Writing the marker completes patch 0001.                                  *)
LEMMA WriteFileInv == Inv /\ WriteFile => Inv'
<1> SUFFICES ASSUME Inv, WriteFile PROVE Inv'
  OBVIOUS
<1> DEFINE file == Series[at][done + 1]
<1>1. /\ at \in Patches /\ done + 1 \in 1 .. Len(Series[at]) /\ file \in FilesOf(at)
      /\ file \in Files /\ tree' = [tree EXCEPT ![file] = version[at]]
      /\ pc = "write" /\ pc' = pc /\ done' = done + 1 /\ UNCHANGED <<version, at, exit>>
      /\ version[at] \in Nat \ {0}
  BY PatchFiles DEF Inv, TypeInv, WriteFile
<1>2. \A k \in 1 .. Len(Series[at]) : k # done + 1 => Series[at][k] # file
  BY <1>1, SeriesAssumption DEF SeriesAssumption, Patches
<1>3. \A k \in 1 .. Len(Series[at]) : Series[at][k] \in Files
  BY <1>1, PatchFiles
<1> HIDE DEF file
<1>4. TypeInv'
  BY <1>1, PatchFiles DEF Inv, TypeInv
<1>5. HalfApplied'
  <2> SUFFICES ASSUME NEW k \in 1 .. Len(Series[at])
               PROVE  IF k <= done + 1 THEN tree'[Series[at][k]] = version[at]
                      ELSE tree'[Series[at][k]] <= Stock
    BY <1>1 DEF HalfApplied
  <2>1. CASE k = done + 1
    BY <1>1, <2>1 DEF Inv, TypeInv, file
  <2>2. CASE k # done + 1
    <3>1. tree'[Series[at][k]] = tree[Series[at][k]]
      BY <1>1, <1>2, <1>3, <2>2 DEF Inv, TypeInv
    <3> QED
      BY <1>1, <2>2, <3>1, PatchFiles DEF Inv, TypeInv, HalfApplied
  <2> QED
    BY <2>1, <2>2
<1>6. MarkerTells'
  <2> SUFFICES ASSUME tree'[MarkerFile] > Stock PROVE Patched(MarkedPatch)'
    BY DEF MarkerTells
  <2>1. CASE at = MarkedPatch
    <3>1. done + 1 = Len(Series[at])
      BY <1>1, <1>5, <2>1, PatchFiles, MarkerAssumption
      DEF HalfApplied, MarkerAssumption, Stock, Inv, TypeInv
    <3>2. \A f \in FilesOf(at) : tree'[f] = version[at]
      <4>1. \A k \in 1 .. Len(Series[at]) : tree'[Series[at][k]] = version[at]
        BY <1>1, <1>5, <3>1 DEF HalfApplied
      <4> QED
        BY <4>1 DEF FilesOf
    <3>3. version[at] \in 1 .. version'[at]
      BY <1>1
    <3> QED
      BY <2>1, <3>2, <3>3 DEF Patched, FilesOf
  <2>2. CASE at # MarkedPatch
    <3>1. MarkerFile # file
      BY <1>1, <2>2, PatchFiles, OnlyThisPatch DEF file
    <3>2. Patched(MarkedPatch)
      BY <1>1, <3>1, PatchFiles DEF Inv, TypeInv, MarkerTells
    <3> QED
      BY <1>1, <2>2, <3>2, PatchFiles, PassedStay DEF file
  <2> QED
    BY <2>1, <2>2
<1>7. LoopInv'
  <2>1. \A i \in 1 .. (at - 1) : i \in Patches => i # at /\ Patched(i)
    BY <1>1 DEF Inv, LoopInv, Patches
  <2>2. \A i \in 1 .. (at - 1) : i \in Patches => Patched(i)'
    BY <1>1, <2>1, PassedStay DEF file
  <2> QED
    BY <1>1, <2>2 DEF Inv, LoopInv
<1>8. ExitZeroMeansPatched'
  BY <1>1 DEF Inv, LoopInv, ExitZeroMeansPatched
<1> QED
  BY <1>4, <1>5, <1>6, <1>7, <1>8 DEF Inv

-----------------------------------------------------------------------------
LEMMA StepInv == Inv /\ [Next]_vars => Inv'
<1> SUFFICES ASSUME Inv, [Next]_vars PROVE Inv'
  OBVIOUS
<1>1. CASE Run
  BY <1>1, StartInv
<1>2. CASE Skip
  BY <1>2, SkipInv
<1>3. CASE Refuse \/ Finish \/ Kill
  BY <1>3, EndInv
<1>4. CASE Apply
  BY <1>4, ApplyInv
<1>5. CASE RemoveFile
  BY <1>5, RemoveFileInv
<1>6. CASE AllRemoved
  BY <1>6, AllRemovedInv
<1>7. CASE WriteFile
  BY <1>7, WriteFileInv
<1>8. CASE AllWritten
  BY <1>8, AllWrittenInv
<1>9. CASE Restore
  BY <1>9, RestoreInv
<1>10. ASSUME NEW i \in Patches, Edit(i) PROVE Inv'
  BY <1>10, EditInv
<1>11. CASE UNCHANGED vars
  BY <1>11, SamePatched DEF vars, Inv, TypeInv, HalfApplied, MarkerTells, LoopInv,
                            ExitZeroMeansPatched
<1> QED
  BY <1>1, <1>2, <1>3, <1>4, <1>5, <1>6, <1>7, <1>8, <1>9, <1>10, <1>11
  DEF Next, ScriptStep, Patches

(* A run that ends with exit code zero leaves every file of every patch       *)
(* carrying that patch, all in one version, however many runs were killed     *)
(* half-way before it (apply.sh).                                           *)
THEOREM SuccessMeansPatched == Spec => []ExitZeroMeansPatched
<1>1. Inv => ExitZeroMeansPatched
  BY DEF Inv
<1> QED
  BY InitInv, StepInv, <1>1, PTL DEF Spec

(* A step of a run leaves alone every file that carries a patch (apply.sh).   *)
THEOREM RunsKeepPatches == Spec => PatchedFilesStay
<1>1. Inv /\ [Next]_vars
      => (pc # "idle" => \A f \in Files : tree[f] > Stock => tree'[f] = tree[f])
  <2> SUFFICES ASSUME Inv, [Next]_vars, pc # "idle", NEW f \in Files, tree[f] > Stock
               PROVE  tree'[f] = tree[f]
    OBVIOUS
  <2>1. CASE RemoveFile
    <3>1. /\ done + 1 \in 1 .. Len(Series[at])
          /\ at \in Patches /\ Series[at][done + 1] \in Files
      BY <2>1, PatchFiles DEF RemoveFile, Inv, TypeInv
    <3>2. ~(tree[Series[at][done + 1]] > Stock)
      BY <2>1, <3>1 DEF RemoveFile, Inv, TypeInv, HalfApplied, Stock
    <3> QED
      BY <2>1, <3>1, <3>2 DEF RemoveFile, Inv, TypeInv
  <2>2. CASE WriteFile
    <3>1. /\ done + 1 \in 1 .. Len(Series[at]) /\ ~(done + 1 <= done)
          /\ at \in Patches /\ Series[at][done + 1] \in Files
      BY <2>2, PatchFiles DEF WriteFile, Inv, TypeInv
    <3>2. ~(tree[Series[at][done + 1]] > Stock)
      BY <2>2, <3>1 DEF WriteFile, Inv, TypeInv, HalfApplied, Stock
    <3> QED
      BY <2>2, <3>1, <3>2 DEF WriteFile, Inv, TypeInv
  <2>3. CASE ~RemoveFile /\ ~WriteFile
    BY <2>3 DEF Next, ScriptStep, Run, Skip, Refuse, Apply, AllRemoved, AllWritten,
                Finish, Kill, Restore, Edit, Exit, vars
  <2> QED
    BY <2>1, <2>2, <2>3
<1> QED
  BY InitInv, StepInv, <1>1, PTL DEF Spec, PatchedFilesStay
=============================================================================
