---------------------------- MODULE PatchSeries ----------------------------
(***************************************************************************)
(* integration/patches/apply.sh: the patch series is applied to the QuickFIX *)
(* tree before each build, again and again on the same tree.  The script may *)
(* be killed at any moment, patches are edited between its runs, and the     *)
(* tree is reset to what upstream released.  `git apply` is external: it     *)
(* checks all files of a patch, then removes them all, then writes them in   *)
(* the order in which the patch names them.                                 *)
(***************************************************************************)
EXTENDS Integers, Sequences

CONSTANTS
    Series,        \* the *.patch files in glob order: of each, the files it changes
    MarkedPatch,   \* position of 0001-expose-parse-from-field-index.patch
    MarkerFile,    \* src/C++/Message.h, which the script greps for setFromPreScan
    MaxVersion     \* bound on how often a patch is edited

FilesOf(i) == {Series[i][k] : k \in 1 .. Len(Series[i])}
Files == UNION {FilesOf(i) : i \in 1 .. Len(Series)}

(* No file is changed by two patches, or twice by one, and the marker is in   *)
(* the file that patch 0001 names last.                                     *)
ASSUME SeriesAssumption ==
    /\ Series \in Seq(Seq(STRING))
    /\ \A i \in 1 .. Len(Series) : \A j \in 1 .. Len(Series) :
          i # j => FilesOf(i) \cap FilesOf(j) = {}
    /\ \A i \in 1 .. Len(Series) : \A k, l \in 1 .. Len(Series[i]) :
          Series[i][k] = Series[i][l] => k = l
ASSUME MarkerAssumption ==
    /\ MarkedPatch \in 1 .. Len(Series)
    /\ Len(Series[MarkedPatch]) > 0
    /\ MarkerFile = Series[MarkedPatch][Len(Series[MarkedPatch])]
ASSUME VersionAssumption == MaxVersion \in Nat \ {0}

(* What a file of the tree holds: nothing, upstream's text, or that text with *)
(* a version of its patch.                                                  *)
Absent == -1
Stock  == 0

VARIABLES
    tree,      \* of each file
    version,   \* of each patch, the one that is on disk
    pc,        \* "idle", "patch", "remove" or "write"
    at,        \* the patch the script's loop has reached
    done,      \* files of it that git apply has removed, or written
    exit       \* of the last run: "none", "zero", "nonzero" or "killed"

vars == <<tree, version, pc, at, done, exit>>

Init ==
    /\ \/ tree = [f \in Files |-> Stock]
       \/ tree = [f \in Files |-> Absent]     \* a submodule not checked out yet
    /\ version = [i \in 1 .. Len(Series) |-> 1]
    /\ pc = "idle" /\ at = 1 /\ done = 0 /\ exit = "none"

-----------------------------------------------------------------------------
(* git apply --check --reverse, git grep -q setFromPreScan, git apply --check *)
Reversible(i) == \A f \in FilesOf(i) : tree[f] = version[i]

(* A faulty marker, in the file that is written first.                       *)
MarkedByFirst(i) == i = MarkedPatch /\ tree[Series[i][1]] > Stock

Marked(i) == i = MarkedPatch /\ tree[MarkerFile] > Stock

(* A faulty check, which asks about one file only.                           *)
AppliesInPart(i) == \E f \in FilesOf(i) : tree[f] \in {Stock, Absent}

Applies(i) == \A f \in FilesOf(i) : tree[f] = Stock

Run ==
    /\ pc = "idle"
    /\ pc' = "patch" /\ at' = 1 /\ exit' = "none"
    /\ UNCHANGED <<tree, version, done>>

AtPatch == pc = "patch" /\ at <= Len(Series)

Skip ==
    /\ AtPatch /\ (Reversible(at) \/ Marked(at))
    /\ at' = at + 1
    /\ UNCHANGED <<tree, version, pc, done, exit>>

Exit(code) == pc' = "idle" /\ exit' = code /\ UNCHANGED <<tree, version, at, done>>

Refuse == AtPatch /\ ~Reversible(at) /\ ~Marked(at) /\ ~Applies(at) /\ Exit("nonzero")

Apply ==
    /\ AtPatch /\ ~Reversible(at) /\ ~Marked(at) /\ Applies(at)
    /\ pc' = "remove" /\ done' = 0
    /\ UNCHANGED <<tree, version, at, exit>>

RemoveFile ==
    /\ pc = "remove" /\ done < Len(Series[at])
    /\ tree' = [tree EXCEPT ![Series[at][done + 1]] = Absent]
    /\ done' = done + 1
    /\ UNCHANGED <<version, pc, at, exit>>

AllRemoved ==
    /\ pc = "remove" /\ done = Len(Series[at])
    /\ pc' = "write" /\ done' = 0
    /\ UNCHANGED <<tree, version, at, exit>>

WriteFile ==
    /\ pc = "write" /\ done < Len(Series[at])
    /\ tree' = [tree EXCEPT ![Series[at][done + 1]] = version[at]]
    /\ done' = done + 1
    /\ UNCHANGED <<version, pc, at, exit>>

AllWritten ==
    /\ pc = "write" /\ done = Len(Series[at])
    /\ pc' = "patch" /\ at' = at + 1
    /\ UNCHANGED <<tree, version, done, exit>>

Finish == pc = "patch" /\ at > Len(Series) /\ Exit("zero")

Kill == pc # "idle" /\ Exit("killed")

-----------------------------------------------------------------------------
(* Between two runs: git submodule update --force, and a patch is edited.    *)
Restore ==
    /\ pc = "idle"
    /\ tree' = [f \in Files |-> Stock]
    /\ exit' = "none"
    /\ UNCHANGED <<version, pc, at, done>>

Edit(i) ==
    /\ pc = "idle" /\ version[i] < MaxVersion
    /\ version' = [version EXCEPT ![i] = @ + 1]
    /\ exit' = "none"
    /\ UNCHANGED <<tree, pc, at, done>>

ScriptStep ==
    \/ Skip \/ Refuse \/ Apply \/ RemoveFile \/ AllRemoved \/ WriteFile \/ AllWritten
    \/ Finish

Next == Run \/ ScriptStep \/ Kill \/ Restore \/ \E i \in 1 .. Len(Series) : Edit(i)

Spec == Init /\ [][Next]_vars

-----------------------------------------------------------------------------
(* The files of a patch carry it, all in the same version.                   *)
Patched(i) == \E v \in 1 .. version[i] : \A f \in FilesOf(i) : tree[f] = v

(* A run that succeeds leaves a tree that can be built: every file carries    *)
(* its patch, all of one patch in the same version, even if runs before it    *)
(* were killed between two files.                                           *)
ExitZeroMeansPatched ==
    exit = "zero" => \A i \in 1 .. Len(Series) : Patched(i)

(* Idempotent: a file that carries a patch is not touched by any run, whether *)
(* the patch was edited since or another one failed.                        *)
PatchedFilesStay ==
    [][pc # "idle" => \A f \in Files : tree[f] > Stock => tree'[f] = tree[f]]_vars

(* CMakeLists.txt: editing a patch and re-configuring picks up the new        *)
(* version.                                                                 *)
EditedPatchIsPickedUp ==
    exit = "zero" => \A i \in 1 .. Len(Series) : \A f \in FilesOf(i) : tree[f] = version[i]
=============================================================================
