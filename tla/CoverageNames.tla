--------------------------- MODULE CoverageNames ---------------------------
(***************************************************************************)
(* The naming rules the coverage scripts apply to gcov artifacts.          *)
(*                                                                         *)
(* A build tree b_<n> holds object files; each object leaves a notes file  *)
(* (<base>.gcno, written by the compiler) and, once the image has run on   *)
(* the board, a counts file (<base>.gcda, written over semihosting).  A    *)
(* path is abstracted to its directory components below the build root     *)
(* and its base name.  Every name is kept as the sequence of its "_"-free  *)
(* words, so that joining names with "_" (as the f-strings of the scripts  *)
(* do) is exactly sequence concatenation: two keys are equal strings iff   *)
(* their word sequences and suffixes are equal.                            *)
(***************************************************************************)
EXTENDS Sequences, Functions

CONSTANTS
    Objs,       \* object files of the build trees (model values)
    ObjDirs,    \* [Objs -> Seq(Seq(word))]: directories below b_<n>
    ObjBase,    \* [Objs -> Seq(word)]: file name without .gcda/.gcno
    GcovWords   \* the words that contain the substring "gcov"

\* The two artifact families the collectors glob for.
Kinds == {"gcda", "gcno"}

\* Mutant: the first directory taken only for files two levels down
\* (parts[0] if len(parts) > 2).
FirstDir_offByOne(o) ==
    IF Len(ObjDirs[o]) > 1 THEN ObjDirs[o][1] ELSE <<"root">>

\* The first directory component below the build root, or "root" for a
\* file directly in the build root (parts[0] if len(parts) > 1).
FirstDir(o) == IF Len(ObjDirs[o]) > 0 THEN ObjDirs[o][1] ELSE <<"root">>

\* The collectors skip a file when "gcov" occurs anywhere in its path
\* string b_<n>/<dirs>/<base>.<kind>.  "gcov" has no "_", "/" or ".", so
\* it occurs iff one of the words of the path contains it; "b", the
\* counter and the suffixes gcda/gcno never do.
Excluded(o) ==
    \/ \E d \in Range(ObjDirs[o]) : Range(d) \cap GcovWords # {}
    \/ Range(ObjBase[o]) \cap GcovWords # {}

\* The bucket file name f"{test}_{firstdir}_{filename}" of the counts or
\* notes file of object o harvested for test name t: the "_"-joined words
\* followed by the suffix.
DestKey(t, o, k) == <<t \o FirstDir(o) \o ObjBase[o], k>>
=============================================================================
