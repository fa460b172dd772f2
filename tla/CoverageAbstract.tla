-------------------------- MODULE CoverageAbstract --------------------------
(***************************************************************************)
(* What the FormatMerger promises (spec 4.4, 4.5, 5), whichever of its two *)
(* strategies runs: the report is recomputed from the buckets on every     *)
(* merge, never patched, and shows a line as executed iff some test        *)
(* executed it; a merge that fails leaves the report it found.  Between    *)
(* merges the harvest may change the buckets, one test's bucket at a time, *)
(* but never the report.                                                   *)
(*                                                                         *)
(* A bucket file is a record [dir, obj, kind, stamp]; a file cut short    *)
(* (stamp 0) carries no coverage, and counts count only beside the notes   *)
(* of the same compilation (the .gcno of the same name in the same        *)
(* bucket), as gcov requires.                                              *)
(***************************************************************************)
CONSTANTS
    Buckets,    \* the tests, one bucket each
    Keys,       \* bucket file names <<name, kind>>
    NoFile,     \* no file under a key
    ObjPoints,  \* the points an object's notes list
    Exec,       \* Exec[d][o]: the points test d's run of object o executes
    LibPoints   \* the points the library filter keeps

VARIABLES bucket, report

\* The whole files of one kind in the buckets, with the bucket holding them.
Held(kind) == {bk \in Buckets \X Keys :
                 /\ bk[2][2] = kind /\ bucket[bk[1]][bk[2]] # NoFile
                 /\ bucket[bk[1]][bk[2]].stamp # 0}

\* The notes file beside a counts file is of the same compilation.
SameCompilation(b, k) ==
    LET da == bucket[b][k]
        no == bucket[b][<<k[1], "gcno">>]
    IN no # NoFile /\ da.dir = no.dir /\ da.obj = no.obj /\ da.stamp = no.stamp

\* The union of the buckets' coverage, filtered to the library.
Union ==
    [inst |-> LibPoints \cap
              UNION {ObjPoints[bucket[bk[1]][bk[2]].obj] : bk \in Held("gcno")},
     exec |-> LibPoints \cap
              UNION {Exec[bucket[bk[1]][bk[2]].dir][bucket[bk[1]][bk[2]].obj] :
                        bk \in {bk \in Held("gcda") : SameCompilation(bk[1], bk[2])}}]

Init ==
    /\ bucket = [b \in Buckets |-> [k \in Keys |-> NoFile]]
    /\ report = NoFile

\* A harvest step: one bucket changes, the report does not.
Harvest ==
    /\ \E b \in Buckets : \A c \in Buckets \ {b} : bucket'[c] = bucket[c]
    /\ UNCHANGED report

\* A merge renders the union of the buckets.
Render ==
    /\ report' = Union
    /\ UNCHANGED bucket

Spec == Init /\ [][Harvest \/ Render]_<<bucket, report>>
=============================================================================
