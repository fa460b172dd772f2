------------------------------ MODULE Coverage ------------------------------
(***************************************************************************)
(* What the two aggregators read from a bucket file: the points           *)
(* (source, line) its object's notes list, the points a test's run         *)
(* executed, and gcov's rule that counts are read only with the notes of   *)
(* their own compilation.  A tracefile is abstracted to the points it      *)
(* lists and the points it counts as executed: adding tracefiles sums     *)
(* counts, so a point is executed in the sum iff it is in either input.    *)
(***************************************************************************)
EXTENDS Campaign

CONSTANTS
    ObjPoints,  \* [Objs -> SUBSET Points]: the lines an object's notes list
    Exec,       \* [Dirs -> [Objs -> SUBSET Points]]: what test d's run executes
    LibPoints   \* the points of sources matching */rpmsg-lite/lib/*

Points == UNION {ObjPoints[o] : o \in Objs}
Trace == [inst : SUBSET Points, exec : SUBSET Points]

ASSUME \A d \in Dirs, o \in Objs : Exec[d][o] \subseteq ObjPoints[o]

\* gcov accepts a counts file only whole and with the notes of its own
\* compilation.
Matches(da, no) == /\ no # NoFile /\ da.stamp > 0
                   /\ da.dir = no.dir /\ da.obj = no.obj /\ da.stamp = no.stamp
=============================================================================
