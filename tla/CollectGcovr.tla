---------------------------- MODULE CollectGcovr ----------------------------
(***************************************************************************)
(* gcov-02-collect-gcovr.py: the harvest loop of gcov-02-collect.py (the   *)
(* Confirm, CopyFile and NextTest steps of Campaign.tla, line for line),   *)
(* which also records every harvested bucket in gcov_dirs, followed by one *)
(* gcovr call over gcov_dirs that writes the report.  gcovr runs gcov on   *)
(* every counts file of those directories with the notes file of the same *)
(* name beside it, takes every notes file as instrumented lines, keeps    *)
(* the library (the --filter option) and sums the counts.                  *)
(*                                                                         *)
(* Either collector may run, never both at once; the board may run images *)
(* at any time.  The gcovr and gcov checks before the loop exit with 1     *)
(* before any file is touched: a step that changes nothing.                *)
(***************************************************************************)
EXTENDS Coverage

VARIABLES
    gstep,      \* this script: "off", "harvest" (in the loop) or "report"
    gdirs,      \* gcov_dirs: the tests whose buckets gcovr will read
    greport     \* the tracefile coverage_data/report/index.html renders

gvars == <<gstep, gdirs, greport>>
cvars == <<vars, gvars>>

CInit == Init /\ gstep = "off" /\ gdirs = {} /\ greport = NoFile

\* The tool checks pass; counter = 1, gcov_dirs = [] and the loop starts.
GcovrStart ==
    /\ gstep = "off" /\ StartCollect
    /\ gstep' = "harvest" /\ gdirs' = {}
    /\ UNCHANGED greport

\* Enter, the glob and the copies of the current test.
GcovrHarvest ==
    /\ gstep = "harvest" /\ (Confirm \/ CopyFile)
    /\ UNCHANGED gvars

\* Mutant: gcov_dirs = [] inside the loop, so only the last test counts.
GcovrNextTest_resetDirs ==
    /\ gstep = "harvest" /\ NextTest
    /\ gdirs' = {ctr}
    /\ gstep' = IF ctr = N THEN "report" ELSE "harvest"
    /\ UNCHANGED greport

\* gcov_dirs.append(test_coverage_dir); counter += 1; after the last
\* test the loop ends and gcovr is called.
GcovrNextTest ==
    /\ gstep = "harvest" /\ NextTest
    /\ gdirs' = gdirs \cup {ctr}
    /\ gstep' = IF ctr = N THEN "report" ELSE "harvest"
    /\ UNCHANGED greport

\* Ctrl-C at a prompt or between copies, or inside a copy2, which leaves
\* the file under its key cut short: gcovr never runs.
GcovrInterrupt ==
    /\ gstep = "harvest" /\ (Interrupt \/ InterruptCopy)
    /\ gstep' = "off"
    /\ UNCHANGED <<gdirs, greport>>

\* The notes and counts files of the directories on gcovr's command line.
Read(kind) == {dk \in gdirs \X AllKeys :
                 dk[2][2] = kind /\ bucket[dk[1]][dk[2]] # NoFile}

\* subprocess.run(cmd, check=True).  A counts file without the notes of its
\* compilation beside it, or a file cut short, is a gcov error, which, by gcovr's version and
\* options, ends gcovr or drops that file; a failing gcovr (or Ctrl-C)
\* exits with 1 and leaves the report it found.
Gcovr ==
    /\ gstep = "report"
    /\ LET good == {dk \in Read("gcda") :
                      Matches(bucket[dk[1]][dk[2]], bucket[dk[1]][<<dk[2][1], "gcno">>])}
       IN \/ greport' =
               [inst |-> LibPoints \cap
                         UNION {ObjPoints[bucket[dk[1]][dk[2]].obj] :
                                   dk \in {dk \in Read("gcno") : bucket[dk[1]][dk[2]].stamp > 0}},
                exec |-> LibPoints \cap
                         UNION {Exec[bucket[dk[1]][dk[2]].dir][bucket[dk[1]][dk[2]].obj] :
                                   dk \in good}]
          \/ UNCHANGED greport
    /\ gstep' = "off"
    /\ UNCHANGED <<gdirs, vars>>

CNext ==
    \/ gstep = "off" /\ Next /\ UNCHANGED gvars
    \/ gstep # "off" /\ (\E d \in Dirs : HwRun(d)) /\ UNCHANGED gvars
    \/ GcovrStart \/ GcovrHarvest \/ GcovrNextTest \/ GcovrInterrupt \/ Gcovr

CSpec == CInit /\ [][CNext]_cvars

GAbs == INSTANCE CoverageAbstract
            WITH Buckets <- Dirs, Keys <- AllKeys, report <- greport

\* The gcovr path implements the same promise as the lcov merge (spec 4.4:
\* the two strategies are interchangeable): every report gcovr writes is
\* the union of the coverage of all buckets, stale files of earlier
\* harvests included, and nothing else changes the report.
GcovrRefinesAbstract == GAbs!Spec
=============================================================================
