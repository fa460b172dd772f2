------------------------------ MODULE Pipeline ------------------------------
(***************************************************************************)
(* The campaign of Campaign.tla followed by the lcov merge of              *)
(* gcov-03-merge.py, which the operator may start whenever no other script *)
(* runs.  The merge flattens every bucket into coverage_data/merged (never *)
(* emptied between runs), captures an initial tracefile from the notes     *)
(* files and a test tracefile from the counts files, adds them, extracts   *)
(* the library's records and renders the report.  Each lcov/genhtml        *)
(* command may fail; the script then skips the remaining commands, and    *)
(* the tracefiles and the report of earlier runs stay on disk.             *)
(*                                                                         *)
(* Tracefiles are the records of Coverage.tla.                            *)
(***************************************************************************)
EXTENDS Coverage

VARIABLES
    mstep,      \* merge script: next command, or "done" / "failed"
    merged,     \* merged[key]: the Content copied to coverage_data/merged/key
    baseInfo,   \* coverage_base.info
    testInfo,   \* coverage_test.info
    combInfo,   \* coverage_combined.info
    filtInfo,   \* coverage_filtered.info
    report      \* the tracefile the report directory renders

mergeVars == <<mstep, merged, baseInfo, testInfo, combInfo, filtInfo, report>>
allVars == <<vars, mergeVars>>

PInit ==
    /\ Init
    /\ mstep = "done"
    /\ merged = [key \in AllKeys |-> NoFile]
    /\ baseInfo = NoFile /\ testInfo = NoFile /\ combInfo = NoFile
    /\ filtInfo = NoFile /\ report = NoFile

\* The bucket steps of the campaign leave the merge's files alone.
CampaignStep == Next /\ UNCHANGED mergeVars

\* lcov and genhtml are found, merged/ and report/ are made and the
\* merge starts.
StartMerge ==
    /\ script = "idle"
    /\ script' = "merge"
    /\ mstep' = "copy"
    /\ UNCHANGED <<merged, baseInfo, testInfo, combInfo, filtInfo, report>>
    /\ UNCHANGED <<ctr, bdir, elf, builds, made, phase, pendDa, pendNo, bucket,
                   snap, collected>>

\* The bucket files the merge would copy to merged/<key>.
Candidates(key) == {bucket[d][key] : d \in Dirs} \ {NoFile}
\* The keys under which two buckets hold different files.
Clashes == {key \in AllKeys : Cardinality(Candidates(key)) > 1}

\* Every .gcno and .gcda under coverage_data outside merged/ and report/
\* is copied to merged/<file name>, overwriting what is there: files of
\* earlier merges stay, and of files with one name the last copied, in
\* the file system's order, wins.  The gcov run that follows writes only
\* .gcov files, which nothing reads, and its failure is ignored.
CopyToMerged ==
    /\ script = "merge" /\ mstep = "copy"
    /\ \E win \in [Clashes -> UNION {Candidates(key) : key \in Clashes}] :
          /\ \A key \in Clashes : win[key] \in Candidates(key)
          /\ merged' = [key \in AllKeys |->
                          CASE key \in Clashes          -> win[key]
                            [] Candidates(key) # {}     -> CHOOSE c \in Candidates(key) : TRUE
                            [] OTHER                    -> merged[key]]
    /\ mstep' = "initial"
    /\ UNCHANGED <<baseInfo, testInfo, combInfo, filtInfo, report, vars>>

NotesKeys == {key \in AllKeys : key[2] = "gcno" /\ merged[key] # NoFile}
CountsKeys == {key \in AllKeys : key[2] = "gcda" /\ merged[key] # NoFile}

\* The notes file gcov pairs with a counts file: same name, other suffix.
Notes(key) == merged[<<key[1], "gcno">>]

\* A command's failure ends the try block: the later commands do not run.
Fail == mstep' = "failed"

\* lcov --capture --initial: every notes file, nothing executed; with no
\* notes file lcov stops with an error.  A notes file cut short is an error
\* of gcov that, like a stamp mismatch, ends the capture or drops the file.
CaptureInitial ==
    /\ script = "merge" /\ mstep = "initial"
    /\ LET whole == {k \in NotesKeys : merged[k].stamp > 0}
       IN IF NotesKeys = {}
            THEN Fail /\ UNCHANGED baseInfo
            ELSE \/ /\ whole # NotesKeys
                    /\ Fail /\ UNCHANGED baseInfo
                 \/ /\ baseInfo' = [inst |-> UNION {ObjPoints[merged[k].obj] : k \in whole},
                                    exec |-> {}]
                    /\ mstep' = "capture"
    /\ UNCHANGED <<merged, testInfo, combInfo, filtInfo, report, vars>>

\* Mutant: every lcov command in a try block of its own, so that a
\* failed capture goes on with the coverage_test.info already on disk.
CaptureTest_continues ==
    /\ script = "merge" /\ mstep = "capture"
    /\ LET good == {k \in CountsKeys : Matches(merged[k], Notes(k))}
           bad  == {k \in CountsKeys : Notes(k) # NoFile} \ good
       IN IF CountsKeys = {} \/ bad # {}
            THEN mstep' = "add" /\ UNCHANGED testInfo
            ELSE /\ testInfo' = [inst |-> UNION {ObjPoints[merged[k].obj] : k \in good},
                                 exec |-> UNION {Exec[merged[k].dir][merged[k].obj] :
                                                    k \in good}]
                 /\ mstep' = "add"
    /\ UNCHANGED <<merged, baseInfo, combInfo, filtInfo, report, vars>>

\* lcov --capture: every counts file with the notes of its compilation;
\* with no counts file lcov stops with an error.  A stamp mismatch is an
\* error of gcov that, depending on the lcov version, ends the capture or
\* drops that file.
CaptureTest ==
    /\ script = "merge" /\ mstep = "capture"
    /\ LET good == {k \in CountsKeys : Matches(merged[k], Notes(k))}
           bad  == {k \in CountsKeys : Notes(k) # NoFile} \ good
       IN IF CountsKeys = {}
            THEN Fail /\ UNCHANGED testInfo
            ELSE \/ /\ bad # {}
                    /\ Fail /\ UNCHANGED testInfo
                 \/ /\ testInfo' = [inst |-> UNION {ObjPoints[merged[k].obj] : k \in good},
                                    exec |-> UNION {Exec[merged[k].dir][merged[k].obj] :
                                                       k \in good}]
                    /\ mstep' = "add"
    /\ UNCHANGED <<merged, baseInfo, combInfo, filtInfo, report, vars>>

\* lcov --add-tracefile base --add-tracefile test: counts are summed;
\* a missing input file is an error.
AddTracefiles ==
    /\ script = "merge" /\ mstep = "add"
    /\ IF baseInfo = NoFile \/ testInfo = NoFile
         THEN Fail /\ UNCHANGED combInfo
         ELSE /\ combInfo' = [inst |-> baseInfo.inst \cup testInfo.inst,
                              exec |-> baseInfo.exec \cup testInfo.exec]
              /\ mstep' = "extract"
    /\ UNCHANGED <<merged, baseInfo, testInfo, filtInfo, report, vars>>

\* lcov --extract combined "*/middleware/multicore/rpmsg-lite/lib/*".
Extract ==
    /\ script = "merge" /\ mstep = "extract"
    /\ filtInfo' = [inst |-> combInfo.inst \cap LibPoints,
                    exec |-> combInfo.exec \cap LibPoints]
    /\ mstep' = "genhtml"
    /\ UNCHANGED <<merged, baseInfo, testInfo, combInfo, report, vars>>

\* genhtml coverage_filtered.info --output-directory report.
GenHtml ==
    /\ script = "merge" /\ mstep = "genhtml"
    /\ report' = filtInfo
    /\ mstep' = "done"
    /\ UNCHANGED <<merged, baseInfo, testInfo, combInfo, filtInfo, vars>>

\* os.chdir(original_dir): the script returns, also after an error.
EndMerge ==
    /\ script = "merge" /\ mstep \in {"done", "failed"}
    /\ script' = "idle"
    /\ UNCHANGED <<mergeVars, ctr, bdir, elf, builds, made, phase, pendDa, pendNo,
                   bucket, snap, collected>>

\* Ctrl-C: no except clause catches KeyboardInterrupt, and the script
\* ends where it is; the files the earlier commands wrote stay.  Stopped
\* inside the copy loop, it leaves some names of merged/ copied, one cut
\* short and the rest old; merged/ is left as it was here, because the
\* next merge's copy loop rewrites every name a bucket holds, and so every
\* name this loop touched, before any lcov command reads merged/.
MergeInterrupt ==
    /\ script = "merge" /\ mstep \notin {"done", "failed"}
    /\ script' = "idle" /\ mstep' = "failed"
    /\ UNCHANGED <<merged, baseInfo, testInfo, combInfo, filtInfo, report>>
    /\ UNCHANGED <<ctr, bdir, elf, builds, made, phase, pendDa, pendNo, bucket,
                   snap, collected>>

MergeStep ==
    \/ StartMerge \/ CopyToMerged \/ CaptureInitial \/ CaptureTest
    \/ AddTracefiles \/ Extract \/ GenHtml \/ EndMerge \/ MergeInterrupt

PNext == CampaignStep \/ MergeStep

PSpec == PInit /\ [][PNext]_allVars

(***************************************************************************)
(* Properties                                                              *)
(***************************************************************************)

Abs == INSTANCE CoverageAbstract WITH Buckets <- Dirs, Keys <- AllKeys

\* The lcov merge implements the FormatMerger's promise: every report it
\* renders is the union of the buckets' coverage (spec: the merged set is
\* recomputed from the buckets on every run, never patched; a line
\* executed by any test is executed in the report), whatever earlier
\* merges left in merged/ and in the .info files and whatever failed
\* before; a failed merge and every campaign step leave the report alone.
MergeRefinesAbstract == Abs!Spec
=============================================================================
