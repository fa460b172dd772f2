------------------------------ MODULE Campaign ------------------------------
(***************************************************************************)
(* A coverage campaign on the board: the build script gcov-01-build.py,    *)
(* the images run by the operator on the hardware, and the collector       *)
(* gcov-02-collect.py that harvests the .gcda/.gcno files of every build   *)
(* tree b_<n> into the bucket coverage_data/<test>/.                       *)
(*                                                                         *)
(* One script runs at a time (the operator starts them one after the       *)
(* other, in any order and as often as they like); each can be stopped     *)
(* between two of its steps (Ctrl-C, a closed terminal).  The operator may *)
(* run a built image at any time, also after confirming the prompt, and a  *)
(* run that hangs or crashes writes no counts: that is a HwRun step that   *)
(* does not happen.                                                        *)
(*                                                                         *)
(* A file is known by its build tree, object, kind and the build that made *)
(* it (stamp): a counts file written by the image of build s carries s, as *)
(* gcov's stamp ties a .gcda to the .gcno of the same compilation.  A     *)
(* copy cut short by Ctrl-C inside shutil.copy2 carries stamp 0: it is no  *)
(* build's file, and gcov cannot read it.                                  *)
(***************************************************************************)
EXTENDS CoverageNames, Naturals, FiniteSets

CONSTANTS
    TESTS,      \* the test list, each name as its sequence of "_"-free words
    Image,      \* [1..Len(TESTS) -> SUBSET Objs]: objects of each test's build
    MaxBuilds,  \* bound on the number of west builds in a behaviour
    MaxTorn,    \* bound on the copies cut short lying in the buckets at once
    NoFile      \* model value: no file under this bucket key

N == Len(TESTS)
Dirs == 1..N
Stamps == 1..MaxBuilds
Paths == Objs \X Kinds

ASSUME MaxBuilds \in Nat /\ N > 0 /\ Image \in [Dirs -> SUBSET Objs]

\* A copy of build tree file <<o, k>> of b_<d>, made by the build 'stamp'.
Content == [dir : Dirs, obj : Objs, kind : Kinds, stamp : {0} \cup Stamps]

AllKeys == {DestKey(TESTS[d], o, k) : d \in Dirs, o \in Objs, k \in Kinds}

VARIABLES
    script,     \* the script running: "idle", "build" or "collect"
    ctr,        \* the scripts' loop counter: test TESTS[ctr], tree b_<ctr>
    bdir,       \* bdir[d][<<o, k>>]: stamp of that file of b_<d>, 0 if absent
    elf,        \* elf[d]: build that produced the image in b_<d>, 0 if none
    builds,     \* builds started so far; the next build's stamp is builds+1
    made,       \* the trees b_<d> that exist (west build creates them)
    phase,      \* collector: "prompt" (at input()) or "copy"
    pendDa,     \* collector: objects of gcda_files still to copy
    pendNo,     \* collector: objects of gcno_files still to copy
    bucket,     \* bucket[d][key]: the Content copied under coverage_data/TESTS[d]/key
    \* observation only
    snap,       \* snap[d]: the files the glob of the current collect run found in b_<d>
    collected   \* tests whose harvest the current collect run completed

vars == <<script, ctr, bdir, elf, builds, made, phase, pendDa, pendNo, bucket,
          snap, collected>>
collectVars == <<phase, pendDa, pendNo, snap, collected>>

TypeOK ==
    /\ script \in {"idle", "build", "collect"}
    /\ ctr \in 1..N+1
    /\ bdir \in [Dirs -> [Paths -> 0..MaxBuilds]]
    /\ elf \in [Dirs -> 0..MaxBuilds]
    /\ builds \in 0..MaxBuilds /\ made \subseteq Dirs
    /\ phase \in {"prompt", "copy"}
    /\ pendDa \subseteq Objs /\ pendNo \subseteq Objs
    /\ bucket \in [Dirs -> [AllKeys -> Content \cup {NoFile}]]
    /\ snap \in [Dirs -> SUBSET [obj : Objs, kind : Kinds, stamp : Stamps]]
    /\ collected \subseteq Dirs

\* No build tree has been built, no bucket holds a file.
Init ==
    /\ script = "idle"
    /\ ctr = 1
    /\ bdir = [d \in Dirs |-> [p \in Paths |-> 0]]
    /\ elf = [d \in Dirs |-> 0]
    /\ builds = 0 /\ made = {}
    /\ phase = "prompt"
    /\ pendDa = {} /\ pendNo = {}
    /\ bucket = [d \in Dirs |-> [key \in AllKeys |-> NoFile]]
    /\ snap = [d \in Dirs |-> {}]
    /\ collected = {}

(***************************************************************************)
(* gcov-01-build.py                                                        *)
(***************************************************************************)

\* main(): west is found and the loop starts at counter = 1.
StartBuild ==
    /\ script = "idle"
    /\ script' = "build"
    /\ ctr' = 1
    /\ UNCHANGED <<bdir, elf, builds, made, bucket, collectVars>>

\* The tree of a build with stamp s that compiled the objects in objs:
\* their notes files only.
FreshTree(objs, s) == [p \in Paths |-> IF p[2] = "gcno" /\ p[1] \in objs
                                         THEN s ELSE 0]

\* One iteration: west build -p always --build-dir b_<counter>.  The
\* pristine build empties the tree; a failing build leaves the notes of
\* the objects it compiled, no image, and ends the script (sys.exit(1)).
BuildTest ==
    /\ script = "build"
    /\ builds < MaxBuilds
    /\ builds' = builds + 1
    /\ made' = made \cup {ctr}
    /\ \/ /\ bdir' = [bdir EXCEPT ![ctr] = FreshTree(Image[ctr], builds + 1)]
          /\ elf' = [elf EXCEPT ![ctr] = builds + 1]
          /\ ctr' = ctr + 1
          /\ script' = IF ctr = N THEN "idle" ELSE "build"
       \/ /\ \E part \in SUBSET Image[ctr] :
                bdir' = [bdir EXCEPT ![ctr] = FreshTree(part, builds + 1)]
          /\ elf' = [elf EXCEPT ![ctr] = 0]
          /\ script' = "idle"
          /\ UNCHANGED ctr
    /\ UNCHANGED <<bucket, collectVars>>

(***************************************************************************)
(* The operator runs the image of b_<d> on the board: at exit the gcov     *)
(* runtime writes, over semihosting, the counts of every object of the    *)
(* image, stamped with the image's build.                                  *)
(***************************************************************************)
HwRun(d) ==
    /\ elf[d] > 0
    /\ bdir' = [bdir EXCEPT ![d] = [p \in Paths |->
                   IF p[2] = "gcda" /\ p[1] \in Image[d] THEN elf[d]
                                                        ELSE bdir[d][p]]]
    /\ UNCHANGED <<script, ctr, elf, builds, made, bucket, collectVars>>

(***************************************************************************)
(* gcov-02-collect.py                                                      *)
(***************************************************************************)

StartCollect ==
    /\ script = "idle"
    /\ script' = "collect"
    /\ ctr' = 1
    /\ phase' = "prompt"
    /\ collected' = {}
    /\ UNCHANGED <<bdir, elf, builds, made, pendDa, pendNo, bucket, snap>>

\* Mutant: the files named after the image's objects, whether or not
\* the build or the run wrote them.
Globbed_listed(d, k) == {o \in Image[d] : ~Excluded(o)}

\* The files of one kind the glob "**/*.<kind>" finds in b_<d> and the
\* "gcov" substring test keeps.
Globbed(d, k) == {o \in Objs : bdir[d][<<o, k>>] > 0 /\ ~Excluded(o)}

\* The operator presses Enter; the collector makes the bucket directory
\* and globs b_<counter> into gcda_files and gcno_files.
Confirm ==
    /\ script = "collect"
    /\ phase = "prompt"
    /\ pendDa' = Globbed(ctr, "gcda")
    /\ pendNo' = Globbed(ctr, "gcno")
    /\ snap' = [snap EXCEPT ![ctr] = UNION
                  {{[obj |-> o, kind |-> k, stamp |-> bdir[ctr][<<o, k>>]] :
                      o \in Globbed(ctr, k)} : k \in Kinds}]
    /\ phase' = "copy"
    /\ UNCHANGED <<script, ctr, bdir, elf, builds, made, bucket, collected>>

\* The list the copy loop is in (counts first) and its kind.
CopyKind == IF pendDa # {} THEN "gcda" ELSE "gcno"
CopyPend == IF pendDa # {} THEN pendDa ELSE pendNo

\* One shutil.copy2 of "for file_path in gcda_files + gcno_files": counts
\* first, each list in the file system's order; it overwrites whatever
\* the bucket holds under the same name.
CopyFile ==
    /\ script = "collect"
    /\ phase = "copy"
    /\ pendDa \cup pendNo # {}
    /\ \E o \in CopyPend :
          /\ bucket' = [bucket EXCEPT ![ctr][DestKey(TESTS[ctr], o, CopyKind)] =
                          [dir |-> ctr, obj |-> o, kind |-> CopyKind,
                           stamp |-> bdir[ctr][<<o, CopyKind>>]]]
          /\ pendDa' = IF CopyKind = "gcda" THEN pendDa \ {o} ELSE pendDa
          /\ pendNo' = IF CopyKind = "gcno" THEN pendNo \ {o} ELSE pendNo
    /\ UNCHANGED <<script, ctr, bdir, elf, builds, made, phase, snap, collected>>

\* The bucket files cut short.
Torn == {dk \in Dirs \X AllKeys :
           bucket[dk[1]][dk[2]] # NoFile /\ bucket[dk[1]][dk[2]].stamp = 0}

\* Ctrl-C inside shutil.copy2, which writes the destination in place: the
\* file under the key is cut short, and the script ends.
InterruptCopy ==
    /\ script = "collect"
    /\ phase = "copy"
    /\ Cardinality(Torn) < MaxTorn
    /\ \E o \in CopyPend :
          bucket' = [bucket EXCEPT ![ctr][DestKey(TESTS[ctr], o, CopyKind)] =
                        [dir |-> ctr, obj |-> o, kind |-> CopyKind, stamp |-> 0]]
    /\ script' = "idle"
    /\ phase' = "prompt"
    /\ pendDa' = {} /\ pendNo' = {}
    /\ UNCHANGED <<ctr, bdir, elf, builds, made, snap, collected>>

\* Mutant: the loop moves on once the counts files are copied.
NextTest_afterCounts ==
    /\ script = "collect"
    /\ phase = "copy"
    /\ pendDa = {}
    /\ collected' = collected \cup {ctr}
    /\ ctr' = ctr + 1
    /\ phase' = "prompt"
    /\ script' = IF ctr = N THEN "idle" ELSE "collect"
    /\ UNCHANGED <<bdir, elf, builds, made, pendDa, pendNo, bucket, snap>>

\* Both lists are copied: the loop moves to the next test, or ends.
NextTest ==
    /\ script = "collect"
    /\ phase = "copy"
    /\ pendDa = {} /\ pendNo = {}
    /\ collected' = collected \cup {ctr}
    /\ ctr' = ctr + 1
    /\ phase' = "prompt"
    /\ script' = IF ctr = N THEN "idle" ELSE "collect"
    /\ UNCHANGED <<bdir, elf, builds, made, pendDa, pendNo, bucket, snap>>

\* The running script is stopped between two of its steps.
Interrupt ==
    /\ script # "idle"
    /\ script' = "idle"
    /\ phase' = "prompt"
    /\ pendDa' = {} /\ pendNo' = {}
    /\ UNCHANGED <<ctr, bdir, elf, builds, made, bucket, snap, collected>>

Next ==
    \/ StartBuild \/ BuildTest
    \/ \E d \in Dirs : HwRun(d)
    \/ StartCollect \/ Confirm \/ CopyFile \/ NextTest
    \/ Interrupt \/ InterruptCopy

Spec == Init /\ [][Next]_vars

(***************************************************************************)
(* Properties                                                              *)
(***************************************************************************)

\* The bucket copy of build tree file f of b_<d>.
CopyOf(d, f) == [dir |-> d, obj |-> f.obj, kind |-> f.kind, stamp |-> f.stamp]

\* Every test the collector has finished in this run has, in its bucket,
\* a copy of every counts and notes file its glob found in the build tree
\* (gcov-02-collect.py lines 159-191): nothing found is lost, whatever the
\* order of the copies.
HarvestComplete ==
    \A d \in collected : \A f \in snap[d] :
        bucket[d][DestKey(TESTS[d], f.obj, f.kind)] = CopyOf(d, f)

\* A copy into a bucket never replaces a file that came from a different
\* file of the build trees (spec: the keys {test}_{firstdir}_{filename}
\* are unique across the campaign); replacing an older copy of the same
\* file by a newer one is the intended re-collection.
NoSilentOverwrite ==
    [][\A d \in Dirs, key \in AllKeys :
         LET old == bucket[d][key]
             new == bucket'[d][key]
         IN old # NoFile /\ new # old =>
              /\ old.dir = new.dir /\ old.obj = new.obj
              /\ old.kind = new.kind]_bucket

\* In every bucket the counts file of an object comes from the same build
\* as its notes file, so gcov can pair them (spec: a bucket with notes and
\* no counts yields zero executed lines).
PairsFromOneBuild ==
    \A d \in Dirs, o \in Objs :
        LET da == bucket[d][DestKey(TESTS[d], o, "gcda")]
            no == bucket[d][DestKey(TESTS[d], o, "gcno")]
        IN da # NoFile /\ no # NoFile => da.stamp = no.stamp

\* Every test the collector has finished had a build tree to harvest
\* (spec 4.3: a missing build directory is CaptureError(BuildDirNotFound),
\* fatal for that test), as when collect runs before, or after a failed
\* run of, the build script.
HarvestedTreeExists == \A d \in collected : d \in made

\* A copy of a build's file, once in a bucket, is only ever replaced by
\* another whole copy (spec 7: every stage is safely re-runnable; recovery
\* from a fatal error never corrupts previously good data).
NoGoodCopyCorrupted ==
    [][\A d \in Dirs, key \in AllKeys :
         bucket[d][key] # NoFile /\ bucket[d][key].stamp > 0 =>
             bucket'[d][key] = NoFile \/ bucket'[d][key].stamp > 0]_bucket

\* No bucket holds a file taken from a report/ folder of a build tree
\* (spec section 8: artifacts under a report/ subfolder of the build tree
\* are excluded from harvesting).
ReportDirNotHarvested ==
    \A d \in Dirs, key \in AllKeys :
        bucket[d][key] # NoFile =>
            <<"report">> \notin Range(ObjDirs[bucket[d][key].obj])
=============================================================================
