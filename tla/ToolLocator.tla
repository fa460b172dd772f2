---------------------------- MODULE ToolLocator ----------------------------
(***************************************************************************)
(* find_gcov_tool(): the lookup of arm-none-eabi-gcov.  It exists twice,   *)
(* in gcov-02-collect-gcovr.py (hint, default install paths, PATH) and in  *)
(* gcov-03-merge.py (hint, PATH).  Both are pure functions of the          *)
(* environment: ARMGCC_DIR, the platform, which candidate files exist and  *)
(* whether which/where finds the tool on PATH.  The state machine picks an *)
(* environment and runs the lookup once, so that TLC compares the lookup   *)
(* with the order the spec prescribes over every environment.             *)
(***************************************************************************)
EXTENDS Naturals, Sequences

CONSTANT Variant    \* "gcovr": gcov-02-collect-gcovr.py, "merge": gcov-03-merge.py

\* The candidate files: ARMGCC_DIR/bin/arm-none-eabi-gcov(.exe) and the
\* three MCUXpresso IDE install paths (checked on every platform).
HintExe == "hint/bin/arm-none-eabi-gcov.exe"
HintBin == "hint/bin/arm-none-eabi-gcov"
DefaultPaths == << "/usr/local/mcuxpressoide/ide/tools/bin/arm-none-eabi-gcov",
                   "C:/Program Files/MCUXpressoIDE/ide/tools/bin/arm-none-eabi-gcov.exe",
                   "C:/nxp/MCUXpressoIDE/ide/tools/bin/arm-none-eabi-gcov.exe" >>
Files == {HintExe, HintBin} \cup {DefaultPaths[i] : i \in 1..3}

OnPath == "PATH:arm-none-eabi-gcov"    \* the path which/where prints
None == "None"

Env == [platform : {"win32", "linux"},
        armgcc   : BOOLEAN,             \* ARMGCC_DIR set and non-empty
        exists   : SUBSET Files,
        which    : BOOLEAN]             \* which/where exits with 0

\* Path(armgcc_dir) / "bin" / "arm-none-eabi-gcov[.exe]"
HintPath(env) == IF env.platform = "win32" THEN HintExe ELSE HintBin

\* The result of which/where when it exits with 0, else None; an
\* exception of subprocess.run is swallowed the same way.
PathLookup(env) == IF env.which THEN OnPath ELSE None

\* The first default install path that exists, if any.
FirstDefault(env) == SelectSeq(DefaultPaths, LAMBDA p : p \in env.exists)

\* Mutant: the default install paths probed before ARMGCC_DIR.
FindGcovToolGcovr_defaultsFirst(env) ==
    IF FirstDefault(env) # << >> THEN Head(FirstDefault(env))
    ELSE IF env.armgcc /\ HintPath(env) \in env.exists THEN HintPath(env)
    ELSE PathLookup(env)

\* find_gcov_tool() of gcov-02-collect-gcovr.py.
FindGcovToolGcovr(env) ==
    IF env.armgcc /\ HintPath(env) \in env.exists THEN HintPath(env)
    ELSE IF FirstDefault(env) # << >> THEN Head(FirstDefault(env))
    ELSE PathLookup(env)

\* find_gcov_tool() of gcov-03-merge.py.
FindGcovToolMerge(env) ==
    IF env.armgcc /\ HintPath(env) \in env.exists THEN HintPath(env)
    ELSE PathLookup(env)

VARIABLES env, result

Init == env \in Env /\ result = "pending"

Locate ==
    /\ result = "pending"
    /\ result' = IF Variant = "gcovr" THEN FindGcovToolGcovr(env)
                                      ELSE FindGcovToolMerge(env)
    /\ UNCHANGED env

Spec == Init /\ [][Locate]_<<env, result>>

(***************************************************************************)
(* Reference: the spec's ToolLocator probes, in priority order, the path  *)
(* derived from the hint, the default install paths, then PATH, and       *)
(* returns the first that resolves, ToolNotFound (None) if none does.     *)
(***************************************************************************)
Candidates(e) ==
    (IF e.armgcc THEN <<HintPath(e)>> ELSE << >>) \o DefaultPaths

Resolved(e) ==
    SelectSeq(Candidates(e), LAMBDA p : p \in e.exists)
    \o (IF e.which THEN <<OnPath>> ELSE << >>)

SpecLocate(e) == IF Resolved(e) = << >> THEN None ELSE Head(Resolved(e))

\* Whatever the environment, the lookup returns the candidate the spec's
\* priority order selects, and reports ToolNotFound exactly when no
\* candidate resolves.
LocatesInSpecOrder == result # "pending" => result = SpecLocate(env)
=============================================================================
