-------------------------- MODULE SourceFormatter --------------------------
(***************************************************************************)
(* run_clang_format.py: for every folder of `folders` it walks the tree    *)
(* with os.walk (top-down, errors ignored, symlinked directories not      *)
(* followed) and runs `clang-format -i` on every file whose name contains  *)
(* ".h" or ".c", unless os.path.join(path, name) is in `exceptions`.  On   *)
(* Windows both lists are first passed through os.path.normpath.          *)
(*                                                                         *)
(* The tree is a graph of directory nodes: Sub holds the real             *)
(* subdirectory entries, Links the symlinks to directories.  A path is    *)
(* the sequence of its components (the separator is the same on both      *)
(* sides of every comparison the script makes).  A file name is the       *)
(* sequence of its "."-separated segments, a segment the pair <<first     *)
(* character, rest>> or << >> when empty: ".c" occurs in a name iff a      *)
(* segment after the first starts with "c".                               *)
(***************************************************************************)
EXTENDS Naturals, Sequences, Functions, Graphs

CONSTANTS
    Dirs, Files,
    Folders,        \* folders: Seq(Dirs), the roots to walk
    Sub,            \* <<parent, child>>: child is a real subdirectory
    Links,          \* <<parent, target>>: a symlink to a directory
    DirPath,        \* [Dirs -> Seq(component)]: the path os.walk yields
    FileDir,        \* [Files -> Dirs]
    FileName,       \* [Files -> Seq(segment)]
    Exceptions,     \* exceptions: Seq([dir : Seq(component), name : ...])
    Platform,       \* os.environ.get('OS', '')
    Unreadable,     \* directories os.scandir cannot list
    Unformattable,  \* files clang-format exits non-zero on (unchanged)
    MaxRuns         \* bound on the times the script is started

\* extensions = [".h", ".c"], as the character that follows the ".".
Extensions == {"h", "c"}

\* `any(ext in name for ext in extensions)`: a substring test.
HasExt(n) == \E i \in 2..Len(n) : n[i] # << >> /\ n[i][1] \in Extensions

\* os.path.normpath, for the "." and empty components it removes.
NormPath(p) == SelectSeq(p, LAMBDA c : c \notin {".", ""})

\* The exception entries as the script compares them: normalised on
\* Windows only.
ExceptionPaths ==
    IF Platform = "Windows_NT"
    THEN {<<NormPath(e.dir), e.name>> : e \in Range(Exceptions)}
    ELSE {<<e.dir, e.name>> : e \in Range(Exceptions)}

\* `file in exceptions` for file = os.path.join(path, name).
Excepted(f) == <<DirPath[FileDir[f]], FileName[f]>> \in ExceptionPaths

Entries(d) == {f \in Files : FileDir[f] = d}
Children(d) == {c \in Dirs : <<d, c>> \in Sub}

VARIABLES
    fmt,        \* [Files -> {"raw", "formatted"}]
    run,        \* "idle", "walk", "ok" (exit 0) or "error" (traceback)
    runs,       \* how many times the script was started
    folderIdx,  \* the next index of `folders`
    stack,      \* directories os.walk has still to visit
    pending,    \* files of the directory just yielded, not yet handled
    installed   \* clang-format is on PATH

fvars == <<fmt, run, runs, folderIdx, stack, pending, installed>>

Init ==
    /\ fmt = [f \in Files |-> "raw"]
    /\ run = "idle" /\ runs = 0
    /\ folderIdx = 1 /\ stack = {} /\ pending = {}
    /\ installed \in BOOLEAN

\* The operator starts the script.
Start ==
    /\ run # "walk" /\ runs < MaxRuns
    /\ run' = "walk" /\ runs' = runs + 1
    /\ folderIdx' = 1 /\ stack' = {} /\ pending' = {}
    /\ UNCHANGED <<fmt, installed>>

\* for folder in folders: os.walk(folder).
NextFolder ==
    /\ run = "walk" /\ stack = {} /\ pending = {}
    /\ folderIdx <= Len(Folders)
    /\ stack' = {Folders[folderIdx]}
    /\ folderIdx' = folderIdx + 1
    /\ UNCHANGED <<fmt, run, runs, pending, installed>>

\* Mutant: followlinks=True, a symlinked directory is walked into.
VisitDir_followlinks(d) ==
    /\ run = "walk" /\ pending = {} /\ d \in stack
    /\ stack' = (stack \ {d}) \cup
                (IF d \in Unreadable THEN {}
                 ELSE Children(d) \cup {t \in Dirs : <<d, t>> \in Links})
    /\ pending' = IF d \in Unreadable THEN {} ELSE Entries(d)
    /\ UNCHANGED <<fmt, run, runs, folderIdx, installed>>

\* Mutant: os.listdir instead of os.walk, subdirectories not visited.
VisitDir_filesOnly(d) ==
    /\ run = "walk" /\ pending = {} /\ d \in stack
    /\ stack' = stack \ {d}
    /\ pending' = IF d \in Unreadable THEN {} ELSE Entries(d)
    /\ UNCHANGED <<fmt, run, runs, folderIdx, installed>>

\* Mutant: the names of the subdirectories handled as files too.
VisitDir_allEntries(d) ==
    /\ run = "walk" /\ pending = {} /\ d \in stack
    /\ stack' = (stack \ {d}) \cup (IF d \in Unreadable THEN {} ELSE Children(d))
    /\ pending' = IF d \in Unreadable THEN {} ELSE Entries(d) \cup Children(d)
    /\ UNCHANGED <<fmt, run, runs, folderIdx, installed>>

\* os.walk yields (path, subdirs, files) for d and goes on with the real
\* subdirectories; a directory it cannot list is skipped without a word
\* (onerror is None), and a symlink to a directory is not followed.
VisitDir(d) ==
    /\ run = "walk" /\ pending = {} /\ d \in stack
    /\ stack' = (stack \ {d}) \cup (IF d \in Unreadable THEN {} ELSE Children(d))
    /\ pending' = IF d \in Unreadable THEN {} ELSE Entries(d)
    /\ UNCHANGED <<fmt, run, runs, folderIdx, installed>>

\* One file of the directory: skipped, ignored, or passed to
\* subprocess.call(["clang-format", "-i", file]), whose exit status is not
\* looked at; a missing clang-format raises and ends the script.
FormatFile(f) ==
    /\ run = "walk" /\ f \in pending
    /\ pending' = pending \ {f}
    /\ \/ /\ ~HasExt(FileName[f]) \/ Excepted(f)
          /\ UNCHANGED <<fmt, run>>
       \/ /\ HasExt(FileName[f]) /\ ~Excepted(f) /\ installed
          /\ fmt' = IF f \in Unformattable THEN fmt
                    ELSE [fmt EXCEPT ![f] = "formatted"]
          /\ UNCHANGED run
       \/ /\ HasExt(FileName[f]) /\ ~Excepted(f) /\ ~installed
          /\ run' = "error" /\ UNCHANGED fmt
    /\ UNCHANGED <<runs, folderIdx, stack, installed>>

\* The last folder is walked: the script exits with 0.
Finish ==
    /\ run = "walk" /\ stack = {} /\ pending = {}
    /\ folderIdx > Len(Folders)
    /\ run' = "ok"
    /\ UNCHANGED <<fmt, runs, folderIdx, stack, pending, installed>>

\* Ctrl-C between two steps (clang-format replaces a file as a whole).
Interrupt ==
    /\ run = "walk" /\ run' = "error"
    /\ UNCHANGED <<fmt, runs, folderIdx, stack, pending, installed>>

Step == NextFolder \/ (\E d \in Dirs : VisitDir(d))
        \/ (\E f \in Files : FormatFile(f)) \/ Finish

Next == Start \/ Step \/ Interrupt

\* The script's own steps never block (clang-format returns), so each is
\* taken while the script runs; the operator and Ctrl-C are not fair.
Spec == Init /\ [][Next]_fvars /\ WF_fvars(Step)

(***************************************************************************)
(* Properties                                                              *)
(***************************************************************************)

\* The directories os.walk can reach: below a readable folder through
\* readable real subdirectories.
Readable == [node |-> Dirs \ Unreadable,
             edge |-> {e \in Sub : {e[1], e[2]} \cap Unreadable = {}}]
Walked == UNION {{r} \cup Descendants(Readable, r) :
                    r \in Range(Folders) \ Unreadable}

\* A C source or header by its extension (os.path.splitext: the text after
\* the last ".", leading dots not counting).
IsSourceName(n) ==
    /\ Len(n) > 1 /\ n[Len(n)] \in {<<"h", "">>, <<"c", "">>}
    /\ \E i \in 1..Len(n) - 1 : n[i] # << >>

TypeOK ==
    /\ fmt \in [Files -> {"raw", "formatted"}]
    /\ run \in {"idle", "walk", "ok", "error"} /\ runs \in 0..MaxRuns
    /\ folderIdx \in 1..Len(Folders) + 1
    /\ stack \subseteq Dirs /\ pending \subseteq Files /\ installed \in BOOLEAN

\* Only C sources and headers are rewritten ("Files with this extensions
\* will be formatted"), whatever else the folders hold.
OnlySourcesFormatted ==
    \A f \in Files : fmt[f] = "formatted" => IsSourceName(FileName[f])

\* When the script exits with 0, os.walk has handed over every file of
\* every directory it can reach, and each selected file that clang-format
\* accepts is formatted, whatever earlier interrupted runs did.
RunFormatsAll ==
    run = "ok" =>
        \A f \in Files :
            /\ FileDir[f] \in Walked /\ HasExt(FileName[f])
            /\ ~Excepted(f) /\ f \notin Unformattable
            => fmt[f] = "formatted"

\* A started run ends, by exit or by error, also when a symlink points
\* back up the tree.
Terminates == run = "walk" ~> run # "walk"
=============================================================================
