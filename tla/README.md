# TLA+ models of the rpmsg-lite coverage scripts

The repository's Python code is a small pipeline. It collects gcov coverage of
the rpmsg-lite test images after they run on a physical board
(`src/tests/scripts/`). There is also an unrelated formatter,
`src/run_clang_format.py`. This directory holds TLA+ models of the pipeline,
the TLC configurations that check them, and `PROJECT.json`. That file lists the
components, the runs, the mutants, the map from each definition to its source
lines, the findings and the hazards.

## 1. Inventory

### Components and their state

| Component | Source | State it keeps | Operations |
|---|---|---|---|
| BuildOrchestrator | `gcov-01-build.py` | build trees `b_1..b_9`, one per test, numbered by position in `TESTS`; each holds `.gcno` notes files and the image | check `west`; per test: `west build -p always --build-dir b_<counter>` (pristine: empties the tree first); exit on the first failure |
| Hardware run (operator) | instructions printed at `gcov-02-collect.py:40-47` | the counts files `.gcda` that the image writes into `b_<n>` over semihosting when it exits | load and run an image, at any time, any number of times; a run that hangs writes nothing |
| CaptureCollector | `gcov-02-collect.py`, loop of `gcov-02-collect-gcovr.py` | buckets `coverage_data/<test>/` (created with `exist_ok`, never emptied) | per test: wait for Enter (`input()`), glob `**/*.gcda` and `**/*.gcno`, drop paths containing `"gcov"`, copy each file to `<test>_<firstdir>_<filename>` (counts first, overwriting) |
| ToolLocator | `find_gcov_tool` in `gcov-02-collect-gcovr.py` and `gcov-03-merge.py` | none (pure) | probe `ARMGCC_DIR/bin`, then the default install paths (gcovr copy only), then `which`/`where` |
| FormatMerger, lcov | `gcov-03-merge.py` | `coverage_data/merged/` (never emptied), `coverage_{base,test,combined,filtered}.info` | copy every bucket file to `merged/<file name>`; run gcov (its error is ignored); `lcov --capture --initial`, `lcov --capture`, `--add-tracefile`, `--extract */rpmsg-lite/lib/*`; a failing command ends the `try`, and the script still exits 0 |
| FormatMerger, gcovr | end of `gcov-02-collect-gcovr.py` | `coverage_data/report/` | one `gcovr` call over the bucket directories of this run |
| ReportGenerator | `genhtml` (lcov) / `gcovr --html-details` | `coverage_data/report/` | render the filtered tracefile |
| SourceFormatter | `run_clang_format.py` | the files under `lib/`, rewritten in place | for each folder: `os.walk` (no `onerror`, links not followed); for each file whose name *contains* `.h` or `.c` and is not in `exceptions` (normalised on Windows only): `subprocess.call(["clang-format", "-i", file])`, exit status ignored; not part of the pipeline |

### How the parts interact

The scripts share no memory. They share the file system: the build trees,
the buckets, `merged/` and the `.info` files. The operator starts the scripts one
after another, in any order and as often as they like. Any script can be stopped
with Ctrl-C, and a failing tool stops it too. The only synchronisation with the
board is the operator pressing Enter at the collector's prompt. Artifacts are
named positionally (`b_<counter>`) and by string concatenation
(`{test}_{firstdir}_{filename}`, then the flattened `merged/<name>`).

### What is hard

- **Naming**: `firstdir` keeps only the first directory below `b_<n>`. Names
  joined with `_` are ambiguous when one test name is a prefix of another
  (`01_rpmsg_init`, `01_rpmsg_init_rtos`). A collision makes `shutil.copy2`
  overwrite silently.
- **Stale state across runs**: buckets and `merged/` are never emptied, and a
  pristine rebuild empties only its own tree. A failed build leaves later trees
  from older builds, and the collector does not check that the build succeeded.
  Counts (`.gcda`) and notes (`.gcno`) from different builds can end up side by
  side.
- **Interleaving with the board**: counts that the image writes after Enter
  are not globbed.
- **Interrupted copies**: `shutil.copy2` writes the bucket file in place, so
  Ctrl-C in the middle of a re-collection leaves a truncated file where a good
  copy was.
- **Partial failure**: each lcov step can fail. The merge then stops, leaves the
  older `.info` files and report in place, and still exits 0.
- **Tool lookup**: the two copies of `find_gcov_tool` differ.
- **Formatter**: the selection is a substring test, exceptions are compared as
  raw strings except on Windows, and every error (an unlistable directory, a
  rejected file) is swallowed. Termination rests on `os.walk` not following
  symlinks.

### What makes each component correct

- Collector: every file it globbed ends up in the bucket under its own key
  (*HarvestComplete*). No copy replaces the copy of a different file
  (*NoSilentOverwrite*, the spec's unique-key invariant). Counts are paired with
  notes of the same build (*PairsFromOneBuild*). Nothing is taken from `report/`
  (*ReportDirNotHarvested*). A good copy is only ever replaced by another whole
  copy (*NoGoodCopyCorrupted*, spec §7).
- Merger, both strategies: they implement the abstract specification
  `CoverageAbstract` (*MergeRefinesAbstract*, *GcovrRefinesAbstract*). Every
  rendered report is exactly the union of the library coverage in the buckets,
  and only a merge changes the report. This is the spec's "recomputed from
  buckets, executed if executed in either input" and "interchangeable". The
  empty-bucket identity and idempotence are special cases of it.
- Formatter: it never rewrites a file that is not a C source or header. An exit with 0 means every such file under `lib/`
  is formatted. Every run ends.
- Tool locator: it returns the first candidate that resolves, in the spec's
  order, and reports ToolNotFound only when none resolves (*LocatesInSpecOrder*).

## 2. Modules

| Module | Models | State / actions ↔ code |
|---|---|---|
| `CoverageNames` | naming rules (pure) | `FirstDir` = `parts[0] if len(parts) > 1 else "root"`; `Excluded` = the `"gcov"` substring test; `DestKey` = the bucket file name. A name is the sequence of its `_`-free words, so `_`-joining is sequence concatenation and key equality is string equality. |
| `Campaign` | build script, board, lcov collector | `made` = the trees `b_<d>` that exist; `bdir[d][<<obj,kind>>]` = stamp (build number) of a file in `b_<d>`; `elf` = build of the image; `bucket[d][key]` = copied file. Actions: `StartBuild`, `BuildTest` (success, or failure leaving part of the notes and ending the script), `HwRun(d)`, `StartCollect`, `Confirm` (Enter + glob), `CopyFile` (one `copy2`, counts first, in any file-system order), `NextTest`, `Interrupt` (Ctrl-C between steps), `InterruptCopy` (Ctrl-C inside a `copy2`: the file under the key is cut short, stamp 0; at most `MaxTorn` such files lie in the buckets at once). |
| `Pipeline` | Campaign + `gcov-03-merge.py` | `EXTENDS Coverage`; campaign steps leaving the merge files alone. `merged[key]`; tracefiles are records `[inst, exec]` of (source, line) points; adding = union. Actions: `StartMerge`, `CopyToMerged` (one step; a name held by two buckets is won by either), `CaptureInitial` (a notes file cut short makes lcov fail or drop it), `CaptureTest` (gcov's stamp check: a mismatch makes lcov fail or drop the file), `AddTracefiles`, `Extract`, `GenHtml`, `EndMerge`, `MergeInterrupt` (Ctrl-C anywhere: the script ends and the files written so far stay; a copy loop stopped part-way leaves `merged/` as it was, since the next merge rewrites every name a bucket holds before lcov reads `merged/`). |
| `Coverage` | what the aggregators read | `EXTENDS Campaign`. Adds each object's points (`ObjPoints`), each test's executed points (`Exec`), the library filter (`LibPoints`), and gcov's pairing rule `Matches`. A tracefile is a record `[inst, exec]`. |
| `CoverageAbstract` | the FormatMerger's promise (spec §4.4, §4.5, §5) | Variables `bucket` and `report`. `Harvest` changes one test's bucket and leaves the report. `Render` sets `report' = Union`. A failed merge is a stuttering step. Not a translation of code: it is what both aggregators are checked against. |
| `CollectGcovr` | `gcov-02-collect-gcovr.py` | `EXTENDS Coverage`. The loop reuses Campaign's `Confirm`, `CopyFile`, `NextTest`, `Interrupt` and `InterruptCopy` (its own `copy2` at line 152 cut short), plus `gdirs` (`gcov_dirs`). `gstep` tracks the script: `"off"` (then any campaign step may run, the lcov collector included), `"harvest"` or `"report"`. `Gcovr` is one step: success, or exit 1 leaving the report. |
| `ToolLocator` | both `find_gcov_tool` | pure operators over every environment, and a one-step state machine comparing them with the reference `SpecLocate`. |
| `SourceFormatter` | `run_clang_format.py` | The tree is a graph: directory nodes, `Sub` (real subdirectories), `Links` (symlinks to directories). A file name is its `.`-separated segments, so `ext in name` is "a segment after the first starts with `c`/`h`" (`HasExt`). `fmt[f]` = raw/formatted; `stack` = the directories `os.walk` has still to visit; `pending` = the files of the directory it just yielded. Actions: `Start` (the operator runs the script, at most `MaxRuns` times), `NextFolder`, `VisitDir(d)` (an unreadable directory yields nothing), `FormatFile(f)` (skip / ignore / clang-format, which may reject the file or be missing), `Finish` (exit 0), `Interrupt` (Ctrl-C). |

A file's *stamp* is the number of the build that produced it. A counts file
written by the image of build *s* carries *s*, as gcov's stamp ties a `.gcda`
to its `.gcno`. Stamp 0 is a copy cut short: no build's file, which gcov
rejects (`Matches`, `Held`, and the notes files lcov and gcovr read).

## 3. Runs

| Run | Config | Expect | Shows |
|---|---|---|---|
| campaign_harvest | `MC_Campaign.cfg` | pass | With two tests whose names share a prefix, and trees holding a library object, a `main.c` in `primary/` and one in `secondary_core/`, a root file and a `gcov` object: the harvest is complete and no copy replaces another file. This holds across rebuilds, failed builds, late runs and interrupts, including one cut short inside a copy (169k states, about 25 s). |
| campaign_stale_pairs | `MC_CampaignStale.cfg` | violation | Build, run, collect; a rebuild whose image writes no counts; collect again. The bucket now pairs a new `.gcno` with an old `.gcda`. |
| campaign_key_collision | `MC_CampaignCollide.cfg` | violation | `primary/CMakeFiles/app.dir/main.c.obj` and `primary/modules/util/main.c.obj` share one key, and the second copy overwrites the first. |
| campaign_missing_tree | `MC_CampaignMissing.cfg` | violation | The collector runs before any build. It globs the missing `b_1` to nothing and goes on, where the spec requires BuildDirNotFound (*HarvestedTreeExists*). |
| campaign_torn_copy | `MC_CampaignTorn.cfg` | violation | Collect, then collect again and press Ctrl-C inside a `copy2`: the good copy of the first harvest is replaced by a truncated file, against spec §7 (*NoGoodCopyCorrupted*). |
| campaign_report_dir | `MC_CampaignReport.cfg` | violation | A file under `primary/report/` is harvested. |
| pipeline_union | `MC_Pipeline.cfg` | pass | The lcov merge implements `CoverageAbstract`. Two tests each execute a different line of `rpmsg_lite.c`, the first also a line of an included header outside the library: every report shows both library lines and never the header's, and no other step changes the report. This holds after failed merges, stale `merged/` and `.info` files, stale buckets, rebuilds, merges stopped by Ctrl-C and truncated copies in the buckets and in `merged/` (3.2M states, about 2 min 15 s). |
| gcovr_union | `MC_CollectGcovr.cfg` | pass | On a two-object tree (the library object and `primary/main.c.obj`, built by the first test only), the gcovr collector implements the same abstract specification. The lcov collector, rebuilds, late board runs, interrupts (one inside a copy) and failing gcovr calls are interleaved (85k states). |
| locator_gcovr | `ToolLocator_gcovr.cfg` | pass | The gcovr script's lookup agrees with the spec in all 256 environments. |
| locator_merge | `ToolLocator_merge.cfg` | violation | Where `ARMGCC_DIR` does not resolve and a default install exists, the merge script's lookup skips it: it returns the gcov on PATH if `which`/`where` finds one, and otherwise fails with "Could not find". The spec's order picks the default install. |
| formatter_walk | `MC_SourceFormatter.cfg` | pass | With the script's own empty `exceptions` list, over two runs with Ctrl-C, a missing clang-format, an unreadable `lib/port/`, a header clang-format rejects and a symlink `lib/sub/up -> ..`: exit 0 means every selected file of every reachable directory is formatted (*RunFormatsAll*), and every run ends (*Terminates*, under weak fairness). |
| formatter_extension_substring | `MC_SourceFormatterExt.cfg` | violation | `rpmsg_lite.c.orig` contains `.c` and is rewritten. |

Every property of a passing run has a mutant in `PROJECT.json`, a plausible
bug of the mapped code that TLC catches:

- a glob that lists files that do not exist (`TypeOK`);
- a loop that moves on after the counts files (`HarvestComplete`);
- `len(parts) > 2` (`NoSilentOverwrite`);
- each lcov command in its own `try` (`MergeRefinesAbstract`);
- `gcov_dirs = []` inside the loop (`GcovrRefinesAbstract`);
- default paths probed before `ARMGCC_DIR` (`LocatesInSpecOrder`);
- the subdirectory names handed over as files (`TypeOK` of `SourceFormatter`);
- `os.listdir` instead of `os.walk` (`RunFormatsAll`);
- `os.walk(folder, followlinks=True)` (`Terminates`).

### Bounds

- `MaxBuilds = 2` with two tests: a full build campaign, or one test built
  twice. That is enough for every stale-pair scenario.
- `MaxTorn = 1`: at most one truncated file lies in the buckets at a time. One
  is enough to show a good copy destroyed, and a truncated file read by either
  merge; two only multiply the states.
- Two to five objects cover the shapes that matter: depth 0, 1 and 2, two
  image directories, a `gcov` path and a `report/` path.
- The formatter tree has three directories and seven files, one of each
  kind the script tells apart: selected, non-matching, rejected by
  clang-format, unreachable, and a substring match (`exceptions` is empty, as
  in the code). The link `lib/sub/up` closes
  the only kind of cycle a tree can have. Two runs are enough to show a re-run
  after Ctrl-C.
- Points are two library lines and one line outside the library, the smallest
  instance of the spec's union scenario.
- A larger tree with the merge did not finish in 30 minutes, which is why
  `MC_Pipeline` uses its own one-object tree. The header line in that object's
  notes keeps the library filter meaningful, as an application object did
  before truncated copies were added.

### Fairness

`SourceFormatter` assumes weak fairness of the script's own steps (`Step`).
The script never waits: `subprocess.call` returns when clang-format exits, and
the walk only reads directories. The operator's `Start` and Ctrl-C are not
fair. That makes *Terminates* a statement about the walk alone, and it fails
exactly when the walk can revisit a directory.

The pipeline models have no fairness. Their only blocking point is the human at
`input()`, and no fairness is justified for a human or for the board. Weak
fairness of the copies, the loop and the lcov commands is planned for a
termination property of the merge and the collector.

## 4. Not modelled, and why

- genhtml failing part-way (a source file it cannot read) or interrupted: it
  writes `report/` page by page, so it would leave new pages beside the old
  index. A report is one value here, written whole by `GenHtml`; a mixed report
  would need pages per source file, and *MergeRefinesAbstract* would fail on
  it. This is listed as a hazard without a property.
- The board: a semihosting write cut short, and an image flashed before a
  rebuild and run after it (its counts would carry the old build into the
  rebuilt tree). Both need board state beside the build trees. That state
  multiplies the composed merge runs past their time, and the stale pairs the
  second case produces are already reached by a rebuild whose image writes no
  counts (*PairsFromOneBuild*).

- Formatter: the `exceptions` list is empty in the code (line 19), so the
  model uses it empty and states no property about it. The matching itself
  is modelled (`ExceptionPaths`, `Excepted`), but path separators, which the
  Windows `normpath` exists for, are not: a path is its sequence of
  components. An entry added to the list would behave differently per
  platform (on Linux, one spelled `./lib/...` never matches). The script also
  exits with 0 when clang-format rejected a file or a directory could not be
  listed; *RunFormatsAll* states exactly what a normal exit does guarantee.
- Formatter: what clang-format does to a file's text (a file is raw or
  formatted); `..` in exception entries (normpath of `.` and empty components
  only); symlinks to files, and edits made during a run. The DFS order of
  `os.walk` is abstracted to any order, which covers it.
- Console output, the printed instructions and the HTML layout.
- Thresholds (`--html-medium-threshold`) only colour the report.
- A semihosting write cut short (a board run stopped while it writes its
  `.gcda`): a hardware run writes its counts files at once. Truncation is
  modelled for the collector's copies, where the scripts are involved.
- Two scripts running at the same time: the spec and the operator's
  instructions make the pipeline sequential.

## 5. Plan

Done in the first sitting, in order of importance:

1. `CoverageNames` and `Campaign`: the collector's naming and harvest together
   with the build script and the board.
2. `Pipeline`: the lcov merge and its union property.
3. `ToolLocator`.

Done in the second sitting:

4. `SourceFormatter`, the whole of `run_clang_format.py`, with weak fairness
   and a termination property.
5. `CoverageAbstract`, implemented by the lcov merge (`Pipeline`) and by the
   gcovr collector (`CollectGcovr`, the model of `gcov-02-collect-gcovr.py`).
   `ReportIsUnion` is replaced by the refinement, which is stronger: it also
   says that nothing but a merge changes the report.

Next sittings:

6. **Abstract specification of the campaign**: a campaign is a set of
   (test, build, executed lines) runs, and a report is their union for the
   latest build of each test. `Pipeline` would refine it under a mapping that
   hides files. Expect a violation, which shows exactly which stale or
   colliding data breaks the promise, plus a passing refinement for trees with
   unique keys and successful builds. Held back: the violation it would find
   is the one *PairsFromOneBuild* and *NoSilentOverwrite* already show, and the
   passing half is what `CoverageAbstract` states over the buckets.
7. **Cross-bucket name ambiguity**: a violation config with test names
   `01_init` / `01_init_rtos` and a first directory `rtos`, checked against
   `MergeRefinesAbstract` (gcovr reads buckets one by one and cannot meet it).
   Held back: it needs an object file whose own name starts with `root_` or a
   test-name suffix, and it is the same defect `campaign_key_collision` shows
   within one bucket (a key that is not unique).
8. Done in the third sitting: **truncated copies** (`InterruptCopy`, stamp 0),
   read as files without coverage by lcov, gcovr and `CoverageAbstract`, and
   the violation of spec §7 (*NoGoodCopyCorrupted*). A missing build directory
   was done before: `made` and *HarvestedTreeExists*.
9. **Liveness**: under weak fairness of the scripts' own steps, a started
   collector or merge reaches its end or is interrupted. A harvest waits only on
   the operator. Held back: the merge is a straight line of commands that
   each end in one step, so its termination holds by the model's shape; the
   collector waits at `input()` on the operator, for whom no fairness holds.

Done in the fourth sitting:

10. **Ctrl-C in the merge** (`MergeInterrupt`), checked by
    *MergeRefinesAbstract*: a merge stopped anywhere leaves the report as it
    was, and the next merge still renders exactly the buckets' union.

What is left is listed under "Not modelled": genhtml failing part-way, and
the board's own state. Hazards kept without a property, each with its
reason in `PROJECT.json`:
- the ignored gcov failure (its output is read by nothing);
- the formatter's silent exit 0, where clang-format rejects a file or a
  directory cannot be listed;
- the gcovr script's failure, interruption and stale bucket files. There the
  code does what the spec asks, and the refinement cannot tell it from the
  intended behaviour.
