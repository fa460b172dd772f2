---------------------------- MODULE MC_Campaign ----------------------------
(***************************************************************************)
(* Two tests whose names share a prefix (01_init, 01_init_rtos) and build  *)
(* trees with a library object under primary/lib, a main.c in primary and *)
(* one in the secondary core's image directory secondary_core, a file in   *)
(* the build root and the Zephyr gcov support object,                      *)
(* whose path contains "gcov".  Every non-excluded file has its own key.   *)
(***************************************************************************)
EXTENDS Campaign, TLC

CONSTANTS oLib, oMain, oSecMain, oRoot, oGcov

MC_Objs == {oLib, oMain, oSecMain, oRoot, oGcov}

MC_ObjDirs == (oLib  :> <<<<"primary">>, <<"lib">>>>) @@
              (oMain :> <<<<"primary">>>>) @@
              (oSecMain :> <<<<"secondary", "core">>>>) @@
              (oRoot :> << >>) @@
              (oGcov :> <<<<"primary">>, <<"gcov">>>>)

MC_ObjBase == (oLib  :> <<"rpmsg", "lite.c.obj">>) @@
              (oMain :> <<"main.c.obj">>) @@
              (oSecMain :> <<"main.c.obj">>) @@
              (oRoot :> <<"empty", "file.c.obj">>) @@
              (oGcov :> <<"gcov", "static.c.obj">>)

MC_GcovWords == {"gcov"}

MC_TESTS == << <<"01", "init">>, <<"01", "init", "rtos">> >>

MC_Image == <<{oLib, oMain, oSecMain, oGcov}, {oMain, oSecMain, oRoot}>>
=============================================================================
