--------------------------- MODULE MC_CollectGcovr ---------------------------
(***************************************************************************)
(* Two tests (01_init, 01_init_rtos) whose trees hold the library object  *)
(* primary/lib/rpmsg_lite.c.obj, listing two library lines; the first     *)
(* also builds primary/main.c.obj, listing a line outside the library.    *)
(* Test                                                                    *)
(* 01_init executes the first library line, 01_init_rtos the second: the  *)
(* report must show both, and never the application line.                *)
(***************************************************************************)
EXTENDS CollectGcovr, TLC

CONSTANTS oLib, oMain

MC_Objs == {oLib, oMain}
MC_ObjDirs == (oLib :> <<<<"primary">>, <<"lib">>>>) @@ (oMain :> <<<<"primary">>>>)
MC_ObjBase == (oLib :> <<"rpmsg", "lite.c.obj">>) @@ (oMain :> <<"main.c.obj">>)
MC_GcovWords == {"gcov"}
MC_TESTS == << <<"01", "init">>, <<"01", "init", "rtos">> >>
MC_Image == << {oLib, oMain}, {oLib} >>

MC_ObjPoints == (oLib :> {"lib1", "lib2"}) @@ (oMain :> {"app"})
MC_Exec == << (oLib :> {"lib1"}) @@ (oMain :> {"app"}),
              (oLib :> {"lib2"}) @@ (oMain :> {}) >>
MC_LibPoints == {"lib1", "lib2"}
=============================================================================
