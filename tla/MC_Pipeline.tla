---------------------------- MODULE MC_Pipeline ----------------------------
(***************************************************************************)
(* Two tests (01_init, 01_init_rtos) whose trees hold the library object  *)
(* primary/lib/rpmsg_lite.c.obj.  Its notes list two library lines and a  *)
(* line of an included header outside the library (a static inline        *)
(* function), which lcov --extract must drop.  01_init executes the first *)
(* library line and the header line, 01_init_rtos the second library      *)
(* line: the report must show both library lines, never the header's.     *)
(* One object keeps the space small enough for a copy cut short to lie in *)
(* any bucket and in merged/ at any point of the campaign.                *)
(***************************************************************************)
EXTENDS Pipeline, TLC

CONSTANTS oLib
MC_Objs == {oLib}
MC_ObjDirs == (oLib :> <<<<"primary">>, <<"lib">>>>)
MC_ObjBase == (oLib :> <<"rpmsg", "lite.c.obj">>)
MC_GcovWords == {"gcov"}
MC_TESTS == << <<"01", "init">>, <<"01", "init", "rtos">> >>
MC_Image == << {oLib}, {oLib} >>
MC_ObjPoints == (oLib :> {"lib1", "lib2", "hdr"})
MC_Exec == << (oLib :> {"lib1", "hdr"}), (oLib :> {"lib2"}) >>
MC_LibPoints == {"lib1", "lib2"}
====
