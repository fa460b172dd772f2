------------------------- MODULE MC_CampaignReport -------------------------
(***************************************************************************)
(* One test whose build tree holds, besides its main.c object, an object  *)
(* whose files lie under a report/ folder of the tree.                     *)
(***************************************************************************)
EXTENDS Campaign, TLC

CONSTANTS oMain, oReport

MC_Objs == {oMain, oReport}
MC_ObjDirs == (oMain :> <<<<"primary">>>>) @@
              (oReport :> <<<<"primary">>, <<"report">>>>)
MC_ObjBase == (oMain :> <<"main.c.obj">>) @@ (oReport :> <<"summary.c.obj">>)
MC_GcovWords == {"gcov"}
MC_TESTS == << <<"04", "ping", "pong">> >>
MC_Image == << {oMain, oReport} >>
=============================================================================
