------------------------- MODULE MC_CampaignCollide -------------------------
(***************************************************************************)
(* One test whose primary image holds two objects with the same file name *)
(* in different subdirectories of primary/ (the test's main.c and a main.c *)
(* of another module of the image), as Zephyr build trees do.              *)
(***************************************************************************)
EXTENDS Campaign, TLC

CONSTANTS oMain, oAppMain

MC_Objs == {oMain, oAppMain}

MC_ObjDirs == (oMain    :> <<<<"primary">>, <<"CMakeFiles">>, <<"app.dir">>>>) @@
              (oAppMain :> <<<<"primary">>, <<"modules">>, <<"util">>>>)

MC_ObjBase == (oMain :> <<"main.c.obj">>) @@ (oAppMain :> <<"main.c.obj">>)

MC_GcovWords == {"gcov"}

MC_TESTS == << <<"03", "send", "receive">> >>

MC_Image == << {oMain, oAppMain} >>
=============================================================================
