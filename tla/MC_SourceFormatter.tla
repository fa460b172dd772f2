------------------------- MODULE MC_SourceFormatter -------------------------
(***************************************************************************)
(* lib/ with a readable subdirectory sub/ holding a symlink back to lib/  *)
(* and an unreadable port/.  Files: a source, a second header, a header  *)
(* clang-format rejects, a README, a source in port/, a patch leftover .c.orig and a    *)
(* second source in sub/.  `exceptions` is the script's own, empty list.  *)
(***************************************************************************)
EXTENDS SourceFormatter, TLC

CONSTANTS dLib, dSub, dPort, fCore, fCfg, fEnv, fReadme, fPort, fOrig, fQueue

\* Segments of a file name: <<first character, rest>>.
Seg(c, rest) == <<c, rest>>

MC_Dirs == {dLib, dSub, dPort}
MC_Files == {fCore, fCfg, fEnv, fReadme, fPort, fOrig, fQueue}
MC_Folders == <<dLib>>
MC_Sub == {<<dLib, dSub>>, <<dLib, dPort>>}
MC_Links == {<<dSub, dLib>>}
MC_DirPath == (dLib :> <<"lib">>) @@ (dSub :> <<"lib", "sub">>)
              @@ (dPort :> <<"lib", "port">>)
MC_FileDir == (fCore :> dLib) @@ (fCfg :> dSub) @@ (fEnv :> dSub)
              @@ (fReadme :> dLib) @@ (fPort :> dPort) @@ (fOrig :> dLib)
              @@ (fQueue :> dSub)
MC_FileName ==
    (fCore :> <<Seg("r", "pmsg_lite"), Seg("c", "")>>)
 @@ (fCfg :> <<Seg("r", "pmsg_config"), Seg("h", "")>>)
 @@ (fEnv :> <<Seg("r", "pmsg_env"), Seg("h", "")>>)
 @@ (fReadme :> <<Seg("R", "EADME"), Seg("t", "xt")>>)
 @@ (fPort :> <<Seg("e", "nv"), Seg("c", "")>>)
 @@ (fOrig :> <<Seg("r", "pmsg_lite"), Seg("c", ""), Seg("o", "rig")>>)
 @@ (fQueue :> <<Seg("r", "pmsg_queue"), Seg("c", "")>>)
MC_Exceptions == << >>
MC_Unreadable == {dPort}
MC_Unformattable == {fEnv}
=============================================================================
