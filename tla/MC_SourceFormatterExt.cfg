CONSTANTS
    dLib = dLib  dSub = dSub  dPort = dPort
    fCore = fCore  fCfg = fCfg  fEnv = fEnv  fReadme = fReadme
    fPort = fPort  fOrig = fOrig  fQueue = fQueue
    Dirs <- MC_Dirs
    Files <- MC_Files
    Folders <- MC_Folders
    Sub <- MC_Sub
    Links <- MC_Links
    DirPath <- MC_DirPath
    FileDir <- MC_FileDir
    FileName <- MC_FileName
    Exceptions <- MC_Exceptions
    Unreadable <- MC_Unreadable
    Unformattable <- MC_Unformattable
    Platform = "Windows_NT"
    MaxRuns = 2
SPECIFICATION Spec
INVARIANT OnlySourcesFormatted
CHECK_DEADLOCK FALSE
