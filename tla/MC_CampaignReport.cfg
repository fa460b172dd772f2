CONSTANTS
    oMain = oMain
    oReport = oReport
    NoFile = NoFile
    Objs <- MC_Objs
    ObjDirs <- MC_ObjDirs
    ObjBase <- MC_ObjBase
    GcovWords <- MC_GcovWords
    TESTS <- MC_TESTS
    Image <- MC_Image
    MaxBuilds = 1
    MaxTorn = 1
SPECIFICATION Spec
INVARIANT ReportDirNotHarvested
