CONSTANTS
    oLib = oLib
    oMain = oMain
    oSecMain = oSecMain
    oRoot = oRoot
    oGcov = oGcov
    NoFile = NoFile
    Objs <- MC_Objs
    ObjDirs <- MC_ObjDirs
    ObjBase <- MC_ObjBase
    GcovWords <- MC_GcovWords
    TESTS <- MC_TESTS
    Image <- MC_Image
    MaxBuilds = 2
    MaxTorn = 1
SPECIFICATION Spec
INVARIANT HarvestedTreeExists
