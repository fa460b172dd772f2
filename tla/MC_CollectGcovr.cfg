CONSTANTS
    oLib = oLib
    oMain = oMain
    NoFile = NoFile
    Objs <- MC_Objs
    ObjDirs <- MC_ObjDirs
    ObjBase <- MC_ObjBase
    GcovWords <- MC_GcovWords
    TESTS <- MC_TESTS
    Image <- MC_Image
    MaxBuilds = 2
    MaxTorn = 1
    ObjPoints <- MC_ObjPoints
    Exec <- MC_Exec
    LibPoints <- MC_LibPoints
SPECIFICATION CSpec
PROPERTY GcovrRefinesAbstract
