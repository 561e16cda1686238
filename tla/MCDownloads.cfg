CONSTANTS
    Thread = {t1, t2}
    Md5 = {"m1", "m2"}
    FileName <- MCFileName
    Chunks <- MCChunks
    MaxGets = 3
    MaxCrashes = 1
SPECIFICATION DownloadsSpec
INVARIANTS TypeOK PartTruthful
PROPERTIES CompleteMeansAll
CHECK_DEADLOCK FALSE
