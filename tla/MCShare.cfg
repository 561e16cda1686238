CONSTANTS
    Walk <- MCWalk
    Parent <- MCParent
    PathOrder <- MCPathOrder
    NameOrder <- MCNameOrder
    Md5 = {1, 2}
    Folders <- MCFolders
    MaxLines = 2
    MaxTime = 5
SPECIFICATION ShareSpec
INVARIANTS ShareTypeOK IndexExact
PROPERTIES ListingRight
CHECK_DEADLOCK FALSE
