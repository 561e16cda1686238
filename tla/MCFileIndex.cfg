CONSTANTS
    Song = Song
    SongTwo = SongTwo
    Name <- MCName
    Prefix <- MCPrefix
    Md5 = {1, 2}
    Peer <- MCPeer
    FileHash <- MCFileHash
    Md5Hash <- MCMd5Hash
    IpHash <- MCIpHash
    MaxFiles = 3
SPECIFICATION Spec
INVARIANTS TypeOK TablesAgree
PROPERTIES CatalogImplemented SilentPeerForgotten
CHECK_DEADLOCK FALSE
