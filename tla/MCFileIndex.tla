----------------------------- MODULE MCFileIndex -----------------------------
EXTENDS FileIndex

CONSTANTS Song, SongTwo

\* SongTwo begins with Song.
MCName == {Song, SongTwo}
MCPrefix == {<<n, n>> : n \in MCName} \cup {<<Song, SongTwo>>}

\* Two ports at one address, one port at another.
MCPeer == {<<1, 1>>, <<1, 2>>, <<2, 1>>}

\* The names collide, the addresses collide, the md5s do not.
MCFileHash == [n \in MCName |-> 0]
MCMd5Hash == [m \in Md5 |-> m]
MCIpHash == [ip \in {1, 2} |-> 0]
=============================================================================
