------------------------------- MODULE MCShare -------------------------------
EXTENDS Share

\* The shared folder s, its directories a and a-b, and the directory a/x.
MCWalk == <<"s", "s/a", "s/a/x", "s/a-b">>
MCParent == [d \in {"s", "s/a", "s/a/x", "s/a-b"} |->
                IF d = "s/a/x" THEN "s/a" ELSE "s"]

\* strcmp: "-" is less than "/".
MCPathOrder == [d \in {"s", "s/a", "s/a/x", "s/a-b"} |->
                   CASE d = "s" -> 1 [] d = "s/a" -> 2
                     [] d = "s/a-b" -> 3 [] OTHER -> 4]

MCNameOrder == <<"f", "g">>

FilesOf(n) == [x \in {n} |-> [mtime |-> 0, md5 |-> 1]]
NoFiles == <<>>

\* One directory with a file; all of them, two with a file.
MCFolders ==
    {[d \in {"s"} |-> [mtime |-> 0, files |-> FilesOf("f")]],
     [d \in {"s", "s/a", "s/a/x", "s/a-b"} |->
         [mtime |-> 0,
          files |-> CASE d = "s/a/x" -> FilesOf("f") [] d = "s/a-b" -> FilesOf("g")
                      [] OTHER -> NoFiles]]}
=============================================================================
