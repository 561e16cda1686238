------------------------------ MODULE Downloads ------------------------------
(***************************************************************************)
(* The downloads of a client (downloader.c, transfer_list.c).  The user's  *)
(* get enters a download in a list; a pool of threads takes them, asks a   *)
(* peer for the file, and fetches the chunks that miss.  What is there     *)
(* already is in a part file: a header with the number of chunks, then the *)
(* chunks.  The part of a file is found through a list on disk, DOWNLOADS. *)
(*                                                                         *)
(* A peer answers, breaks off or keeps silent.  The process may end        *)
(* between any two writes; files stay.  Whoever has a file gives it one    *)
(* name; files of one name are of one length, counted in chunks.           *)
(***************************************************************************)
EXTENDS Integers, Sequences, SequencesExt, FiniteSets, FiniteSetsExt, Lists

CONSTANTS
    Thread,     \* the pool
    Md5,        \* the files there are
    FileName,   \* the name of a file, a function
    Chunks,     \* chunk_number of a file, a function
    MaxGets,    \* bound: commands of the user
    MaxCrashes  \* bound: ends of the process

Name == Range(FileName)

ASSUME DownloadsAssumption ==
    /\ Md5 # {} /\ DOMAIN FileName = Md5
    /\ Chunks \in [Md5 -> Nat \ {0}]
    /\ \A m, k \in Md5 : FileName[m] = FileName[k] => Chunks[m] = Chunks[k]
    /\ MaxGets \in Nat /\ MaxCrashes \in Nat

VARIABLES
    download_list,  \* downloads no thread has taken
    spinning,       \* a thread walks download_list for ever, and holds its lock
    at, job,        \* what each thread does, and for which download
    downloads,      \* the file DOWNLOADS: [md5, name], an md5 without one at the end
    part,           \* the part file of a name, or NoPart
    out,            \* the file of a name in the download folder, from its start
    gets, crashes,
    wrote,          \* history: the files whose chunks went into out
    overlapped      \* history: names that two threads wrote at a time

disk == <<downloads, part, out>>
history == <<wrote, overlapped>>
dvars == <<download_list, spinning, at, job, disk, gets, crashes, history>>

NoPart == <<>>
Torn == "torn"      \* a chunk of which a part was written
Hole == "hole"      \* what was never written before a later chunk

NoJob == [md5 |-> CHOOSE m \in Md5 : TRUE, name |-> "", missing |-> <<>>,
          got |-> 0, linked |-> FALSE]

\* The thread is between open_file_part and the end of download.
Writing(t) == at[t] \in {"fetch", "count", "entry"}

-----------------------------------------------------------------------------
(* The list of downloads *)

\* add_download.
Get(m) ==
    /\ ~spinning
    /\ gets < MaxGets /\ gets' = gets + 1
    /\ download_list' = <<m>> \o download_list
    /\ UNCHANGED <<spinning, at, job, disk, crashes, history>>

\* get_download of a list with one element.
GetDownload(t) ==
    /\ at[t] = "idle" /\ ~spinning
    /\ Len(download_list) = 1
    /\ job' = [job EXCEPT ![t] = [NoJob EXCEPT !.md5 = download_list[1]]]
    /\ at' = [at EXCEPT ![t] = "connect"]
    /\ download_list' = <<>>
    /\ UNCHANGED <<spinning, disk, gets, crashes, history>>

\* get_download of a longer one: the walk does not advance.
SpinOnList(t) ==
    /\ at[t] = "idle" /\ ~spinning
    /\ Len(download_list) > 1
    /\ spinning' = TRUE
    /\ at' = [at EXCEPT ![t] = "spin"]
    /\ UNCHANGED <<download_list, job, disk, gets, crashes, history>>

GoTo(t, where) == at' = [at EXCEPT ![t] = where]

\* kill_connection, or the end of download without an error.
Finish(t) == GoTo(t, "idle") /\ job' = [job EXCEPT ![t] = NoJob]

UnchangedList == UNCHANGED <<download_list, spinning, gets, crashes>>

-----------------------------------------------------------------------------
(* The part file *)

\* The peer sends the description of the file it has (fill_file_info).
Connect(t) ==
    /\ at[t] = "connect"
    /\ GoTo(t, "name")
    /\ UNCHANGED <<job, disk, history>> /\ UnchangedList

\* Any step with the peer, or one on disk, fails.
Fail(t) ==
    /\ at[t] \in {"connect", "name", "open", "create"}
    /\ Finish(t)
    /\ UNCHANGED <<disk, history>> /\ UnchangedList

Line(m) == [md5 |-> m, name |-> FileName[m]]

\* DOWNLOADS ends with an md5 that has no name.
TornLine(m) == [md5 |-> m, name |-> ""]
IsTorn == \E m \in Md5 : TornLine(m) \in Range(downloads)

\* get_filepart_name, under downloads_file_mutex.
GetFilepartName(t) ==
    LET m == job[t].md5
        i == SelectInSeq(downloads, LAMBDA l : l.name = "" \/ l.md5 = m)
    IN  /\ at[t] = "name"
        /\ IF i # 0 /\ downloads[i].name = ""
           THEN Finish(t) /\ UNCHANGED downloads
           ELSE /\ GoTo(t, "open")
                /\ job' = [job EXCEPT ![t].name = FileName[m]]
                /\ downloads' = IF i = 0 THEN Append(downloads, Line(m)) ELSE downloads
        /\ UNCHANGED <<part, out, history>> /\ UnchangedList

NewPart(m) == [md5 |-> m, count |-> 0, entries |-> <<>>]

\* The chunks that are not among the first count entries.
Absent(p) ==
    Minus([i \in 1..Chunks[p.md5] |-> i], Range(SubSeq(p.entries, 1, p.count)))

\* Variant: all chunks that miss are fetched.
AllMissing(p) == Absent(p)

\* get_missing_chunk: the array has room for as many as load_file_part
\* counted; one more is written past its end, and is not fetched.
Missing(p) ==
    LET room == Chunks[p.md5] - p.count
    IN  SubSeq(Absent(p), 1, Min({room, Len(Absent(p))}))

\* The thread goes on to download, with part file p of its name.
Begin(t, p) ==
    LET n == job[t].name
    IN  /\ job' = [job EXCEPT ![t].missing = Missing(p), ![t].got = p.count,
                              ![t].linked = TRUE]
        /\ GoTo(t, "fetch")
        /\ wrote' = [wrote EXCEPT ![n] = @ \cup {p.md5}]
        /\ overlapped' =
               IF \E u \in Thread \ {t} :
                      job[u].name = n /\ (Writing(u) \/ at[u] = "create")
               THEN overlapped \cup {n} ELSE overlapped

\* There is none, as it seems.
OpenFilePartAbsent(t) ==
    /\ at[t] = "open"
    /\ part[job[t].name] = NoPart
    /\ GoTo(t, "create")
    /\ UNCHANGED <<job, disk, history>> /\ UnchangedList

\* create_file_part: if there is one by now, its header is written over.
CreateFilePart(t) ==
    LET n == job[t].name
        new == NewPart(job[t].md5)
    IN  /\ at[t] = "create"
        /\ part' = [part EXCEPT ![n] =
                       IF @ = NoPart THEN new ELSE [new EXCEPT !.entries = part[n].entries]]
        /\ Begin(t, new)
        /\ UNCHANGED <<downloads, out>> /\ UnchangedList

\* Variant: the part file is not asked whose it is.
TrustingLoadFilePart(t) ==
    LET p == part[job[t].name]
    IN  /\ at[t] = "open"
        /\ p # NoPart
        /\ IF p.count > Len(p.entries)
           THEN Finish(t) /\ UNCHANGED history
           ELSE Begin(t, p)
        /\ UNCHANGED disk /\ UnchangedList

\* load_file_part and get_missing_chunk: the part must be of this file and
\* have as many chunks as it says.
LoadFilePart(t) ==
    LET p == part[job[t].name]
    IN  /\ at[t] = "open"
        /\ p # NoPart
        /\ IF p.md5 # job[t].md5 \/ p.count > Len(p.entries)
           THEN Finish(t) /\ UNCHANGED history
           ELSE Begin(t, p)
        /\ UNCHANGED disk /\ UnchangedList

-----------------------------------------------------------------------------
(* The chunks *)

\* The file data with x where chunk c is; a gap before it reads as a hole.
WriteAt(data, c, x) ==
    [i \in 1..Max({Len(data), c}) |->
        IF i = c THEN x ELSE IF i <= Len(data) THEN data[i] ELSE Hole]

\* get_chunk.
GetChunk(t) ==
    LET j == job[t]
    IN  /\ at[t] = "fetch" /\ j.missing # <<>>
        /\ out' = [out EXCEPT ![j.name] = WriteAt(@, j.missing[1], j.md5)]
        /\ GoTo(t, "count")
        /\ UNCHANGED <<job, downloads, part, history>> /\ UnchangedList

\* What a peer that breaks off within a chunk leaves of it: the last one does
\* not give the file its length.
WriteTorn(t) ==
    LET j == job[t]
        c == j.missing[1]
        old == out[j.name]
    IN  IF (c <= Len(old) /\ old[c] # j.md5) \/ (Len(old) < c /\ c < Chunks[j.md5])
        THEN out' = [out EXCEPT ![j.name] = WriteAt(@, c, Torn)]
        ELSE UNCHANGED out

\* Variant: the end of the connection ends the chunk.
TrustingBreakOff(t) ==
    /\ at[t] = "fetch" /\ job[t].missing # <<>>
    /\ WriteTorn(t)
    /\ GoTo(t, "count")
    /\ UNCHANGED <<job, downloads, part, history>> /\ UnchangedList

BreakOff(t) ==
    /\ at[t] = "fetch" /\ job[t].missing # <<>>
    /\ WriteTorn(t)
    /\ Finish(t)
    /\ UNCHANGED <<downloads, part, history>> /\ UnchangedList

\* write_filepart, the header: a part that was unlinked takes it, too.
WriteCount(t) ==
    LET j == job[t]
    IN  /\ at[t] = "count"
        /\ job' = [job EXCEPT ![t].got = @ + 1]
        /\ part' = IF j.linked THEN [part EXCEPT ![j.name].count = j.got + 1] ELSE part
        /\ GoTo(t, "entry")
        /\ UNCHANGED <<downloads, out, history>> /\ UnchangedList

\* write_filepart, the entry at the end.
WriteEntry(t) ==
    LET j == job[t]
    IN  /\ at[t] = "entry"
        /\ part' = IF j.linked
                   THEN [part EXCEPT ![j.name].entries = Append(@, j.missing[1])]
                   ELSE part
        /\ job' = [job EXCEPT ![t].missing = Tail(@)]
        /\ GoTo(t, "fetch")
        /\ UNCHANGED <<downloads, out, history>> /\ UnchangedList

-----------------------------------------------------------------------------
(* The end of a download *)

\* The part file of a name goes; who has it open writes to no file any more.
Unlink(t, n) ==
    /\ part' = [part EXCEPT ![n] = NoPart]
    /\ job' = [u \in Thread |->
                  IF job[u].name = n THEN [job[u] EXCEPT !.linked = FALSE] ELSE job[u]]
    /\ GoTo(t, "relist")

\* Variant: the chunks are counted, and the file is not measured.
UnmeasuredComplete(t) == job[t].got = Chunks[job[t].md5]

\* download: the file has its length, and all chunks were counted.
Complete(t) ==
    LET m == job[t].md5
    IN  /\ Len(out[job[t].name]) = Chunks[m]
        /\ job[t].got = Chunks[m]

\* remove_filepart, the part.
EndDownload(t) ==
    LET n == job[t].name
    IN  /\ at[t] = "fetch" /\ job[t].missing = <<>>
        /\ IF Complete(t) /\ part[n] # NoPart
           THEN Unlink(t, n)
           ELSE Finish(t) /\ UNCHANGED part
        /\ UNCHANGED <<downloads, out, history>> /\ UnchangedList

\* remove_filepart, the line, under downloads_file_mutex.
RemoveLine(t) ==
    /\ at[t] = "relist"
    /\ downloads' = IF IsTorn THEN downloads
                    ELSE Minus(downloads, {l \in Range(downloads) : l.md5 = job[t].md5})
    /\ Finish(t)
    /\ UNCHANGED <<part, out, history>> /\ UnchangedList

\* The process ends and starts again: within get_filepart_name it may leave a
\* line without a name, within remove_filepart no DOWNLOADS at all.
Crash ==
    /\ crashes < MaxCrashes /\ crashes' = crashes + 1
    /\ downloads' \in
           {downloads}
           \cup {Append(downloads, TornLine(job[t].md5)) :
                   t \in {u \in Thread : at[u] = "name" /\ ~IsTorn
                                /\ \A l \in Range(downloads) : l.md5 # job[u].md5}}
           \cup {<<>> : t \in {u \in Thread : at[u] = "relist"}}
    /\ download_list' = <<>> /\ spinning' = FALSE
    /\ at' = [t \in Thread |-> "idle"]
    /\ job' = [t \in Thread |-> NoJob]
    /\ UNCHANGED <<part, out, gets, history>>

-----------------------------------------------------------------------------
DownloadsInit ==
    /\ download_list = <<>>
    /\ spinning = FALSE
    /\ at = [t \in Thread |-> "idle"]
    /\ job = [t \in Thread |-> NoJob]
    /\ downloads = <<>>
    /\ part = [n \in Name |-> NoPart]
    /\ out = [n \in Name |-> <<>>]
    /\ gets = 0 /\ crashes = 0
    /\ wrote = [n \in Name |-> {}]
    /\ overlapped = {}

\* downloader_func.
Downloader(t) ==
    \/ GetDownload(t) \/ SpinOnList(t)
    \/ Connect(t) \/ Fail(t) \/ GetFilepartName(t)
    \/ OpenFilePartAbsent(t) \/ CreateFilePart(t) \/ LoadFilePart(t)
    \/ GetChunk(t) \/ BreakOff(t) \/ WriteCount(t) \/ WriteEntry(t)
    \/ EndDownload(t) \/ RemoveLine(t)

DownloadsNext ==
    \/ \E m \in Md5 : Get(m)
    \/ \E t \in Thread : Downloader(t)
    \/ Crash

DownloadsSpec == DownloadsInit /\ [][DownloadsNext]_dvars

-----------------------------------------------------------------------------
(* Properties *)

Content == Md5 \cup {Torn, Hole}

\* Every variable has its type; no part counts more chunks than its file has.
TypeOK ==
    /\ Len(download_list) <= MaxGets /\ Range(download_list) \subseteq Md5
    /\ spinning \in BOOLEAN
    /\ \A t \in Thread :
          /\ at[t] \in {"idle", "spin", "connect", "name", "open", "create"}
                \cup {"fetch", "count", "entry", "relist"}
          /\ job[t].md5 \in Md5 /\ job[t].name \in Name \cup {""}
          /\ job[t].got + Len(job[t].missing) <= Chunks[job[t].md5] + 1
    /\ Range(downloads) \subseteq {Line(m) : m \in Md5} \cup {TornLine(m) : m \in Md5}
    /\ \A n \in Name :
          /\ Range(out[n]) \subseteq Content
          /\ part[n] # NoPart => part[n].count \in 0..Chunks[part[n].md5]
    /\ gets \in 0..MaxGets /\ crashes \in 0..MaxCrashes
    /\ overlapped \subseteq Name

\* Two threads wrote at a time what had been another file.
Mixed(n) == n \in overlapped /\ Cardinality(wrote[n]) > 1

\* What a part file has down is in the file, so a download that is resumed
\* skips no chunk, wherever the process ended before (write_filepart,
\* get_missing_chunk).
PartTruthful ==
    \A n \in Name :
        part[n] # NoPart /\ ~Mixed(n) =>
            \A c \in Range(part[n].entries) :
                c <= Len(out[n]) /\ out[n][c] = part[n].md5

\* A download that is completed has all its chunks, although several threads
\* may write one file and count its chunks over each other (download).
CompleteMeansAll ==
    [][\A t \in Thread :
          at[t] # "relist" /\ at'[t] = "relist" /\ ~Mixed(job[t].name) =>
              out[job[t].name] = [i \in 1..Chunks[job[t].md5] |-> job[t].md5]]_dvars
=============================================================================
