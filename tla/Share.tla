-------------------------------- MODULE Share --------------------------------
(***************************************************************************)
(* The shared folder of a client (shared.c) and what its superpeer knows   *)
(* of it.  An update merges the listing of the folder that the last update *)
(* wrote, FILE_SHARE, with the folder as it is now, writes a new listing   *)
(* and, as lines "+" and "-", the difference, FILE_DIFF.  The lines go to  *)
(* the superpeer in UPDATE_FILE_LIST packets (send_share), or into the     *)
(* client's own index when it is superpeer itself (add_sp_file).  The      *)
(* index is the one that FileIndex implements, as far as it holds the      *)
(* files of this client.                                                   *)
(*                                                                         *)
(* The retransmission thread repeats each packet until its ACK comes, so   *)
(* packets arrive in any order and more than once, or are given up.  The   *)
(* folder does not change while a difference is made.                      *)
(***************************************************************************)
EXTENDS Lists, SequencesExt

CONSTANTS
    Walk,       \* the directories that may exist, in the order diff visits them
    Parent,     \* a function; the shared folder itself is its own parent
    PathOrder,  \* the place of the path of a directory in the order of strcmp
    NameOrder,  \* the names of files in the order of alphasort
    Md5,
    Folders,    \* the folders there may be at the start, older than second 1
    MaxLines,   \* lines that fit into a packet
    MaxTime     \* bound: changes, joins and updates

Dir == Range(Walk)
Name == Range(NameOrder)
Root == Walk[1]
Entry == [name : Name, md5 : Md5]

Time == {t \in Int : t <= MaxTime}
File == [mtime : Time, md5 : Md5]
IsFiles(files) == DOMAIN files \subseteq Name /\ files \in [DOMAIN files -> File]
IsDirectory(d) == d \in [mtime : Time, files : {d.files}] /\ IsFiles(d.files)
IsFolder(f) ==
    /\ Root \in DOMAIN f /\ DOMAIN f \subseteq Dir /\ f \in [DOMAIN f -> Range(f)]
    /\ \A d \in DOMAIN f : IsDirectory(f[d])

\* A file is known by its name and its mtime.
ASSUME ShareAssumption ==
    /\ Walk \in Seq(Dir) /\ Walk # <<>> /\ IsInjective(Walk)
    /\ NameOrder \in Seq(Name) /\ IsInjective(NameOrder)
    /\ Parent \in [Dir -> Dir] /\ Parent[Root] = Root
    /\ PathOrder \in [Dir -> Nat] /\ IsInjective(PathOrder)
    /\ MaxLines \in Nat \ {0} /\ MaxTime \in Nat \ {0}
    /\ \A f \in Folders :
          /\ IsFolder(f)
          /\ \A d \in DOMAIN f : f[d].mtime < 1
          /\ \A d \in DOMAIN f : \A n \in DOMAIN f[d].files :
                /\ f[d].files[n].mtime < 1
                /\ \A e \in DOMAIN f :
                      n \in DOMAIN f[e].files /\ f[e].files[n].mtime = f[d].files[n].mtime
                          => f[e].files[n] = f[d].files[n]

VARIABLES
    folder,     \* the directories there are, with their mtime and files
    share_file, \* FILE_SHARE: the sections of the listing
    unacked,    \* UPDATE_FILE_LIST packets the superpeer has not acknowledged
    indexed,    \* what the superpeer has of this client
    is_sp,
    now,        \* the time; no two things happen in one second
    doubtful,   \* history: entries of two directories, in "+" and "-" lines at
                \* a time, or not taken back by a client that joins again
    lost        \* history: entries in packets that were given up

share_vars == <<folder, share_file, unacked, indexed, is_sp, now, doubtful, lost>>

EntryOf(name, file) == [name |-> name, md5 |-> file.md5]

\* The entries of the files of a directory, or of a section of the listing.
Entries(d) == {EntryOf(n, d.files[n]) : n \in DOMAIN d.files}

AllOf(sections) == UNION {Entries(section) : section \in Range(sections)}

Listed == AllOf(share_file)

-----------------------------------------------------------------------------
(* The difference of listing and folder *)

\* A file that is in the listing and in the folder, mtime unchanged, is taken
\* from the listing.
Same(old, new, n) ==
    n \in DOMAIN old \cap DOMAIN new /\ old[n].mtime = new[n].mtime

\* update_dir merges the two lists of names; each name may have two lines.
Candidates ==
    [i \in 1 .. 2 * Len(NameOrder) |->
        [op |-> IF i % 2 = 1 THEN "-" ELSE "+", name |-> NameOrder[(i + 1) \div 2]]]

\* The lines of update_dir; one of the two has no files in add_dir and remove_dir.
Lines(old, new) ==
    LET side(c) == IF c.op = "-" THEN old ELSE new
        chosen == Picked(Candidates,
                      {i \in DOMAIN Candidates :
                          LET c == Candidates[i]
                          IN  c.name \in DOMAIN side(c) /\ ~Same(old, new, c.name)})
    IN  [i \in DOMAIN chosen |->
            [op |-> chosen[i].op,
             entry |-> EntryOf(chosen[i].name, side(chosen[i])[chosen[i].name])]]

\* Variant: what is listed stays as it is.
StaleUpdatedFiles(old, new) ==
    [n \in DOMAIN new |-> IF n \in DOMAIN old THEN old[n] ELSE new[n]]

\* The section update_dir writes.
UpdatedFiles(old, new) ==
    [n \in DOMAIN new |-> IF Same(old, new, n) THEN old[n] ELSE new[n]]

Section(d, files) == [dir |-> d, mtime |-> folder[d].mtime, files |-> files]

\* What create_diff has come to: the places of the next directory of the walk and
\* of the next section of the listing, the new listing and the lines.
RemoveDir(acc, s) ==
    [acc EXCEPT !.section = @ + 1, !.lines = @ \o Lines(s.files, <<>>)]

AddDir(acc, d) ==
    [acc EXCEPT !.place = @ + 1,
                !.out = Append(@, Section(d, folder[d].files)),
                !.lines = @ \o Lines(<<>>, folder[d].files)]

CopyDir(acc, d, s) ==
    [acc EXCEPT !.place = @ + 1, !.section = @ + 1,
                !.out = Append(@, Section(d, s.files))]

UpdateDir(acc, d, s) ==
    [acc EXCEPT !.place = @ + 1, !.section = @ + 1,
                !.out = Append(@, Section(d, UpdatedFiles(s.files, folder[d].files))),
                !.lines = @ \o Lines(s.files, folder[d].files)]

\* Variant: sections that are left over at the end stay unread.
OpenTurn(old, acc) ==
    LET more == acc.section <= Len(old)
        s == old[acc.section]
        d == Walk[acc.place]
    IN  IF acc.place > Len(Walk) THEN acc
        ELSE IF d \notin DOMAIN folder THEN [acc EXCEPT !.place = @ + 1]
        ELSE IF more /\ PathOrder[s.dir] < PathOrder[d] THEN RemoveDir(acc, s)
        ELSE IF ~more \/ s.dir # d THEN AddDir(acc, d)
        ELSE IF s.mtime = folder[d].mtime THEN CopyDir(acc, d, s)
        ELSE UpdateDir(acc, d, s)

\* diff at one directory, once for each section it reads: one whose path is less is
\* removed, then the directory is added, or copied if its mtime did not change, or
\* updated.  After the last directory all sections left are removed.
Turn(old, acc) ==
    LET more == acc.section <= Len(old)
        s == old[acc.section]
        d == Walk[acc.place]
    IN  IF acc.place > Len(Walk) THEN IF more THEN RemoveDir(acc, s) ELSE acc
        ELSE IF d \notin DOMAIN folder THEN [acc EXCEPT !.place = @ + 1]
        ELSE IF more /\ PathOrder[s.dir] < PathOrder[d] THEN RemoveDir(acc, s)
        ELSE IF ~more \/ s.dir # d THEN AddDir(acc, d)
        ELSE IF s.mtime = folder[d].mtime THEN CopyDir(acc, d, s)
        ELSE UpdateDir(acc, d, s)

Start == [place |-> 1, section |-> 1, out |-> <<>>, lines |-> <<>>]

Turns(old) ==
    LET turns[i \in 0 .. Len(Walk) + Len(old)] ==
            IF i = 0 THEN Start ELSE Turn(old, turns[i - 1])
    IN  turns

\* create_diff: out is the new FILE_SHARE, lines is FILE_DIFF.
Diff(old) == Turns(old)[Len(Walk) + Len(old)]

-----------------------------------------------------------------------------
(* Sending it *)

Starts(lines) == {k * MaxLines + 1 : k \in 0 .. Len(lines)} \cap DOMAIN lines

\* Variant: a packet takes a line too many.
WidePackets(lines) ==
    {[time |-> now, lines |-> SubSeq(lines, i, Min({i + MaxLines, Len(lines)}))] :
        i \in Starts(lines)}

\* send_share: packets of at most MaxLines lines.
Packets(lines) ==
    {[time |-> now, lines |-> SubSeq(lines, i, Min({i + MaxLines - 1, Len(lines)}))] :
        i \in Starts(lines)}

\* add_files and add_sp_file: insert_file ignores an entry that is there,
\* remove_file one that is not; so the last line of an entry decides.
Apply(entries, lines) ==
    {e \in Entry :
        \/ e \in entries /\ \A i \in DOMAIN lines : lines[i].entry # e
        \/ \E i \in DOMAIN lines :
              /\ lines[i] = [op |-> "+", entry |-> e]
              /\ \A j \in DOMAIN lines : j > i => lines[j].entry # e}

LinesIn(packets) == UNION {Range(p.lines) : p \in packets}
Sent(packets) == {l.entry : l \in LinesIn(packets)}

\* The entries that occur in a "+" and a "-" line.
Contradicted(lines) ==
    {l.entry : l \in {x \in lines : x.op = "+"}}
        \cap {l.entry : l \in {x \in lines : x.op = "-"}}

Doubled(sections) ==
    {e \in Entry : \E i, j \in DOMAIN sections :
        i # j /\ e \in Entries(sections[i]) \cap Entries(sections[j])}

\* The difference from listing old is made, and entered in the own index (sp)
\* or sent.  The index has entries, and packets are on their way to it.
Publish(sp, old, entries, packets) ==
    LET d == Diff(old)
        sent == IF sp THEN {} ELSE Packets(d.lines)
    IN  /\ is_sp' = sp
        /\ share_file' = d.out
        /\ indexed' = IF sp THEN Apply(entries, d.lines) ELSE entries
        /\ unacked' = packets \cup sent
        /\ doubtful' = doubtful \cup Doubled(old) \cup Doubled(d.out)
               \cup Contradicted(Range(d.lines) \cup LinesIn(packets))
               \cup IF old = <<>> THEN (entries \cup Sent(packets)) \ AllOf(d.out) ELSE {}

Tick == now < MaxTime /\ now' = now + 1

\* The user's command update (keyboard_handler).
Update ==
    /\ Tick
    /\ share_file # <<>>
    /\ Publish(is_sp, share_file, indexed, unacked)
    /\ UNCHANGED <<folder, lost>>

\* The client is accepted by a superpeer, which has nothing of it, and lists
\* the folder anew (ack_handler).
Join ==
    /\ Tick
    /\ ~is_sp
    /\ Publish(FALSE, <<>>, {}, {})
    /\ lost' = {}
    /\ UNCHANGED folder

\* It is accepted by the superpeer it had, which still lists it and keeps what
\* it has of it (join_handler).
JoinAgain ==
    /\ Tick
    /\ ~is_sp /\ share_file # <<>>
    /\ Publish(FALSE, <<>>, indexed, unacked)
    /\ UNCHANGED <<folder, lost>>

\* It becomes superpeer, with an empty index (ack_handler, promote_handler).
BecomeSuperpeer ==
    /\ Tick
    /\ ~is_sp
    /\ Publish(TRUE, <<>>, {}, {})
    /\ lost' = {}
    /\ UNCHANGED folder

-----------------------------------------------------------------------------
(* The packets *)

\* A packet arrives, and may be repeated.
Deliver(p) ==
    /\ indexed' = Apply(indexed, p.lines)
    /\ UNCHANGED <<folder, share_file, unacked, is_sp, now, doubtful, lost>>

\* It arrives, and so does its ACK.
DeliverLast(p) ==
    /\ indexed' = Apply(indexed, p.lines)
    /\ unacked' = unacked \ {p}
    /\ UNCHANGED <<folder, share_file, is_sp, now, doubtful, lost>>

\* The retransmission thread gives it up.
GiveUp(p) ==
    /\ unacked' = unacked \ {p}
    /\ lost' = lost \cup {l.entry : l \in Range(p.lines)}
    /\ UNCHANGED <<folder, share_file, indexed, is_sp, now, doubtful>>

-----------------------------------------------------------------------------
(* What the user does to the folder *)

\* Before the first listing the folder is one of Folders.
Changed(f) ==
    /\ Tick
    /\ share_file # <<>>
    /\ folder' = f
    /\ UNCHANGED <<share_file, unacked, indexed, is_sp, doubtful, lost>>

With(files, n, file) ==
    [x \in DOMAIN files \cup {n} |-> IF x = n THEN file ELSE files[x]]

Without(files, n) == [x \in DOMAIN files \ {n} |-> files[x]]

\* A file is put at a name.
Put(d, n, m) ==
    Changed([folder EXCEPT
        ![d] = [mtime |-> now, files |-> With(@.files, n, [mtime |-> now, md5 |-> m])]])

\* A file is changed in place: that does not touch the directory.
Edit(d, n, m) ==
    /\ m # folder[d].files[n].md5
    /\ Changed([folder EXCEPT ![d].files[n] = [mtime |-> now, md5 |-> m]])

DeleteFile(d, n) ==
    Changed([folder EXCEPT ![d] = [mtime |-> now, files |-> Without(@.files, n)]])

\* A file goes to another directory and keeps its mtime.
Move(d, n, to) ==
    /\ d # to
    /\ Changed([folder EXCEPT
           ![d] = [mtime |-> now, files |-> Without(@.files, n)],
           ![to] = [mtime |-> now, files |-> With(@.files, n, folder[d].files[n])]])

MakeDir(d) ==
    /\ d \notin DOMAIN folder /\ Parent[d] \in DOMAIN folder
    /\ Changed([x \in DOMAIN folder \cup {d} |->
           IF x = d THEN [mtime |-> now, files |-> <<>>]
           ELSE IF x = Parent[d] THEN [folder[x] EXCEPT !.mtime = now] ELSE folder[x]])

\* A directory without subdirectories goes with its files.
DeleteDir(d) ==
    /\ d # Root
    /\ \A x \in DOMAIN folder : Parent[x] # d
    /\ Changed([x \in DOMAIN folder \ {d} |->
           IF x = Parent[d] THEN [folder[x] EXCEPT !.mtime = now] ELSE folder[x]])

-----------------------------------------------------------------------------
ShareInit ==
    /\ folder \in Folders
    /\ share_file = <<>>
    /\ unacked = {}
    /\ indexed = {}
    /\ is_sp = FALSE
    /\ now = 1
    /\ doubtful = {}
    /\ lost = {}

UserChanges ==
    \/ \E d \in DOMAIN folder :
          \/ \E n \in Name, m \in Md5 : Put(d, n, m)
          \/ \E n \in DOMAIN folder[d].files :
                \/ \E m \in Md5 : Edit(d, n, m)
                \/ DeleteFile(d, n)
                \/ \E to \in DOMAIN folder : Move(d, n, to)
          \/ DeleteDir(d)
    \/ \E d \in Dir : MakeDir(d)

ShareNext ==
    \/ UserChanges
    \/ Update \/ Join \/ JoinAgain \/ BecomeSuperpeer
    \/ \E p \in unacked : Deliver(p) \/ DeliverLast(p) \/ GiveUp(p)

ShareSpec == ShareInit /\ [][ShareNext]_share_vars

-----------------------------------------------------------------------------
(* Properties *)

\* Every variable has its type; the listing has a directory once.
ShareTypeOK ==
    /\ IsFolder(folder)
    /\ \A i \in DOMAIN share_file :
          LET s == share_file[i]
          IN  s \in [dir : Dir, mtime : Time, files : {s.files}] /\ IsFiles(s.files)
    /\ \A i, j \in DOMAIN share_file : share_file[i].dir = share_file[j].dir => i = j
    /\ \A p \in unacked :
          p.lines \in Seq([op : {"+", "-"}, entry : Entry]) /\ Len(p.lines) \in 1..MaxLines
    /\ indexed \subseteq Entry
    /\ is_sp \in BOOLEAN
    /\ now \in 1..MaxTime
    /\ doubtful \subseteq Entry /\ lost \subseteq Entry

\* A new listing has the directories of the folder and their files; it may
\* have the old md5 of a file only if it was changed in place and its
\* directory left alone since the listing before (diff, copy_dir).
ListingRight ==
    [][share_file' # share_file =>
        /\ {s.dir : s \in Range(share_file')} = DOMAIN folder
        /\ \A s \in Range(share_file') :
              LET d == folder[s.dir]
              IN  /\ DOMAIN s.files = DOMAIN d.files
                  /\ \A n \in DOMAIN d.files :
                        \/ s.files[n] = d.files[n]
                        \/ /\ s \in Range(share_file)
                           /\ s.mtime = d.mtime
                           /\ s.files[n].mtime < d.files[n].mtime]_share_vars

\* What the superpeer has of the client is what the client listed last, except
\* for what is on its way, what was given up, and the doubtful entries.
IndexExact ==
    share_file # <<>> =>
        \A e \in Entry \ (doubtful \cup lost \cup Sent(unacked)) :
            e \in indexed <=> e \in Listed

\* Help text of the client: update brings the list of the shared files up to
\* date and sends it -- when everything has arrived, the superpeer has all
\* that is listed.
SharedFilesIndexed == unacked = {} /\ lost = {} => Listed \subseteq indexed
=============================================================================
