# Karmanet, modelled and checked

Karmanet is a peer-to-peer file sharing program in C. A **bootstrap server**
knows the superpeers; a **client** is a peer or a superpeer. A superpeer serves
a bounded number of peers over UDP, keeps an index of the files they share,
forwards queries to other superpeers over TCP, and promotes one of its peers
when it is full. Files are fetched in chunks over TCP from several owners.

The repository has no tests. What the modules translate is the C code; the
README of the program, its help text and its comments are used only as the
statements some of the findings refute.

All paths below are relative to the repository; `client.c` is
`src/client/client.c` and so on.

## Inventory

| Component | State | Operations | Interacts with |
|---|---|---|---|
| Bootstrap server (`bootstrap.c`, `sp_list.c`, `sp_list_checker.c`) | list of superpeers with flag and free spots, rotating iterator, `sp_count` | REGISTER, PING, LEAVE, JOIN (answer LIST or PROMOTE), sweep every period | two threads, `thinfo.mutex`; UDP to all clients |
| Linked list (`list.c`) | head pointer, next/prev | insert, sorted insert, remove | every list below |
| Retransmission engine (`retx.c`, `packet_list.c`) | list of packets with counters | send, stop, a pass per second, ERR through the pipe | a thread, `retx_mutex`, the pipe to the main loop |
| Peer list (`peer_list.c`, `peer_list_checker.c`) | ordered list of peers, `curr_p_count`, flags | JOIN, PING, LEAVE, REGISTER of a child, sweep | main thread and checker, `thinfo.mutex` not always taken |
| Promotion and child (`superpeer.c`, handlers of `client.c`, `pinger.c`) | `state`, `have_child`, `child_addr`, missed pongs, `promote_ttl` | JOIN when full, ACK, ERR, ABORT, REGISTER, PONG, leave | main thread, checker, pinger, retransmission thread |
| Client session (`client.c`, `sp_checker.c`, `thread_util.c`) | `state`, `is_sp`, candidate addresses, running threads, `sp_flag` | join through bootstrap and superpeers, be promoted, be redirected, lose the superpeer, leave | bootstrap, superpeer, sp_checker, pipe |
| Overlay of superpeers (`superpeer.c`, `near_list.c`, `select_util.c`) | list of neighbours, descriptor set | connect, accept, close | main thread and pinger, two locks |
| Query flooding (`fifo_request.c`, `client.c`) | requests seen, with a ttl | WHOHAS, forwarding, aging | neighbours, checker |
| File index (`hashtable.c`) | three cross-linked hash tables: by name, by digest, by owner | add, remove, remove all of an owner | main thread and checker |
| Transfers (`transfer_list.c`, `uploader.c`, `downloader.c`) | pools of threads, queue of downloads, chunk map in a `.part` file | accept, upload, download, resume | threads, condition variables, files |
| Shared folder (`shared.c`) | list of shared files and a difference file | diff, merge | file system |
| Helpers (`packet_util.c`, `inetutil.c`, `ioutil.c`, `config.c`, `md5_util.c`, `peerrate.c`) | none | conversions, I/O | |

### What is hard here, and what makes each component correct

* **Bootstrap server.** Any removal may hit the iterator's node; the sweep
  races with late PINGs; the list is seen not empty, unlocked, and read again
  later. Correct: list, count and iterator agree; a dead superpeer is delisted
  after at most two sweeps and a live one never; LISTs rotate over all; the
  server answers.
* **Retransmission engine.** Successes and failures mix, answers arrive late or
  match by index only. Correct: bounded effort, growing delay, exactly one
  verdict per packet, every packet resolved.
* **Peer list.** The main thread unlinks and counts without the lock the sweep
  holds. Correct: capacity kept, silent peers delisted, others not, files only
  of members, the head is the best peer.
* **Promotion and child.** Four threads and the pipe write one `state`.
  Correct: a promotion ends, the child is one we promoted, a silent child is
  forgotten, the user's leave ends the program.
* **Client session.** Answers to abandoned requests, error reports that name a
  command and not a packet, threads stopped and started while their last
  message is in the pipe. Correct: a client ends up with a superpeer, as one,
  or gives up; never two of a thread; it always hears of the loss of its
  superpeer.
* **Overlay.** Two locks and early returns; a neighbour closed while it is
  iterated over. Correct: descriptor set and list agree, locks are released.
* **Flooding.** Duplicates, cycles, expiry. Correct: each query is forwarded at
  most once while it is remembered and is not lost within its ttl.
* **File index.** Nodes in three lists freed while walked. Correct: the three
  indexes are views of one set of (file, owner).
* **Transfers.** Condition variables without predicates, double reports of an
  end, a crash between chunk and chunk map. Correct: slots are neither lost nor
  gained, a resumed file is complete when it says so.

`PROJECT.json` lists the hazards at their lines.

## Modules

| Module | Models | EXTENDS / uses |
|---|---|---|
| `Bootstrap` | the server: list, sweeping thread, main loop | |
| `Lease` | abstract: members, ages, rounds of checks | implemented by `Bootstrap` |
| `Retx` | the retransmission engine | |
| `PeerTable` | list of peers, the owners in the file index, the checker | |
| `Superpeer` | promotion, child, leave, pinger, `promote_ttl` | EXTENDS `PeerTable`, which it implements |
| `Session` | the client on its way to a superpeer, as its peer, and on its way to become one; `sp_checker` | |
| `FileIndex` | the three tables of a superpeer's file index, main thread and checker | |
| `Catalog` | abstract: a set of entries with owners | implemented by `FileIndex` |
| `Share` | the shared folder, its listing and difference, the packets to the superpeer and the index that results | |
| `Overlay` | one superpeer's connections: list of neighbours, descriptor set, locks, the walk of the main loop and of `tcp_ping` | |
| `Flood` | a query in the overlay of several superpeers | |
| `Uploads` | the pool of upload threads and the main loop | |
| `Downloads` | the list of downloads, the pool of threads, part files and `DOWNLOADS` | |
| `Lists` | what is left of a list after several nodes went: `Picked`, `Minus` | used by `FileIndex`, `Downloads` |
| `ListLemmas` | lemmas on the operators on lists, on first places, on sequences with each element once and on small sets | `Lists` |
| `BootstrapProofs`, `SessionProofs`, `FileIndexProofs` | theorems | their component, `ListLemmas` |
| `SendingProofs` | theorems about the retransmission engine, and about the shared folder | `Retx`, `Share`, `ListLemmas` |
| `PeerTableProofs` | theorems about the list of peers, and about a superpeer that promotes | `Superpeer`, `ListLemmas` |
| `OverlayProofs` | theorems about connections, and about a flood | `Overlay`, `Flood`, `ListLemmas` |
| `TransfersProofs` | theorems about uploads and downloads | `Uploads`, `Downloads`, `ListLemmas` |
| `MC...` | the instances TLC checks, one for each component | |

A definition named `<Adjective><Name>` under a comment "Variant:" is a
plausible mistake in the definition that follows it; no specification uses it.
Each property was seen to fail with one of them.

### How state and actions correspond to the code

* A list of nodes is the sequence of their addresses; the other fields of a
  node are functions of the address, which is unique in the list. A removed
  node's fields are put back to a fixed value.
* The main thread is a program counter (`main`): `"recv"` is `select`, the other
  values are places in a handler at which another thread can see or change what
  the handler goes on to use. A handler no other thread can observe half done
  is one action. The checker threads have a cursor (`pos`, `cursor`) and take
  one action per node.
* UDP loses, repeats and reorders, and a peer may be in any state. The main
  loop is therefore offered every command of every peer at all times; that
  includes all those behaviours, and a lost datagram is one the loop never
  takes. An ACK is offered only if it acknowledges something that was sent.
* History variables (`periods`, `sends`, `fails`, `quiet`, `reported`, `acked`,
  `promoted`, `answerable`, `pinged`, `strayed`, `served`, `beyond`, `failed`) are read by
  properties, or by the choice of ACKs a peer can send, and by no guard that stands for
  code. (`beyond` also lets the process end once the heap was overwritten, `spurious`
  bounds how often a thread wakes without a signal.)
* `retx_send` may fail anywhere it is called, and then keeps `retx_mutex`. The modules of
  the client have this as a choice of the action that sends (`Ask`, `SendFails`,
  `KeepLock`): nothing is under way then, and whoever locks that mutex next waits for ever
  (`Block`, a pinger that is `"stuck"` or `"stopped"`, `Stall` in `Flood` and `Uploads`).

*Bootstrap.* `InsertSp`, `RemoveSp`, `NextOf` are `insert_sp`, `remove_sp`,
`get_addr`. A JOIN is split where the code releases the lock: `JoinListed`,
then `ReadCount` (which reads `sp_count` unlocked) and `FillList` for a peer, or
`StartPick`, `PickNode`, `EndPick`, `WalkNode` for a superpeer, whose answer is
read from nodes after the unlock. `FillCrash` is `get_addr` on a NULL iterator.

*Retx.* Since packets enter at the head and only the main thread enters them,
the list is a set of numbered packets. `Pass` is one round of `retx_func` under
`retx_mutex`, with any outcome of each `send_packet`. `RetxSendFails` is the
early return that keeps the mutex.

*PeerTable.* `Join` and `Ping` hold `thinfo.mutex`; `RemovePeer` (LEAVE, REGISTER)
does not and may fall between two steps of a sweep. `curr_p_count--` is a step of
its own in both threads (`CountMain`, `CountChecker`), and `CountBoth` is the lost
update their race allows. `SweepFreed` is the checker on a node the main thread
has freed; the model ends there and claims nothing of what follows.

*Superpeer.* `GetHead` and `SendPromote` are the two halves of `promote_peer`;
`Acknowledged` is `ack_handler`, which moves `state` whatever was acknowledged;
`AgePromote` and `ExpirePromote` are the checker's unlocked read and write of
`state`. The retransmission engine is reduced to what `Retx` shows of it: a
request is answered or an ERR reaches the pipe. The pinger's round begins with
`mutex_send` and `tcp_ping`: it stops for good where the first waits for a mutex that was
kept (`KeepLock`) or the second fails (`PingNeighboursFails`), and the child is pinged no
more.

*Session.* Each handler of `client.c` is an action with the state it is received
in as a disjunct (`Acked`, `ListHandler`, `Promoted`); `pending` counts the copies of
a request that `retx.c` repeats, and `answerable` are the requests whose answers may
still be under way after that ended, so late, repeated and stray answers all
occur. `given_up` keeps the nodes that `retx_func` reported and left in the list,
which an ERR still finds. `StopThreads` is `stop_threads` up to `pthread_join`;
the main thread then waits in `"rejoin"`, `"reset"` or `"register"` until `sp_checker` and
the pinger are `"ended"` (`Joined`) and meanwhile handles nothing. `Ping` and
`PingNeighbours` are the pinger as far as that wait depends on it. `Ask` is a `retx_send`
and the assignment to `state` that follows if it succeeds. `CheckSp` and `WriteReset` are the
two parts of `sp_checker_func`, between which it holds no lock. Where the code
follows `sp_checker` or joins a pinger that is not there, `main` is `"crashed"` and
the model ends. `pthread_kill` on a thread that ended and was not joined succeeds,
as POSIX has it.

*FileIndex.* A file of a peer is an `addr_node`, an `md5_info` and a `file_info` that
point at each other: one entry, in a list of each table. `Find` and the two ways
of `AddAt` are the loops of `insert_file`, with its comparison by prefix (`Prefix`);
`Without` is the removal from one table with the node that becomes empty. It uses
`Minus` and `Picked` of `Lists`, which say by a choice of places what `SelectSeq` says by
recursion and a proof could not unfold. The checker
goes through `remove_all_file` one file an action (`SweepFile`); a file freed under
it by the main thread makes it `"lost"`, then `"crashed"`. `served` is the peer a step was
made for, and `Catalog` lets a step change entries of that peer only: this is how a
removal that took another peer's file, at the same address or not, would show.

*Share.* `folder` is what is on disk, `share_file` the sections of `FILE_SHARE`. `Diff`
computes the new listing and the lines of `FILE_DIFF` turn by turn: a `Turn` is what `diff`
does at one directory with one section it reads, and `Turns` are as many as there are
directories in the order the code visits them, and sections, which are compared by the
path (`PathOrder`, `strcmp`). `Apply` says what entering lines one after another comes to:
the last line of an entry decides. `Publish` is what every caller of `create_diff` does
next: packets (`Packets`, `send_share`) or the own index. One change, join or update falls on
one second, since mtimes count seconds; two in one second, which the code cannot tell
apart, are outside the model. So is a folder that at the start has two files of one name
and mtime with different contents. The folder does not change during `create_diff`, the
user does not update before the first join, and a copy of a packet that arrives after its
ACK is left out.

*Overlay.* `sock` is what the kernel has for a descriptor. `Accept`, `Insert` and `Count` are
`accept_conn` before, under and after `NEAR_LIST_LOCK`; `Join` is one turn of
`join_overlay`, which unlike `accept_conn` does not look how many connections there are
and then writes past the end of `near_str` (`beyond`, after which the process may end at any
time, `HeapCorrupted`); `Select`, `Visit`, `Close`, `Delete` and `WalkFreed` are the last branch
of the main loop with `tcp_handler` and `close_conn`, split where the pinger can come
between; `Block` is a main thread that waits for `retx_mutex` for ever. `"send"` of the pinger is the place where it holds the mutex of a node, which
`pthread_mutex_destroy` then refuses (EBUSY, as glibc does): the node stays, its
descriptor is closed (`stale`). A node freed under either thread is followed as it was,
as junk, or the process ends. `Room` is `MAX_FD_SIZE` less the five descriptors
`main` and `init_superpeer` add.

*Flood.* `links` are the connections, `reads` who reads what whom sends (a connection beyond
the array of `select` is written to and never read), `known` what lists of neighbours a
superpeer may hold for another: the one of the last PING, and any at all before the first
PING or after one of the two has left, as `create_new_near_node` leaves the node as malloc
found it. `chan` are the copies under way in each direction with their TTL, in order; what
nobody will read is left out of it. `Ask` and `Receive` are
`whohas_request_handler` for a peer and for a neighbour; `Send` is `flood_overlay`.
A `JoinOverlay` or `LeaveOverlay` is a superpeer's whole coming or going, `gone` keeps the
neighbours that were not read and so are listed still; a `Stall` is a main thread that
waits for `retx_mutex` for ever. A PING reaches all neighbours that read in one step.
The superpeers connected with one, `Component`, are those in every set that has it and is `Closed`.

*Uploads.* `sleeping`, `socksd`, `upload_count` and the pipe are those of the code; a
signal reaches a thread only at `"wait"`, otherwise the thread is `deaf`. `ChunkFails`
is the `continue` inside the loop over chunks, which closes, reports and goes on; `BrokenPipe`
is a write to a client that hung up, which raises SIGPIPE and ends the process. `WakeSpuriously`
is `pthread_cond_wait` returning without a signal: the thread reads from the socket it had
last, or in its first round from whatever number `malloc` left there, taken to be no
connection of the pool.

*Downloads.* A thread's `at` names the place between two writes to disk. `WriteCount` and
`WriteEntry` are the two writes of `write_filepart`; `Missing` is `get_missing_chunk`, the
chunks that are `Absent` from the entries, with its array of the size `load_file_part`
computed. Names that `Uploads` has as well are longer here (`DownloadsSpec`, `dvars`), as one
module proves about both. `Crash` falls anywhere and leaves, of
the two files rewritten in several steps, what they can be found as.

## Runs

| Run | Shows |
|---|---|
| `bootstrap` | three clients, LISTs of two: the list is consistent; dead superpeers are delisted in time and live ones are not; `Lease` is implemented; the rotation starves nobody |
| `bootstrap_crash` | finding: a JOIN may crash the server |
| `retx` | two packets, two indexes, `MAX_RETX` as in the code: effort, backoff, one justified verdict, every request resolved |
| `peer_table` | four peers, room for three: capacity, timely and justified delisting |
| `superpeer` | two peers, room for one: promotions end, a silent child is forgotten while the pinger runs |
| `session` | two superpeers: threads are started only when none run; a client that looks for a superpeer is never left with no JOIN under way, except after a refusal by a superpeer it was redirected to and after a request that could not be sent; `stop_threads` returns unless the pinger is blocked; a silent superpeer is noticed |
| `file_index` | colliding names and addresses, prefixes, two peers at one address: the tables agree, implement `Catalog`, in which no operation touches another peer's files, and a silent peer's files go although the main thread works on the same lists |
| `share` | four nested directories, all changes by a user, five events: a listing is the folder as it is, and the index is the listing up to what is on its way, given up or doubtful |
| `downloads` | two threads, two files of one name, one crash: a part file is truthful, a completed download complete |
| `flood` | four superpeers in four overlays and one with a connection that is not watched, any lists of neighbours to begin with, one superpeer coming, going or stalling: whoever must get the query gets it; floods end |
| `uploads` | two threads, four connections, one spurious wakeup: exact count; threads sleep again unless they missed a signal, SIGPIPE ended the process or the main thread is stalled |
| `overlay` | two addresses, three descriptors, a string for two addresses and an array for two connections, three connections in all: at `select` all tables agree until an address is written past the string; neighbours that hang up are dropped unless the main thread is blocked |

What the properties exclude is part of their statement, and each exclusion was
checked to be needed. `IndexExact` leaves out entries that are `doubtful`: in two
directories at a time, in a "+" and a "-" line at a time (a file that moved), or
not taken back by a client that joins its old superpeer again. `CompleteMeansAll`
and `PartTruthful` leave out a name for which two threads wrote *different* files at
a time. `CountExact` ends where a thread failed in mid-service or woke without a signal,
`SleepsAgain` at a lost signal, where SIGPIPE ended the process and where the main thread waits
for `retx_mutex` for ever, `NeighbourDropped` there as well, and with `TableExact` at a node
whose deletion failed and at an address written past `near_str`.
`JoinUnderWay` ends at a `retx_send` that failed and at a refusal from outside the LIST,
`StopReturns` at a pinger that waits for a lock that was kept, `SilentChildForgotten` where
the pinger has ended or waits for one. `AllReached` claims nothing of a query put while some
connection is not watched, nor of a flood during which the overlay changed, a superpeer spared a
neighbour the sender did not have (its list for the sender was out of date, or was junk or
that of another node before the first PING), or a superpeer had forgotten the query
before its last copy came. That last
exclusion was found by the proof: let `a` be asked, with connections `ab`, `an`, `bn`, `nd`,
`bc`, `be`, `ce`, a TTL of 5 and `REQUEST_TTL` 0, and let `b` know by a PING that `a` has `n`.
Then `b` skips `n`, the query goes round `b`, `c`, `e`, comes back to a `b` that has forgotten
it and goes on to `n` with a TTL of 1; where it is ahead of the copy from `a`, `n` takes it
for the first one, drops the better one, and `d` hears nothing. No bound on the delay of a
connection says that a superpeer remembers for longer than a flood takes.

**Promises the code does not keep.** The modules state, without a run, what a comment
or help text says and the model does not satisfy; added to the configuration of the
component, each is violated: `PeerTable!FilesOfMembers` (a file list that arrives
after its peer left is entered; `client.c:505`), `PeerTable!HeadIsBest` (`peer_list_checker.c:138`
against the comment at `peer_list.c:133`), `Superpeer!ChildWasPromoted` (any ACK makes
its sender the child; `client.c:458`), `Superpeer!LeaveCloses` (`client.c:1490`),
`Session!ResetMeansEnded` (`client.c:1637` against the comment at 1608),
`Share!SharedFilesIndexed` (a moved file disappears from the index; `shared.c:265`
against the help text at `client.c:708`). `bootstrap_crash` is such a run.

**Bounds.** Three superpeers or peers make a list with a first, a middle and a
last node, the cases of `remove_node`; a fourth peer meets the full list. A
LIST of two is cut and wraps around. `free_spots` is cut to 0..1: only
"positive" is tested. Ages are bounded by what is proved of them (no listed
member gets past 2). In `Retx`, packets interact only by index, so two suffice,
with `MAX_RETX` unreduced; `MaxPackets` is the only bound. In `Superpeer` a peer is
the promoted one, the child, the one that leaves or the one that joins; two
peers with room for one give every pair of roles. `MaxMissPong` and
`PromoteTtl` are 1 instead of 3 and 5: the code compares them with 0 and with
the limit only. `MaxUnanswered` is 1: one PROMOTE, or its error, is under way at a time,
and one LEAVE waits for its ACK at a time. In `Session` one LIST of two
superpeers has a current address, a next one and a last one, and lets each redirect
to the other. `MaxSame` is 1: a second copy of the same request changes nothing
the handlers can tell. `MaxPipe` is 1: a give-up or a new session finds an empty
pipe, but an RST may join a line there, so two lines of either order occur.
`MaxBsError` and `MaxJoinOvTry` are 1 instead of 5, compared with their limit only.

`FileIndex` has the smallest instance in which buckets have two nodes and lists three
entries; three tables of three entries are 30000 states. In `Share`, `s/a`, `s/a/x` and
`s/a-b` are the shortest paths whose order by `strcmp` is not the order of the walk, two
lines a packet make a difference of several packets, and five events are two updates
with two changes between. In `Flood`, `TTL` is 3 for 4 superpeers, and `FloodAssumption` says
what it must be: as only the first copy is sent on, it must last for the longest detour,
so the code's 6 is enough for certain up to seven superpeers. One superpeer comes, goes or
stalls (`MaxChanges`). `REQUEST_TTL` is 0: queries
are forgotten as fast as can be. In `Uploads` four connections let both threads serve twice
and one miss a signal; one wakeup without a signal (`MaxSpurious`) may fall anywhere.
In `Downloads` three chunks are a first, a middle and a last one, and three gets are two downloads at a time and one that resumes. In `Overlay` three
descriptors leave one to be used again while two are in use, and let `join_overlay` pass a
limit of two; with room for two connections in the array of `select` the third, which may
come after one of them ended, is not watched.

**Deadlock** is not checked where the program may stop: the server may crash, the
client may exit or hit freed memory, `retx_mutex` may be lost, and the bound on
packets may be used up.

**Fairness.** `Retx` assumes weak fairness of `Pass`: the thread sleeps a second
and waits for the mutex. `Superpeer` assumes it of `Check` and of `PingChild`, loops
with a sleep each; `PingChild` is not enabled any more once the pinger is `"stopped"`. `Session`
assumes it of `Watch`, the checker, which sleeps 12 seconds and needs no lock that is held for
long, of `Ping`, which leaves a pinger that waits for `retx_mutex` in `"stuck"`, and of
`Return`, the join of threads that have ended. Nothing is assumed there of the network, of
peers or of the user.
`FileIndex` assumes that the checker goes on; `Flood` that each main loop gets to each
connection it watches: copies to a superpeer that does not watch, or that stalls, are not in
`chan`. `Uploads` assumes that threads run, that the pipe is read and that other
clients hang up in the end, as long as the process runs and, for the pipe, the main thread is
not stalled: `recv` has no timeout, so without it a silent client keeps a thread for ever.
`Overlay` assumes that the main thread runs unless it is blocked, that a `tcp_ping` that began
comes to its end (nothing is assumed of its beginning, before which the pinger locks `retx_mutex`),
that `select` comes to the neighbours that are watched in the end (the other descriptors go
first) and that neighbours read what they are sent. `Share` and `Downloads` have no fairness: a packet may be given up and a
peer may be silent for ever, so nothing is promised to happen.
`Bootstrap` and `PeerTable` have none; `RoundRobin` is stated under the condition
that LISTs go on being sent.

## Proofs

`TLAPS` proves for every set of addresses, capacity and bound:

* `BootstrapProofs`: type correctness, `ListConsistent`, `SilentDelisted`,
  `DelistedOnlyAfterSilence`, and `Spec => LeaseImplemented`. The inductive
  invariant joins `TypeOK` and `ListConsistent` with what the sweep's cursor means: 
  members before the cursor were refreshed or have age at most one, those from it
  on are as old as their flag says. Without the part on the cursor the end of a
  sweep says nothing about the members it passed.
* `SendingProofs`, the engine: type correctness, `EffortBounded`, `ReportJustified`,
  `FinishedIsFinal`, `BacksOff`. The invariant relates counters to history: what
  was sent equals `nretx` while a packet is listed, and countdown plus quiet
  passes equals the copies sent.
* `PeerTableProofs`, the list: type correctness, `CapacityKept`, `SilentDelisted`,
  `DelistedOnlyAfterSilence`. `Counting` says that the count exceeds the length
  by at least the decrements still to come, so that even a lost one leaves it
  large enough; `Silence` relates flags, ages and the part of the list a sweep
  has passed although LEAVEs remove nodes under it.
* `PeerTableProofs`, the superpeer: `SuperpeerTypeOK`, and that `SuperpeerSpec` implements the
  specification of `PeerTable` when what the two threads do apart from the list is read as
  waiting (`MainOfTable`, `CheckerOfTable`); what `PeerTable` promises therefore holds while
  peers are promoted, too, and is stated once more of `SuperpeerSpec`. The invariant adds to
  that of the list that `PROMOTE`s under way and their errors fit the bound together, with
  the one the main thread is about to send (`PromoteOK`).
* `SessionProofs`: type correctness, `OneCrew` and `JoinUnderWay`. `OneCrew` becomes
  inductive with two facts about the threads: a checker runs only beside a pinger, so
  that a promotion in JOINBS_SENT finds no checker left, and threads are joined only
  where there are any. A client in JOINBS_SENT or JOINSP_SENT has none, so an RST read
  there crashes it and never takes the place of the ERR of its JOIN: this is why
  `JoinUnderWay`, which counts on that ERR, holds. Where `retx_send` fails nothing is promised:
  `kept` is never taken back, so what follows it need not be known.
* `OverlayProofs`: `TableExact`. The invariant says for every place the main thread can
  be at which connections there are: those of the nodes, with the one that is accepted
  and has no node yet, without the one that is closed and has its node still. A
  descriptor that is free has no node, so a node is never inserted for a descriptor
  that another has; the node the walk goes on at is in the list and is not the one
  that is deleted. It is claimed while `stale` and `beyond` are empty, which no step makes
  them again.
* `OverlayProofs`, the flood: `AllReached`, for any overlay and a TTL that lasts for the
  longest detour. The invariant says of a flood of which something is promised that a
  neighbour of a superpeer that handled the query has handled it, too, or gets a copy from
  one or another (`Covered`: whom `flood_overlay` skips, the sender has served), and that a
  copy has spent one of its TTL for each superpeer that handled the query, at most
  (`Spent`), so that a copy that is dropped for its TTL finds no superpeer left. When no copy
  is on its way, those that handled the query are `Closed`, which is what `Component` asks for.
* `FileIndexProofs`: type correctness, `TablesAgree` and `Spec => CatalogImplemented`.
  The invariant joins `TypeOK`, the types of the tables and `TablesAgree`, which is
  inductive with them: it names for each table the buckets, the keys of their nodes and
  the entries on each list, all from one set of files. The proof goes up from a bucket
  (an entry is put where `Find` says, or taken out, and nodes left empty go) to a table
  (the other buckets stay) to a step (three tables by three keys). The place where `Find`
  stops is a node of the key, or no node of the bucket has it: every set of places has
  a least one, which stands in for an induction along the list. For names this needs
  that a name begins with itself. Each step then is a step of `Catalog` or none.
* `SendingProofs`, the shared folder: `ShareTypeOK`, `IndexExact` and `ListingRight`, for any
  directories, files, changes, number of updates and size of packets. That a difference
  is right is proved of every turn: `AccOK` says that the new listing has the directories
  the walk has passed (`OutOK`), and that its entries and those of the sections read so far
  differ by the lines, doubled entries apart (`Differ`). A turn that breaks it would be the
  first one to, and the turn before it did not: the least wrong turn stands in for an
  induction. The lines of a difference are those of its packets together, none lost at a
  cut. The invariant adds to the types what the next difference needs of the listing: all
  mtimes are in the past (`Past`), a name and an mtime are one file (`OneFile`), a section
  with the mtime of its directory has its files (`ListingOK`: this is why `copy_dir` may
  trust the directory's mtime, and where a change in place escapes it). `FaithfulFor` an
  entry is the inductive form of `IndexExact`: all lines on their way say of it what is
  listed, so that any order and any number of deliveries comes to the same, and when none
  is on its way the index agrees. `IndexExact` alone does not say what a packet still to
  come will do. TLC checked each part on the instance of the run `share` first.
* `TransfersProofs`, uploads: type correctness and `CountExact`. `OwnConns` is the heart
  of the invariant: connections are fresh, so when a thread closes its own the others'
  stay open; `SlotOK` adds that a thread that serves has its connection open. Reports
  are followed through the pipe by the places they have in it.
* `TransfersProofs`, downloads: `TypeOK`, `PartTruthful` and `CompleteMeansAll`, for any pool,
  any files and any number of crashes. `PartTruthful` is not inductive: an entry is
  written two steps after its chunk, and in between another thread or a crash may come.
  `JobFits` says of a thread between the two that its chunk is there, `PartFits` of a part
  that its file is one of those written under its name and that what it lists is
  there; that is `PartTruthful`. It does not give `CompleteMeansAll`, since `download` asks
  for the length and for a count that several threads write. `Single` does where one
  file was written: every thread fetches the lowest chunk that misses (`Ahead`), so the
  data have no gap (`Straight`), and data of full length are whole. Where two files
  of one name were written, though never at a time, there may be chunks of the other
  one, and `Alone` does: no second thread writes, so the part has each chunk down once,
  the count is the number of its entries, or one more between the two writes
  (`PartExact`), and the thread has left what the part lacks (`JobExact`); nothing left
  means all are down, and what is down is there. A name outside both cases is `Mixed`,
  which the properties leave out. TLC checked the invariant on the instance of the run
  `downloads` before it was proved.
* `ListLemmas`: what removing or inserting one element does to the members and
  the positions of a sequence without duplicates; that a selection of places keeps
  the order, by counting the places before each; least places; the members of
  sequences with each element once; what a concatenation of sequences holds.

Assumptions are those on the constants in each module (`BootstrapAssumption`,
`RetxAssumption`, `PeerTableAssumption`, `SessionAssumption`, `OverlayAssumption`,
`UploadsAssumption`, `FileIndexAssumption`, `DownloadsAssumption`,
`SuperpeerAssumption`, `FloodAssumption`, `ShareAssumption`): NULL is no address,
superpeers are finitely many and the TTL lasts, the server is no superpeer, LISTs are
not empty, capacities and limits are positive, hash functions are defined on all keys, a
name begins with itself, the walk and the order of names have each directory and name
once, at the start a folder is older than the first second and has one file of a name
and mtime, files have at least one chunk and files of one name the same number (the
bound named under "Not modelled").

Only model-checked: all liveness (`RoundRobin`, `Resolved`, `PromotionEnds`,
`SilentChildForgotten`, `StopReturns`, `SilenceNoticed`, `SilentPeerForgotten`, `FloodEnds`,
`SleepsAgain`, `NeighbourDropped`), which is out of the prover's reach. All invariants and
safety properties of steps that the passing runs check are proved.

## Not modelled, and why

* Pointer updates inside `insert_node` and `remove_node` are atomic; two threads
  in the same `remove_node` (the unlocked LEAVE against a sweep at the same node)
  would free it twice, which is undefined and has no model here.
* Malformed packets, which the handlers drop without a change of state.
* The order in which `select`'s descriptors are served: UDP first, so steady
  traffic may keep the user, the pipe and the neighbours waiting. The safety properties,
  and those of `Session` and `Superpeer`, assume nothing of it; `FloodEnds`, `SleepsAgain` and
  `NeighbourDropped` hold where such traffic ends some time (Fairness).
* Packet layout, sockets, digests, the configuration, the measure of the upload rate:
  conversions and I/O without state a property could see.
* In `FileIndex`, two threads in the same list at the same instant. In `Uploads`, that
  the number of a socket that was closed is used again.
* In `Overlay`, the growth of `max_tcp_sock` when a list is longer than half of it, and
  the result of `join_overlay`, which compares all connections with the length of one
  list; `Session` lets both results happen.
* In `Downloads`, two names for one file and files of one name with two lengths.
  Peers that keep silent are there, but nothing is promised of them.

## What would come next

1. `Flood` composed with `Overlay`, so that a PING is a step for each neighbour.
