------------------------------- MODULE Uploads -------------------------------
(***************************************************************************)
(* The uploads of a client (uploader.c and the main loop of client.c).  A  *)
(* pool of threads serves files; each waits on a condition of its own.  The*)
(* main thread accepts a connection, gives it to a thread that sleeps and  *)
(* signals the condition; the thread serves it and reports through the     *)
(* pipe that it is done (TRM) or that it failed (ERR GETU), whereupon the  *)
(* main thread has it asleep again.                                        *)
(*                                                                         *)
(* A signal that comes before the thread waits is lost, and a thread may   *)
(* wake without one.  A thread that fails while it serves chunks reports   *)
(* the failure, and once more the end.  A write to a client that hung up   *)
(* raises SIGPIPE, which nobody handles, and the process ends.  What a     *)
(* connection carries is left out, and so is that the number of a closed   *)
(* socket is used again.                                                   *)
(***************************************************************************)
EXTENDS Integers, Sequences, FiniteSets

CONSTANTS
    MaxUpload,      \* conf.max_upload
    MaxConns,       \* bound: connections other clients open
    MaxSpurious     \* bound: times a thread wakes without a signal

Slot == 1..MaxUpload

ASSUME UploadsAssumption ==
    MaxUpload \in Nat /\ MaxConns \in Nat /\ MaxSpurious \in Nat

VARIABLES
    upload_count,
    sleeping,       \* of each thread of the pool
    socksd,         \* the connection each has, 0 at the start
    open,           \* the connections that are open
    pc,             \* what each thread does
    fd,             \* whether it has the file open
    pipe,           \* the reports the main thread has not read
    conns,          \* connections so far
    process,        \* runs, stalled (only its threads run), or ended
    deaf,           \* history: threads that missed their last signal
    failed,         \* history: the connections that failed while chunks were served
    spurious        \* history: times a thread woke without a signal

vars == <<upload_count, sleeping, socksd, open, pc, fd, pipe, conns, process, deaf,
          failed, spurious>>

-----------------------------------------------------------------------------
(* The main thread *)

\* The thread gets connection c and the signal.
Give(i, c) ==
    /\ socksd' = [socksd EXCEPT ![i] = c]
    /\ sleeping' = [sleeping EXCEPT ![i] = FALSE]
    /\ IF pc[i] = "wait"
       THEN pc' = [pc EXCEPT ![i] = "request"] /\ deaf' = deaf \ {i}
       ELSE deaf' = deaf \cup {i} /\ UNCHANGED pc
    /\ open' = open \cup {c}
    /\ upload_count' = upload_count + 1

\* A connection comes in: the first thread that sleeps has it; without one it
\* is closed.
Accept ==
    LET free == {i \in Slot : sleeping[i]}
    IN  /\ process = "runs"
        /\ conns < MaxConns /\ conns' = conns + 1
        /\ \/ /\ upload_count < MaxUpload
              /\ \E i \in free : (\A j \in free : i <= j) /\ Give(i, conns + 1)
           \/ /\ upload_count >= MaxUpload \/ free = {}
              /\ UNCHANGED <<socksd, sleeping, pc, deaf, open, upload_count>>
        /\ UNCHANGED <<fd, pipe, process, failed, spurious>>

\* upload_term_handler, for TRM and for ERR GETU.
ReadPipe ==
    /\ process = "runs" /\ pipe # <<>>
    /\ pipe' = Tail(pipe)
    /\ sleeping' = [sleeping EXCEPT ![Head(pipe)] = TRUE]
    /\ upload_count' = upload_count - 1
    /\ UNCHANGED <<socksd, open, pc, fd, conns, process, deaf, failed, spurious>>

\* The main thread waits for retx_mutex, which a retx_send kept that failed
\* (Session), for ever.
Stall ==
    /\ process = "runs" /\ process' = "stalled"
    /\ UNCHANGED <<upload_count, sleeping, socksd, open, pc, fd, pipe, conns, deaf,
                   failed, spurious>>

-----------------------------------------------------------------------------
(* A thread *)

UnchangedMain == UNCHANGED <<upload_count, sleeping, socksd, conns, deaf>>

At(i, where) == process # "ended" /\ pc[i] = where

Goto(i, where) == pc' = [pc EXCEPT ![i] = where] /\ UNCHANGED process

Close(i) == open' = open \ {socksd[i]}

Report(i) == pipe' = Append(pipe, i)

\* The thread comes to pthread_cond_wait.
Wait(i) ==
    /\ At(i, "top") /\ Goto(i, "wait")
    /\ UNCHANGED <<open, fd, pipe, failed, spurious>> /\ UnchangedMain

\* pthread_cond_wait returns without a signal, and nothing is tested then.
WakeSpuriously(i) ==
    /\ spurious < MaxSpurious /\ spurious' = spurious + 1
    /\ At(i, "wait") /\ Goto(i, "request")
    /\ UNCHANGED <<open, fd, pipe, failed>> /\ UnchangedMain

\* Variant: a connection without a request is only closed.
SilentRefuse(i) ==
    /\ At(i, "request") /\ Goto(i, "top")
    /\ Close(i)
    /\ UNCHANGED <<fd, pipe, failed, spurious>> /\ UnchangedMain

\* No request comes, not one for a file there is, or the answer fails.  A thread
\* that woke spuriously reads from a socket it has closed, or has not had yet.
Refuse(i) ==
    /\ At(i, "request") /\ Goto(i, "top")
    /\ Close(i) /\ Report(i)
    /\ UNCHANGED <<fd, failed, spurious>> /\ UnchangedMain

\* The file is found and described to the other client.
Answer(i) ==
    /\ At(i, "request") /\ Goto(i, "serve")
    /\ socksd[i] \in open
    /\ fd' = [fd EXCEPT ![i] = TRUE]
    /\ UNCHANGED <<open, pipe, failed, spurious>> /\ UnchangedMain

\* The packet is not a GET, its chunk cannot be read, or the connection was reset
\* and the first write after that fails: everything is closed and reported, and
\* the loop goes on.  With the file closed no chunk is sent.
ChunkFails(i) ==
    /\ At(i, "serve") /\ Goto(i, "serve")
    /\ socksd[i] \in open
    /\ Close(i) /\ Report(i)
    /\ fd' = [fd EXCEPT ![i] = FALSE]
    /\ failed' = failed \cup {socksd[i]}
    /\ UNCHANGED spurious /\ UnchangedMain

\* The thread writes the answer or a part of a chunk to a client that hung up, and
\* SIGPIPE ends the process.
BrokenPipe(i) ==
    /\ At(i, "request") \/ At(i, "serve")
    /\ socksd[i] \in open
    /\ process' = "ended"
    /\ UNCHANGED <<open, pc, fd, pipe, failed, spurious>> /\ UnchangedMain

\* Variant: the end is reported twice.
TwiceEndUpload(i) ==
    /\ At(i, "serve") /\ Goto(i, "top")
    /\ Close(i)
    /\ pipe' = pipe \o <<i, i>>
    /\ fd' = [fd EXCEPT ![i] = FALSE]
    /\ UNCHANGED <<failed, spurious>> /\ UnchangedMain

\* The other client closes the connection between two chunks, or it is closed
\* already.
EndUpload(i) ==
    /\ At(i, "serve") /\ Goto(i, "top")
    /\ Close(i) /\ Report(i)
    /\ fd' = [fd EXCEPT ![i] = FALSE]
    /\ UNCHANGED <<failed, spurious>> /\ UnchangedMain

-----------------------------------------------------------------------------
\* uploader_init.
Init ==
    /\ upload_count = 0
    /\ sleeping = [i \in Slot |-> TRUE]
    /\ socksd = [i \in Slot |-> 0]
    /\ open = {}
    /\ pc = [i \in Slot |-> "top"]
    /\ fd = [i \in Slot |-> FALSE]
    /\ pipe = <<>>
    /\ conns = 0
    /\ process = "runs"
    /\ deaf = {}
    /\ failed = {}
    /\ spurious = 0

\* uploader_func.
Uploader(i) ==
    \/ Wait(i) \/ WakeSpuriously(i) \/ Refuse(i) \/ Answer(i)
    \/ ChunkFails(i) \/ BrokenPipe(i) \/ EndUpload(i)

Next ==
    \/ Accept \/ ReadPipe \/ Stall
    \/ \E i \in Slot : Uploader(i)

\* Threads run, the pipe is read unless the main thread stalls, and other clients
\* hang up in the end.
Spec ==
    /\ Init /\ [][Next]_vars
    /\ WF_vars(ReadPipe)
    /\ \A i \in Slot : WF_vars(Wait(i)) /\ WF_vars(Refuse(i) \/ EndUpload(i))

-----------------------------------------------------------------------------
(* Properties *)

Awake == {i \in Slot : ~sleeping[i]}

Reports(i) == {k \in DOMAIN pipe : pipe[k] = i}

\* As long as no thread failed while it served chunks or woke without a signal,
\* the main thread counts the threads it has given a connection to, each of them
\* has one report to make, and every open connection is with one of them.
CountExact ==
    failed = {} /\ spurious = 0 =>
        /\ upload_count = Cardinality(Awake)
        /\ \A i \in Slot :
              IF sleeping[i]
              THEN Reports(i) = {} /\ socksd[i] \notin open /\ pc[i] \in {"top", "wait"}
              ELSE IF socksd[i] \in open THEN Reports(i) = {}
              ELSE \E k \in DOMAIN pipe : Reports(i) = {k}

\* A thread that has a connection sleeps again some time and can serve the
\* next, unless it missed the signal, SIGPIPE ended the process or the main thread
\* is stalled.
SleepsAgain ==
    \A i \in Slot : ~sleeping[i] ~> sleeping[i] \/ i \in deaf \/ process # "runs"
=============================================================================
