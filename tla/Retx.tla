-------------------------------- MODULE Retx --------------------------------
(***************************************************************************)
(* The retransmission engine of a client (retx.c, packet_list.c): requests *)
(* sent over UDP are repeated by a thread, with a growing delay, until an  *)
(* answer with their index stops them or the thread gives up and reports   *)
(* an ERR to the main thread through a pipe.                               *)
(*                                                                         *)
(* Only the main thread inserts packets and removes them, and it does so   *)
(* at the head of the list, so the list is a set of packets numbered in    *)
(* the order they were sent, the newest being its head.  retx_mutex is     *)
(* held for a whole pass of the thread over the list, so a pass is one     *)
(* action; so are retx_send and retx_stop.                                 *)
(***************************************************************************)
EXTENDS Integers, FiniteSets, FiniteSetsExt

CONSTANTS
    MaxPackets,  \* bound: the packets sent in a behaviour
    MaxRetx,     \* MAX_RETX
    Index        \* the packet indexes, far fewer than the 2^16 of the code

ASSUME RetxAssumption ==
    /\ MaxPackets \in Nat
    /\ MaxRetx \in Nat \ {0, 1}
    /\ Index # {}

Packet == 1..MaxPackets

VARIABLES
    made,         \* packets handed to retx_send so far
    packet_list,  \* the packets with a node in packet_list_head's list
    index,        \* index[p]: the index in the header of p
    nretx,        \* nretx, countdown, errors: the fields of a packet_node
    countdown,
    errors,
    pipe,         \* packets with an ERR in the pipe, not read yet
    leaked,       \* retx_send returned with retx_mutex locked
    sends,        \* history: transmissions of p that succeeded
    fails,        \* history: transmissions of p that failed
    quiet,        \* history: passes since the last attempt to transmit p
    reported      \* history: packets an ERR was written for

node_vars == <<index, nretx, countdown, errors>>
history == <<sends, fails, quiet, reported>>
vars == <<made, packet_list, node_vars, pipe, leaked, history>>

-----------------------------------------------------------------------------
(* The main thread *)

\* retx_send when send_packet works.  Requests of the client get the next
\* index of its counter, which wraps; a forwarded WHOHAS keeps the index its
\* sender gave it: any index can come up while it is already in the list.
RetxSend(x) ==
    LET p == made + 1 IN
    /\ ~leaked
    /\ made < MaxPackets
    /\ made' = p
    /\ packet_list' = packet_list \cup {p}
    /\ index' = [index EXCEPT ![p] = x]
    /\ nretx' = [nretx EXCEPT ![p] = 1]
    /\ countdown' = [countdown EXCEPT ![p] = 1]
    /\ errors' = [errors EXCEPT ![p] = 0]
    /\ sends' = [sends EXCEPT ![p] = 1]
    /\ quiet' = [quiet EXCEPT ![p] = 0]
    /\ UNCHANGED <<pipe, leaked, fails, reported>>

\* retx_send when send_packet fails: it returns -1 and keeps the mutex.
RetxSendFails ==
    /\ ~leaked
    /\ leaked' = TRUE
    /\ UNCHANGED <<made, packet_list, node_vars, pipe, history>>

\* get_packet_node: the first node from the head with index x.
WithIndex(x) == {p \in packet_list : index[p] = x}
GetPacketNode(x) == Max(WithIndex(x))

\* retx_stop, called for every ACK, ERR, LIST, PROMOTE and REDIRECT, whoever
\* sent it and however late.  Without a node of that index it does nothing;
\* otherwise the node is freed (here: its fields are set back to 0).
RetxStop(x) ==
    /\ ~leaked
    /\ WithIndex(x) # {}
    /\ LET p == GetPacketNode(x) IN
       /\ packet_list' = packet_list \ {p}
       /\ nretx' = [nretx EXCEPT ![p] = 0]
       /\ countdown' = [countdown EXCEPT ![p] = 0]
       /\ errors' = [errors EXCEPT ![p] = 0]
       /\ quiet' = [quiet EXCEPT ![p] = 0]
    /\ UNCHANGED <<made, index, pipe, leaked, sends, fails, reported>>

\* The main loop reads an ERR from the pipe.
ReadErr(p) ==
    /\ p \in pipe
    /\ pipe' = pipe \ {p}
    /\ UNCHANGED <<made, packet_list, node_vars, leaked, history>>

-----------------------------------------------------------------------------
(* retx_func: one pass over the list *)

Expired == {p \in packet_list : countdown[p] = 0}

\* Variant: the packet is given up one transmission later.
PatientExhausted == {p \in Expired : nretx[p] > MaxRetx \/ errors[p] = MaxRetx}

\* Variant: copies and failures are counted together.
HastyExhausted == {p \in Expired : nretx[p] + errors[p] >= MaxRetx}
Exhausted == {p \in Expired : nretx[p] = MaxRetx \/ errors[p] = MaxRetx}

\* The packets transmitted in this pass; `ok` is the set of those for which
\* send_packet works.
Due == Expired \ Exhausted

\* Variant: a given-up packet starts again instead of getting countdown -1.
RestartingNextCountdown(p, ok) ==
    CASE p \in Exhausted            -> 1
      [] p \in ok                   -> nretx[p] + 1
      [] p \in Due \ ok             -> nretx[p]
      [] p \in packet_list \ Expired /\ countdown[p] > 0 -> countdown[p] - 1
      [] OTHER                      -> countdown[p]

\* Variant: a packet that could not be sent is left alone without an ERR.
LostNextCountdown(p, ok) ==
    CASE p \in Exhausted            -> -1
      [] p \in ok                   -> nretx[p] + 1
      [] p \in Due \ ok             -> -1
      [] p \in packet_list \ Expired /\ countdown[p] > 0 -> countdown[p] - 1
      [] OTHER                      -> countdown[p]

\* Variant: the delay does not grow.
FlatNextCountdown(p, ok) ==
    CASE p \in Exhausted            -> -1
      [] p \in Due                  -> 1
      [] p \in packet_list \ Expired /\ countdown[p] > 0 -> countdown[p] - 1
      [] OTHER                      -> countdown[p]

NextCountdown(p, ok) ==
    CASE p \in Exhausted            -> -1
      [] p \in ok                   -> nretx[p] + 1
      [] p \in Due \ ok             -> nretx[p]
      [] p \in packet_list \ Expired /\ countdown[p] > 0 -> countdown[p] - 1
      [] OTHER                      -> countdown[p]

Pass ==
    /\ ~leaked
    /\ \E ok \in SUBSET Due :
          /\ nretx' = [p \in Packet |-> IF p \in ok THEN nretx[p] + 1 ELSE nretx[p]]
          /\ errors' = [p \in Packet |->
                          IF p \in Due \ ok THEN errors[p] + 1 ELSE errors[p]]
          /\ countdown' = [p \in Packet |-> NextCountdown(p, ok)]
          /\ sends' = [p \in Packet |-> IF p \in ok THEN sends[p] + 1 ELSE sends[p]]
          /\ fails' = [p \in Packet |->
                          IF p \in Due \ ok THEN fails[p] + 1 ELSE fails[p]]
    /\ quiet' = [p \in Packet |->
                   CASE p \in Due                                 -> 0
                     [] p \in packet_list \ Due /\ countdown[p] > 0 -> quiet[p] + 1
                     [] OTHER                                     -> quiet[p]]
    /\ pipe' = pipe \cup Exhausted
    /\ reported' = reported \cup Exhausted
    /\ UNCHANGED <<made, packet_list, index, leaked>>

-----------------------------------------------------------------------------
Init ==
    /\ made = 0
    /\ packet_list = {}
    /\ index = [p \in Packet |-> CHOOSE x \in Index : TRUE]
    /\ nretx = [p \in Packet |-> 0]
    /\ countdown = [p \in Packet |-> 0]
    /\ errors = [p \in Packet |-> 0]
    /\ pipe = {}
    /\ leaked = FALSE
    /\ sends = [p \in Packet |-> 0]
    /\ fails = [p \in Packet |-> 0]
    /\ quiet = [p \in Packet |-> 0]
    /\ reported = {}

Next ==
    \/ \E x \in Index : RetxSend(x) \/ RetxStop(x)
    \/ RetxSendFails
    \/ \E p \in Packet : ReadErr(p)
    \/ Pass

\* The thread wakes every TIME_TO_SLEEP seconds and waits for the mutex.
Spec == Init /\ [][Next]_vars /\ WF_vars(Pass)

-----------------------------------------------------------------------------
(* Properties *)

\* Every variable has its type; -1 is the countdown of a given-up packet.
TypeOK ==
    /\ made \in 0..MaxPackets
    /\ packet_list \in SUBSET Packet
    /\ index \in [Packet -> Index]
    /\ nretx \in [Packet -> 0..MaxRetx]
    /\ countdown \in [Packet -> -1..MaxRetx]
    /\ errors \in [Packet -> 0..MaxRetx]
    /\ pipe \in SUBSET Packet
    /\ leaked \in BOOLEAN
    /\ sends \in [Packet -> Nat]
    /\ fails \in [Packet -> Nat]
    /\ quiet \in [Packet -> Nat]
    /\ reported \in SUBSET Packet

\* A request burdens the network with at most MAX_RETX copies, and send_packet
\* is tried at most 2 * MAX_RETX - 1 times for it (retx_func's give-up test).
EffortBounded ==
    \A p \in Packet : sends[p] <= MaxRetx /\ sends[p] + fails[p] < 2 * MaxRetx

\* An ERR means that the request was sent, or failed to be sent, MAX_RETX
\* times (retx_func's give-up test counts what happened, whatever the order).
ReportJustified ==
    \A p \in reported : sends[p] = MaxRetx \/ fails[p] = MaxRetx

\* A packet that was stopped or reported is never transmitted again, and no
\* second ERR is written for it (the node of a reported one stays in the list).
FinishedIsFinal ==
    [][\A p \in 1..made :
          p \notin packet_list \/ p \in reported =>
             /\ sends'[p] = sends[p] /\ fails'[p] = fails[p]
             /\ p \in pipe' => p \in pipe]_vars

\* The n-th copy of a request is followed by n passes without an attempt: a
\* slow peer or network is asked less and less often.
BacksOff ==
    [][\A p \in Packet :
          sends[p] > 0 /\ sends'[p] + fails'[p] > sends[p] + fails[p]
             => quiet[p] >= sends[p]]_vars

\* Every request is eventually stopped or reported, so that the main thread
\* never waits for an answer for ever -- unless the mutex was lost.
Resolved ==
    \A p \in Packet :
        p \in packet_list ~> p \notin packet_list \/ p \in reported \/ leaked
=============================================================================
