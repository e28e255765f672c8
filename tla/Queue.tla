------------------------------- MODULE Queue --------------------------------
(***************************************************************************)
(* The message queue of ipc/bus1/util/queue.h.                             *)
(*                                                                         *)
(* A queue is a Lamport clock, a set of nodes ordered by (timestamp,       *)
(* sender) and a cached front.  A node with an odd timestamp is staging    *)
(* and hides everything ordered after it.  The inline helpers are taken    *)
(* from the header; the operations it only declares follow their           *)
(* description.  Every operation runs under the lock of the queue's peer   *)
(* and is one step.                                                        *)
(***************************************************************************)
EXTENDS Integers, FiniteSets

CONSTANTS
    Peers,       \* the peers; each owns one queue and one wait-queue
    Nodes,       \* the queue nodes that exist
    TypeUnit,    \* 1 << BUS1_QUEUE_TYPE_SHIFT, the weight of the type bits
    NULL

ASSUME TypeUnit \in Nat /\ TypeUnit % 2 = 0 /\ NULL \notin Nodes

VARIABLES
    queue,       \* queue[p]: struct bus1_queue of peer p
    node,        \* node[n]: struct bus1_queue_node
    waitq        \* waitq[p]: the reader of p sleeps on its wait-queue

qvars == <<queue, node, waitq>>

NodeTypes == 0 .. 2   \* MESSAGE, HANDLE_DESTRUCTION, HANDLE_RELEASE

\* struct bus1_queue_node: rb is "linked into a tree"; the list and rcu
\* members of the union and the reference count are left out.
NodeStruct ==
    [rb : BOOLEAN, sender : Nat, timestamp_and_type : 0 .. 3 * TypeUnit - 1]

\* struct bus1_queue
QueueStruct ==
    [clock : 0 .. TypeUnit - 1, messages : SUBSET Nodes, front : Nodes \cup {NULL}]

-----------------------------------------------------------------------------
(* Faulty variants of the inline helpers, one plausible slip each. *)

\* get_timestamp without the mask: the type bits count as timestamp
GetTimestampUnmasked(n) == n.timestamp_and_type

-----------------------------------------------------------------------------
(* The inline helpers.  A node argument is the node itself, node[n]. *)

NodeInit(type, sender) ==
    [rb |-> FALSE, sender |-> sender, timestamp_and_type |-> type * TypeUnit]

GetType(n)      == n.timestamp_and_type \div TypeUnit
GetTimestamp(n) == n.timestamp_and_type % TypeUnit
IsQueued(n)     == n.rb
IsStaging(n)    == GetTimestamp(n) % 2 = 1
DeinitOK(n)     == ~IsQueued(n)                  \* else node_deinit warns

-----------------------------------------------------------------------------
(* Faulty variants of the definitions below, one plausible slip each. *)

\* tick by one: the clock turns odd
TickByOne(clock) == clock + 1

\* sync that never moves the clock forward
SyncStale(clock, ts) == clock

\* comparator that looks at the sender tag before the timestamp
CompareSenderFirst(a_ts, a_sender, b_ts, b_sender) ==
    IF a_sender # b_sender THEN (IF a_sender < b_sender THEN -1 ELSE 1)
    ELSE IF a_ts # b_ts THEN (IF a_ts < b_ts THEN -1 ELSE 1)
    ELSE 0

\* the reader is told only when the node just linked is itself the front
WakeOnlyForOwn(p, n, front) == queue[p].front = NULL /\ front = n

-----------------------------------------------------------------------------
(* Clock, comparator, tree and front. *)

Tick(clock)     == clock + 2
Sync(clock, ts) == IF clock > ts THEN clock ELSE ts

IsReadable(p) == queue[p].front # NULL

Compare(a_ts, a_sender, b_ts, b_sender) ==
    IF a_ts # b_ts THEN (IF a_ts < b_ts THEN -1 ELSE 1)
    ELSE IF a_sender # b_sender THEN (IF a_sender < b_sender THEN -1 ELSE 1)
    ELSE 0

Stamp(word, ts) == (word \div TypeUnit) * TypeUnit + ts

Before(a, b) ==
    Compare(GetTimestamp(a), a.sender, GetTimestamp(b), b.sender) <= 0

\* The first node of the tree ms if it is committed, else nothing.
FrontOf(ms, nd) ==
    LET first == CHOOSE a \in ms : \A b \in ms : Before(nd[a], nd[b])
    IN  IF ms # {} /\ ~IsStaging(nd[first]) THEN first ELSE NULL

BecameReadable(p, n, front) == ~IsReadable(p) /\ front # NULL

\* Put the tree ms, the nodes nd and the clock clk in place, refresh the
\* front, and wake the reader if the queue became readable.
Relink(p, n, ms, nd, clk) ==
    LET front == FrontOf(ms, nd)
    IN  /\ node' = nd
        /\ queue' = [queue EXCEPT
                        ![p] = [clock |-> clk, messages |-> ms, front |-> front]]
        /\ waitq' = [waitq EXCEPT
                        ![p] = @ /\ ~BecameReadable(p, n, front)]

Linked(n, ts) ==
    [node EXCEPT ![n].rb = TRUE, ![n].timestamp_and_type = Stamp(@, ts)]

-----------------------------------------------------------------------------
(* The operations. *)

QueueInit ==
    /\ queue = [p \in Peers |-> [clock |-> 0, messages |-> {}, front |-> NULL]]
    /\ node = [n \in Nodes |-> NodeInit(0, 0)]
    /\ waitq = [p \in Peers |-> FALSE]

\* bus1_queue_stage(): tick, sync with the hint, link at the odd timestamp
Stage(p, n, hint) ==
    LET clk == Sync(Tick(queue[p].clock), hint)
    IN  /\ ~IsQueued(node[n]) /\ hint % 2 = 0
        /\ Relink(p, n, queue[p].messages \cup {n}, Linked(n, clk - 1), clk)

\* bus1_queue_commit_staged(): relink at the commit timestamp, sync
CommitStaged(p, n, ts) ==
    /\ n \in queue[p].messages /\ IsStaging(node[n])
    /\ ts % 2 = 0 /\ ts > GetTimestamp(node[n])
    /\ Relink(p, n, queue[p].messages, Linked(n, ts), Sync(queue[p].clock, ts))

\* bus1_queue_commit_unstaged(): tick and link at the even timestamp
CommitUnstaged(p, n) ==
    LET clk == Tick(queue[p].clock)
    IN  /\ ~IsQueued(node[n])
        /\ Relink(p, n, queue[p].messages \cup {n}, Linked(n, clk), clk)

\* bus1_queue_remove(): nothing to do for a node that is not linked
Remove(p, n) ==
    IF n \in queue[p].messages
        THEN Relink(p, n, queue[p].messages \ {n},
                    [node EXCEPT ![n].rb = FALSE], queue[p].clock)
        ELSE UNCHANGED qvars

\* bus1_queue_peek(): the front, and whether another entry is ready behind it
Peek(p) ==
    [node     |-> queue[p].front,
     continue |-> /\ IsReadable(p)
                  /\ FrontOf(queue[p].messages \ {queue[p].front}, node) # NULL]

\* bus1_queue_flush(): every node leaves the tree for the caller's list
Flush(p) ==
    /\ queue' = [queue EXCEPT ![p].messages = {}, ![p].front = NULL]
    /\ node' = [n \in Nodes |->
                   [node[n] EXCEPT !.rb = @ /\ n \notin queue[p].messages]]
    /\ UNCHANGED waitq

=============================================================================
