----------------------------- MODULE Multicast ------------------------------
(***************************************************************************)
(* Message transactions over the queues of module Queue.                   *)
(*                                                                         *)
(* A sender delivers one message to a set of destination peers: it stages  *)
(* a node on every destination, takes the highest staging timestamp it     *)
(* saw, and commits every node at the even timestamp after it.  A message  *)
(* for a single destination is committed directly.  No lock spans two      *)
(* queues, so the steps of concurrent senders interleave freely, and each  *)
(* peer's reader dequeues whatever is ready in between.                    *)
(***************************************************************************)
EXTENDS Queue, Sequences

G == INSTANCE Graphs

CONSTANTS
    Senders,     \* the sending threads
    Tag,         \* Tag[s]: the sender tag of s, the address of its peer
    MaxSends,    \* bound: MaxSends[s] messages are sent by sender s
    Types,       \* the node types in use
    Routes,      \* bound: Routes[s] are the destination sets s sends to
    Mortal,      \* bound: the peers that may be torn down
    MaxClosed,   \* bound: so many of them are, in one behaviour
    Blocking     \* bound: the peers whose reader sleeps; the others poll

Msgs == UNION {{<<s, k>> : k \in 1 .. MaxSends[s]} : s \in Senders}

ASSUME /\ \A s \in Senders : Tag[s] \in Nat
       /\ \A s \in Senders : Routes[s] \subseteq SUBSET Peers
       /\ Mortal \subseteq Peers /\ Blocking \subseteq Peers
       /\ MaxClosed \in Nat
       /\ Types \subseteq NodeTypes
       /\ Nodes = Msgs \X Peers
       /\ TypeUnit > 2 * Cardinality(Nodes) + 2   \* timestamps stay below it

VARIABLES
    tx,          \* tx[s]: the transaction sender s is running
    closed,      \* closed[p]: peer p was torn down
    delivered,   \* delivered[p]: the messages p's reader dequeued, in order
    prior        \* prior[m]: what had happened when message m was begun

vars == <<queue, node, waitq, tx, closed, delivered, prior>>

Idle(sent) ==
    [pc |-> "idle", sent |-> sent, dests |-> {}, todo |-> {}, max_seen |-> 0]

Current(s)   == <<s, tx[s].sent + 1>>
Done(s)      == Idle(tx[s].sent + 1)
Received(m)  == \E p \in Peers : \E i \in DOMAIN delivered[p] : delivered[p][i] = m
Completed    == {m \in Msgs : m[2] <= tx[m[1]].sent}

\* What a transaction does next when the destinations left are todo.
Step(s, next, todo) ==
    IF todo # {} THEN [tx[s] EXCEPT !.todo = todo]
    ELSE IF next = "idle" THEN Done(s)
    ELSE [tx[s] EXCEPT !.pc = next, !.todo = tx[s].dests]

-----------------------------------------------------------------------------
(* Faulty variant: commit at the timestamp after the node's own staging    *)
(* timestamp instead of the highest one seen.                              *)
CommitOneLocal(s, p) ==
    /\ tx[s].pc = "commit" /\ p \in tx[s].todo
    /\ CommitStaged(p, <<Current(s), p>>,
                    GetTimestamp(node[<<Current(s), p>>]) + 1)
    /\ tx' = [tx EXCEPT ![s] = Step(s, "idle", tx[s].todo \ {p})]
    /\ UNCHANGED <<closed, delivered, prior>>

\* Faulty variant: a transaction that gives up leaves what it staged behind.
AbortForgets(s) ==
    /\ tx[s].pc = "stage"
    /\ tx' = [tx EXCEPT ![s] = Done(s)]
    /\ UNCHANGED <<queue, node, waitq, closed, delivered, prior>>

-----------------------------------------------------------------------------
Init ==
    /\ QueueInit
    /\ tx = [s \in Senders |-> Idle(0)]
    /\ closed = [p \in Peers |-> FALSE]
    /\ delivered = [p \in Peers |-> <<>>]
    /\ prior = [m \in Msgs |-> [queued |-> {}, dequeued |-> {}]]

\* A sender begins a message for the open peers D: one node per
\* destination, initialised with its type and the sender's tag.
Begin(s, D, type) ==
    /\ tx[s].pc = "idle" /\ tx[s].sent < MaxSends[s]
    /\ D # {} /\ \A p \in D : ~closed[p]
    /\ node' = [n \in Nodes |->
                   IF n[1] = Current(s) /\ n[2] \in D
                       THEN NodeInit(type, Tag[s]) ELSE node[n]]
    /\ tx' = [tx EXCEPT ![s] =
                 [tx[s] EXCEPT !.pc = IF Cardinality(D) = 1
                                          THEN "unicast" ELSE "stage",
                               !.dests = D, !.todo = D]]
    /\ prior' = [prior EXCEPT ![Current(s)] =
                    [queued   |-> Completed,
                     dequeued |-> {m \in Msgs : Received(m)}]]
    /\ UNCHANGED <<queue, waitq, closed, delivered>>

\* The single-destination fast path.
Unicast(s) ==
    /\ tx[s].pc = "unicast"
    /\ \E p \in tx[s].dests : ~closed[p] /\ CommitUnstaged(p, <<Current(s), p>>)
    /\ tx' = [tx EXCEPT ![s] = Done(s)]
    /\ UNCHANGED <<closed, delivered, prior>>

\* Stage phase, one destination; after the last one the commit timestamp
\* is known.
StageOne(s, p) ==
    /\ tx[s].pc = "stage" /\ p \in tx[s].todo /\ ~closed[p]
    /\ Stage(p, <<Current(s), p>>, 0)
    /\ LET staged == GetTimestamp(node'[<<Current(s), p>>])
       IN  tx' = [tx EXCEPT ![s] =
                     [Step(s, "commit", tx[s].todo \ {p}) EXCEPT
                         !.max_seen = IF staged > @ THEN staged ELSE @]]
    /\ UNCHANGED <<closed, delivered, prior>>

\* Commit phase, one destination.
CommitOne(s, p) ==
    /\ tx[s].pc = "commit" /\ p \in tx[s].todo /\ ~closed[p]
    /\ CommitStaged(p, <<Current(s), p>>, tx[s].max_seen + 1)
    /\ tx' = [tx EXCEPT ![s] = Step(s, "idle", tx[s].todo \ {p})]
    /\ UNCHANGED <<closed, delivered, prior>>

\* The destination was torn down under the transaction: the peer can no
\* longer be acquired, what was staged there went with the flush, and the
\* transaction goes on without it.
DropOne(s, p) ==
    LET next == [unicast |-> "idle", stage |-> "commit", commit |-> "idle",
                 abort   |-> "idle"]
    IN  /\ tx[s].pc \in DOMAIN next /\ p \in tx[s].todo /\ closed[p]
        /\ tx' = [tx EXCEPT ![s] = Step(s, next[tx[s].pc], tx[s].todo \ {p})]
        /\ UNCHANGED <<queue, node, waitq, closed, delivered, prior>>

\* A transaction gives up before it commits anywhere; its staged nodes are
\* removed one destination at a time.
Abort(s) ==
    /\ tx[s].pc = "stage"
    /\ tx' = [tx EXCEPT ![s] =
                 IF tx[s].todo = tx[s].dests THEN Done(s)
                 ELSE [tx[s] EXCEPT !.pc = "abort",
                                    !.todo = tx[s].dests \ tx[s].todo]]
    /\ UNCHANGED <<queue, node, waitq, closed, delivered, prior>>

AbortOne(s, p) ==
    /\ tx[s].pc = "abort" /\ p \in tx[s].todo /\ ~closed[p]
    /\ Remove(p, <<Current(s), p>>)
    /\ tx' = [tx EXCEPT ![s] = Step(s, "idle", tx[s].todo \ {p})]
    /\ UNCHANGED <<closed, delivered, prior>>

\* The reader of p finds nothing ready and sleeps on the wait-queue.
WaitReadable(p) ==
    /\ p \in Blocking /\ ~closed[p] /\ ~waitq[p] /\ ~IsReadable(p)
    /\ waitq' = [waitq EXCEPT ![p] = TRUE]
    /\ UNCHANGED <<queue, node, tx, closed, delivered, prior>>

\* The reader of p dequeues the front: peek and remove under one lock.
Recv(p) ==
    /\ ~waitq[p] /\ Peek(p).node # NULL
    /\ Remove(p, Peek(p).node)
    /\ delivered' = [delivered EXCEPT ![p] = Append(@, Peek(p).node[1])]
    /\ UNCHANGED <<tx, closed, prior>>

\* Peer p is torn down: its queue is flushed, staging entries of the
\* transactions under way included.
Teardown(p) ==
    /\ p \in Mortal /\ ~closed[p]
    /\ Cardinality({q \in Peers : closed[q]}) < MaxClosed
    /\ Flush(p)
    /\ closed' = [closed EXCEPT ![p] = TRUE]
    /\ UNCHANGED <<tx, delivered, prior>>

Progress(s) ==
    \/ Unicast(s)
    \/ \E p \in Peers :
          StageOne(s, p) \/ CommitOne(s, p) \/ DropOne(s, p) \/ AbortOne(s, p)

Next ==
    \/ \E s \in Senders :
          \/ \E D \in Routes[s], type \in Types : Begin(s, D, type)
          \/ Abort(s)
          \/ Progress(s)
    \/ \E p \in Peers : WaitReadable(p) \/ Recv(p) \/ Teardown(p)

Spec == Init /\ [][Next]_vars

\* A transaction in flight runs on, and a reader that is awake and finds
\* its queue readable dequeues.  Nothing makes a sender begin or abort.
Fairness ==
    /\ \A s \in Senders : WF_vars(Progress(s))
    /\ \A p \in Peers : WF_vars(Recv(p))

FairSpec == Spec /\ Fairness

-----------------------------------------------------------------------------
(* Properties. *)

Keys(p) == {<<m, p>> : m \in Msgs}

Position(p, m) == CHOOSE i \in DOMAIN delivered[p] : delivered[p][i] = m

DeliveredAt(p) == {delivered[p][i] : i \in DOMAIN delivered[p]}

Txs == [pc : {"idle", "unicast", "stage", "commit", "abort"},
        sent : Nat, dests : SUBSET Peers, todo : SUBSET Peers,
        max_seen : 0 .. TypeUnit - 1]

\* Every queue holds nodes of its own peer only, its front is one of them,
\* a node is linked exactly while a queue holds it, and the nodes of a peer
\* that was torn down are as bus1_queue_node_deinit() expects them.
TypeOK ==
    /\ queue \in [Peers -> QueueStruct] /\ node \in [Nodes -> NodeStruct]
    /\ \A p \in Peers :
          /\ queue[p].messages \subseteq Keys(p)
          /\ queue[p].front \in queue[p].messages \cup {NULL}
          /\ closed[p] => \A n \in Keys(p) : DeinitOK(node[n])
    /\ \A n \in Nodes : IsQueued(node[n]) <=> n \in queue[n[2]].messages
    /\ waitq \in [Peers -> BOOLEAN] /\ closed \in [Peers -> BOOLEAN]
    /\ tx \in [Senders -> Txs]
    /\ \A p \in Peers : DeliveredAt(p) \subseteq Msgs

\* The clock of a queue is even and not behind any committed node it holds,
\* so the timestamps a later tick hands out are fresh: commit_staged must
\* sync the clock although the commit timestamp comes from elsewhere.
ClockCoversQueue ==
    \A p \in Peers :
        /\ queue[p].clock % 2 = 0
        /\ \A n \in queue[p].messages : GetTimestamp(node[n]) <= queue[p].clock

\* No two nodes linked in one queue have the same (timestamp, sender): the
\* tree order is total (the comparator of queue.h never returns 0).
NoDuplicateKey ==
    \A p \in Peers : \A a, b \in queue[p].messages :
        a # b => Compare(GetTimestamp(node[a]), node[a].sender,
                         GetTimestamp(node[b]), node[b].sender) # 0

\* What a reader dequeues is committed, and it dequeues in strictly
\* increasing (timestamp, sender): a node that is committed or staged later
\* never lands before one that was already handed out.
DeliveryOrdered ==
    \A p \in Peers : \A i, j \in DOMAIN delivered[p] :
        LET a == node[<<delivered[p][i], p>>]
            b == node[<<delivered[p][j], p>>]
        IN  /\ ~IsStaging(a)
            /\ i < j => Compare(GetTimestamp(a), a.sender,
                                GetTimestamp(b), b.sender) < 0

\* All readers agree on the order of the messages they have in common, also
\* across more than two queues: the orders in which the peers dequeued
\* fit into one order of all messages.
DeliveredBefore ==
    {e \in Msgs \X Msgs :
        \E p \in Peers :
            /\ {e[1], e[2]} \subseteq DeliveredAt(p)
            /\ Position(p, e[1]) < Position(p, e[2])}

ConsistentOrder == G!IsDag([node |-> Msgs, edge |-> DeliveredBefore])

\* A message begun after another one was committed on all its destinations
\* is dequeued after it wherever both arrive.
QueuedAfterQueued ==
    \A p \in Peers : \A a, b \in DeliveredAt(p) :
        a \in prior[b].queued => Position(p, a) < Position(p, b)

\* "If a node is queued with a commit timestamp, it can never be lower than
\* the commit timestamp of any other committed node, except if it was
\* already staged with a lower staging timestamp", and "if two nodes share
\* a timestamp, both will necessarily block each other until both are
\* committed" (comment of bus1_queue_compare()): a commit lands after
\* everything its queue has handed out, and at or before a committed node
\* still queued only if its staging entry was hiding that node.
CommitNeverOvertakes ==
    [][\A p \in Peers : \A n \in Keys(p) :
          /\ ~IsQueued(node[n]) \/ IsStaging(node[n])
          /\ IsQueued(node'[n]) /\ ~IsStaging(node'[n])
          => /\ \A m \in DeliveredAt(p) :
                   GetTimestamp(node[<<m, p>>]) < GetTimestamp(node'[n])
             /\ \A k \in queue[p].messages \ {n} :
                   /\ ~IsStaging(node[k])
                   /\ GetTimestamp(node'[n]) <= GetTimestamp(node[k])
                   => /\ IsQueued(node[n])
                      /\ GetTimestamp(node[n]) < GetTimestamp(node[k])]_vars

\* A node that is ready stays the front until the reader dequeues it or the
\* peer is flushed: no stage and no commit of a sender hides it or lands
\* before it.  What the lock-free bus1_queue_is_readable() and an earlier
\* bus1_queue_peek() answered is stale only towards "not readable".
ReadyStaysReady ==
    [][\A p \in Peers :
          queue[p].front # NULL =>
              \/ queue'[p].front = queue[p].front
              \/ delivered'[p] # delivered[p]
              \/ closed'[p]]_vars

\* A staging entry hides what is committed behind it until its transaction
\* commits or removes it, so none may be left without one: every staging
\* entry of a queue belongs to the message its sender is working on, on a
\* destination that sender has staged and has still to commit or to give
\* up.  The transaction keeps no list of what it staged; an abort takes it
\* from the destinations the stage phase had left, also when some of them
\* were torn down in between.
StagingHasOwner ==
    \A p \in Peers : \A n \in queue[p].messages :
        IsStaging(node[n]) =>
            LET s == n[1][1]
            IN  /\ n[1] = Current(s)
                /\ \/ tx[s].pc = "stage" /\ p \in tx[s].dests \ tx[s].todo
                   \/ tx[s].pc \in {"commit", "abort"} /\ p \in tx[s].todo

\* The reader of a queue never sleeps while the queue is readable: every
\* operation that uncovers a front, the commit of the node that hid it
\* and the removal of a staged node included, wakes it.
NoMissedWake == \A p \in Peers : waitq[p] => ~IsReadable(p)

\* A committed node is dequeued, unless its peer is torn down first: the
\* staging entries that hide it are committed or removed in bounded time.
CommittedIsDelivered ==
    \A n \in Nodes :
        (IsQueued(node[n]) /\ ~IsStaging(node[n]))
            ~> (n[1] \in DeliveredAt(n[2]) \/ closed[n[2]])

-----------------------------------------------------------------------------
(* Readings of the global order that the protocol does not give. *)

\* A message begun after another one was dequeued somewhere is dequeued
\* after it wherever both arrive (rule 2 of the global order).
QueuedAfterDequeued ==
    \A p \in Peers : \A a, b \in DeliveredAt(p) :
        a \in prior[b].dequeued => Position(p, a) < Position(p, b)

=============================================================================
