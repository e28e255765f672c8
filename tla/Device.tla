------------------------------- MODULE Device -------------------------------
(***************************************************************************)
(* The character device of ipc/bus1/main.c: the registered device, one    *)
(* file at a time, its peer, and threads that call poll, mmap and ioctl on *)
(* the file until it is closed.                                            *)
(*                                                                         *)
(* The peer embeds the gate of module Active.  The functions of peer.c     *)
(* are taken as what main.c relies on: connect publishes peer->info and    *)
(* then activates the gate, disconnect deactivates and drains it, and the  *)
(* release callback of the drain clears peer->info.  op[t] is where        *)
(* thread t stands in its file operation, pc[t] where it stands inside a   *)
(* call of the gate.                                                       *)
(***************************************************************************)
EXTENDS Integers, FiniteSets

CONSTANTS
    Threads,     \* the threads that share the file
    MaxHeld      \* references one thread holds at a time: 1 in main.c

VARIABLES
    count, pc, v, held, waitq, released,    \* peer->active and peer->waitq
    op,          \* op[t]: the step of its file operation thread t is at
    info,        \* peer->info is not NULL
    readable,    \* the queue of the peer has a front
    mask,        \* mask[t]: what the last poll of t returned
    armed,       \* threads whose poll_wait() entry has not been woken
    woken,       \* threads whose poll_wait() entry was woken
    late,        \* threads whose poll began on a deactivated peer
    dev,         \* the device: registered, its file open or closing, gone
    freed        \* bus1_peer_free() was called

\* The gate of the peer; every release of main.c is a bus1_peer_release(),
\* which passes the wait-queue of the peer.
A == INSTANCE Active WITH NullWaitq <- {}

avars == <<count, pc, v, held, waitq, released>>
pvars == <<mask, armed, woken, late>>
vars  == <<avars, op, info, readable, pvars, dev, freed>>

Ops == {"none", "connect", "activate", "drain", "free", "poll_info", "poll_active",
        "poll_queue", "mmap", "acquire", "ioctl", "put"}

Masks == {"none", "zero", "hup", "out", "out_in"}

Returned(t) == op[t] = "none" /\ A!Idle(t)
At(t, loc)  == op[t] = loc /\ A!Idle(t)
Enter(t)    == dev = "open" /\ Returned(t)   \* a system call on the open file
Go(t, loc)  == op' = [op EXCEPT ![t] = loc]
Poll(t, m)  == mask' = [mask EXCEPT ![t] = m]

-----------------------------------------------------------------------------
(* Faulty variants of the operations below, one plausible slip each. *)

\* release that frees the peer without disconnecting it
FopReleaseNoDisconnect(t) ==
    /\ Enter(t) /\ \A u \in Threads : Returned(u)
    /\ dev' = "closing" /\ Go(t, "free")
    /\ UNCHANGED <<avars, info, readable, pvars, freed>>

\* poll that reads the state without poll_wait()
PollNoWait(t) ==
    /\ Enter(t)
    /\ IF A!IsNew THEN Poll(t, "zero") /\ UNCHANGED op
                  ELSE Poll(t, "none") /\ Go(t, "poll_info")
    /\ UNCHANGED <<avars, info, readable, armed, woken, late, dev, freed>>

\* poll that takes a published peer->info for a live peer
PollActiveSkipped(t) ==
    /\ At(t, "poll_active") /\ Go(t, "poll_queue")
    /\ UNCHANGED <<avars, info, readable, pvars, dev, freed>>

\* mmap that goes on although the acquire failed
MmapUnchecked(t) ==
    /\ Enter(t) /\ A!Acquire(t) /\ Go(t, "mmap")
    /\ UNCHANGED <<info, readable, pvars, dev, freed>>

-----------------------------------------------------------------------------
(* open, release and the peer functions they and ioctl call. *)

\* What bus1_peer_new() leaves: a gate that is new, no peer information.
NewPeer ==
    /\ A!Init
    /\ op = [t \in Threads |-> "none"] /\ mask = [t \in Threads |-> "none"]
    /\ info = FALSE /\ readable = FALSE
    /\ armed = {} /\ woken = {} /\ late = {}
    /\ freed = FALSE

\* bus1_init() has run the self-tests and registered the device; when
\* misc_register() fails there is no device and nothing happens.
Init == dev = "registered" /\ NewPeer

\* bus1_fop_open(): a new peer behind the file; ENOMEM changes nothing.
\* No call is in flight on a file that is not open, so the threads are as
\* NewPeer wants them already.
FopOpen ==
    /\ dev = "registered" /\ dev' = "open"
    /\ count' = A!BUS1_ACTIVE_NEW /\ released' = 0 /\ freed' = FALSE
    /\ mask' = [t \in Threads |-> "none"]
    /\ armed' = {} /\ woken' = {} /\ late' = {}
    /\ UNCHANGED <<pc, v, held, waitq, op, info, readable>>

\* bus1_exit(): the module is unloaded, which its owner reference in
\* bus1_fops allows only while no file is open
BusExit ==
    /\ dev = "registered" /\ dev' = "gone"
    /\ UNCHANGED <<avars, op, info, readable, pvars, freed>>

\* BUS1_CMD_CONNECT: the parameters are imported and bus1_peer_connect()
\* is called; a failure there is returned as it is
IoctlConnect(t) ==
    /\ Enter(t) /\ Go(t, "connect")
    /\ UNCHANGED <<avars, info, readable, pvars, dev, freed>>

\* bus1_peer_connect(), under the lock of the peer: on a new peer the peer
\* information is published; on any other peer nothing changes
ConnectPublish(t) ==
    /\ At(t, "connect") /\ \A u \in Threads : op[u] # "activate"
    /\ IF A!IsNew THEN info' = TRUE /\ Go(t, "activate")
                  ELSE UNCHANGED info /\ Go(t, "none")
    /\ UNCHANGED <<avars, readable, pvars, dev, freed>>

\* second half: the gate is activated, which fails if a disconnect came first
ConnectActivate(t) ==
    /\ op[t] = "activate" /\ A!Activate(t) /\ Go(t, "none")
    /\ UNCHANGED <<info, readable, pvars, dev, freed>>

\* BUS1_CMD_DISCONNECT: bus1_peer_disconnect() begins with the deactivate
Disconnect(t) ==
    /\ Enter(t) /\ A!Deactivate(t) /\ Go(t, "drain")
    /\ UNCHANGED <<info, readable, pvars, dev, freed>>

\* bus1_fop_release(): called once no other call on the file is in flight
FopRelease(t) ==
    /\ Enter(t) /\ \A u \in Threads : Returned(u)
    /\ A!Deactivate(t) /\ dev' = "closing" /\ Go(t, "drain")
    /\ UNCHANGED <<info, readable, pvars, freed>>

\* bus1_peer_disconnect() goes on with the drain; release frees afterwards
PeerDrain(t) ==
    /\ op[t] = "drain" /\ A!DrainEnter(t)
    /\ Go(t, IF dev = "closing" THEN "free" ELSE "none")
    /\ UNCHANGED <<info, readable, pvars, dev, freed>>

\* the release callback of the drain: the peer information is torn down
PeerCleanup(t) ==
    /\ A!DrainRelease(t)
    /\ info' = FALSE /\ readable' = FALSE
    /\ UNCHANGED <<op, pvars, dev, freed>>

\* bus1_peer_free()
PeerFree(t) ==
    /\ At(t, "free") /\ freed' = TRUE /\ dev' = "registered" /\ Go(t, "none")
    /\ UNCHANGED <<avars, info, readable, pvars>>

\* The steps inside a call of the gate; a wake-up also reaches the pollers.
Gate(t) ==
    \/ /\ A!ReleaseWake(t) \/ A!DrainWakeAll(t)
       /\ armed' = {} /\ woken' = woken \cup armed
       /\ UNCHANGED <<op, info, readable, mask, late, dev, freed>>
    \/ /\ \/ A!AddUnlessNegativeRead(t) \/ A!AddUnlessNegativeCas(t)
          \/ A!DrainWait(t) \/ A!DrainCas1(t) \/ A!DrainCas2(t)
          \/ A!DrainSetDrained(t) \/ A!DrainWaitDrained(t)
       /\ UNCHANGED <<op, info, readable, pvars, dev, freed>>

-----------------------------------------------------------------------------
(* poll, mmap and ioctl. *)

\* bus1_fop_poll(): poll_wait(), then the is_new test
PollWait(t) ==
    /\ Enter(t)
    /\ armed' = armed \cup {t} /\ woken' = woken \ {t}
    /\ late' = IF A!IsDeactivated THEN late \cup {t} ELSE late \ {t}
    /\ IF A!IsNew THEN Poll(t, "zero") /\ UNCHANGED op
                  ELSE Poll(t, "none") /\ Go(t, "poll_info")
    /\ UNCHANGED <<avars, info, readable, dev, freed>>

\* rcu_dereference(peer->info)
PollInfo(t) ==
    /\ At(t, "poll_info")
    /\ IF info THEN Go(t, "poll_active") /\ UNCHANGED mask
               ELSE Go(t, "none") /\ Poll(t, "hup")
    /\ UNCHANGED <<avars, info, readable, armed, woken, late, dev, freed>>

\* bus1_active_is_deactivated()
PollActive(t) ==
    /\ At(t, "poll_active")
    /\ IF A!IsDeactivated THEN Go(t, "none") /\ Poll(t, "hup")
                          ELSE Go(t, "poll_queue") /\ UNCHANGED mask
    /\ UNCHANGED <<avars, info, readable, armed, woken, late, dev, freed>>

\* bus1_queue_is_readable()
PollQueue(t) ==
    /\ At(t, "poll_queue") /\ Go(t, "none")
    /\ Poll(t, IF readable THEN "out_in" ELSE "out")
    /\ UNCHANGED <<avars, info, readable, armed, woken, late, dev, freed>>

\* bus1_fop_mmap(): acquire, or ESHUTDOWN
Mmap(t) ==
    /\ Enter(t) /\ A!Acquire(t)
    /\ Go(t, IF held'[t] > held[t] THEN "mmap" ELSE "none")
    /\ UNCHANGED <<info, readable, pvars, dev, freed>>

\* the pool of the peer information is mapped, or EPERM
MmapPool(t) ==
    /\ At(t, "mmap") /\ Go(t, "put")
    /\ UNCHANGED <<avars, info, readable, pvars, dev, freed>>

\* bus1_fop_ioctl(), the peer commands: is_new is ENOTCONN
IoctlEnter(t) ==
    /\ Enter(t) /\ ~A!IsNew /\ Go(t, "acquire")
    /\ UNCHANGED <<avars, info, readable, pvars, dev, freed>>

\* acquire, or ESHUTDOWN
IoctlAcquire(t) ==
    /\ op[t] = "acquire" /\ A!Acquire(t)
    /\ Go(t, IF held'[t] > held[t] THEN "ioctl" ELSE "none")
    /\ UNCHANGED <<info, readable, pvars, dev, freed>>

\* bus1_peer_ioctl(): a command may fill or empty the queue
IoctlPeer(t) ==
    /\ At(t, "ioctl") /\ Go(t, "put")
    /\ readable' \in BOOLEAN
    /\ UNCHANGED <<avars, info, pvars, dev, freed>>

\* bus1_peer_release() at the end of mmap and ioctl
Put(t) ==
    /\ op[t] = "put" /\ A!Release(t) /\ Go(t, "none")
    /\ UNCHANGED <<info, readable, pvars, dev, freed>>

-----------------------------------------------------------------------------
\* What a thread does once it is inside a call.
Run(t) ==
    \/ ConnectPublish(t) \/ ConnectActivate(t) \/ PeerDrain(t) \/ PeerCleanup(t) \/ PeerFree(t)
    \/ Gate(t)
    \/ PollInfo(t) \/ PollActive(t) \/ PollQueue(t)
    \/ MmapPool(t) \/ IoctlAcquire(t) \/ IoctlPeer(t) \/ Put(t)

\* The entries of bus1_fops, and the steps of the calls in flight.
Next ==
    \/ FopOpen \/ BusExit
    \/ \E t \in Threads :
          \/ IoctlConnect(t) \/ Disconnect(t) \/ FopRelease(t)
          \/ PollWait(t) \/ Mmap(t) \/ IoctlEnter(t)
          \/ Run(t)

Spec == Init /\ [][Next]_vars

\* A thread inside a system call runs until the call returns; nothing makes
\* a thread enter one.
FairSpec == Spec /\ \A t \in Threads : WF_vars(Run(t))

-----------------------------------------------------------------------------
(* Properties. *)

TypeOK ==
    /\ A!TypeOK
    /\ op \in [Threads -> Ops] /\ mask \in [Threads -> Masks]
    /\ {info, readable, freed} \subseteq BOOLEAN
    /\ dev \in {"registered", "open", "closing", "gone"}
    /\ armed \subseteq Threads /\ woken \subseteq Threads \ armed
    /\ late \subseteq Threads
    /\ \A t \in Threads : held[t] = 1 <=> op[t] \in {"mmap", "ioctl", "put"}

\* bus1_peer_dereference() in mmap and in the peer commands uses peer->info
\* without a test: whoever holds an active reference finds it set, also
\* when CONNECT and DISCONNECT race the acquire.
InfoWhileHeld ==
    \A t \in Threads : op[t] \in {"mmap", "ioctl"} => info

\* bus1_peer_free() meets a peer that is drained and torn down exactly
\* once, whether it was never connected, disconnected by an ioctl before,
\* or still connected when the file was closed; nobody sleeps on its
\* wait-queue.
FreeClean ==
    freed => A!DestroyOK /\ ~info /\ released = 1 /\ waitq = {}

\* A poll that reported the peer writable and is followed by a complete
\* teardown has been woken: poll_wait() comes before the tests of
\* bus1_fop_poll(), and the drain wakes the wait-queue after DRAINED is set.
StalePollIsWoken ==
    \A t \in Threads :
        /\ Returned(t) /\ mask[t] \in {"out", "out_in"}
        /\ A!DestroyOK /\ \A u \in Threads : pc[u] # "drain_wake"
        => t \in woken

\* A poll that begins after the peer was deactivated reports POLLHUP, also
\* while the teardown has not yet cleared peer->info: the three reads of
\* bus1_fop_poll() never add up to "writable" for a peer that was dead
\* throughout.
PollSeesTeardown ==
    \A t \in late : mask[t] \in {"none", "hup"}

\* Every call on the file returns, close included: a drain that waits for
\* the references of running calls is woken by the last bus1_peer_release(),
\* and a drain that lost the race is woken once DRAINED is set.  The retry
\* loop of bus1_active_add_unless_negative() is left out of the promise: it
\* is lock-free, and a deactivate can lose its cmpxchg to acquires and
\* releases for as long as other threads keep making them.
InRetryLoop(t) == pc[t] \in {"aun_read", "aun_cas"}

CallsReturn ==
    \A t \in Threads : ~Returned(t) /\ ~InRetryLoop(t) ~> Returned(t)

=============================================================================
