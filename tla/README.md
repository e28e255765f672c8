# bus1 core: TLA+ models

TLA+ specifications of the core of bus1, a capability-based IPC bus
implemented as a Linux kernel module, and the TLC configurations that check
them.  The models are written from the sources under `src/ipc/bus1/`; where a
function is declared there but its body is not part of this tree (everything
in `queue.c` and `peer.c`) the model follows its kernel-doc in the header and
the design description in `spec.md`, and `PROJECT.json` marks the definition
`spec_modelled`.

## 1. The system

| Part | Source | What it is |
|---|---|---|
| ActiveRef | `active.c` | A lifecycle gate in one atomic 32-bit counter: NEW, ACTIVE(k), DRAINING(k), RELEASE_DIRECT, RELEASE, DRAINED. |
| Wait-queue | kernel (`wait_event`, `wake_up`, `wake_up_all`) | The sleep/wake primitive `drain` and `release` use. |
| Queue clock and node helpers | `util/queue.h` (inline functions) | Lamport clock per queue (`tick`, `sync`), node timestamp/type packing, the comparator `(timestamp, sender)`, the lock-free readability test. |
| Queue operations | `util/queue.h` (declarations), body in `queue.c` | `stage`, `commit_staged`, `commit_unstaged`, `remove`, `peek`, `flush` on the ordered tree and the cached `front`. |
| Multicast transaction | described in `queue.h` DOC and `spec.md` 4.2.3 | Stage on every destination, pick the highest timestamp, commit everywhere. |
| Device file | `main.c` | `open`, `release`, `poll`, `mmap`, `ioctl` of the character device; each binds a file to a peer and guards every use of the peer with its ActiveRef. |
| Peer | `peer.c` (not in this tree) | `bus1_peer_new/connect/disconnect/free/acquire/release/ioctl`; owns one ActiveRef, one wait-queue, one Queue. |
| Pool, handles, user-memory import | not in this tree | Payload memory and object tables. |
| Module registration, self-tests | `main.c` `bus1_init/exit`, `bus1_fops` | `misc_register`, `bus1_tests_run`, the table of file operations. |
| Lockdep annotations | `active.c` under `CONFIG_DEBUG_LOCK_ALLOC` | Debug-only dependency tracking. |

### State

* ActiveRef: `count` (atomic int), the wait-queue linked to it by the caller.
* Queue: `clock` (u64, even), `messages` (rb-tree ordered by
  `(timestamp, sender)`), `front` (RCU pointer: the first entry if it is
  committed, else NULL).
* Node: `timestamp_and_type` (2 bits of type over 62 bits of timestamp),
  `sender`, a reference count, one linkage slot.
* Device file: `file->private_data` (the peer), `peer->info` (RCU pointer,
  NULL outside connect..disconnect), `peer->active`, `peer->waitq`.

### How the parts interact

A peer embeds an ActiveRef.  CONNECT activates it, every other ioctl and mmap
acquire it for the duration of the call, DISCONNECT and the last close
deactivate it and drain it; the release callback of the drain tears down the
peer information, which holds the Queue.  `poll` reads the ActiveRef and the
queue's `front` without taking anything.  A send is a transaction over the
queues of its destinations; the receiver dequeues through `peek` and `remove`.

### What makes it hard

* `deactivate` adds the bias with a compare-and-swap loop while `acquire` and
  `release` change the very same counter.
* Several threads drain at once; two compare-and-swaps decide who runs the
  release callback.
* `release` decrements and then wakes: between the two steps the drainer may
  already have gone on.
* `wake_up` may pick the wrong sleeper when two kinds of sleepers (waiting
  for the bias, waiting for DRAINED) share the wait-queue.
* Two multicasts race over overlapping destination sets, each with its own
  view of the clocks; receivers must see them in the same order nonetheless.
* A committed entry is hidden behind an earlier staging entry, and becomes
  visible when that one commits somewhere else in the order or is removed.
* A commit timestamp comes from the clock of another queue, and the fast
  path commits without staging at all: a commit may land below entries that
  are committed already, and must not land below one that was handed out.
* `poll` and the ioctls test `is_new`, then `acquire`: CONNECT and
  DISCONNECT may run between the two.
* A destination is torn down between the stage and the commit of a
  multicast: its queue is flushed under the transaction, which goes on to
  the other destinations.
* `is_readable` reads `front` without the lock, and a reader acts on the
  answer later, while senders stage and commit on the queue.

### What should be true

* ActiveRef: the counter accounts for exactly the references held; the
  callback runs at most once and with no reference outstanding; the phase
  never moves backwards; deactivate has taken effect when it returns; every
  drain returns and leaves the object DRAINED; no sleeper is forgotten.
* Queue: the clock never goes back and stays even; `front` is the least
  entry iff that entry is committed; no two queued entries share
  `(timestamp, sender)`; a committed entry never overtakes an entry that was
  dequeued before it was queued.
* Transaction: any two receivers dequeue any two common messages in the
  same order; no staging entry is left behind by a transaction that gave
  up or lost a destination.
* Device file: no peer operation runs on a peer that is not connected or
  already torn down; teardown runs once; a `poll` that begins on a
  deactivated peer reports POLLHUP, and one that reported the peer writable
  is woken when the teardown completes; every call returns.

## 2. Plan

1. `ActiveSpec` and `Active`: the gate and its abstract specification.
2. `Queue`: one queue with its clock, tree and front cache; the helpers of
   `queue.h` as operators checked against reference definitions.
3. `Multicast`: several queues and concurrent transactions; the global order.
4. `Device`: the file operations of `main.c` over a peer that embeds an
   `Active` instance and a readable flag.

5. A larger instance of `Multicast`: three peers with multicasts that
   overlap pairwise.
6. The life of the device around the file: registration, open after close,
   unload.
7. The argument in the comment of `bus1_queue_compare()` as a property of
   every commit step (`CommitNeverOvertakes`).
8. Teardown of a destination under transactions in flight (`DropOne`,
   `StagingHasOwner`), and what a lock-free look at `front` is worth later
   (`ReadyStaysReady`).
9. The release that passes no wait-queue (`NullWaitq`).

All nine steps are complete.  Each module has an `MC` module that fixes the
constants' helper definitions and one or more `.cfg` files.  Every function
of `active.c`, `main.c` and `queue.h` is a definition of a module; what the
modules leave out, and why, is section 9.

## 3. Module `ActiveSpec`

The promise of the gate without its encoding: a phase
(`new`, `active`, `deactivated`, `release`, `drained`), the references each
thread holds, and the number of callback invocations.  References are taken
only in phase `active`; the release begins only when no reference is held;
the callback runs once between the begin and the end of the release.

## 4. Module `Active`

Models `active.c` at the grain of its atomic operations.

| Model | Code |
|---|---|
| `count` | `active->count` |
| `pc[t]`, `v[t]` | where thread `t` stands inside a call; the local `v` of `bus1_active_add_unless_negative` |
| `held[t]` | references `t` acquired and has not released (the caller's obligation; the code keeps no such record) |
| `waitq` | the threads asleep in `wait_event` on the wait-queue passed to `drain` and `release` |
| `released` | invocations of the `release` callback |
| `NullWaitq` | the threads that call `bus1_active_release(active, NULL)` |

| Action | Code |
|---|---|
| `Activate` | `bus1_active_activate`: `cmpxchg(NEW, 0)` |
| `Acquire` | `bus1_active_acquire`: `atomic_inc_unless_negative` |
| `Release`, `ReleaseWake` | `bus1_active_release`: `atomic_dec_return`, then, if the result is the bias, `wake_up` unless the wait-queue is NULL |
| `Deactivate` | `bus1_active_deactivate`: `cmpxchg(NEW, RELEASE_DIRECT)`, else on to the loop |
| `AddUnlessNegativeRead`, `AddUnlessNegativeCas` | `bus1_active_add_unless_negative`: the `atomic_read` and one `cmpxchg` of the loop |
| `DrainEnter` | `bus1_active_drain`: the `WARN_ON(!is_deactivated)` early return |
| `DrainWait` | `wait_event(count <= BIAS)` |
| `DrainCas1`, `DrainCas2` | the two `cmpxchg` to RELEASE and the branch on their result |
| `DrainRelease`, `DrainSetDrained`, `DrainWakeAll` | the callback, `atomic_set(DRAINED)`, `wake_up_all` |
| `DrainWaitDrained` | the loser's `wait_event(count == DRAINED)` |

The counter keeps its real values (`BIAS = INT_MIN + 5`), so the sentinels
and the two count ranges lie where they lie in the code.

`wait_event` tests its condition after it has put the caller on the
wait-queue, so a wake-up between the test and the sleep is not lost; the
model makes the test and the enqueue one step.  `wake_up` wakes a non-empty
subset of the sleepers: the kernel wakes all non-exclusive sleepers, the
design description asks only for one, and the properties hold for both.

A thread does not drain while it holds a reference itself (`held[t] = 0` in
`DrainEnter`).  The code would sleep forever; the lockdep annotations report
exactly this, a write-lock taken under a read-lock of the same class.

## 5. Module `Queue`

The queue of `util/queue.h`.  The inline functions are translated from the
header; the operations the header only declares are written from their
description (`spec_modelled` in `PROJECT.json`).

| Model | Code |
|---|---|
| `queue[p]` = `[clock, messages, front]` | `struct bus1_queue` of peer `p`; `messages` is the set of linked nodes, ordered by `Compare` when it is read |
| `node[n]` = `[rb, sender, timestamp_and_type]` | `struct bus1_queue_node`; `rb` is "linked into a tree" |
| `waitq[p]` | the reader of `p` sleeps on `peer->waitq` |
| `TypeUnit` | `1 << BUS1_QUEUE_TYPE_SHIFT`; 32 in the runs, so that the type bits lie directly above the timestamps the bounds produce |

| Operator | Code |
|---|---|
| `NodeInit`, `DeinitOK`, `GetType`, `GetTimestamp`, `IsQueued`, `IsStaging` | the node helpers; type and timestamp are packed into one word and taken apart by division and remainder |
| `Tick`, `Sync`, `IsReadable`, `Compare` | `bus1_queue_tick`, `_sync`, `_is_readable`, `_compare` |
| `Stage` | `bus1_queue_stage`: tick, sync with the hint, link at `clock - 1` |
| `CommitStaged` | `bus1_queue_commit_staged`: relink at the commit timestamp, sync the clock |
| `CommitUnstaged` | `bus1_queue_commit_unstaged`: tick, link at the even timestamp |
| `Remove`, `Peek`, `Flush` | `bus1_queue_remove`, `_peek`, `_flush` |
| `Relink` | what every operation ends with: refresh `front`, wake the reader if the queue became readable |

Every operation runs under the peer lock and is one step.  The description
of `stage` is loose about the tick; the model ticks, as the protocol's
stage phase and its second scenario require, and the transaction passes the
hint 0.

## 6. Module `Multicast`

Sender threads, the queues of the destination peers, and one reader per
peer.  All of it follows the DOC comment of `queue.h` and the protocol of
the design description; the transaction code is not part of this tree.

| Model | Meaning |
|---|---|
| `Senders`, `Tag[s]` | the sending threads and the sender tag each writes into its nodes |
| `MaxSends[s]` | bound: the number of messages `s` sends |
| `Routes[s]` | bound: the destination sets `s` chooses from |
| `Mortal`, `Blocking` | bounds: the peers that may be torn down; the peers whose reader sleeps when its queue is not readable (the others only poll) |
| `MaxClosed` | bound: the number of peers torn down in one behaviour |
| `tx[s]` = `[pc, sent, dests, todo, max_seen]` | the transaction of `s`: phase, messages completed, destinations, destinations left in this phase, highest staging timestamp seen |
| node `<<m, p>>` | the node of message `m` on the queue of `p` |
| `delivered[p]` | history: what the reader of `p` dequeued, in order |
| `prior[m]` | history: the messages completed and the messages dequeued when `m` was begun |
| `closed[p]` | peer `p` was torn down |

| Action | Step |
|---|---|
| `Begin(s, D, type)` | `node_init` of one node per destination |
| `Unicast(s)` | one destination: `commit_unstaged` |
| `StageOne(s, p)` | `stage` on one destination, `max_seen` updated |
| `CommitOne(s, p)` | `commit_staged` at `max_seen + 1` on one destination |
| `DropOne(s, p)` | the destination was torn down: the transaction leaves it out and goes on |
| `Abort(s)`, `AbortOne(s, p)` | give up during the stage phase; `remove` on each destination staged that is still open |
| `WaitReadable(p)` | the reader finds the queue not readable and sleeps |
| `Recv(p)` | `peek` and `remove` under one lock |
| `Teardown(p)` | `flush`, at any point of the transactions that have `p` as a destination |

Teardown and transactions.  The queue of a peer is part of its peer
information, which `main.c` reaches only between `bus1_peer_acquire()` and
`bus1_peer_release()` and which is torn down by the release callback of the
drain, when no reference is left.  How long a transaction holds a
destination is decided in code that is not part of this tree.  The model
takes the weakest reading: a transaction acquires a destination for each
step on its queue and lets go of it afterwards, so that `Teardown(p)` runs
between any two steps of a transaction that has `p` as a destination.  A
transaction that holds its destinations from the first step to the last
has fewer behaviours, all of them among these.  `StageOne`, `CommitOne`,
`Unicast` and `AbortOne` are steps on an open peer; `DropOne` is the step
whose acquire fails, which the design description calls "always
recoverable by the caller (it means the object is no longer live)": the
flush took what was staged there, and the transaction goes on to its other
destinations.

The reader re-tests the condition after it has entered the wait-queue, so
test and sleep are one step.

The sender clock.  The DOC comment of `queue.h` says that "each message to
be sent causes a clock tick on the local clock and on all destination
clocks", and the comment of `bus1_queue_compare()` relies on it ("we
allocate the unique final timestamp via the sender-clock").  The design
description takes the commit timestamp from the destination clocks alone
(`max_seen + 1`), and no code of that step is in this tree.  `Multicast`
follows the description; what it lacks without the step is the subject of
the run `multicast_shared_tag`.

## 7. Module `Device`

The registered character device, one file of it at a time, the peer of
that file, and the threads that call `poll`, `mmap`, `ioctl` and finally
`close` on it.  The gate of the peer is
an instance of `Active` over the same variables (`A == INSTANCE Active`):
every action of `Device` that enters the gate is the conjunction of the
`Active` action with what `main.c` does around it.

| Model | Code |
|---|---|
| `count`, `pc`, `v`, `held`, `waitq`, `released` | `peer->active` and the drainers on `peer->waitq`, as in `Active` |
| `op[t]` | where thread `t` stands in its file operation |
| `info` | `peer->info != NULL` |
| `readable` | the queue of the peer has a front (`bus1_queue_is_readable`) |
| `mask[t]` | what the last `poll` of `t` returned: `zero`, `hup` (POLLERR, POLLHUP), `out` (POLLOUT), `out_in` (POLLOUT and POLLIN) |
| `armed`, `woken` | the `poll_wait()` entries on `peer->waitq` that are pending, and those a wake-up reached |
| `late` | history: the polls that began on a deactivated peer |
| `dev` | the device: `registered` by `bus1_init()` with no file open, `open`, `closing` once `bus1_fop_release()` has begun, `gone` after `bus1_exit()` |
| `freed` | `bus1_peer_free()` has run on the peer of the last file |

| Action | Code |
|---|---|
| `Init` | `bus1_init` has registered the device |
| `FopOpen` | `bus1_fop_open`: a new peer (`NewPeer`: gate NEW, no peer information) behind the file |
| `BusExit` | `bus1_exit`: the device is deregistered |
| `IoctlConnect`, `ConnectPublish`, `ConnectActivate` | `BUS1_CMD_CONNECT`: the call of `bus1_peer_connect`, which on a new peer publishes `peer->info` and then activates the gate, and on any other peer changes nothing |
| `Disconnect`, `PeerDrain`, `PeerCleanup` | `BUS1_CMD_DISCONNECT`: deactivate, drain, and in the release callback of the drain the teardown of `peer->info` |
| `FopRelease`, `PeerFree` | `bus1_fop_release`: the same disconnect, then `bus1_peer_free` |
| `PollWait`, `PollInfo`, `PollActive`, `PollQueue` | `bus1_fop_poll`: `poll_wait` and the `is_new` test, then one step per unlocked read |
| `Mmap`, `MmapPool`, `Put` | `bus1_fop_mmap`: acquire or ESHUTDOWN, the use of the pool, release |
| `IoctlEnter`, `IoctlAcquire`, `IoctlPeer`, `Put` | the peer commands: `is_new` or ENOTCONN, acquire or ESHUTDOWN, `bus1_peer_ioctl`, release |
| `Gate` | the steps inside a call of the gate (`Active`'s retry loop, waits, compare-and-swaps and wake-ups); a wake-up of `peer->waitq` also moves `armed` to `woken` |

What the module takes from `peer.c`, which is not part of this tree:

* `bus1_peer_connect` publishes the peer information before it activates
  the gate, connects run one at a time, and a connect on a peer that is not
  new fails without a change (the reset and query forms of CONNECT change
  nothing the properties tell apart);
* `bus1_peer_disconnect` is `deactivate` followed by `drain`, and the
  release callback of the drain clears `peer->info`;
* `bus1_peer_acquire` and `bus1_peer_release` are those of the gate.

`main.c` itself says as much: the comment in `bus1_fop_poll` expects
`peer->info` to be NULL "during a racing DISCONNECT", and DISCONNECT
"behaves like the last close()".  Further choices: the VFS calls `release`
only when no other call on the file is in flight (the guard of
`FopRelease`), and unloads the module only while no file is open (the
`owner` of `bus1_fops`; the guard of `BusExit`); one file is open at a
time, because files share nothing but the registration; returns that
change no state (ENOMEM, EFAULT, EINVAL, ENOTTY, EPERM) are not actions; `poll_wait` and the first read of the counter are one step,
because the properties only need the registration to come first;
`bus1_peer_ioctl` is one step that may change `readable` either way.

## 8. Runs

| Run | Config | Bounds | Result |
|---|---|---|---|
| `active_safety` | `MCActive.cfg` | 4 threads, 2 references each, symmetric | passes |
| `active_liveness` | `MCActiveLive.cfg` | 3 threads, 1 reference each | passes |
| `active_quiescent` | `MCActiveQuiescent.cfg` | 2 threads, 1 reference each | violated, as the code behaves |
| `active_null_waitq` | `MCActiveNullWaitq.cfg` | 2 threads, 1 reference each, one of them releases with NULL | violated, as the code behaves |
| `multicast_safety` | `MCMulticast.cfg` | 2 senders (2 + 1 messages), 2 peers, symmetric in the peers | passes, 454,319 states |
| `multicast_liveness` | `MCMulticastLive.cfg` | 2 senders (1 + 1 messages), 2 peers | passes |
| `multicast_shared_tag` | `MCMulticastSharedTag.cfg` | as the liveness run, both senders with tag 1 | violated |
| `multicast_ring` | `MCMulticastRing.cfg` | 3 senders (1 message each), 3 peers, routes `{x,y}`, `{y,z}`, `{z,x}` | passes, 135,576 states |
| `multicast_rule2` | `MCMulticastRule2.cfg` | as the safety run | violated |
| `device_safety` | `MCDevice.cfg` | 3 threads, symmetric | passes, 423,741 states |
| `device_liveness` | `MCDeviceLive.cfg` | 2 threads | passes |

Each module keeps, beside its operations, faulty variants of some of them:
one plausible slip each (a wake-up left out, a clock not synchronised, a
store in place of a compare-and-swap).  For every property of a passing run
`PROJECT.json` names the variant with which TLC finds the property
violated, so that no property holds whatever the operations do.

### `active_safety`

* `TypeOK`: the counter is a sentinel or a count on one side of the bias.
* `CountMatchesHolders`: the count encoded in the counter equals the
  references held, across the deactivate that races acquire and release.
* `ReleaseRunsOnce`: at most one callback, for any interleaving of the two
  compare-and-swaps of concurrent drainers.
* `NoLostWakeup`: a sleeper whose condition holds has a waker on its way:
  a releaser that reached the bias and has a wait-queue to wake, or a
  drainer that is awake.
* `DeactivateTakesEffect`: on return from `deactivate` the object is
  deactivated, and it stays so.
* `Refinement`: `Active` implements `ActiveSpec` under the mapping
  `phase <- Phase`, `holders <- held`.

Four threads give two drainers, a deactivator and a holder at once, or three
holders racing one deactivator; two references per thread make the counter
take values other than 0 and 1 on both sides of the bias.  Every thread
passes the wait-queue to release (`NullWaitq = {}`); what happens otherwise
is the run `active_null_waitq`.  Threads are interchangeable, so the run
uses symmetry over them.

### `active_liveness`

Under `FairSpec`:

* `DrainTerminates`: every drain that passed its entry check returns.
* `EventuallyDrained`: once a drain has started, the object becomes DRAINED
  and stays so.

Fairness.  `WF_vars(Continue(t))`: a thread inside a call is scheduled until
the call returns; none of these steps can be disabled by another thread
except by the thread sleeping, which takes it out of `Continue` until woken.
`SF_vars(Release(t))`: a thread that holds a reference releases it; strong,
because the thread may enter and leave other calls in between, which
disables `Release` again and again.  Every caller in `main.c` releases on
every path (`bus1_fop_mmap`, `bus1_fop_ioctl`).  No fairness is assumed for
entering a call.

Three threads are a drainer that wins, one that loses and a holder; symmetry
is not used because the properties are liveness properties.

### `active_quiescent`

`DrainReturnsQuiescent` says that when the winning drainer returns no other
thread is still inside `bus1_active_release` with its `wake_up` to come.
The code does not give this: the releaser that brings the counter to the
bias enables the drain by its decrement, a drainer that had not yet slept
passes `wait_event` without sleeping, completes, and returns while the
releaser has not yet called `wake_up(waitq)`.  The wait-queue must therefore
outlive the object's last release, which holds for `peer->waitq` only as
long as the peer is freed after every releaser has left.

### `active_null_waitq`

`DrainTerminates` with one thread that calls `bus1_active_release()` with a
NULL wait-queue, which the interface allows ("wait-queue linked to @active,
or NULL") and the code handles by skipping the wake-up.  Counterexample:
`t1` acquires; `t2` deactivates, enters the drain and sleeps in
`wait_event`, because the counter is above the bias; `t1` releases, the
counter reaches the bias, and nobody is woken.  The drainer sleeps for good
and the release callback never runs.  A caller may pass NULL only when no
drainer can be asleep, which it cannot know from the gate: the comment of
`bus1_active_drain()` asks for the same wait-queue in every release, and
nothing in `bus1_active_release()` says so.

### `multicast_safety`

* `TypeOK`: shapes of the two structs; a node is linked exactly while its
  queue holds it; the nodes of a torn-down peer are unlinked.
* `ClockCoversQueue`: every clock is even and not behind any node its queue
  holds.
* `NoDuplicateKey`: no two nodes of one queue compare equal.
* `DeliveryOrdered`: each reader dequeues committed nodes only, in strictly
  increasing `(timestamp, sender)`; nothing committed later lands before
  what was already handed out.
* `ConsistentOrder`: the orders in which the readers dequeued fit into one
  order of all messages (the relation "dequeued before, somewhere" has no
  cycle).
* `QueuedAfterQueued`: rule 1 of the global order: a message begun after
  another one was completely committed is dequeued after it.
* `CommitNeverOvertakes`: the argument of the comment in
  `bus1_queue_compare()`, stated of the step in which a node becomes
  committed, by `commit_staged` or by the fast path: its timestamp is higher
  than that of every message the queue has handed out, ties included; and
  where it is not higher than that of a committed node still in the queue,
  the node was staged below that one before the step, so that the two were
  blocked.  A `commit_staged` that leaves the clock behind breaks it: the
  next message is staged below what the queue holds or has delivered.
* `ReadyStaysReady`: while a queue has a front, the front changes only
  when the reader dequeues or the peer is flushed.  No stage lands before
  it (the clock is not behind it) and no commit does (`commit_staged`
  synchronises the clock first).  This is what makes the lock-free
  `bus1_queue_is_readable()` of `poll` safe to act on: with one reader, an
  answer "readable" is still true when the reader comes to `peek`; only
  the answer "not readable" goes stale.  A tick of one instead of two, or a
  commit that leaves the clock behind, breaks it.
* `StagingHasOwner`: every staging entry of a queue belongs to the message
  its sender is working on, on a destination that the sender has staged
  and has still to commit or to remove.  A staging entry without such a
  transaction would hide everything committed behind it for ever.  The
  transaction keeps no list of what it staged: an abort takes it from the
  destinations the stage phase had left, also when a destination was torn
  down before or after it was staged.  An abort that ends the transaction
  without removing breaks it.
* `NoMissedWake`: no reader sleeps while its queue is readable.

Bounds.  Two senders and two peers are the smallest system in which two
multicasts stage in opposite orders on the same two queues; the third
message is the one sent "after" one of them, as a unicast or as a multicast,
which the rules of the global order are about.  Every message goes to any
non-empty set of open peers (`Routes`), either peer may be torn down, one
of them in a behaviour (`Mortal`, `MaxClosed = 1`), and both readers sleep
(`Blocking`).  One teardown is the case the properties are about, a
destination that goes away while the other one stays; with both gone
no queue is left to order anything.  One node type is used (`Types = {2}`, the
highest): the types differ only in the bits above the timestamp.  The peers
are interchangeable, the senders are not (their tags are ordered), so the
symmetry set permutes the peers only.  Deadlock is not checked: when every
sender has sent its messages and every reader has read, the system is at
rest.

### `multicast_liveness`

Under `FairSpec`, `CommittedIsDelivered`: a committed node is eventually
dequeued, unless its peer is torn down first.  Both peers may be torn down
(`MaxClosed = 2`), under the transactions or between them: a transaction
that lost a destination still commits on the other one, and what it
committed there is read.

Fairness.  `WF_vars(Progress(s))`: a transaction in flight is a thread
inside a system call that takes each peer lock for a bounded section; once
begun, its next step stays enabled until it is taken.  `WF_vars(Recv(p))`:
the property is about a reader that keeps reading; `Recv` stays enabled
while the queue is readable and the reader is awake, because later entries
are linked behind the front.  Nothing forces a sender to begin or to abort,
a reader to go to sleep, or a peer to be torn down.

### `multicast_shared_tag`

`NoDuplicateKey` with both sender threads carrying one tag, as two threads
of one peer do.  Both stage on `x` and `y` in opposite orders, both see
`max_seen = 3` and commit at 4.  The comment of `bus1_queue_compare()`
excludes this because "we allocate the unique final timestamp via the
sender-clock"; the protocol of the design description has no such step,
and the tree has no code of it.

### `multicast_ring`

`ConsistentOrder` for the smallest system in which an inconsistency needs
three parties: `s1` sends to `{x, y}`, `s2` to `{y, z}`, `s3` to `{z, x}`.
Each queue sees two messages and orders them correctly by itself whatever
the timestamps are; a cycle `m1 < m2` on `y`, `m2 < m3` on `z`, `m3 < m1`
on `x` would contradict no single queue.  It does not occur: each order
follows the pair `(timestamp, sender)`, which is the same on every queue.
The routes are fixed, no peer is torn down and the readers poll, which
leaves every interleaving of the stage, commit, abort and receive steps of
the three transactions.

### `multicast_rule2`

`QueuedAfterDequeued` is rule 2 of the global order.  Counterexample: a
unicast raises the clock of `x` to 2; a multicast `A` stages at 3 on `x`
and at 1 on `y`, commits at 4 on `x` and is dequeued there; a unicast `B`,
begun after that, ticks the clock of `y` from 2 to 4; `A` commits on `y` at
4; the sender tags decide and the reader of `y` gets `B` first.

### `device_safety`

* `TypeOK`: the types, and a thread holds a reference exactly while it is
  between its acquire and its release.
* `InfoWhileHeld`: `bus1_peer_dereference()` in `mmap` and in the peer
  commands finds `peer->info` set, whatever CONNECT and DISCONNECT do
  around the acquire.  It holds because the information is published
  before the gate is activated and cleared only by the release callback,
  and because activate is a compare-and-swap: a CONNECT that lost against a
  DISCONNECT of the new peer does not activate the torn-down peer.
* `FreeClean`: `bus1_peer_free()` meets a peer that is DRAINED, without
  peer information, torn down exactly once, and with nobody asleep on its
  wait-queue: for a peer that was never connected, one disconnected by an
  ioctl before, and one still connected at the close.
* `StalePollIsWoken`: a `poll` that returned POLLOUT and whose peer has
  since been torn down completely was reached by a wake-up.
* `PollSeesTeardown`: a `poll` that begins on a deactivated peer returns
  POLLHUP, also while `peer->info` is still published.

Three threads give a poller, a disconnecting thread and a holder at once,
two drainers and a holder, or a CONNECT racing a DISCONNECT with a third
thread that acquires.  `MaxHeld = 1`: no path of `main.c` holds two
references.  The threads run the same code, so the run uses symmetry over
them.  A file that was closed is opened again, so that what the second
peer meets is checked as well.  The system stops when the module is
unloaded: `CHECK_DEADLOCK FALSE`.

### `device_liveness`

Under `FairSpec`, `CallsReturn`: a thread inside a call, and past the retry
loop of `bus1_active_add_unless_negative()`, returns.  This covers the
DISCONNECT and the close that wait for the references of running calls, and
the DISCONNECT that lost the race for the release against another one.

Fairness.  `WF_vars(Run(t))` for every thread: a thread inside a system
call is scheduled until the call returns, and every step inside a call
stays enabled until it is taken or is a sleep that a wake-up ends.  Nothing
makes a thread enter a call.  The retry loop of deactivate is left out of
the promise because it is lock-free and not wait-free: with the loop
included TLC finds the behaviour in which a DISCONNECT loses its `cmpxchg`
to the acquire and release of an `mmap` again and again, for as long as
other threads keep calling.  Two threads: a waiter and a holder, or two
drainers; the three-way cases inside the gate are those of
`active_liveness`.

## 9. Not modelled

* The lockdep annotations: debug-only, no effect on the counter.
* Memory ordering below sequential consistency: every atomic operation of
  `active.c` is a full barrier (`cmpxchg`, `atomic_dec_return`) or is
  followed by one (`atomic_set` before `wake_up_all`).
* Counter overflow: `2^31 - 5` simultaneous references are out of reach of
  explicit-state checking; `TypeOK` bounds the counter by the number of
  references the model's threads can hold.  Likewise a queue clock that
  reaches `2^62`.
* Reference counts of queue nodes and RCU grace periods: the nodes of the
  model exist from the start and are never freed.
* The body of `peer.c`: `Device` has the peer functions as `main.c` relies
  on them; the queue of the peer is the flag `readable`.  Putting the queue
  of `Multicast` in its place would need the send and receive paths of
  `bus1_peer_ioctl()`, which are not part of this tree: which references a
  transaction takes on its destinations, and when, would be invented.
* The flush list.  `rb`, `link` and `rcu` of a node share storage, so
  between `bus1_queue_flush()` and the caller's walk over the list it
  returns `bus1_queue_node_is_queued()` says nothing about a flushed node.
  `Flush` of `Multicast` is the flush together with that walk: the nodes
  leave the queue and are unlinked in one step.  A transaction that looks
  at its node inside the window would need the list handling of `queue.c`
  and the messaging layer, which are not part of this tree.
* The sender-clock step of a transaction: named by the DOC comment of
  `queue.h` and by the comment of `bus1_queue_compare()`, but neither coded
  in this tree nor part of the protocol of the design description.  Which
  clock is ticked when, and what the single-destination fast path does with
  it (`bus1_queue_commit_unstaged()` has no timestamp parameter), would be
  invented.
* A drain without a release callback (`release` may be NULL): the callback
  changes nothing of the gate, and `released` counts the point where it
  would run.
* A drain by a thread that holds a reference itself: it would wait for its
  own reference.  The lockdep annotations of `bus1_active_drain()` report
  it; the model has the rule as the guard of `DrainEnter`, and `Device`
  shows that no path of `main.c` reaches the drain with a reference held.
* An abstract specification of ordered delivery above `Multicast`: the one
  order all readers agree on is known only when the last racing transaction
  has committed, so it is not a variable that steps extend; what it promises
  is the invariant `ConsistentOrder`.
* Returns of `main.c` that change no state, `llseek`, and the compat ioctl
  entry, which is the same function.
* Several files open at once: peers of different files share nothing in
  `main.c`; they meet in the queues, which is `Multicast`.
* A `misc_register()` that fails: no device, no behaviour.
* Pool, handles, user-memory import and the self-tests: pure I/O or not
  part of this tree.
