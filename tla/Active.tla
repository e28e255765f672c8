------------------------------- MODULE Active -------------------------------
(***************************************************************************)
(* The active-reference gate of ipc/bus1/active.c.                         *)
(*                                                                         *)
(* One object, one atomic 32-bit counter, any number of threads calling    *)
(* activate, acquire, release, deactivate and drain in any order.  Every   *)
(* atomic operation of the code is one step; what a thread does between    *)
(* two atomic operations is its program location pc[t] and its local v[t]. *)
(* The wait-queue is the set of threads asleep in wait_event().            *)
(***************************************************************************)
EXTENDS Integers, FiniteSets, Functions

CONSTANTS
    Threads,     \* the threads that use the object
    MaxHeld,     \* bound: references one thread holds at a time
    NullWaitq    \* the threads that pass no wait-queue to release

ASSUME /\ Threads # {} /\ IsFiniteSet(Threads) /\ MaxHeld \in Nat \ {0}
       /\ NullWaitq \subseteq Threads

VARIABLES
    count,       \* active->count
    pc,          \* pc[t]: where thread t is inside an API call
    v,           \* v[t]: the local v of add_unless_negative
    held,        \* held[t]: references thread t acquired and not released
    waitq,       \* threads asleep on the wait-queue linked to the object
    released     \* how often the release callback was invoked

vars == <<count, pc, v, held, waitq, released>>

-----------------------------------------------------------------------------
(* The counter encoding, at its real width. *)

INT_MIN                    == -2147483647 - 1
BUS1_ACTIVE_BIAS           == INT_MIN + 5
BUS1_ACTIVE_RELEASE_DIRECT == BUS1_ACTIVE_BIAS - 1
BUS1_ACTIVE_RELEASE        == BUS1_ACTIVE_BIAS - 2
BUS1_ACTIVE_DRAINED        == BUS1_ACTIVE_BIAS - 3
BUS1_ACTIVE_NEW            == BUS1_ACTIVE_BIAS - 4

IsNew         == count = BUS1_ACTIVE_NEW
IsActive      == count >= 0
IsDeactivated == count > BUS1_ACTIVE_NEW /\ count < 0
DestroyOK     == count = BUS1_ACTIVE_DRAINED   \* else destroy warns

Idle(t)      == pc[t] = "idle"
Goto(t, loc) == pc' = [pc EXCEPT ![t] = loc]

\* wait_event(waitq, cond): test the condition and either go on or sleep.
\* The sleeper is on the queue before it tests, so test and enqueue are one
\* step; a woken thread tests again.
WaitEvent(t, cond, next) ==
    /\ t \notin waitq
    /\ IF cond THEN Goto(t, next) /\ UNCHANGED waitq
               ELSE waitq' = waitq \cup {t} /\ UNCHANGED pc

\* wake_up(): at least one sleeper is woken, possibly several.
WakeUp ==
    \E S \in SUBSET waitq : (waitq # {} => S # {}) /\ waitq' = waitq \ S

WakeUpAll == waitq' = {}

-----------------------------------------------------------------------------
(* Faulty variants of the operations below, one plausible slip each.  The  *)
(* properties of this module are checked to reject every one of them.      *)

\* activate that stores 0 instead of compare-and-swapping it in
ActivateStore(t) ==
    Idle(t) /\ count' = 0 /\ UNCHANGED <<pc, v, held, waitq, released>>

\* acquire that tests against the bias instead of zero
AcquireWhileDraining(t) ==
    /\ Idle(t) /\ held[t] < MaxHeld
    /\ IF count >= BUS1_ACTIVE_BIAS
          THEN count' = count + 1 /\ held' = [held EXCEPT ![t] = @ + 1]
          ELSE UNCHANGED <<count, held>>
    /\ UNCHANGED <<pc, v, waitq, released>>

\* add_unless_negative that stores v + add without comparing
AddWithoutCompare(t) ==
    /\ pc[t] = "aun_cas" /\ Goto(t, "idle")
    /\ count' = v[t] + BUS1_ACTIVE_BIAS /\ v' = [v EXCEPT ![t] = 0]
    /\ UNCHANGED <<held, waitq, released>>

\* add_unless_negative that gives up after one failed compare-and-swap
AddWithoutRetry(t) ==
    /\ pc[t] = "aun_cas" /\ Goto(t, "idle")
    /\ count' = IF count = v[t] THEN v[t] + BUS1_ACTIVE_BIAS ELSE count
    /\ v' = [v EXCEPT ![t] = 0]
    /\ UNCHANGED <<held, waitq, released>>

\* drain that takes the RELEASE state with a plain store
DrainStoreRelease(t) ==
    /\ pc[t] = "drain_cas2" /\ Goto(t, "drain_release")
    /\ count' = BUS1_ACTIVE_RELEASE
    /\ UNCHANGED <<v, held, waitq, released>>

\* release that forgets to wake the drainer
ReleaseNoWake(t) ==
    /\ Idle(t) /\ held[t] > 0
    /\ count' = count - 1 /\ held' = [held EXCEPT ![t] = @ - 1]
    /\ UNCHANGED <<pc, v, waitq, released>>

\* drain that returns without waking the drainers that lost
DrainNoWake(t) ==
    /\ pc[t] = "drain_wake" /\ Goto(t, "idle")
    /\ UNCHANGED <<count, v, held, waitq, released>>

-----------------------------------------------------------------------------
(* The operations. *)

\* bus1_active_init()
Init ==
    /\ count = BUS1_ACTIVE_NEW
    /\ pc = [t \in Threads |-> "idle"]
    /\ v = [t \in Threads |-> 0]
    /\ held = [t \in Threads |-> 0]
    /\ waitq = {}
    /\ released = 0

\* bus1_active_activate(): cmpxchg(NEW, 0)
Activate(t) ==
    /\ Idle(t)
    /\ count' = IF IsNew THEN 0 ELSE count
    /\ UNCHANGED <<pc, v, held, waitq, released>>

\* bus1_active_acquire(): atomic_inc_unless_negative()
Acquire(t) ==
    /\ Idle(t) /\ held[t] < MaxHeld
    /\ IF IsActive
          THEN count' = count + 1 /\ held' = [held EXCEPT ![t] = @ + 1]
          ELSE UNCHANGED <<count, held>>
    /\ UNCHANGED <<pc, v, waitq, released>>

\* bus1_active_release(): atomic_dec_return(); the wake-up is owed when the
\* result is exactly the bias, and is made if a wait-queue was passed
Release(t) ==
    /\ Idle(t) /\ held[t] > 0
    /\ count' = count - 1 /\ held' = [held EXCEPT ![t] = @ - 1]
    /\ Goto(t, IF count' = BUS1_ACTIVE_BIAS THEN "rel_wake" ELSE "idle")
    /\ UNCHANGED <<v, waitq, released>>

ReleaseWake(t) ==
    /\ pc[t] = "rel_wake" /\ Goto(t, "idle")
    /\ IF t \in NullWaitq THEN UNCHANGED waitq ELSE WakeUp
    /\ UNCHANGED <<count, v, held, released>>

\* bus1_active_deactivate(): cmpxchg(NEW, RELEASE_DIRECT), and on failure
\* on to add_unless_negative(BIAS)
Deactivate(t) ==
    /\ Idle(t)
    /\ IF IsNew THEN count' = BUS1_ACTIVE_RELEASE_DIRECT /\ UNCHANGED pc
                ELSE Goto(t, "aun_read") /\ UNCHANGED count
    /\ UNCHANGED <<v, held, waitq, released>>

\* bus1_active_add_unless_negative(): the initial atomic_read()
AddUnlessNegativeRead(t) ==
    /\ pc[t] = "aun_read"
    /\ IF count >= 0 THEN v' = [v EXCEPT ![t] = count] /\ Goto(t, "aun_cas")
                     ELSE UNCHANGED v /\ Goto(t, "idle")
    /\ UNCHANGED <<count, held, waitq, released>>

\* bus1_active_add_unless_negative(): one cmpxchg(v, v + add) of the loop;
\* a failed one continues with the value it saw, while that is not negative
AddUnlessNegativeCas(t) ==
    /\ pc[t] = "aun_cas"
    /\ count' = IF count = v[t] THEN v[t] + BUS1_ACTIVE_BIAS ELSE count
    /\ IF count # v[t] /\ count >= 0
          THEN v' = [v EXCEPT ![t] = count] /\ UNCHANGED pc
          ELSE v' = [v EXCEPT ![t] = 0] /\ Goto(t, "idle")
    /\ UNCHANGED <<held, waitq, released>>

\* bus1_active_drain(): the WARN_ON early return, else on to the first wait.
\* A caller does not drain while it holds a reference itself (the write-lock
\* under a read-lock that the lockdep annotations of the code report).
DrainEnter(t) ==
    /\ Idle(t) /\ held[t] = 0
    /\ Goto(t, IF IsDeactivated THEN "drain_wait" ELSE "idle")
    /\ UNCHANGED <<count, v, held, waitq, released>>

DrainWait(t) ==
    /\ pc[t] = "drain_wait"
    /\ WaitEvent(t, count <= BUS1_ACTIVE_BIAS, "drain_cas1")
    /\ UNCHANGED <<count, v, held, released>>

\* cmpxchg(RELEASE_DIRECT, RELEASE)
DrainCas1(t) ==
    /\ pc[t] = "drain_cas1"
    /\ IF count = BUS1_ACTIVE_RELEASE_DIRECT
          THEN count' = BUS1_ACTIVE_RELEASE /\ Goto(t, "drain_release")
          ELSE UNCHANGED count /\ Goto(t, "drain_cas2")
    /\ UNCHANGED <<v, held, waitq, released>>

\* cmpxchg(BIAS, RELEASE); the branch is taken on the value it returns
DrainCas2(t) ==
    /\ pc[t] = "drain_cas2"
    /\ count' = IF count = BUS1_ACTIVE_BIAS THEN BUS1_ACTIVE_RELEASE ELSE count
    /\ Goto(t, IF count \in {BUS1_ACTIVE_BIAS, BUS1_ACTIVE_RELEASE_DIRECT}
                  THEN "drain_release" ELSE "drain_wait_drained")
    /\ UNCHANGED <<v, held, waitq, released>>

\* release(active), the callback
DrainRelease(t) ==
    /\ pc[t] = "drain_release" /\ Goto(t, "drain_set")
    /\ released' = released + 1
    /\ UNCHANGED <<count, v, held, waitq>>

\* atomic_set(DRAINED)
DrainSetDrained(t) ==
    /\ pc[t] = "drain_set" /\ Goto(t, "drain_wake")
    /\ count' = BUS1_ACTIVE_DRAINED
    /\ UNCHANGED <<v, held, waitq, released>>

\* wake_up_all(), return true
DrainWakeAll(t) ==
    /\ pc[t] = "drain_wake" /\ Goto(t, "idle")
    /\ WakeUpAll
    /\ UNCHANGED <<count, v, held, released>>

\* the loser's wait_event(count == DRAINED), return false
DrainWaitDrained(t) ==
    /\ pc[t] = "drain_wait_drained"
    /\ WaitEvent(t, count = BUS1_ACTIVE_DRAINED, "idle")
    /\ UNCHANGED <<count, v, held, released>>

\* The steps a thread takes inside a call it has entered.
Continue(t) ==
    \/ ReleaseWake(t)
    \/ AddUnlessNegativeRead(t)
    \/ AddUnlessNegativeCas(t)
    \/ DrainWait(t)
    \/ DrainCas1(t)
    \/ DrainCas2(t)
    \/ DrainRelease(t)
    \/ DrainSetDrained(t)
    \/ DrainWakeAll(t)
    \/ DrainWaitDrained(t)

Next ==
    \E t \in Threads :
        \/ Activate(t)
        \/ Acquire(t)
        \/ Release(t)
        \/ Deactivate(t)
        \/ DrainEnter(t)
        \/ Continue(t)

Spec == Init /\ [][Next]_vars

\* A thread inside a call is scheduled until the call returns (weak
\* fairness), and a thread that holds a reference gives it back, as every
\* caller in main.c does on each path (strong fairness, because the thread
\* may make other calls in between).
Fairness == \A t \in Threads : WF_vars(Continue(t)) /\ SF_vars(Release(t))

FairSpec == Spec /\ Fairness

-----------------------------------------------------------------------------
(* Properties. *)

DrainLocations ==
    {"drain_wait", "drain_cas1", "drain_cas2", "drain_release", "drain_set",
     "drain_wake", "drain_wait_drained"}

MaxCount == Cardinality(Threads) * MaxHeld

\* References the counter accounts for, whichever side of the bias it is on.
Outstanding ==
    IF count >= 0 THEN count
    ELSE IF count >= BUS1_ACTIVE_BIAS THEN count - BUS1_ACTIVE_BIAS ELSE 0

\* The lifecycle phase the counter encodes.
Phase ==
    CASE IsNew                       -> "new"
      [] IsActive                    -> "active"
      [] count = BUS1_ACTIVE_RELEASE -> "release"
      [] count = BUS1_ACTIVE_DRAINED -> "drained"
      [] OTHER                       -> "deactivated"

\* The counter is one of the four sentinels or a reference count on one
\* side of the bias; it never reaches the reserved values below NEW nor
\* the gap between the bias range and zero.
TypeOK ==
    /\ count \in {BUS1_ACTIVE_NEW, BUS1_ACTIVE_DRAINED, BUS1_ACTIVE_RELEASE,
                  BUS1_ACTIVE_RELEASE_DIRECT}
                 \cup (0 .. MaxCount)
                 \cup (BUS1_ACTIVE_BIAS .. BUS1_ACTIVE_BIAS + MaxCount)
    /\ pc \in [Threads -> DrainLocations \cup {"idle", "rel_wake", "aun_read",
                                               "aun_cas"}]
    /\ v \in [Threads -> 0 .. MaxCount]
    /\ held \in [Threads -> 0 .. MaxHeld]
    /\ waitq \subseteq Threads
    /\ released \in Nat

\* The counter accounts for exactly the references the threads hold, before
\* and after the bias is added by a deactivate that races acquire and
\* release (bus1_active_add_unless_negative against atomic_inc/dec).
CountMatchesHolders == Outstanding = SumFunction(held)

\* The release callback of bus1_active_drain() is invoked at most once,
\* however many threads drain concurrently and however their two cmpxchg
\* interleave.
ReleaseRunsOnce == released <= 1

\* A thread asleep on the wait-queue whose condition has become true has a
\* waker on its way: the releaser that reached the bias, or a drainer that
\* is awake and therefore ends in wake_up_all().  Nobody is left asleep for
\* good, whichever sleeper the wake-up of bus1_active_release() picks and
\* wherever other threads stand between their store and their wake-up.
WakerPending ==
    \E w \in Threads \ waitq :
        \/ pc[w] = "rel_wake" /\ w \notin NullWaitq
        \/ pc[w] \in {"drain_wait", "drain_cas1", "drain_cas2",
                      "drain_release", "drain_set", "drain_wake"}

NoLostWakeup ==
    \A t \in waitq :
        \/ pc[t] = "drain_wait" /\ count > BUS1_ACTIVE_BIAS
        \/ pc[t] = "drain_wait_drained" /\ count # BUS1_ACTIVE_DRAINED
        \/ WakerPending

\* When bus1_active_deactivate() returns the object is deactivated, also
\* when its compare-and-swap loop lost races against acquire and release;
\* and once deactivated it stays so.  Together: a caller that deactivated
\* never meets the WARN_ON of bus1_active_drain().
DeactivateTakesEffect ==
    [][/\ IsDeactivated => IsDeactivated'
       /\ \A t \in Threads :
            pc[t] \in {"aun_read", "aun_cas"} /\ pc'[t] = "idle"
                => IsDeactivated']_vars

\* The biased counter implements the abstract gate: references are taken
\* only while active, the callback runs once and only with no reference
\* outstanding, and the phase never moves backwards.
Abs == INSTANCE ActiveSpec WITH phase <- Phase, holders <- held

Refinement == Abs!ASpec

\* Every drain that got past its entry check returns, provided holders give
\* their references back: the wake-up of the last release reaches the
\* drainer, and the wake-up after DRAINED reaches the drainers that lost.
\* bus1_active_drain() "waits for all active-references to be dropped";
\* bus1_active_release() takes "wait-queue linked to @active, or NULL" and
\* wakes nobody when it is NULL.
DrainTerminates ==
    \A t \in Threads : pc[t] \in DrainLocations ~> Idle(t)

\* Once a drain has started the object ends up drained and stays so.
EventuallyDrained ==
    (\E t \in Threads : pc[t] \in DrainLocations) ~> []DestroyOK

-----------------------------------------------------------------------------
(* A reading of "once drain() returns the object can be destroyed" that    *)
(* the code does not give.                                                 *)

\* When the draining thread returns from bus1_active_drain(), no other
\* thread is still inside bus1_active_release() with its wake_up(waitq)
\* to come.  The releaser that brought the counter to the bias makes the
\* drain possible with its decrement and touches the wait-queue after it.
DrainReturnsQuiescent ==
    [][\A t \in Threads :
          pc[t] = "drain_wake" /\ pc'[t] = "idle"
              => \A u \in Threads : pc'[u] # "rel_wake"]_vars

=============================================================================
