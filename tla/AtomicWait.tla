----------------------------- MODULE AtomicWait -----------------------------
(***************************************************************************)
(* include/common/atomic_wait.hpp: threads that wait for an atomic to leave*)
(* the value 0, and threads that change it and notify.  `strategy` is the  *)
(* branch of the header the build selects:                                 *)
(*   backoff  timed sleeps and an empty notify (__NO_TABLE, any type but   *)
(*            int32_t: what sync_wait and the resolver get)                *)
(*   direct   a futex on the atomic itself (int32_t, __NO_TABLE)           *)
(*   counted  the same with the waiters of the contention table            *)
(*   proxy    a futex on the version of the contention table, with a       *)
(*            timeout                                                      *)
(*   condvar  a mutex and a condition variable in the contention table     *)
(* Every step is one atomic access; the seq_cst fences of the code make    *)
(* them sequentially consistent.                                           *)
(***************************************************************************)
EXTENDS Integers

CONSTANTS Waiters, Notifiers, MaxChanges, VersionMod

Strategies == {"backoff", "direct", "counted", "proxy", "condvar"}
Timed == {"backoff", "proxy"}
Nobody == "nobody"

VARIABLES
    strategy, all,   \* the branch, and notify_all (TRUE) or notify_one
    val, changes,    \* the atomic, and how often it was changed
    tab,             \* waiters or credit of the table's entry
    version, seen,   \* version, and what each waiter read of it
    mutex,
    apc, npc         \* control of the waiting and of the notifying threads

avars == <<strategy, all, val, changes, tab, version, seen, mutex, apc, npc>>

AInit ==
    /\ strategy \in Strategies /\ all \in BOOLEAN
    /\ val = 0 /\ changes = 0 /\ tab = 0 /\ version = 0 /\ mutex = Nobody
    /\ seen = [w \in Waiters |-> 0]
    /\ apc = [w \in Waiters |-> "check"]
    /\ npc = [n \in Notifiers |-> "idle"]

WaiterGoes(w, to) == apc' = [apc EXCEPT ![w] = to]
NotifierGoes(n, to) == npc' = [npc EXCEPT ![n] = to]

-----------------------------------------------------------------------------
(* __cxx_atomic_wait and __cxx_atomic_try_wait_slow *)

\* the loads of __cxx_atomic_wait, spinning and then in its while loop
Check(w) ==
    /\ apc[w] = "check"
    /\ WaiterGoes(w, IF val # 0 THEN "out"
                     ELSE CASE strategy = "backoff" -> "asleep"
                            [] strategy = "direct" -> "futex"
                            [] OTHER -> "announce")
    /\ UNCHANGED <<strategy, all, val, changes, tab, version, seen, mutex, npc>>

\* waiters += 1, waiters = 1, or lock and credit = 1
Announce(w) ==
    /\ apc[w] = "announce"
    /\ strategy = "condvar" => mutex = Nobody
    /\ mutex' = IF strategy = "condvar" THEN w ELSE mutex
    /\ tab' = IF strategy = "counted" THEN tab + 1 ELSE 1
    /\ WaiterGoes(w, CASE strategy = "counted" -> "futex"
                       [] strategy = "proxy" -> "version"
                       [] OTHER -> "recheck")
    /\ UNCHANGED <<strategy, all, val, changes, version, seen, npc>>

LoadVersion(w) ==
    /\ apc[w] = "version"
    /\ seen' = [seen EXCEPT ![w] = version]
    /\ WaiterGoes(w, "recheck")
    /\ UNCHANGED <<strategy, all, val, changes, tab, version, mutex, npc>>

\* the load of the atomic after the announcement
Recheck(w) ==
    /\ apc[w] = "recheck"
    /\ WaiterGoes(w, IF val # 0 THEN "leave" ELSE "futex")
    /\ UNCHANGED <<strategy, all, val, changes, tab, version, seen, mutex, npc>>

\* FUTEX_WAIT compares and sleeps in one step; pthread_cond_wait releases the mutex
Sleep(w) ==
    /\ apc[w] = "futex"
    /\ LET unchanged == CASE strategy = "proxy" -> version % VersionMod = seen[w] % VersionMod
                          [] strategy = "condvar" -> TRUE
                          [] OTHER -> val = 0
       IN WaiterGoes(w, IF unchanged THEN "asleep" ELSE "leave")
    /\ mutex' = IF mutex = w THEN Nobody ELSE mutex
    /\ UNCHANGED <<strategy, all, val, changes, tab, version, seen, npc>>

\* mutant: the fallback sleeps until it is notified
NapNotified(w) ==
    /\ apc[w] = "asleep" /\ strategy = "proxy"
    /\ WaiterGoes(w, "leave")
    /\ UNCHANGED <<strategy, all, val, changes, tab, version, seen, mutex, npc>>

\* the sleep or the futex's timeout is over; the fallback's own loop sleeps again
Nap(w) ==
    /\ apc[w] = "asleep" /\ strategy \in Timed
    /\ strategy = "backoff" => val # 0
    /\ WaiterGoes(w, "leave")
    /\ UNCHANGED <<strategy, all, val, changes, tab, version, seen, mutex, npc>>

\* a futex or a condition variable may wake its sleeper for no reason
Spurious(w) ==
    /\ apc[w] = "asleep" /\ strategy # "backoff"
    /\ WaiterGoes(w, "leave")
    /\ UNCHANGED <<strategy, all, val, changes, tab, version, seen, mutex, npc>>

\* waiters -= 1, or the mutex is taken again and released
Leave(w) ==
    /\ apc[w] = "leave"
    /\ mutex \in {Nobody, w}
    /\ mutex' = Nobody
    /\ tab' = IF strategy = "counted" THEN tab - 1 ELSE tab
    /\ WaiterGoes(w, "check")
    /\ UNCHANGED <<strategy, all, val, changes, version, seen, npc>>

-----------------------------------------------------------------------------
(* a store to the atomic, then __cxx_atomic_notify_all or _one *)

Store(n) ==
    /\ npc[n] = "idle" /\ changes < MaxChanges
    /\ val' = 1 - val /\ changes' = changes + 1
    /\ NotifierGoes(n, "notify")
    /\ UNCHANGED <<strategy, all, tab, version, seen, mutex, apc>>

\* the first access: of waiters, version or credit
Notify(n) ==
    /\ npc[n] = "notify"
    /\ version' = IF strategy = "proxy" THEN version + 1 ELSE version
    /\ NotifierGoes(n, CASE strategy = "backoff" -> "idle"
                         [] strategy = "direct" -> "wake"
                         [] strategy = "counted" -> IF tab # 0 THEN "wake" ELSE "idle"
                         [] strategy = "proxy" -> "exchange"
                         [] OTHER -> IF tab # 0 THEN "exchange" ELSE "idle")
    /\ UNCHANGED <<strategy, all, val, changes, tab, seen, mutex, apc>>

\* waiters or credit is exchanged for 0
Exchange(n) ==
    /\ npc[n] = "exchange"
    /\ tab' = 0
    /\ NotifierGoes(n, IF tab = 0 THEN "idle"
                       ELSE IF strategy = "condvar" THEN "lock" ELSE "wake")
    /\ UNCHANGED <<strategy, all, val, changes, version, seen, mutex, apc>>

\* mutant: the broadcast without the lock
LockUnlockNot(n) ==
    /\ npc[n] = "lock"
    /\ NotifierGoes(n, "wake")
    /\ UNCHANGED <<strategy, all, val, changes, tab, version, seen, mutex, apc>>

\* pthread_mutex_lock and unlock: whoever announced itself is asleep now
LockUnlock(n) ==
    /\ npc[n] = "lock" /\ mutex = Nobody
    /\ NotifierGoes(n, "wake")
    /\ UNCHANGED <<strategy, all, val, changes, tab, version, seen, mutex, apc>>

Asleep == {w \in Waiters : apc[w] = "asleep"}

\* __do_direct_wake or pthread_cond_broadcast
Wake(n) ==
    /\ npc[n] = "wake"
    /\ \E woken \in SUBSET Asleep :
          /\ IF all \/ strategy \in {"proxy", "condvar"} \/ Asleep = {} THEN woken = Asleep
             ELSE \E w \in Asleep : woken = {w}
          /\ apc' = [w \in Waiters |-> IF w \in woken THEN "leave" ELSE apc[w]]
    /\ NotifierGoes(n, "idle")
    /\ UNCHANGED <<strategy, all, val, changes, tab, version, seen, mutex>>

-----------------------------------------------------------------------------

Waits(w) == Check(w) \/ Announce(w) \/ LoadVersion(w) \/ Recheck(w) \/ Sleep(w) \/ Nap(w) \/ Leave(w)

Notifies(n) == Notify(n) \/ Exchange(n) \/ LockUnlock(n) \/ Wake(n)

NotifiersIdle == \A n \in Notifiers : npc[n] = "idle"

AtRest == changes = MaxChanges /\ NotifiersIdle /\ UNCHANGED avars

ANext ==
    \/ \E w \in Waiters : Waits(w) \/ Spurious(w)
    \/ \E n \in Notifiers : Store(n) \/ Notifies(n)
    \/ AtRest

\* Threads run; nobody is obliged to change the atomic, or to wake for no reason.
\* The mutex is given to a thread that asks for it again and again.
AFairness ==
    /\ \A w \in Waiters : WF_avars(Waits(w)) /\ SF_avars(Announce(w) \/ Leave(w))
    /\ \A n \in Notifiers : WF_avars(Notifies(n)) /\ SF_avars(LockUnlock(n))

ASpec == AInit /\ [][ANext]_avars /\ AFairness

-----------------------------------------------------------------------------

\* Without a timeout nobody sleeps through a change: a waiter is asleep on a value
\* that is gone only while some notifier is still on its way to wake it
\* (atomic_wait.hpp:229-253, 259-291, 296-316).  The version of the proxy is as
\* good as long as it has not come round ("Hedge on rare 'int version' aliasing",
\* line 284).
NoMissedNotify ==
    \A w \in Asleep :
       val # 0 /\ all /\ NotifiersIdle =>
          strategy = "backoff" \/ (strategy = "proxy" /\ version >= VersionMod)

\* When the atomic stays away from the value, notify_all brings every waiter back
\* and notify_one at least one, in every strategy: the timeouts make up for the
\* empty notify of the back-off and for the version that came round.
WaitReturns ==
    <>[](val # 0) =>
       <>[](IF all THEN \A w \in Waiters : apc[w] = "out" ELSE \E w \in Waiters : apc[w] = "out")
=============================================================================
