----------------------------- MODULE TenantPool -----------------------------
(***************************************************************************)
(* TenantAwarePoolProxy (src/database/pool_manager.ts): connect(tenant)    *)
(* calls wait in one queue, and one processQueue loop grants them clients  *)
(* of a pg.Pool within per-tenant and global limits, tenants below their   *)
(* minimum first. The loop runs synchronously up to its awaits (a client,  *)
(* then SET search_path), during which calls, releases and timeouts go on. *)
(* The pg.Pool is external. It has other users, which the proxy does not   *)
(* count: TelemetryNotificationListener keeps a client for as long as it   *)
(* listens, and a refresh of the aggregates borrows one.                   *)
(***************************************************************************)
EXTENDS Integers, Sequences, FiniteSetsExt, SequencesExt

CONSTANTS
    Requests,       \* calls of connect
    Tenant,         \* Tenant[r]: the tenant of call r
    TenantMin,      \* TENANT_MIN_CONNECTIONS
    TenantMax,      \* TENANT_MAX_CONNECTIONS
    GlobalMax,      \* getGlobalMax(); the pg.Pool was made with this max
    MaxDirect,      \* bound: clients other users of the pg.Pool hold at once
    MaxSetFailures, \* bound: failures of SET search_path
    NoRequest

ASSUME PoolAssumption ==
    /\ IsFiniteSet(Requests) /\ DOMAIN Tenant = Requests
    /\ {TenantMin, TenantMax, GlobalMax} \subseteq Nat \ {0}
    /\ TenantMin <= TenantMax
    /\ {MaxDirect, MaxSetFailures} \subseteq Nat
    /\ NoRequest \notin Requests

Tenants == {Tenant[r] : r \in Requests}

VARIABLES
    call,           \* call[r]: what became of connect call r
    waitQueue,
    fairOrder,
    tenantActive,   \* tenantActive[t], 0 for no entry
    globalActive,
    late,           \* waiting calls enqueued CONNECTION_WAIT_TIMEOUT_MS ago
    next,           \* the request whose client the loop awaits; else NoRequest
    hasClient,      \* that request has its client and awaits SET search_path
    timer,          \* a setTimeout for processQueue is pending
    free,           \* clients the pg.Pool can still hand out
    direct,         \* clients other users of the pool hold
    leaked,         \* clients taken for a request that was rejected
    removed         \* drainAll is done: the manager has no pool any more

proxyVars == <<waitQueue, fairOrder, tenantActive, globalActive, next, hasClient, timer>>
poolVars == <<call, proxyVars, late, free, direct, leaked, removed>>

PoolTypeOK ==
    /\ call \in [Requests -> {"idle", "waiting", "connecting", "holding",
                              "released", "rejected"}]
    /\ waitQueue \in Seq(Requests) /\ fairOrder \in Seq(Tenants)
    /\ ToSet(waitQueue) = {r \in Requests : call[r] = "waiting"}
    /\ ToSet(fairOrder) = {Tenant[r] : r \in ToSet(waitQueue)}
    /\ IsInjective(waitQueue) /\ IsInjective(fairOrder)
    /\ tenantActive \in [Tenants -> Nat] /\ globalActive \in Nat
    /\ late \subseteq ToSet(waitQueue)
    /\ next \in Requests \cup {NoRequest}
    /\ \A r \in Requests : r = next <=> call[r] = "connecting"
    /\ hasClient \in BOOLEAN /\ timer \in BOOLEAN /\ removed \in BOOLEAN
    /\ {free, direct, leaked} \subseteq Nat

PoolInit ==
    /\ call = [r \in Requests |-> "idle"]
    /\ waitQueue = <<>> /\ fairOrder = <<>>
    /\ tenantActive = [t \in Tenants |-> 0] /\ globalActive = 0
    /\ late = {}
    /\ next = NoRequest /\ hasClient = FALSE
    /\ timer = FALSE
    /\ free = GlobalMax /\ direct = 0 /\ leaked = 0 /\ removed = FALSE

-----------------------------------------------------------------------------
(* The choice of the next request, from the counters a and g of active      *)
(* clients, by tenant and in all.                                           *)

\* The first of a queue that is in S.
First(q, S) == q[CHOOSE i \in DOMAIN q : q[i] \in S /\ \A j \in 1..(i - 1) : q[j] \notin S]

\* What is in S of a queue, in its order.
Those(q, S) ==
    LET those[i \in 0..Len(q)] ==
            IF i = 0 THEN <<>>
            ELSE IF q[i] \in S THEN Append(those[i - 1], q[i]) ELSE those[i - 1]
    IN those[Len(q)]

\* What a tenant with too few clients is still due.
Due(a, t) == IF a[t] > 0 /\ a[t] < TenantMin THEN TenantMin - a[t] ELSE 0

ReservedActive(a, others) == MapThenSumSet(LAMBDA t : Due(a, t), others)

\* reservedForGuarantees also counts the first waiting request of a tenant
\* below its minimum, and stops there.
ReservedWaiting(a, queue, others) ==
    LET due == {r \in ToSet(queue) \ late : Tenant[r] \in others /\ a[Tenant[r]] < TenantMin}
    IN IF due = {} THEN 0 ELSE TenantMin - a[Tenant[First(queue, due)]]

ReservedForGuarantees(t, a, queue) ==
    ReservedActive(a, Tenants \ {t}) + ReservedWaiting(a, queue, Tenants \ {t})

\* Mutant: no reservation for tenants below their minimum.
LeavesReserveNever(t, a, g, queue) == g < GlobalMax

LeavesReserve(t, a, g, queue) == g + ReservedForGuarantees(t, a, queue) < GlobalMax

BelowCaps(t, a, g) == a[t] < TenantMax /\ g < GlobalMax

CanGrant(t, a, g, queue) ==
    /\ BelowCaps(t, a, g)
    /\ a[t] < TenantMin \/ LeavesReserve(t, a, g, queue)

\* The first request of the first tenant in fair order that may have a client,
\* among the tenants below their minimum if there are any.
Pick(a, g, queue, order) ==
    LET inTime == ToSet(queue) \ late
        waiting == {Tenant[r] : r \in inTime}
        under == {t \in waiting : a[t] < TenantMin}
        able == {t \in IF under # {} THEN under ELSE waiting : CanGrant(t, a, g, queue)}
    IN IF able = {} THEN NoRequest
       ELSE First(queue, {r \in inTime : Tenant[r] = First(order, able)})

\* Mutant: fairOrder is not compacted.
CompactNever(order, calls) == order

\* compactFairOrder
Compact(order, calls) == Those(order, {Tenant[r] : r \in calls})

\* Mutant: a break out of the loop does not arm the timer.
RearmsNever(calls) == FALSE

Rearms(calls) == calls # {}

\* The loop of processQueue up to its next await, or to its end, from the state
\* of the calls c, the queue, the fair order and the counters.
Loop(c, queue, order, a, g, armed) ==
    \E picked \in {Pick(a, g, queue, order)} :
       LET rest == ToSet(queue) \ (late \cup {picked})
       IN /\ next' = picked
          /\ hasClient' = FALSE
          /\ waitQueue' = Those(queue, rest)
          /\ fairOrder' = Compact(order, rest)
          /\ late' = {}
          /\ call' = [r \in Requests |->
                         IF r = picked THEN "connecting"
                         ELSE IF r \in late THEN "rejected" ELSE c[r]]
          /\ timer' = (armed \/ (picked = NoRequest /\ Rearms(rest)))

\* Pool "..." not found.
RejectAll(c, armed) ==
    /\ call' = [r \in Requests |-> IF c[r] = "waiting" THEN "rejected" ELSE c[r]]
    /\ waitQueue' = <<>> /\ fairOrder' = <<>> /\ late' = {}
    /\ timer' = armed
    /\ UNCHANGED <<next, hasClient>>

\* processQueue: if (this.processing) return; and the pool is looked up once.
LoopUnlessRunning(c, queue, order, a, g, armed) ==
    \/ next = NoRequest /\ ~removed /\ Loop(c, queue, order, a, g, armed)
    \/ next = NoRequest /\ removed /\ RejectAll(c, armed)
    \/ /\ next # NoRequest
       /\ call' = c /\ waitQueue' = queue /\ fairOrder' = order
       /\ timer' = armed
       /\ UNCHANGED <<next, hasClient, late>>

-----------------------------------------------------------------------------
(* The operations. *)

Connect(r) ==
    /\ call[r] = "idle"
    /\ LoopUnlessRunning([call EXCEPT ![r] = "waiting"],
                         Append(waitQueue, r),
                         IF Contains(fairOrder, Tenant[r]) THEN fairOrder
                         ELSE Append(fairOrder, Tenant[r]),
                         tenantActive, globalActive, timer)
    /\ UNCHANGED <<tenantActive, globalActive, free, direct, leaked, removed>>

\* 500 ms have passed since the oldest call not late yet was enqueued.
GrowLate ==
    \E i \in DOMAIN waitQueue :
        /\ late = {waitQueue[j] : j \in 1..(i - 1)}
        /\ late' = late \cup {waitQueue[i]}
        /\ UNCHANGED <<call, proxyVars, free, direct, leaked, removed>>

\* pool.connect() resolves.
GetClient ==
    /\ next # NoRequest /\ ~hasClient
    /\ free > 0
    /\ free' = free - 1
    /\ hasClient' = TRUE
    /\ UNCHANGED <<call, waitQueue, fairOrder, tenantActive, globalActive, next,
                   timer, late, direct, leaked, removed>>

\* pool.connect() rejects.
ConnectFails ==
    /\ next # NoRequest /\ ~hasClient
    /\ Loop([call EXCEPT ![next] = "rejected"], waitQueue, fairOrder,
            tenantActive, globalActive, timer)
    /\ UNCHANGED <<tenantActive, globalActive, free, direct, leaked, removed>>

\* SET search_path resolves: the call has its client.
Grant ==
    /\ next # NoRequest /\ hasClient
    /\ globalActive' = globalActive + 1
    /\ tenantActive' = [tenantActive EXCEPT ![Tenant[next]] = @ + 1]
    /\ Loop([call EXCEPT ![next] = "holding"], waitQueue, fairOrder,
            tenantActive', globalActive', timer)
    /\ UNCHANGED <<free, direct, leaked, removed>>

\* tenantSchemaName throws or SET search_path rejects: the call is rejected, and
\* its client is not released.
SetFails ==
    /\ next # NoRequest /\ hasClient
    /\ leaked < MaxSetFailures
    /\ leaked' = leaked + 1
    /\ Loop([call EXCEPT ![next] = "rejected"], waitQueue, fairOrder,
            tenantActive, globalActive, timer)
    /\ UNCHANGED <<tenantActive, globalActive, free, direct, removed>>

AfterRelease(t) == [tenantActive EXCEPT ![t] = @ - 1]

\* The wrapped client.release, called once.
ReleaseClient(r) ==
    /\ call[r] = "holding"
    /\ globalActive' = globalActive - 1
    /\ tenantActive' = AfterRelease(Tenant[r])
    /\ free' = free + 1
    /\ LoopUnlessRunning([call EXCEPT ![r] = "released"], waitQueue, fairOrder,
                         tenantActive', globalActive', timer)
    /\ UNCHANGED <<direct, leaked, removed>>

\* A pending setTimeout runs processQueue. (Several may be pending; as each
\* run arms another while calls wait, one stands for all of them.)
TimerFires ==
    /\ timer
    /\ LoopUnlessRunning(call, waitQueue, fairOrder, tenantActive, globalActive, FALSE)
    /\ UNCHANGED <<tenantActive, globalActive, free, direct, leaked, removed>>

\* Code that connects to the pg.Pool without the proxy has its client: the
\* listener's connectAndListen, refreshAggregatesAdaptively.
TakeDirect ==
    /\ free > 0 /\ direct < MaxDirect
    /\ free' = free - 1 /\ direct' = direct + 1
    /\ UNCHANGED <<call, proxyVars, late, leaked, removed>>

\* It returns it: the listener when it reconnects or stops, if ever.
ReturnDirect ==
    /\ direct > 0
    /\ free' = free + 1 /\ direct' = direct - 1
    /\ UNCHANGED <<call, proxyVars, late, leaked, removed>>

\* closeTimescalePool: pool.end() resolves when every client is back, and the
\* pool is taken from the manager. It hands out no client any more; what still
\* waits for one gets no answer, and another connect() rejects.
RemovePool ==
    /\ ~removed /\ free = GlobalMax
    /\ removed' = TRUE /\ free' = 0
    /\ UNCHANGED <<call, proxyVars, late, direct, leaked>>

\* The calls may all be over.
Quiet ==
    /\ \A r \in Requests : call[r] \in {"released", "rejected"}
    /\ UNCHANGED poolVars

PoolNext ==
    \/ \E r \in Requests : Connect(r) \/ ReleaseClient(r)
    \/ GrowLate \/ GetClient \/ ConnectFails \/ Grant \/ SetFails \/ TimerFires
    \/ TakeDirect \/ ReturnDirect \/ RemovePool
    \/ Quiet

\* Time passes, timers fire and SET search_path is answered. Nothing obliges
\* the pg.Pool to answer pool.connect(), which has no time limit, nor anybody to
\* return a client.
PoolFairness ==
    WF_poolVars(GrowLate) /\ WF_poolVars(TimerFires) /\ WF_poolVars(Grant \/ SetFails)

PoolSpec == PoolInit /\ [][PoolNext]_poolVars /\ PoolFairness

-----------------------------------------------------------------------------
(* Properties. *)

Holding(t) == {r \in Requests : Tenant[r] = t /\ call[r] = "holding"}

\* A request is chosen under the caps, then waits for a client and for SET
\* search_path while other calls, releases and timers run: when it is granted
\* the counters still say what is held, and no tenant nor all of them together
\* hold more than the caps.
GrantsWithinCaps ==
    /\ \A t \in Tenants :
          tenantActive[t] = Cardinality(Holding(t)) /\ tenantActive[t] <= TenantMax
    /\ globalActive = Cardinality({r \in Requests : call[r] = "holding"})
    /\ globalActive <= GlobalMax

\* The clients held, and those that tenants with at least one but fewer than
\* TENANT_MIN_CONNECTIONS are still due.
Committed == globalActive + ReservedActive(tenantActive, Tenants)

\* reservedForGuarantees: what tenants that have a client are due on their
\* minimum is promised away only to a tenant that has none.
ReservesYieldToNewcomersOnly ==
    [][ Committed' > GlobalMax /\ Committed' > Committed
        => \E t \in Tenants : tenantActive[t] = 0 /\ tenantActive'[t] = 1 ]_poolVars

\* pool_manager.ts: grants respect the caps and the minimum of every tenant.
SharesHold == []GrantsWithinCaps /\ ReservesYieldToNewcomersOnly

\* The loop stands at `await pool.connect()`.
AwaitsClient == next # NoRequest /\ ~hasClient

\* No call stays in the queue: it gets its turn or PoolContentionError although
\* tenants at their caps never release, unless the loop waits for ever for a
\* client. Then (the listener keeps one, failed calls leaked others, callers
\* hold the rest) no queued call is looked at again, whatever its age. (Each of
\* the calls queues once: all of them leave the queue iff it is empty for good.)
ConnectsSettle ==
    []<>(\A r \in Requests : call[r] # "waiting") \/ <>[]AwaitsClient
=============================================================================
