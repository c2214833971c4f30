------------------------- MODULE NotificationListener -------------------------
(***************************************************************************)
(* TelemetryNotificationListener (src/database/pool_manager.ts): one       *)
(* client of the pool LISTENs for inserts. Its 'error' event and a failed  *)
(* connect or LISTEN each reconnect after a delay; the server starts it    *)
(* once and stops it at shutdown. A call of connectAndListen is named by   *)
(* its number, and so is the client it gets from the pool.                 *)
(***************************************************************************)
EXTENDS Naturals, FiniteSets

CONSTANT MaxConnects    \* bound: calls of connectAndListen

ASSUME ListenerAssumption == MaxConnects \in Nat \ {0}

Calls == 1..MaxConnects

VARIABLES
    active,     \* isRunning
    ownClient,  \* this.client; 0 for null
    connecting, \* connecting[k]: place of the call k
    live,       \* clients whose connection works
    lent,       \* clients checked out of the pool
    stopping,   \* stop() awaits UNLISTEN of this client; 0: it is not called or over
    slipped     \* history: a failure reached reconnect() twice, or stop() missed a client

listenerVars == <<active, ownClient, connecting, live, lent, stopping, slipped>>

ListenerTypeOK ==
    /\ active \in BOOLEAN /\ slipped \in BOOLEAN
    /\ ownClient \in 0..MaxConnects /\ stopping \in 0..MaxConnects
    /\ connecting \in [Calls -> {"unused", "timer", "connect", "listen", "done"}]
    /\ live \in SUBSET Calls /\ lent \in SUBSET Calls

\* start(): the first call goes to the pool.
ListenerInit ==
    /\ active = TRUE /\ ownClient = 0
    /\ connecting = [k \in Calls |-> IF k = 1 THEN "connect" ELSE "unused"]
    /\ live = {} /\ lent = {}
    /\ stopping = 0 /\ slipped = FALSE

-----------------------------------------------------------------------------
\* The calls, with the next one timed.
NextTimed(calls) ==
    LET next == CHOOSE k \in Calls : calls[k] = "unused" /\ \A j \in 1..k - 1 : calls[j] # "unused"
    IN  [calls EXCEPT ![next] = "timer"]

\* Mutant: no timer is set when no client was held.
TimedIfHeld(calls) == IF active /\ ownClient # 0 THEN NextTimed(calls) ELSE calls

\* One while the listener runs.
Timed(calls) == IF active THEN NextTimed(calls) ELSE calls

\* reconnect(), with the calls as they are left. The bound keeps one call for it.
Reconnect(calls) ==
    /\ \/ ~active \/ \E k \in Calls : calls[k] = "unused"
    /\ ownClient' = 0 /\ lent' = lent \ {ownClient}
    /\ connecting' = Timed(calls)

TimerFires(k) ==
    /\ connecting[k] = "timer"
    /\ connecting' = [connecting EXCEPT ![k] = IF active THEN "connect" ELSE "done"]
    /\ UNCHANGED <<active, ownClient, live, lent, stopping, slipped>>

\* The pool answers: handlers are set, LISTEN is sent. Nobody looks whether the
\* listener still runs.
Connected(k) ==
    /\ connecting[k] = "connect"
    /\ ownClient' = k /\ lent' = lent \cup {k} /\ live' = live \cup {k}
    /\ connecting' = [connecting EXCEPT ![k] = "listen"]
    /\ slipped' = (slipped \/ ~active)
    /\ UNCHANGED <<active, stopping>>

Listens(k) ==
    /\ connecting[k] = "listen" /\ k \in live
    /\ connecting' = [connecting EXCEPT ![k] = "done"]
    /\ UNCHANGED <<active, ownClient, live, lent, stopping, slipped>>

\* Without a client, or LISTEN refused: the call's own catch.
ConnectOrListenFails(k) ==
    /\ connecting[k] \in {"connect", "listen"}
    /\ Reconnect([connecting EXCEPT ![k] = "done"])
    /\ slipped' = (slipped \/ ownClient \notin {0, k})
    /\ UNCHANGED <<active, live, stopping>>

\* A connection breaks: 'error' reconnects, and a LISTEN that waits fails later
\* and reconnects once more.
ClientBreaks(k) ==
    /\ k \in live
    /\ live' = live \ {k}
    /\ Reconnect(connecting)
    /\ slipped' = (slipped \/ ownClient # k \/ connecting[k] = "listen")
    /\ UNCHANGED <<active, stopping>>

Stop ==
    /\ active
    /\ active' = FALSE /\ stopping' = ownClient
    /\ slipped' = (slipped \/ \E k \in Calls : connecting[k] \in {"connect", "listen"})
    /\ UNCHANGED <<ownClient, connecting, live, lent>>

\* UNLISTEN is answered: the client held now is released. Refused, it is not.
Unlistens ==
    /\ stopping # 0
    /\ \/ stopping \in live /\ lent' = lent \ {ownClient} /\ UNCHANGED slipped
       \/ lent' = lent /\ slipped' = TRUE
    /\ ownClient' = 0 /\ stopping' = 0
    /\ UNCHANGED <<active, connecting, live>>

ListenerNext ==
    \/ \E k \in Calls : TimerFires(k) \/ Connected(k) \/ Listens(k)
                        \/ ConnectOrListenFails(k) \/ ClientBreaks(k)
    \/ Stop \/ Unlistens

ListenerSpec == ListenerInit /\ [][ListenerNext]_listenerVars

-----------------------------------------------------------------------------
(* Properties. *)

\* pool_manager.ts 618-658: while it runs, the listener has a client that
\* listens, or a call under way or timed that will get it one, whatever fails.
NeverDeaf ==
    active => \/ ownClient \in live
              \/ \E k \in Calls : connecting[k] \in {"timer", "connect"}
              \/ ownClient # 0 /\ connecting[ownClient] = "listen"

\* Every client checked out is the one held, and after stop() none is, unless
\* one failure reconnected twice or stop() met a call under way.
ClientsAreReturned ==
    ~slipped => lent \subseteq {ownClient} \ {0} /\ (~active /\ stopping = 0 => lent = {})

\* pool_manager.ts: while it is to listen, the listener is listening or about to
\* try again, and it gives every client it does not hold back to the pool.
ListenerHolds == NeverDeaf /\ ClientsAreReturned
=============================================================================
