--------------------------- MODULE AggregateRefresh ---------------------------
(***************************************************************************)
(* refreshAggregatesAdaptively (src/database/pool_manager.ts): a refresh   *)
(* reads the window of the rows ingested since a mark of the process, sets *)
(* the mark to the time and then has each view materialize the window, an  *)
(* await each. Notifications and the validator start refreshes that        *)
(* overlap. A row's ingested_at is set when its transaction starts, and it *)
(* is seen once that commits.                                              *)
(***************************************************************************)
EXTENDS Naturals, FiniteSets

CONSTANTS
    Rows,           \* inserts of telemetry
    Aged,           \* Aged[v]: those in a bucket of view v that starts before the
                    \* retention-safe boundary: of a view of wider buckets, more
    RefreshCalls,   \* concurrent calls
    Views,          \* the aggregates are 1..Views
    MaxInstant      \* bound of the clock

ASSUME AggregateAssumption ==
    /\ Views \in Nat \ {0} /\ MaxInstant \in Nat \ {0}
    /\ Aged \in [1..Views -> SUBSET Rows]

VARIABLES
    instant,    \* the clock
    ingested,   \* ingested[r]: ingested_at, 0 before the insert
    visible,    \* rows that are seen
    mark,       \* lastRefreshTime
    window,     \* window[f]: place, rows of the window it materializes
    fresh,      \* fresh[r]: views that hold the row
    excused     \* history: rows that a refresh failed on or passed by unseen

aggregateVars == <<instant, ingested, visible, mark, window, fresh, excused>>

NoCall == [view |-> 0, rows |-> {}]

AggregateTypeOK ==
    /\ instant \in 1..MaxInstant /\ mark \in 0..MaxInstant
    /\ ingested \in [Rows -> 0..MaxInstant]
    /\ visible \in SUBSET Rows /\ excused \in SUBSET Rows
    /\ window \in [RefreshCalls -> [view : 0..Views + 1, rows : SUBSET Rows]]
    /\ fresh \in [Rows -> SUBSET (1..Views)]

AggregateInit ==
    /\ instant = 1 /\ mark = 0
    /\ ingested = [r \in Rows |-> 0]
    /\ visible = {} /\ excused = {}
    /\ window = [f \in RefreshCalls |-> NoCall]
    /\ fresh = [r \in Rows |-> {}]

-----------------------------------------------------------------------------
InstantPasses ==
    /\ instant < MaxInstant
    /\ instant' = instant + 1
    /\ UNCHANGED <<ingested, visible, mark, window, fresh, excused>>

Insert(r) ==
    /\ ingested[r] = 0
    /\ ingested' = [ingested EXCEPT ![r] = instant]
    /\ UNCHANGED <<instant, visible, mark, window, fresh, excused>>

\* A row that commits behind the mark was passed by.
CommitRow(r) ==
    /\ ingested[r] # 0 /\ r \notin visible
    /\ visible' = visible \cup {r}
    /\ excused' = IF ingested[r] < mark THEN excused \cup {r} ELSE excused
    /\ UNCHANGED <<instant, ingested, mark, window, fresh>>

\* Mutant: WHERE ingested_at > $1.
After(r) == ingested[r] > mark

Since(r) == ingested[r] >= mark

\* The query: rows seen since the mark; their window spans those in between.
\* The place 0 with rows is the time from the query to its answer.
QueryWindow(f) ==
    /\ window[f] = NoCall
    /\ \E r \in visible : Since(r)
    /\ window' = [window EXCEPT ![f].rows = {r \in visible : Since(r)}]
    /\ UNCHANGED <<instant, ingested, visible, mark, fresh, excused>>

\* The mark is the time of the answer, whatever committed since the query.
SetMark(f) ==
    /\ window[f].view = 0 /\ window[f].rows # {}
    /\ mark' = instant
    /\ excused' = excused \cup {r \in visible \ window[f].rows : Since(r) /\ ingested[r] < instant}
    /\ window' = [window EXCEPT ![f] = [view |-> 1, rows |-> @.rows]]
    /\ UNCHANGED <<instant, ingested, visible, fresh>>

\* clampRefreshWindow: the view's window starts at the boundary, and of it the
\* database materializes whole buckets only; the rest is left to the background
\* policy, and a window that lies behind the boundary is skipped.
Clamped(rows, view) == rows \ Aged[view]

\* refreshView of the next view.
RefreshView(f) ==
    /\ window[f].view \in 1..Views
    /\ fresh' = [r \in Rows |-> IF r \in Clamped(window[f].rows, window[f].view)
                             THEN fresh[r] \cup {window[f].view} ELSE fresh[r]]
    /\ window' = IF window[f].view = Views THEN [window EXCEPT ![f] = NoCall]
                 ELSE [window EXCEPT ![f].view = @ + 1]
    /\ UNCHANGED <<instant, ingested, visible, mark, excused>>

\* A query or a CALL rejects: logged; the mark stays where it was moved to.
CallFails(f) ==
    /\ window[f] # NoCall
    /\ excused' = IF window[f].view = 0 THEN excused ELSE excused \cup window[f].rows
    /\ window' = [window EXCEPT ![f] = NoCall]
    /\ UNCHANGED <<instant, ingested, visible, mark, fresh>>

AggregateNext ==
    \/ InstantPasses
    \/ \E r \in Rows : Insert(r) \/ CommitRow(r)
    \/ \E f \in RefreshCalls : QueryWindow(f) \/ SetMark(f) \/ RefreshView(f) \/ CallFails(f)

AggregateSpec == AggregateInit /\ [][AggregateNext]_aggregateVars

-----------------------------------------------------------------------------
(* Properties. *)

\* pool_manager.ts: a row behind the mark, which no later refresh asks for, is
\* in every view or in the hands of a refresh, unless one failed on it, it was
\* visible too late to be seen before the mark passed it, or it is aged there.
NothingStaleBehindMark ==
    \A r \in visible \ excused :
       ingested[r] < mark =>
          \A v \in 1..Views :
             \/ r \in Aged[v] \/ v \in fresh[r]
             \/ \E f \in RefreshCalls : r \in window[f].rows /\ window[f].view <= v
=============================================================================
