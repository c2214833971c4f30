--------------------------- MODULE VersionedConfig ---------------------------
(***************************************************************************)
(* The billing tiers' configuration (src/config/index.ts) and the batches *)
(* rated by it (processBatch, src/core/ingestion/validator.ts). A commit   *)
(* SETs config:staging, waits and RENAMEs it to config:active; every       *)
(* process polls config:active and keeps the version it last read. A       *)
(* version is named by the commit, or the process, that generated it.      *)
(***************************************************************************)
EXTENDS Naturals, Sequences

CONSTANTS
    Pods,           \* processes that watch the configuration
    Raters,         \* those of them that rate batches
    Commits,        \* calls of commitConfig
    NoVersion,      \* an absent key
    MaxPolls,       \* bound: polls of one process not answered yet
    BatchSize       \* events of one batch

ASSUME ConfigAssumption ==
    /\ Raters \subseteq Pods /\ Pods \cap Commits = {} /\ NoVersion \notin Pods \cup Commits
    /\ MaxPolls \in Nat \ {0} /\ BatchSize \in Nat \ {0}

VARIABLES
    active,     \* the key config:active
    staging,    \* the key config:staging
    commit,     \* commit[c]: where the call is
    watcher,    \* watcher[p]: "off", in initializeConfigWatcher, or "on"
    current,    \* current[p]: currentConfigVersionId; NoVersion is the fallback's
    answers,    \* answers[p]: versions the polls of p have read and not applied
    rating,     \* rating[r]: processBatch of r: captured version, versions its results are of
    alone       \* history: pending commits that no other commit overlapped

configVars == <<active, staging, commit, watcher, current, answers, rating, alone>>

ConfigVersions == Pods \cup Commits \cup {NoVersion}

NoBatch == [at |-> "none", captured |-> NoVersion, rated |-> <<>>]

ConfigTypeOK ==
    /\ active \in ConfigVersions /\ staging \in Commits \cup {NoVersion}
    /\ commit \in [Commits -> {"none", "waiting", "done", "failed"}]
    /\ watcher \in [Pods -> {"off", "absent", "present", "on"}]
    /\ current \in [Pods -> ConfigVersions]
    /\ answers \in [Pods -> Seq(ConfigVersions)] /\ \A p \in Pods : Len(answers[p]) <= MaxPolls
    /\ rating \in [Raters -> [at : {"none", "rating", "done"}, captured : ConfigVersions, rated : Seq(ConfigVersions)]]
    /\ alone \in SUBSET Commits

ConfigInit ==
    /\ active = NoVersion /\ staging = NoVersion
    /\ commit = [c \in Commits |-> "none"]
    /\ watcher = [p \in Pods |-> "off"]
    /\ current = [p \in Pods |-> NoVersion]
    /\ answers = [p \in Pods |-> <<>>]
    /\ rating = [r \in Raters |-> NoBatch]
    /\ alone = {}

-----------------------------------------------------------------------------
PendingCommits == {c \in Commits : commit[c] = "waiting"}

\* SET config:staging
Stage(c) ==
    /\ commit[c] = "none"
    /\ commit' = [commit EXCEPT ![c] = "waiting"]
    /\ staging' = c
    /\ alone' = IF PendingCommits = {} THEN {c} ELSE {}
    /\ UNCHANGED <<active, watcher, current, answers, rating>>

\* RENAME moves whatever is staged; without a staged version it is an error.
Rename(c) ==
    /\ commit[c] = "waiting"
    /\ IF staging = NoVersion
       THEN commit' = [commit EXCEPT ![c] = "failed"] /\ UNCHANGED <<active, staging>>
       ELSE /\ active' = staging /\ staging' = NoVersion
            /\ commit' = [commit EXCEPT ![c] = "done"]
    /\ alone' = alone \ {c}
    /\ UNCHANGED <<watcher, current, answers, rating>>

\* initializeConfigWatcher: EXISTS config:active.
StartWatcher(p) ==
    /\ watcher[p] = "off"
    /\ watcher' = [watcher EXCEPT ![p] = IF active = NoVersion THEN "absent" ELSE "present"]
    /\ UNCHANGED <<active, staging, commit, current, answers, rating, alone>>

\* There was none: the defaults become active, whatever was activated since.
WriteDefaults(p) ==
    /\ watcher[p] = "absent"
    /\ active' = p
    /\ current' = [current EXCEPT ![p] = p]
    /\ watcher' = [watcher EXCEPT ![p] = "on"]
    /\ UNCHANGED <<staging, commit, answers, rating, alone>>

\* There was one: GET; then the interval starts.
ReadActive(p) ==
    /\ watcher[p] = "present" /\ Len(answers[p]) < MaxPolls
    /\ answers' = [answers EXCEPT ![p] = Append(@, active)]
    /\ watcher' = [watcher EXCEPT ![p] = "on"]
    /\ UNCHANGED <<active, staging, commit, current, rating, alone>>

\* Every 50 ms: GET, whether or not the last was answered.
Poll(p) ==
    /\ watcher[p] = "on" /\ Len(answers[p]) < MaxPolls
    /\ answers' = [answers EXCEPT ![p] = Append(@, active)]
    /\ UNCHANGED <<active, staging, commit, watcher, current, rating, alone>>

\* Mutant: only the first version read is taken.
FirstVersion(p, v) == IF current[p] = NoVersion THEN v ELSE current[p]

PolledVersion(p, v) == v

\* The connection answers in order; an answer is applied even after the stop.
ApplyPoll(p) ==
    /\ answers[p] # <<>>
    /\ current' = [current EXCEPT ![p] = PolledVersion(p, Head(answers[p]))]
    /\ answers' = [answers EXCEPT ![p] = Tail(@)]
    /\ UNCHANGED <<active, staging, commit, watcher, rating, alone>>

StopWatcher(p) ==
    /\ watcher[p] = "on"
    /\ watcher' = [watcher EXCEPT ![p] = "off"]
    /\ UNCHANGED <<active, staging, commit, current, answers, rating, alone>>

\* processBatch captures the version,
StartBatch(p) ==
    /\ rating[p].at = "none"
    /\ rating' = [rating EXCEPT ![p] = [at |-> "rating", captured |-> current[p], rated |-> <<>>]]
    /\ UNCHANGED <<active, staging, commit, watcher, current, answers, alone>>

\* rates each event by it with an await after each,
RateEvent(p) ==
    /\ rating[p].at = "rating" /\ Len(rating[p].rated) < BatchSize
    /\ rating' = [rating EXCEPT ![p].rated = Append(@, rating[p].captured)]
    /\ UNCHANGED <<active, staging, commit, watcher, current, answers, alone>>

\* Mutant: the version is not read again.
CapturedVersion(p) == rating[p].captured

EndVersion(p) == current[p]

\* and starts again when the version changed meanwhile.
EndBatch(p) ==
    /\ rating[p].at = "rating" /\ Len(rating[p].rated) = BatchSize
    /\ rating' = [rating EXCEPT ![p] =
                   IF @.captured = EndVersion(p) THEN [@ EXCEPT !.at = "done"]
                   ELSE [at |-> "rating", captured |-> current[p], rated |-> <<>>]]
    /\ UNCHANGED <<active, staging, commit, watcher, current, answers, alone>>

\* The caller has the result.
TakeResult(p) ==
    /\ rating[p].at = "done"
    /\ rating' = [rating EXCEPT ![p] = NoBatch]
    /\ UNCHANGED <<active, staging, commit, watcher, current, answers, alone>>

ConfigNext ==
    \/ \E c \in Commits : Stage(c) \/ Rename(c)
    \/ \E p \in Pods :
          \/ StartWatcher(p) \/ WriteDefaults(p) \/ ReadActive(p)
          \/ Poll(p) \/ ApplyPoll(p) \/ StopWatcher(p)
    \/ \E p \in Raters :
          \/ StartBatch(p) \/ RateEvent(p) \/ EndBatch(p) \/ TakeResult(p)

\* The interval fires and Redis answers. Nobody has to commit or to stop.
ConfigFairness == \A p \in Pods : WF_configVars(Poll(p)) /\ WF_configVars(ApplyPoll(p))

ConfigSpec == ConfigInit /\ [][ConfigNext]_configVars /\ ConfigFairness

-----------------------------------------------------------------------------
(* Properties. *)

\* validator.ts processBatch: when a result is returned, every event in it was
\* rated by the version it names and that the process holds at that moment,
\* however often the configuration changed during the batch.
BatchIsOfOneVersion ==
    [][\A p \in Raters : rating[p].at = "rating" /\ rating'[p].at = "done" =>
          rating'[p].rated = [i \in 1..BatchSize |-> current[p]]]_configVars

\* config/index.ts commitConfig: a call that no other commit overlaps activates its
\* own version, whatever processes write as they start.
LoneCommitActivates ==
    [][\A c \in Commits : commit[c] = "waiting" /\ commit'[c] # "waiting" /\ c \in alone =>
          commit'[c] = "done" /\ active' = c]_configVars

\* A commit is activated whole, and a batch is rated by one of them.
VersionsHold == BatchIsOfOneVersion /\ LoneCommitActivates

\* config/index.ts: once commits and starts are over, every process that goes
\* on watching ends up with the active version and keeps it.
PodsConverge == <>[](\A p \in Pods : watcher[p] = "on" => current[p] = active)
=============================================================================
