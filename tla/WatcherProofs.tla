---------------------------- MODULE WatcherProofs ----------------------------
(***************************************************************************)
(* Proofs about what processes watch and share: the versions of the        *)
(* configuration, the certificates of devices, the batches compacted under *)
(* an advisory lock, together MCWatchers; and the shares of the tenants of *)
(* a pool. For any processes, commits, gateways, administrators, workers,  *)
(* windows, events, tenants and calls.                                     *)
(***************************************************************************)
EXTENDS MCWatchers, DataLemmas, Integers, TLAPS

-----------------------------------------------------------------------------
(***************************************************************************)
(* Versioned configuration. A batch is rated by one version, the one its   *)
(* process holds when it returns, and a commit that no other overlaps      *)
(* activates its own version.                                              *)
(***************************************************************************)
\* What processBatch has rated so far, by the version it captured.
RatedAlike ==
    \A p \in Raters :
        /\ rating[p].rated \in Seq(ConfigVersions)
        /\ \A i \in 1..Len(rating[p].rated) : rating[p].rated[i] = rating[p].captured

\* A lone commit waits, its version is what is staged, and no other one waits.
LoneIsStaged ==
    \A c \in alone :
        /\ commit[c] = "waiting" /\ staging = c /\ c # NoVersion
        /\ \A d \in Commits : commit[d] = "waiting" => d = c

ConfigInv == ConfigTypeOK /\ RatedAlike /\ LoneIsStaged

Places == {"none", "rating", "done"}
Batches == [at : Places, captured : ConfigVersions, rated : Seq(ConfigVersions)]

-----------------------------------------------------------------------------
LEMMA AppendOf ==
    ASSUME NEW S, NEW s \in Seq(S), NEW e \in S
    PROVE  /\ Append(s, e) \in Seq(S) /\ Len(s) \in Nat /\ Len(Append(s, e)) = Len(s) + 1
           /\ \A i \in 1..Len(s) : Append(s, e)[i] = s[i]
           /\ Append(s, e)[Len(s) + 1] = e
           /\ \A i \in 1..Len(Append(s, e)) : i \in 1..Len(s) \/ i = Len(s) + 1
OBVIOUS

LEMMA HeadOf ==
    ASSUME NEW S, NEW s \in Seq(S), s # <<>>
    PROVE  Head(s) \in S /\ Tail(s) \in Seq(S) /\ Len(Tail(s)) = Len(s) - 1 /\ Len(s) \in Nat
OBVIOUS

LEMMA Typing ==
    ConfigTypeOK =>
        /\ active \in ConfigVersions /\ current \in [Pods -> ConfigVersions]
        /\ rating \in [Raters -> Batches] /\ Raters \subseteq Pods /\ MaxPolls \in Nat
        /\ commit \in [Commits -> {"none", "waiting", "done", "failed"}]
        /\ watcher \in [Pods -> {"off", "absent", "present", "on"}]
        /\ answers \in [Pods -> Seq(ConfigVersions)]
BY ConfigAssumption DEF ConfigTypeOK, Batches, Places

LEMMA ConfigInitInv == ConfigInit => ConfigInv
<1> SUFFICES ASSUME ConfigInit PROVE ConfigInv
  OBVIOUS
<1>1. NoBatch \in Batches /\ NoBatch.rated = <<>>
  BY DEF NoBatch, Batches, Places, ConfigVersions
<1>2. ConfigTypeOK
  <2>1. <<>> \in Seq(ConfigVersions) /\ Len(<<>>) = 0
    OBVIOUS
  <2>2. answers \in [Pods -> Seq(ConfigVersions)] /\ \A p \in Pods : Len(answers[p]) <= MaxPolls
    BY <2>1, ConfigAssumption DEF ConfigInit
  <2>3. rating \in [Raters -> Batches]
    BY <1>1 DEF ConfigInit
  <2> QED BY <2>2, <2>3, ConfigAssumption
          DEF ConfigInit, ConfigTypeOK, ConfigVersions, Batches, Places
<1>3. RatedAlike
  <2>1. <<>> \in Seq(ConfigVersions) /\ Len(<<>>) = 0
    OBVIOUS
  <2>2. \A p \in Raters : rating[p].rated = <<>>
    BY <1>1 DEF ConfigInit
  <2> SUFFICES ASSUME NEW p \in Raters
               PROVE  rating[p].rated \in Seq(ConfigVersions) /\ Len(rating[p].rated) = 0
    BY DEF RatedAlike
  <2> QED BY <2>1, <2>2
<1>4. LoneIsStaged
  BY DEF ConfigInit, LoneIsStaged
<1> QED BY <1>2, <1>3, <1>4 DEF ConfigInv

\* Steps that change one of answers, and at most the active or the current version.
LEMMA AnswersTyped ==
    ASSUME ConfigTypeOK, NEW p \in Pods, NEW s \in Seq(ConfigVersions), Len(s) <= MaxPolls,
           answers' = [answers EXCEPT ![p] = s]
    PROVE  answers' \in [Pods -> Seq(ConfigVersions)] /\ \A q \in Pods : Len(answers'[q]) <= MaxPolls
BY DEF ConfigTypeOK

LEMMA StageInv == ASSUME ConfigInv, NEW c \in Commits, Stage(c) PROVE ConfigInv'
<1>1. /\ commit' = [commit EXCEPT ![c] = "waiting"] /\ staging' = c
      /\ alone' = IF PendingCommits = {} THEN {c} ELSE {}
      /\ UNCHANGED <<active, watcher, current, answers, rating>>
  BY DEF Stage
<1>2. /\ commit' \in [Commits -> {"none", "waiting", "done", "failed"}] /\ commit'[c] = "waiting"
      /\ \A d \in Commits : d # c => commit'[d] = commit[d]
  BY <1>1, Typing DEF ConfigInv
<1>3. ConfigTypeOK'
  BY <1>1, <1>2 DEF ConfigInv, ConfigTypeOK
<1>4. RatedAlike'
  BY <1>1 DEF ConfigInv, RatedAlike
<1>5. LoneIsStaged'
  BY <1>1, <1>2, ConfigAssumption DEF PendingCommits, LoneIsStaged
<1> QED BY <1>3, <1>4, <1>5 DEF ConfigInv

LEMMA RenameInv == ASSUME ConfigInv, NEW c \in Commits, Rename(c) PROVE ConfigInv'
<1>1. /\ commit[c] = "waiting" /\ alone' = alone \ {c}
      /\ UNCHANGED <<watcher, current, answers, rating>>
      /\ \/ commit' = [commit EXCEPT ![c] = "failed"] /\ UNCHANGED <<active, staging>>
         \/ commit' = [commit EXCEPT ![c] = "done"] /\ active' = staging /\ staging' = NoVersion
  BY DEF Rename
<1>2. commit' \in [Commits -> {"none", "waiting", "done", "failed"}]
  BY <1>1, Typing DEF ConfigInv
<1>3. active' \in ConfigVersions /\ staging' \in Commits \cup {NoVersion}
  BY <1>1 DEF ConfigInv, ConfigTypeOK, ConfigVersions
<1>4. ConfigTypeOK'
  BY <1>1, <1>2, <1>3 DEF ConfigInv, ConfigTypeOK
<1>5. RatedAlike'
  BY <1>1 DEF ConfigInv, RatedAlike
<1>6. alone' = {}
  BY <1>1 DEF ConfigInv, LoneIsStaged
<1>7. LoneIsStaged'
  BY <1>6 DEF LoneIsStaged
<1> QED BY <1>4, <1>5, <1>7 DEF ConfigInv

\* Whatever a watcher does leaves commits, what is staged and the batches alone.
LEMMA WatchInv ==
    ASSUME ConfigInv, ConfigTypeOK', UNCHANGED <<staging, commit, rating, alone>> PROVE ConfigInv'
BY DEF ConfigInv, RatedAlike, LoneIsStaged

LEMMA WatcherInv ==
    ASSUME ConfigInv, NEW p \in Pods,
           StartWatcher(p) \/ WriteDefaults(p) \/ ReadActive(p) \/ Poll(p) \/ ApplyPoll(p) \/ StopWatcher(p)
    PROVE  ConfigInv'
<1>1. CASE StartWatcher(p) \/ StopWatcher(p)
  <2>1. watcher' \in [Pods -> {"off", "absent", "present", "on"}]
    BY <1>1, Typing DEF ConfigInv, StartWatcher, StopWatcher
  <2>2. UNCHANGED <<active, staging, commit, current, answers, rating, alone>>
    BY <1>1 DEF StartWatcher, StopWatcher
  <2> QED BY <2>1, <2>2, WatchInv DEF ConfigInv, ConfigTypeOK
<1>2. CASE WriteDefaults(p)
  <2>1. /\ watcher' \in [Pods -> {"off", "absent", "present", "on"}]
        /\ active' \in ConfigVersions /\ current' \in [Pods -> ConfigVersions]
    BY <1>2, Typing DEF ConfigInv, WriteDefaults, ConfigVersions
  <2>2. UNCHANGED <<staging, commit, answers, rating, alone>>
    BY <1>2 DEF WriteDefaults
  <2> QED BY <2>1, <2>2, WatchInv DEF ConfigInv, ConfigTypeOK
<1>3. CASE ReadActive(p) \/ Poll(p)
  <2>1. /\ answers[p] \in Seq(ConfigVersions) /\ Len(answers[p]) < MaxPolls
        /\ answers' = [answers EXCEPT ![p] = Append(answers[p], active)]
        /\ UNCHANGED <<active, staging, commit, current, rating, alone>>
    BY <1>3 DEF ReadActive, Poll, ConfigInv, ConfigTypeOK
  <2>2. Append(answers[p], active) \in Seq(ConfigVersions) /\ Len(Append(answers[p], active)) <= MaxPolls
    BY <2>1, Typing, AppendOf DEF ConfigInv
  <2>3. answers' \in [Pods -> Seq(ConfigVersions)] /\ \A q \in Pods : Len(answers'[q]) <= MaxPolls
    BY <2>1, <2>2, AnswersTyped DEF ConfigInv
  <2>4. watcher' \in [Pods -> {"off", "absent", "present", "on"}]
    BY <1>3, Typing DEF ReadActive, Poll, ConfigInv
  <2> QED BY <2>1, <2>3, <2>4, WatchInv DEF ConfigInv, ConfigTypeOK
<1>4. CASE ApplyPoll(p)
  <2>1. /\ answers[p] \in Seq(ConfigVersions) /\ answers[p] # <<>> /\ Len(answers[p]) <= MaxPolls
        /\ answers' = [answers EXCEPT ![p] = Tail(answers[p])]
        /\ current' = [current EXCEPT ![p] = Head(answers[p])]
        /\ UNCHANGED <<active, staging, commit, watcher, rating, alone>>
    BY <1>4 DEF ApplyPoll, PolledVersion, ConfigInv, ConfigTypeOK
  <2>2. /\ Tail(answers[p]) \in Seq(ConfigVersions) /\ Head(answers[p]) \in ConfigVersions
        /\ Len(Tail(answers[p])) <= MaxPolls
    BY <2>1, Typing, HeadOf DEF ConfigInv
  <2>3. answers' \in [Pods -> Seq(ConfigVersions)] /\ \A q \in Pods : Len(answers'[q]) <= MaxPolls
    BY <2>1, <2>2, AnswersTyped DEF ConfigInv
  <2>4. current' \in [Pods -> ConfigVersions]
    BY <2>1, <2>2, Typing DEF ConfigInv
  <2> QED BY <2>1, <2>3, <2>4, WatchInv DEF ConfigInv, ConfigTypeOK
<1> QED BY <1>1, <1>2, <1>3, <1>4

\* A step of processBatch, from the record it leaves.
LEMMA BatchInv ==
    ASSUME ConfigInv, NEW p \in Raters, NEW b \in Batches, rating' = [rating EXCEPT ![p] = b],
           \A i \in 1..Len(b.rated) : b.rated[i] = b.captured,
           UNCHANGED <<active, staging, commit, watcher, current, answers, alone>>
    PROVE  ConfigInv'
<1>1. rating' \in [Raters -> Batches]
  BY Typing DEF ConfigInv
<1>2. ConfigTypeOK'
  BY <1>1 DEF ConfigInv, ConfigTypeOK, Batches, Places
<1>3. rating'[p] = b /\ \A q \in Raters : q # p => rating'[q] = rating[q]
  BY Typing DEF ConfigInv
<1>4. b.rated \in Seq(ConfigVersions)
  BY DEF Batches
<1>5. RatedAlike'
  BY <1>3, <1>4 DEF ConfigInv, RatedAlike
<1>6. LoneIsStaged'
  BY DEF ConfigInv, LoneIsStaged
<1> QED BY <1>2, <1>5, <1>6 DEF ConfigInv

LEMMA RaterInv ==
    ASSUME ConfigInv, NEW p \in Raters, StartBatch(p) \/ RateEvent(p) \/ EndBatch(p) \/ TakeResult(p)
    PROVE  ConfigInv'
<1>1. /\ rating[p] \in Batches /\ current[p] \in ConfigVersions /\ rating[p].rated \in Seq(ConfigVersions)
      /\ rating[p].captured \in ConfigVersions
      /\ \A i \in 1..Len(rating[p].rated) : rating[p].rated[i] = rating[p].captured
  BY Typing DEF ConfigInv, RatedAlike, Batches
<1>2. UNCHANGED <<active, staging, commit, watcher, current, answers, alone>>
  BY DEF StartBatch, RateEvent, EndBatch, TakeResult
<1>3. /\ <<>> \in Seq(ConfigVersions) /\ Len(<<>>) = 0
      /\ NoBatch \in Batches /\ NoBatch.rated = <<>>
      /\ [at |-> "rating", captured |-> current[p], rated |-> <<>>] \in Batches
  BY <1>1 DEF NoBatch, Batches, Places, ConfigVersions
<1>4. CASE rating' = [rating EXCEPT ![p] = [at |-> "rating", captured |-> current[p], rated |-> <<>>]]
  <2> DEFINE b == [at |-> "rating", captured |-> current[p], rated |-> <<>>]
  <2>1. b \in Batches /\ Len(b.rated) = 0
    BY <1>3
  <2>2. rating' = [rating EXCEPT ![p] = b]
    BY <1>4
  <2> HIDE DEF b
  <2>3. \A i \in 1..Len(b.rated) : b.rated[i] = b.captured
    BY <2>1
  <2> QED BY <2>1, <2>2, <2>3, <1>2, BatchInv
<1>5. CASE RateEvent(p)
  <2> DEFINE more == Append(rating[p].rated, rating[p].captured)
             b == [rating[p] EXCEPT !.rated = more]
  <2>1. more \in Seq(ConfigVersions) /\ \A i \in 1..Len(more) : more[i] = rating[p].captured
    BY <1>1, AppendOf
  <2>2. rating' = [rating EXCEPT ![p] = b]
    BY <1>5 DEF RateEvent
  <2> HIDE DEF more
  <2>3. b \in Batches /\ b.rated = more /\ b.captured = rating[p].captured
    BY <1>1, <2>1 DEF Batches
  <2> HIDE DEF b
  <2> QED BY <2>1, <2>2, <2>3, <1>2, BatchInv
<1>6. CASE rating' = [rating EXCEPT ![p] = [rating[p] EXCEPT !.at = "done"]]
  <2> DEFINE b == [rating[p] EXCEPT !.at = "done"]
  <2>1. b \in Batches /\ b.rated = rating[p].rated /\ b.captured = rating[p].captured
    BY <1>1 DEF Batches, Places
  <2> HIDE DEF b
  <2> QED BY <2>1, <1>1, <1>2, <1>6, BatchInv DEF b
<1>7. CASE rating' = [rating EXCEPT ![p] = NoBatch]
  <2>1. NoBatch \in Batches /\ Len(NoBatch.rated) = 0
    BY <1>3
  <2>2. \A i \in 1..Len(NoBatch.rated) : NoBatch.rated[i] = NoBatch.captured
    BY <2>1
  <2> QED BY <2>1, <2>2, <1>2, <1>7, BatchInv
<1> QED BY <1>4, <1>5, <1>6, <1>7 DEF StartBatch, EndBatch, TakeResult

LEMMA ConfigNextInv == ConfigInv /\ [ConfigNext]_configVars => ConfigInv'
<1>1. ConfigInv /\ UNCHANGED configVars => ConfigInv'
  BY DEF configVars, ConfigInv, ConfigTypeOK, RatedAlike, LoneIsStaged
<1> QED BY <1>1, StageInv, RenameInv, WatcherInv, RaterInv DEF ConfigNext

\* config/index.ts, validator.ts: a lone commit's version stays the staged one, and
\* a batch under way is rated by the version it captured.
THEOREM ConfigInductive == ConfigSpec => []ConfigInv
BY ConfigInitInv, ConfigNextInv, PTL DEF ConfigSpec

-----------------------------------------------------------------------------
\* A batch that ends was rated by the version its process holds then.
LEMMA EndIsOfOneVersion ==
    ASSUME ConfigInv, [ConfigNext]_configVars, NEW p \in Raters,
           rating[p].at = "rating", rating'[p].at = "done"
    PROVE  rating'[p].rated = [i \in 1..BatchSize |-> current[p]]
<1>1. rating \in [Raters -> Batches]
  BY Typing DEF ConfigInv
<1>2. /\ rating[p].rated \in Seq(ConfigVersions)
      /\ \A i \in 1..Len(rating[p].rated) : rating[p].rated[i] = rating[p].captured
  BY DEF ConfigInv, RatedAlike
<1>3. PICK q \in Raters : StartBatch(q) \/ RateEvent(q) \/ EndBatch(q) \/ TakeResult(q)
  BY DEF ConfigNext, configVars, Stage, Rename, StartWatcher, WriteDefaults, ReadActive, Poll,
         ApplyPoll, StopWatcher
<1>4. q = p
  BY <1>1, <1>3 DEF StartBatch, RateEvent, EndBatch, TakeResult
<1>5. EndBatch(p)
  BY <1>1, <1>3, <1>4 DEF StartBatch, RateEvent, TakeResult, NoBatch, Batches
<1>6. Len(rating[p].rated) = BatchSize
  BY <1>5 DEF EndBatch
<1>7. rating[p].captured = current[p] /\ rating'[p].rated = rating[p].rated
  BY <1>1, <1>5 DEF EndBatch, EndVersion, Batches
<1>8. rating[p].rated = [i \in 1..BatchSize |-> current[p]]
  BY <1>2, <1>6, <1>7
<1> QED BY <1>7, <1>8

\* A lone commit that is over has activated its version.
LEMMA LoneActivates ==
    ASSUME ConfigInv, [ConfigNext]_configVars, NEW c \in Commits,
           commit[c] = "waiting", commit'[c] # "waiting", c \in alone
    PROVE  commit'[c] = "done" /\ active' = c
<1>1. commit \in [Commits -> {"none", "waiting", "done", "failed"}] /\ staging = c /\ c # NoVersion
  BY Typing DEF ConfigInv, LoneIsStaged
<1>2. PICK d \in Commits : Stage(d) \/ Rename(d)
  BY DEF ConfigNext, configVars, StartWatcher, WriteDefaults, ReadActive, Poll, ApplyPoll, StopWatcher,
         StartBatch, RateEvent, EndBatch, TakeResult
<1>3. d = c /\ Rename(c)
  BY <1>1, <1>2 DEF Stage, Rename
<1> QED BY <1>1, <1>3 DEF Rename

\* config/index.ts commitConfig, validator.ts processBatch: a commit that no other
\* overlaps activates its version, and a batch is rated by one version, however
\* often the configuration changes under it.
THEOREM VersionsAreSound == ConfigSpec => VersionsHold
<1>1. ConfigInv /\ [ConfigNext]_configVars =>
          [\A p \in Raters : rating[p].at = "rating" /\ rating'[p].at = "done" =>
              rating'[p].rated = [i \in 1..BatchSize |-> current[p]]]_configVars
  BY EndIsOfOneVersion
<1>2. ConfigInv /\ [ConfigNext]_configVars =>
          [\A c \in Commits : commit[c] = "waiting" /\ commit'[c] # "waiting" /\ c \in alone =>
              commit'[c] = "done" /\ active' = c]_configVars
  BY LoneActivates
<1> QED BY <1>1, <1>2, ConfigInductive, PTL
        DEF ConfigSpec, VersionsHold, BatchIsOfOneVersion, LoneCommitActivates

-----------------------------------------------------------------------------
(* What a process last read. *)

\* The version a process holds once its polls are answered.
Latest(p) == IF answers[p] = <<>> THEN current[p] ELSE answers[p][Len(answers[p])]

\* A poll brings the version it read, and a process that holds the active version,
\* or is about to, does not fall back behind it.
KeepsUp(p) ==
    /\ Poll(p) => Latest(p)' = active'
    /\ Latest(p) = active /\ active' = active => Latest(p)' = active'

ReadersKeepUp == [][\A p \in Pods : KeepsUp(p)]_configVars

LEMMA LastOf ==
    ASSUME NEW S, NEW s \in Seq(S)
    PROVE  /\ \A e \in S : Append(s, e) # <<>> /\ Append(s, e)[Len(Append(s, e))] = e
           /\ s # <<>> /\ Tail(s) # <<>> => Tail(s)[Len(Tail(s))] = s[Len(s)]
           /\ s # <<>> /\ Tail(s) = <<>> => Head(s) = s[Len(s)]
           /\ s # <<>> => Len(Tail(s)) < Len(s)
<1>1. \A e \in S : Append(s, e) # <<>> /\ Append(s, e)[Len(Append(s, e))] = e
  OBVIOUS
<1>2. ASSUME s # <<>>
      PROVE  /\ Len(s) \in Nat /\ Len(Tail(s)) = Len(s) - 1 /\ Head(s) = s[1]
             /\ \A i \in 1..Len(s) - 1 : Tail(s)[i] = s[i + 1]
             /\ Tail(s) = <<>> => Len(s) = 1
             /\ Tail(s) # <<>> => Len(s) > 1
  BY <1>2
<1>3. s # <<>> /\ Tail(s) # <<>> => Tail(s)[Len(Tail(s))] = s[Len(s)]
  <2> SUFFICES ASSUME s # <<>>, Tail(s) # <<>> PROVE Tail(s)[Len(Tail(s))] = s[Len(s)]
    OBVIOUS
  <2>1. Len(s) - 1 \in 1..Len(s) - 1 /\ (Len(s) - 1) + 1 = Len(s)
    BY <1>2
  <2> QED BY <1>2, <2>1
<1>4. s # <<>> => Len(Tail(s)) < Len(s) /\ (Tail(s) = <<>> => Head(s) = s[Len(s)])
  BY <1>2
<1> QED BY <1>1, <1>3, <1>4

LEMMA AnswersKeepUp ==
    ASSUME ConfigInv, NEW q \in Pods, NEW p \in Pods,
           Poll(q) \/ ReadActive(q) \/ ApplyPoll(q)
    PROVE  KeepsUp(p)
<1>1. /\ active \in ConfigVersions /\ answers[p] \in Seq(ConfigVersions) /\ active' = active
      /\ current \in [Pods -> ConfigVersions] /\ answers \in [Pods -> Seq(ConfigVersions)]
  BY Typing DEF ConfigInv, Poll, ReadActive, ApplyPoll
<1>2. CASE q # p
  <2>1. answers'[p] = answers[p] /\ current'[p] = current[p]
    BY <1>1, <1>2 DEF Poll, ReadActive, ApplyPoll
  <2>2. ~Poll(p)
    <3>1. Len(Append(answers[p], active)) # Len(answers[p])
      BY <1>1
    <3>2. Poll(p) => answers'[p] = Append(answers[p], active)
      BY <1>1 DEF Poll
    <3> QED BY <2>1, <3>1, <3>2
  <2> QED BY <1>1, <2>1, <2>2 DEF KeepsUp, Latest
<1>3. CASE q = p /\ (Poll(q) \/ ReadActive(q))
  <2>1. answers'[p] = Append(answers[p], active)
    BY <1>1, <1>3 DEF Poll, ReadActive
  <2>2. Latest(p)' = active
    BY <1>1, <2>1, LastOf DEF Latest
  <2> QED BY <1>1, <2>2 DEF KeepsUp
<1>4. CASE q = p /\ ApplyPoll(q)
  <2>1. answers[p] # <<>> /\ answers'[p] = Tail(answers[p]) /\ current'[p] = Head(answers[p])
    BY <1>1, <1>4 DEF ApplyPoll, PolledVersion
  <2>2. Latest(p)' = Latest(p)
    BY <1>1, <2>1, LastOf DEF Latest
  <2>3. ~Poll(p)
    <3>1. Len(Append(answers[p], active)) # Len(Tail(answers[p]))
      BY <1>1, <2>1, LastOf
    <3>2. Poll(p) => answers'[p] = Append(answers[p], active)
      BY <1>1 DEF Poll
    <3> QED BY <2>1, <3>1, <3>2
  <2> QED BY <1>1, <2>2, <2>3 DEF KeepsUp
<1> QED BY <1>2, <1>3, <1>4

LEMMA OthersKeepUp ==
    ASSUME ConfigInv, NEW p \in Pods, answers' = answers,
           current'[p] = current[p] \/ (active' = p /\ current'[p] = p)
    PROVE  KeepsUp(p)
<1>1. answers \in [Pods -> Seq(ConfigVersions)] /\ active \in ConfigVersions
  BY Typing DEF ConfigInv
<1>2. ~Poll(p)
  <2>1. Len(Append(answers[p], active)) # Len(answers[p])
    BY <1>1
  <2>2. Poll(p) => answers'[p] = Append(answers[p], active)
    BY <1>1 DEF Poll
  <2> QED BY <2>1, <2>2
<1>3. Latest(p)' = Latest(p) \/ Latest(p)' = active'
  BY DEF Latest
<1> QED BY <1>2, <1>3 DEF KeepsUp

LEMMA StepKeepsUp == ASSUME ConfigInv, [ConfigNext]_configVars, NEW p \in Pods PROVE KeepsUp(p)
<1>1. current \in [Pods -> ConfigVersions]
  BY Typing DEF ConfigInv
<1>2. ASSUME NEW q \in Pods, WriteDefaults(q) PROVE KeepsUp(p)
  <2>1. answers' = answers /\ (current'[p] = current[p] \/ (active' = p /\ current'[p] = p))
    BY <1>1, <1>2 DEF WriteDefaults
  <2> QED BY <2>1, OthersKeepUp
<1>3. ASSUME NEW q \in Pods, StartWatcher(q) \/ StopWatcher(q) PROVE UNCHANGED <<answers, current>>
  BY <1>3 DEF StartWatcher, StopWatcher
<1>4. ASSUME NEW q \in Raters, StartBatch(q) \/ RateEvent(q) \/ EndBatch(q) \/ TakeResult(q)
      PROVE  UNCHANGED <<answers, current>>
  BY <1>4 DEF StartBatch, RateEvent, EndBatch, TakeResult
<1>5. ASSUME NEW c \in Commits, Stage(c) \/ Rename(c) PROVE UNCHANGED <<answers, current>>
  BY <1>5 DEF Stage, Rename
<1>6. UNCHANGED configVars => UNCHANGED <<answers, current>>
  BY DEF configVars
<1>7. UNCHANGED <<answers, current>> => KeepsUp(p)
  BY OthersKeepUp
<1> QED BY <1>2, <1>3, <1>4, <1>5, <1>6, <1>7, AnswersKeepUp DEF ConfigNext

\* config/index.ts: answers are applied in the order of the polls, so a process
\* that holds the active version, or is about to, keeps it until another becomes
\* active, and every poll gets it there: the safety half of PodsConverge.
THEOREM NoPodFallsBack == ConfigSpec => ReadersKeepUp
<1>1. ConfigInv /\ [ConfigNext]_configVars => [\A p \in Pods : KeepsUp(p)]_configVars
  BY StepKeepsUp
<1> QED BY <1>1, ConfigInductive, PTL DEF ConfigSpec, ReadersKeepUp

-----------------------------------------------------------------------------
(***************************************************************************)
(* Device certificates. What is cached, or about to be, was in the table;  *)
(* so once a certificate is revoked there no call takes it up as valid,    *)
(* and the cache comes to say so only by calls that had read it before.    *)
(***************************************************************************)
CertPlaces == {"cache", "row", "storeValid", "storeRevoked", "ocsp", "body"}

\* Gateways that read s as valid and have yet to store it.
Trusting(s) == {g \in Gateways : verify[g] = [at |-> "storeValid", serial |-> s]}

\* What is cached or about to be was in the table, and nobody takes a
\* certificate for revoked that is not.
CacheIsBacked ==
    \A s \in Serials : /\ cached[s] = "revoked" => row[s] = "revoked"
                       /\ cached[s] = "valid" => row[s] # "none"

CallsAreBacked ==
    \A g \in Gateways : /\ verify[g].at = "storeRevoked" => row[verify[g].serial] = "revoked"
                        /\ verify[g].at = "storeValid" => row[verify[g].serial] # "none"

AdminsFoundRows == \A a \in Admins : revoking[a] # NoSerial => row[revoking[a]] # "none"

CertInv == CertTypeOK /\ CacheIsBacked /\ CallsAreBacked /\ AdminsFoundRows

\* A certificate that was enrolled stays so, and revoked if it was revoked;
\* from then on no call takes it up as valid, and the cache does only from one
\* that had before.
Lasts(s) ==
    row[s] = "revoked" =>
       /\ row'[s] = "revoked"
       /\ Trusting(s)' \subseteq Trusting(s)
       /\ cached'[s] = "valid" => cached[s] = "valid" \/ Trusting(s)' # Trusting(s)

RevocationIsLasting == [][\A s \in Serials : Lasts(s)]_certVars

\* A step of the call of g: the others' calls stay, and g's is at a place, of
\* the same serial, or over.
LEMMA CertCalls ==
    ASSUME CertTypeOK, NEW g \in Gateways, verify[g].at # "none"
    PROVE  /\ verify[g].at \in CertPlaces /\ verify[g].serial \in Serials
           /\ verify[g] = [at |-> verify[g].at, serial |-> verify[g].serial]
BY DEF CertTypeOK, NoCall, CertPlaces

LEMMA CertMoves ==
    ASSUME CertTypeOK, NEW g \in Gateways, verify[g].at # "none",
           Returns(g) \/ \E p \in CertPlaces : Proceeds(g, p)
    PROVE  /\ verify' \in [Gateways -> {NoCall} \cup [at : CertPlaces, serial : Serials]]
           /\ \A h \in Gateways : h # g => verify'[h] = verify[h]
           /\ Returns(g) => verify'[g] = NoCall
           /\ \A p \in CertPlaces : Proceeds(g, p) => verify'[g] = [at |-> p, serial |-> verify[g].serial]
<1>1. verify \in [Gateways -> {NoCall} \cup [at : CertPlaces, serial : Serials]]
  BY DEF CertTypeOK, CertPlaces
<1>2. CASE Returns(g)
  <2>1. verify' \in [Gateways -> {NoCall} \cup [at : CertPlaces, serial : Serials]] /\ verify'[g] = NoCall
        /\ \A h \in Gateways : h # g => verify'[h] = verify[h]
    BY <1>1, <1>2 DEF Returns
  <2>2. ASSUME NEW p \in CertPlaces PROVE ~Proceeds(g, p)
    BY <1>1, <2>1, CertCalls DEF Proceeds, NoCall, CertPlaces
  <2> QED BY <2>1, <2>2
<1>3. ASSUME NEW p \in CertPlaces, Proceeds(g, p)
      PROVE  /\ verify' \in [Gateways -> {NoCall} \cup [at : CertPlaces, serial : Serials]]
             /\ \A h \in Gateways : h # g => verify'[h] = verify[h]
             /\ verify'[g] = [at |-> p, serial |-> verify[g].serial]
  <2>1. verify[g] = [at |-> verify[g].at, serial |-> verify[g].serial] /\ verify[g].serial \in Serials
    BY CertCalls
  <2>2. [verify[g] EXCEPT !.at = p] = [at |-> p, serial |-> verify[g].serial]
    BY <2>1
  <2>3. verify' = [verify EXCEPT ![g] = [verify[g] EXCEPT !.at = p]]
    BY <1>3 DEF Proceeds
  <2> QED BY <1>1, <1>3, <2>1, <2>2, <2>3
<1>4. ASSUME NEW p \in CertPlaces, NEW q \in CertPlaces, Proceeds(g, p), Proceeds(g, q) PROVE p = q
  <2>1. verify'[g] = [at |-> p, serial |-> verify[g].serial] /\ verify'[g] = [at |-> q, serial |-> verify[g].serial]
    BY <1>3, <1>4
  <2> QED BY <2>1
<1> QED BY <1>2, <1>3, CertCalls DEF Returns, NoCall, CertPlaces

LEMMA CertInitInv == CertInit => CertInv
BY CertAssumption DEF CertInit, CertInv, CacheIsBacked, CallsAreBacked, AdminsFoundRows, CertTypeOK, NoCall, Statuses

Calling == {NoCall} \cup [at : CertPlaces, serial : Serials]

LEMMA CertParts ==
    ASSUME CertInv
    PROVE  /\ row \in [Serials -> Statuses] /\ cached \in [Serials -> Statuses]
           /\ verify \in [Gateways -> Calling]
           /\ revoking \in [Admins -> Serials \cup {NoSerial}] /\ notices \in [Gateways -> SUBSET Serials]
BY DEF CertInv, CertTypeOK, Calling, CertPlaces

\* A query of the call of g: what it goes on to is backed by the table.
LEMMA VerifyKeeps ==
    ASSUME CertInv, NEW g \in Gateways, VerifyStep(g)
    PROVE  CertInv' /\ \A s \in Serials : Lasts(s)
<1> DEFINE s == verify[g].serial
<1>1. /\ verify[g].at # "none" /\ row' = row /\ revoking' = revoking /\ notices' = notices
      /\ \/ cached' = cached
         \/ verify[g].at = "storeRevoked" /\ cached' = [cached EXCEPT ![s] = "revoked"]
         \/ verify[g].at = "storeValid" /\ cached' = [cached EXCEPT ![s] = "valid"]
      /\ \/ Returns(g)
         \/ Proceeds(g, "row") \/ Proceeds(g, "ocsp") \/ Proceeds(g, "body")
         \/ Proceeds(g, "storeRevoked") /\ row[s] = "revoked"
         \/ Proceeds(g, "storeValid") /\ row[s] = "valid"
  <2>1. CASE ReadCache(g)
    <3>1. cached[s] \in {"none", "valid", "revoked"}
      BY <2>1, CertParts, CertCalls DEF ReadCache, Statuses, CertInv
    <3>2. cached[s] = "revoked" => Returns(g)
      BY <2>1 DEF ReadCache
    <3>3. cached[s] = "valid" => Proceeds(g, "ocsp")
      BY <2>1 DEF ReadCache, AfterHit
    <3>4. cached[s] = "none" => Proceeds(g, "row")
      BY <2>1 DEF ReadCache
    <3>5. verify[g].at # "none" /\ row' = row /\ revoking' = revoking /\ notices' = notices /\ cached' = cached
      BY <2>1 DEF ReadCache
    <3> QED BY <3>1, <3>2, <3>3, <3>4, <3>5
  <2>2. CASE ReadRow(g)
    <3>1. row[s] \in {"none", "valid", "revoked"}
      BY <2>2, CertParts, CertCalls DEF ReadRow, Statuses, CertInv
    <3>2. row[s] = "none" => Returns(g)
      BY <2>2 DEF ReadRow
    <3>3. row[s] = "revoked" => Proceeds(g, "storeRevoked")
      BY <2>2 DEF ReadRow
    <3>4. row[s] = "valid" => Proceeds(g, "storeValid")
      BY <2>2 DEF ReadRow
    <3>5. verify[g].at # "none" /\ row' = row /\ revoking' = revoking /\ notices' = notices /\ cached' = cached
      BY <2>2 DEF ReadRow
    <3> QED BY <3>1, <3>2, <3>3, <3>4, <3>5
  <2>3. CASE StoreRevoked(g) \/ StoreValid(g)
    BY <2>3 DEF StoreRevoked, StoreValid
  <2>4. CASE CheckOCSP(g) \/ VerifyFails(g)
    BY <2>4 DEF CheckOCSP, VerifyFails
  <2> QED BY <2>1, <2>2, <2>3, <2>4 DEF VerifyStep
<1>2. verify[g].at \in CertPlaces /\ s \in Serials /\ verify[g] = [at |-> verify[g].at, serial |-> s]
  BY <1>1, CertCalls DEF CertInv
<1>3. /\ verify' \in [Gateways -> Calling]
      /\ \A h \in Gateways : h # g => verify'[h] = verify[h]
      /\ \/ verify'[g] = NoCall
         \/ \E p \in {"row", "ocsp", "body"} : verify'[g] = [at |-> p, serial |-> s]
         \/ verify'[g] = [at |-> "storeRevoked", serial |-> s] /\ row[s] = "revoked"
         \/ verify'[g] = [at |-> "storeValid", serial |-> s] /\ row[s] = "valid"
  <2>1. \E p \in CertPlaces : Returns(g) \/ Proceeds(g, p)
    BY <1>1 DEF CertPlaces
  <2>2. /\ verify' \in [Gateways -> Calling]
        /\ \A h \in Gateways : h # g => verify'[h] = verify[h]
        /\ Returns(g) => verify'[g] = NoCall
        /\ \A p \in CertPlaces : Proceeds(g, p) => verify'[g] = [at |-> p, serial |-> s]
    BY <1>1, <2>1, CertMoves DEF CertInv, Calling
  <2>3. {"row", "ocsp", "body", "storeRevoked", "storeValid"} \subseteq CertPlaces
    BY DEF CertPlaces
  <2> QED BY <1>1, <2>2, <2>3
<1> HIDE DEF s
<1>4. /\ cached' \in [Serials -> Statuses]
      /\ \A t \in Serials : t # s => cached'[t] = cached[t]
      /\ \/ cached'[s] = cached[s]
         \/ verify[g].at = "storeRevoked" /\ cached'[s] = "revoked"
         \/ verify[g].at = "storeValid" /\ cached'[s] = "valid"
  BY <1>1, <1>2, CertParts DEF Statuses
<1>5. CertTypeOK'
  BY <1>1, <1>3, <1>4, CertParts DEF CertTypeOK, Calling, CertPlaces
<1>6. CacheIsBacked'
  BY <1>1, <1>2, <1>4 DEF CertInv, CacheIsBacked, CallsAreBacked, s
<1>7. CallsAreBacked'
  <2>1. ASSUME NEW h \in Gateways, h # g
        PROVE  /\ verify'[h].at = "storeRevoked" => row'[verify'[h].serial] = "revoked"
               /\ verify'[h].at = "storeValid" => row'[verify'[h].serial] # "none"
    BY <1>1, <1>3, <2>1 DEF CertInv, CallsAreBacked
  <2>2. /\ verify'[g].at = "storeRevoked" => row'[verify'[g].serial] = "revoked"
        /\ verify'[g].at = "storeValid" => row'[verify'[g].serial] # "none"
    BY <1>1, <1>3 DEF NoCall
  <2> QED BY <2>1, <2>2 DEF CallsAreBacked
<1>8. CertInv'
  <2>1. AdminsFoundRows'
    BY <1>1 DEF CertInv, AdminsFoundRows
  <2> QED BY <1>5, <1>6, <1>7, <2>1 DEF CertInv
<1>9. ASSUME NEW t \in Serials PROVE Lasts(t)
  <2> SUFFICES ASSUME row[t] = "revoked"
               PROVE  /\ row'[t] = "revoked" /\ Trusting(t)' \subseteq Trusting(t)
                      /\ cached'[t] = "valid" => cached[t] = "valid" \/ Trusting(t)' # Trusting(t)
    BY DEF Lasts
  <2>1. row'[t] = "revoked"
    BY <1>1
  <2>2. verify'[g] # [at |-> "storeValid", serial |-> t]
    BY <1>3 DEF NoCall
  <2>3. Trusting(t)' \subseteq Trusting(t) /\ g \notin Trusting(t)'
    BY <1>3, <2>2 DEF Trusting
  <2>4. ASSUME cached'[t] = "valid", cached[t] # "valid" PROVE g \in Trusting(t)
    <3>1. t = s /\ verify[g].at = "storeValid"
      BY <1>4, <2>4
    <3> QED BY <1>2, <3>1 DEF Trusting
  <2> QED BY <2>1, <2>3, <2>4
<1> QED BY <1>8, <1>9

\* Calls begin, end with the body of an answer or with their gateway, and hear of revocations; keys expire.
LEMMA CertRestKeeps ==
    ASSUME CertInv,
           \/ \E g \in Gateways : \/ \E s \in Serials : VerifyConnection(g, s) \/ Invalidate(g, s)
                                  \/ ReadBody(g) \/ GatewayDies(g)
           \/ \E s \in Serials : CacheExpires(s)
    PROVE  CertInv' /\ \A t \in Serials : Lasts(t)
<1>1. /\ row' = row /\ revoking' = revoking
      /\ cached' = cached \/ \E s \in Serials : cached' = [cached EXCEPT ![s] = "none"]
      /\ notices' \in [Gateways -> SUBSET Serials]
  BY CertParts DEF VerifyConnection, Invalidate, ReadBody, GatewayDies, CacheExpires
<1>2. \/ verify' = verify \/ \E g \in Gateways : verify' = [verify EXCEPT ![g] = NoCall]
      \/ \E g \in Gateways, s \in Serials : verify' = [verify EXCEPT ![g] = [at |-> "cache", serial |-> s]]
  BY DEF VerifyConnection, Invalidate, ReadBody, GatewayDies, CacheExpires, Returns
<1>3. /\ verify' \in [Gateways -> Calling]
      /\ \A h \in Gateways : \/ verify'[h] = verify[h] \/ verify'[h] = NoCall
                              \/ \E s \in Serials : verify'[h] = [at |-> "cache", serial |-> s]
  BY <1>2, CertParts DEF Calling, CertPlaces
<1>4. cached' \in [Serials -> Statuses] /\ \A t \in Serials : cached'[t] = cached[t] \/ cached'[t] = "none"
  BY <1>1, CertParts DEF Statuses
<1>5. \A h \in Gateways : verify'[h].at \in {"storeRevoked", "storeValid"} => verify'[h] = verify[h]
  BY <1>3 DEF NoCall
<1>6. CertTypeOK'
  BY <1>1, <1>3, <1>4, CertParts DEF CertTypeOK, Calling, CertPlaces
<1>7. CertInv'
  BY <1>1, <1>4, <1>5, <1>6 DEF CertInv, CacheIsBacked, CallsAreBacked, AdminsFoundRows
<1>8. \A t \in Serials : Trusting(t)' \subseteq Trusting(t)
  BY <1>5 DEF Trusting
<1> QED BY <1>1, <1>4, <1>7, <1>8 DEF Lasts

\* Enrolment and the revocation handler.
LEMMA CertTableKeeps ==
    ASSUME CertInv,
           \/ \E s \in Serials : Enrol(s)
           \/ \E a \in Admins : \/ \E s \in Serials : RevokeFind(a, s)
                                \/ \E listening \in SUBSET Gateways : RevokeCommit(a, listening)
                                \/ RevokeFails(a)
    PROVE  CertInv' /\ \A t \in Serials : Lasts(t)
<1>1. /\ cached' = cached /\ verify' = verify
      /\ row' \in [Serials -> Statuses] /\ notices' \in [Gateways -> SUBSET Serials]
      /\ revoking' \in [Admins -> Serials \cup {NoSerial}]
      /\ \A t \in Serials : row'[t] = row[t] \/ row[t] = "none" \/ row'[t] = "revoked"
      /\ \A t \in Serials : row[t] # "none" => row'[t] # "none"
      /\ \A a \in Admins : revoking'[a] # NoSerial => row'[revoking'[a]] # "none"
  <2>1. CASE \E s \in Serials : Enrol(s)
    BY <2>1, CertParts DEF Enrol, Statuses, CertInv, AdminsFoundRows
  <2>2. ASSUME NEW a \in Admins, NEW s \in Serials, RevokeFind(a, s) PROVE <1>1!:
    BY <2>2, CertParts DEF RevokeFind, Statuses, CertInv, AdminsFoundRows
  <2>3. ASSUME NEW a \in Admins, NEW listening \in SUBSET Gateways, RevokeCommit(a, listening) PROVE <1>1!:
    BY <2>3, CertParts DEF RevokeCommit, Statuses, CertInv, AdminsFoundRows
  <2>4. ASSUME NEW a \in Admins, RevokeFails(a) PROVE <1>1!:
    BY <2>4, CertParts DEF RevokeFails, Statuses, CertInv, AdminsFoundRows
  <2> QED BY <2>1, <2>2, <2>3, <2>4
<1>2. CertTypeOK'
  BY <1>1, CertParts DEF CertTypeOK, Calling, CertPlaces
<1>3. \A g \in Gateways : verify[g].at \in {"storeRevoked", "storeValid"} => verify[g].serial \in Serials
  BY CertParts DEF Calling, NoCall
<1>4. CertInv'
  BY <1>1, <1>2, <1>3 DEF CertInv, CacheIsBacked, CallsAreBacked, AdminsFoundRows
<1>5. \A t \in Serials : Trusting(t)' = Trusting(t)
  BY <1>1 DEF Trusting
<1> QED BY <1>1, <1>4, <1>5 DEF Lasts

LEMMA CertNextInv == CertInv /\ [CertNext]_certVars => CertInv' /\ [\A s \in Serials : Lasts(s)]_certVars
<1> SUFFICES ASSUME CertInv, [CertNext]_certVars PROVE CertInv' /\ [\A s \in Serials : Lasts(s)]_certVars
  OBVIOUS
<1>1. CASE UNCHANGED certVars
  BY <1>1 DEF certVars, CertInv, CertTypeOK, CacheIsBacked, CallsAreBacked, AdminsFoundRows
<1>2. CASE CertNext
  <2>1. CASE \E g \in Gateways : VerifyStep(g)
    BY <2>1, VerifyKeeps
  <2> QED BY <1>2, <2>1, CertRestKeeps, CertTableKeeps DEF CertNext
<1> QED BY <1>1, <1>2

\* mtls_verifier.ts verifyConnection: what the cache says was in the table; it
\* refuses no certificate that was not revoked.
THEOREM CertInductive == CertSpec => []CertInv
BY CertInitInv, CertNextInv, PTL DEF CertSpec

\* mtls_verifier.ts verifyConnection, admin.ts revoke: a revocation is never
\* undone; whatever the cache admits afterwards was read before it.
THEOREM RevocationsLast == CertSpec => RevocationIsLasting
BY CertInitInv, CertNextInv, PTL DEF CertSpec, RevocationIsLasting
-----------------------------------------------------------------------------
(***************************************************************************)
(* Compaction. A batch is compacted by one worker at a time and its        *)
(* summaries lose nothing, with failing queries and crashes. The lock      *)
(* serves both: it makes a claimed batch the worker's own, so nobody else  *)
(* closes it under the loop that writes its summaries.                     *)
(***************************************************************************)
\* A worker between its lock and its unlock has the lock of its window.
LockHeld == \A p \in Workers : pc[p] \in Locked => lock[LockOf[window[p]]] = p

\* A worker past its claim works on a COMPACTING batch.
ClaimStands == \A p \in Workers : pc[p] \in Compacting => batch[window[p]] = "COMPACTING"

\* A batch that nobody claimed has no summary.
NoSummaryYet ==
    \A w \in Windows : batch[w] \in {"NONE", "OPEN"} => \A m \in Metrics : summary[w][m] = {}

Summarised(w) == UNION {summary[w][m] : m \in Metrics}

\* What the loop over the metrics has left: no summary before it, none of the
\* metrics still to come in it, none of the events after it.
LoopIsOnTrack ==
    \A p \in Workers :
        /\ pc[p] = "read" => \A m \in Metrics : summary[window[p]][m] = {}
        /\ pc[p] = "write" =>
              /\ snapshot[p] \subseteq raw[window[p]]
              /\ \A e \in snapshot[p] : summary[window[p]][MetricOf[e]] = {}
              /\ arrived[window[p]] \subseteq snapshot[p] \cup Summarised(window[p])
        /\ pc[p] = "close" => arrived[window[p]] \subseteq Summarised(window[p])

ArrivedIsRaw == \A w \in Windows : arrived[w] \subseteq raw[w]

BInv ==
    /\ BatchTypeOK /\ LockHeld /\ ClaimStands
    /\ NoSummaryYet /\ LoopIsOnTrack /\ ArrivedIsRaw
    /\ ClosedBatchIsSummarised /\ AbandonedOnlyByFailure

LEMMA Moves ==
    ASSUME NEW w
    PROVE  /\ MayMove(w, "OPEN", "COMPACTING") <=> batch[w] = "OPEN"
           /\ MayMove(w, "COMPACTING", "CLOSED") <=> batch[w] = "COMPACTING"
BY DEF MayMove, ValidTransitions

LEMMA InitBInv == ASSUME BatchInit PROVE BInv
<1>1. 0 \in Windows
  BY CompactionAssumption DEF Windows
<1>2. BatchTypeOK
  BY <1>1 DEF BatchInit, BatchTypeOK, BatchPlaces
<1>3. LockHeld /\ ClaimStands /\ LoopIsOnTrack
  BY DEF BatchInit, LockHeld, ClaimStands, LoopIsOnTrack, Locked, Compacting
<1>4. NoSummaryYet /\ ArrivedIsRaw /\ ClosedBatchIsSummarised /\ AbandonedOnlyByFailure
  BY DEF BatchInit, NoSummaryYet, ArrivedIsRaw, ClosedBatchIsSummarised, AbandonedOnlyByFailure
<1> QED BY <1>2, <1>3, <1>4 DEF BInv

\* A lock is not shared: two workers in the locked section work on two windows.
LEMMA OnePerWindow ==
    ASSUME LockHeld, NEW p \in Workers, NEW q \in Workers, p # q,
           pc[p] \in Locked, pc[q] \in Locked
    PROVE  LockOf[window[p]] # LockOf[window[q]]
BY DEF LockHeld

\* A worker moves outside the part from claim to close, and no table changes.
LEMMA OutsideBInv ==
    ASSUME BInv, NEW p \in Workers, BatchTypeOK', LockHeld',
           UNCHANGED <<tables, snapshot, history>>,
           pc[p] \notin Compacting, pc'[p] \notin Compacting,
           \A q \in Workers \ {p} : pc'[q] = pc[q] /\ window'[q] = window[q]
    PROVE  BInv'
<1> USE DEF tables, history
<1>1. \A q \in Workers : pc[q] \in Compacting \/ pc'[q] \in Compacting =>
          q # p /\ pc'[q] = pc[q] /\ window'[q] = window[q]
  OBVIOUS
<1>2. ClaimStands'
  BY <1>1 DEF BInv, ClaimStands
<1>3. LoopIsOnTrack'
  BY <1>1 DEF BInv, LoopIsOnTrack, Compacting, Summarised
<1>4. AbandonedOnlyByFailure'
  BY <1>1 DEF BInv, AbandonedOnlyByFailure, CompactsWindow
<1>5. NoSummaryYet' /\ ArrivedIsRaw' /\ ClosedBatchIsSummarised'
  BY DEF BInv, NoSummaryYet, ArrivedIsRaw, ClosedBatchIsSummarised
<1> QED BY <1>2, <1>3, <1>4, <1>5 DEF BInv

\* The queries that lock, look, give up and unlock.
LEMMA LookingBInv ==
    ASSUME BInv, NEW p \in Workers,
           \/ Call(p) \/ CompactReadState(p) \/ RotateLock(p) \/ RotateReadState(p)
           \/ UnlockBatch(p) \/ EnsureBucket(p)
    PROVE  BInv'
<1> USE DEF Call, CompactLock, RotateFind, EnsureFind, CompactReadState, RotateLock,
            RotateReadState, UnlockBatch, EnsureBucket, Go
<1>1. /\ UNCHANGED <<tables, snapshot, history>> /\ now' = now
      /\ pc[p] \notin Compacting /\ pc'[p] \notin Compacting
      /\ \A q \in Workers \ {p} : pc'[q] = pc[q] /\ window'[q] = window[q]
  BY DEF BInv, BatchTypeOK, Compacting
<1>2. pc' \in [Workers -> BatchPlaces]
  BY DEF BInv, BatchTypeOK, BatchPlaces, Locked, Compacting
<1>3. window' \in [Workers -> Windows]
  <2>1. Bucket \in Windows /\ 0 \in Windows
    BY CompactionAssumption DEF BInv, BatchTypeOK, Bucket, Windows
  <2> QED BY <2>1 DEF BInv, BatchTypeOK
<1>4. lock' \in [{LockOf[w] : w \in Windows} -> Workers \cup {Nobody}] /\ kept' = kept
  <2>1. CASE UnlockBatch(p)
    <3> DEFINE value == IF LockOf[window[p]] \in kept THEN p ELSE Nobody
    <3>1. lock' = [lock EXCEPT ![LockOf[window[p]]] = value] /\ kept' = kept
      BY <2>1
    <3>2. value \in Workers \cup {Nobody}
      OBVIOUS
    <3> HIDE DEF value
    <3> QED BY <3>1, <3>2 DEF BInv, BatchTypeOK
  <2>2. ASSUME NEW w \in Windows, CompactLock(p, w)
        PROVE  lock' \in [{LockOf[v] : v \in Windows} -> Workers \cup {Nobody}] /\ kept' = kept
    BY <2>2 DEF BInv, BatchTypeOK
  <2>3. CASE RotateLock(p)
    BY <2>3 DEF BInv, BatchTypeOK
  <2>4. CASE \/ RotateFind(p) \/ EnsureFind(p) \/ CompactReadState(p) \/ RotateReadState(p)
             \/ EnsureBucket(p)
    BY <2>4 DEF BInv, BatchTypeOK
  <2> QED BY <2>1, <2>2, <2>3, <2>4
<1>5. BatchTypeOK'
  BY <1>1, <1>2, <1>3, <1>4 DEF BInv, BatchTypeOK, tables, history
<1>6. LockHeld'
  <2> USE DEF BInv, BatchTypeOK, LockHeld, LockFree, Locked, Compacting
  <2>1. CASE \E w \in Windows : CompactLock(p, w)
    BY <2>1, CompactionAssumption
  <2>2. CASE RotateLock(p)
    <3>1. pc[p] = "r_lock" /\ window' = window
      BY <2>2
    <3>2. CASE LockFree(p, window[p])
      <4>1. /\ lock' = [lock EXCEPT ![LockOf[window[p]]] = p]
            /\ pc' = [pc EXCEPT ![p] = "r_read"]
        BY <2>2, <3>2
      <4>2. \A q \in Workers \ {p} : pc[q] \in Locked => LockOf[window[q]] # LockOf[window[p]]
        <5>1. lock[LockOf[window[p]]] \in {Nobody, p}
          BY <3>2
        <5> QED BY <5>1, CompactionAssumption
      <4> QED BY <3>1, <4>1, <4>2
    <3>3. CASE ~LockFree(p, window[p])
      <4>1. lock' = lock /\ pc' = [pc EXCEPT ![p] = "idle"]
        BY <2>2, <3>3
      <4> QED BY <3>1, <4>1
    <3> QED BY <3>2, <3>3
  <2>3. CASE UnlockBatch(p)
    <3>1. /\ pc[p] \in Locked /\ pc'[p] = "idle"
          /\ \A l \in DOMAIN lock : l # LockOf[window[p]] => lock'[l] = lock[l]
      BY <2>3
    <3>2. ASSUME NEW q \in Workers, pc'[q] \in Locked PROVE lock'[LockOf[window'[q]]] = q
      <4>1. q # p /\ pc[q] \in Locked /\ window'[q] = window[q] /\ LockOf[window[q]] \in DOMAIN lock
        BY <1>1, <3>1, <3>2
      <4>2. LockOf[window[q]] # LockOf[window[p]]
        BY <3>1, <4>1, OnePerWindow
      <4> QED BY <3>1, <4>1, <4>2
    <3> QED BY <3>2
  <2>4. CASE RotateFind(p) \/ EnsureFind(p) \/ EnsureBucket(p)
    BY <2>4
  <2>5. CASE CompactReadState(p) \/ RotateReadState(p)
    BY <2>5
  <2> QED BY <2>1, <2>2, <2>3, <2>4, <2>5
<1> QED BY <1>1, <1>5, <1>6, OutsideBInv

LEMMA InsertRawEventBInv ==
    ASSUME BInv, NEW e \in Events, NEW w \in Windows, InsertRawEvent(e, w)
    PROVE  BInv'
<1> USE DEF InsertRawEvent
<1>1. BatchTypeOK' /\ ArrivedIsRaw'
  BY DEF BInv, BatchTypeOK, ArrivedIsRaw
<1>2. \A v \in Windows : raw[v] \subseteq raw'[v] /\ (batch[v] # "OPEN" => arrived'[v] = arrived[v])
  BY DEF BInv, BatchTypeOK
<1>3. LockHeld' /\ ClaimStands' /\ NoSummaryYet' /\ AbandonedOnlyByFailure'
  BY DEF BInv, LockHeld, ClaimStands, NoSummaryYet, AbandonedOnlyByFailure, CompactsWindow
<1>4. LoopIsOnTrack'
  <2>1. \A p \in Workers : pc[p] \in Compacting =>
            window[p] \in Windows /\ arrived'[window[p]] = arrived[window[p]]
                                  /\ raw[window[p]] \subseteq raw'[window[p]]
    BY <1>2 DEF BInv, BatchTypeOK, ClaimStands
  <2> QED BY SMTT(20), <2>1 DEF BInv, LoopIsOnTrack, Compacting, Summarised
<1>5. ClosedBatchIsSummarised'
  BY <1>2 DEF BInv, ClosedBatchIsSummarised
<1> QED BY <1>1, <1>3, <1>4, <1>5 DEF BInv

\* Another worker's claim or INSERT leaves what is COMPACTING or CLOSED alone.
LEMMA ClaimBInv ==
    ASSUME BInv, NEW p \in Workers, CompactClaim(p) \/ RotateSwap(p), pc'[p] = "read"
    PROVE  BInv'
<1> DEFINE w == window[p]
<1> USE DEF CompactClaim, RotateSwap, Go, AfterSwap
<1>1. /\ pc[p] \in {"c_claim", "r_swap"} /\ batch[w] = "OPEN" /\ w \in Windows
      /\ pc' = [pc EXCEPT ![p] = "read"]
      /\ UNCHANGED <<now, raw, summary, lock, kept, window, snapshot, history>>
  BY Moves DEF BInv, BatchTypeOK
<1>2. /\ batch' \in [Windows -> BatchStates \cup {"NONE"}] /\ batch'[w] = "COMPACTING"
      /\ \A v \in Windows \ {w} :
            batch'[v] = batch[v] \/ (batch[v] = "NONE" /\ batch'[v] = "OPEN")
  BY <1>1, Moves DEF BInv, BatchTypeOK, BatchStates, Windows
<1>3. BatchTypeOK'
  <2>1. pc' \in [Workers -> BatchPlaces]
    BY <1>1 DEF BInv, BatchTypeOK, BatchPlaces, Locked, Compacting
  <2> QED BY <1>1, <1>2, <2>1 DEF BInv, BatchTypeOK, history
<1>4. LockHeld'
  BY <1>1 DEF BInv, BatchTypeOK, LockHeld, Locked
<1>5. \A q \in Workers \ {p} : pc[q] \in Compacting => window[q] \in Windows \ {w}
  BY <1>1 DEF BInv, BatchTypeOK, ClaimStands
<1>6. ClaimStands'
  BY <1>1, <1>2, <1>5 DEF BInv, BatchTypeOK, ClaimStands
<1>7. NoSummaryYet' /\ ArrivedIsRaw'
  BY <1>1, <1>2 DEF BInv, NoSummaryYet, ArrivedIsRaw, history
<1>8. LoopIsOnTrack'
  BY <1>1, <1>2 DEF BInv, BatchTypeOK, LoopIsOnTrack, NoSummaryYet, Summarised, history
<1>9. ClosedBatchIsSummarised'
  BY <1>1, <1>2 DEF BInv, ClosedBatchIsSummarised, history
<1>10. AbandonedOnlyByFailure'
  <2>1. CompactsWindow(p, w)'
    BY <1>1 DEF BInv, BatchTypeOK, CompactsWindow, Compacting
  <2>2. \A q \in Workers \ {p}, v \in Windows : CompactsWindow(q, v) => CompactsWindow(q, v)'
    BY <1>1 DEF BInv, BatchTypeOK, CompactsWindow
  <2>3. \A v \in Windows : ~CompactsWindow(p, v)
    BY <1>1 DEF CompactsWindow, Compacting
  <2> QED BY <1>1, <1>2, <2>1, <2>2, <2>3 DEF BInv, AbandonedOnlyByFailure, history
<1> QED BY <1>3, <1>4, <1>6, <1>7, <1>8, <1>9, <1>10 DEF BInv

\* A claim that found the row moved, or rolled back.
LEMMA NoClaimBInv ==
    ASSUME BInv, NEW p \in Workers, CompactClaim(p) \/ RotateSwap(p), pc'[p] # "read"
    PROVE  BInv'
<1> USE DEF CompactClaim, RotateSwap, Go, AfterSwap
<1>1. /\ pc[p] \in {"c_claim", "r_swap"} /\ pc' = [pc EXCEPT ![p] = "unlock"]
      /\ UNCHANGED <<now, tables, lock, kept, window, snapshot, history>>
  BY DEF BInv, BatchTypeOK, tables
<1>2. BatchTypeOK'
  BY <1>1 DEF BInv, BatchTypeOK, BatchPlaces, Locked, Compacting, tables, history
<1>3. LockHeld'
  BY <1>1 DEF BInv, BatchTypeOK, LockHeld, Locked
<1>4. /\ pc[p] \notin Compacting /\ pc'[p] \notin Compacting
      /\ \A q \in Workers \ {p} : pc'[q] = pc[q] /\ window'[q] = window[q]
  BY <1>1 DEF BInv, BatchTypeOK, Compacting
<1> QED BY <1>1, <1>2, <1>3, <1>4, OutsideBInv

\* ensureOpenBatch's INSERT adds a row at most.
LEMMA EnsureInsertBInv ==
    ASSUME BInv, NEW p \in Workers, EnsureInsert(p)
    PROVE  BInv'
<1> USE DEF EnsureInsert, InsertIfAbsent, Go
<1>1. 0 \in Windows
  BY CompactionAssumption DEF Windows
<1>2. BatchTypeOK'
  BY <1>1 DEF BInv, BatchTypeOK, BatchStates, BatchPlaces, history
<1>3. /\ \A v \in Windows : batch'[v] = batch[v] \/ (batch[v] = "NONE" /\ batch'[v] = "OPEN")
      /\ pc[p] = "e_insert" /\ pc'[p] = "idle"
      /\ \A q \in Workers \ {p} : pc'[q] = pc[q] /\ window'[q] = window[q]
      /\ UNCHANGED <<raw, summary, lock, snapshot, history>>
  BY DEF BInv, BatchTypeOK
<1>4. \A q \in Workers : pc'[q] \in Locked => q # p /\ pc'[q] = pc[q] /\ window'[q] = window[q]
  BY <1>3 DEF Locked, Compacting
<1>5. LockHeld'
  BY <1>3, <1>4 DEF BInv, LockHeld
<1>6. \A q \in Workers : pc'[q] \in Compacting =>
          pc'[q] = pc[q] /\ window'[q] = window[q] /\ window[q] \in Windows
  BY <1>4 DEF BInv, BatchTypeOK, Locked
<1>7. ClaimStands'
  BY <1>3, <1>6 DEF BInv, ClaimStands
<1>8. NoSummaryYet' /\ ArrivedIsRaw' /\ ClosedBatchIsSummarised'
  BY <1>3 DEF BInv, NoSummaryYet, ArrivedIsRaw, ClosedBatchIsSummarised, history
<1>9. LoopIsOnTrack'
  BY SMTT(20), <1>3, <1>6 DEF BInv, LoopIsOnTrack, Compacting, Summarised, history
<1>10. AbandonedOnlyByFailure'
  <2>1. \A q \in Workers, v \in Windows : CompactsWindow(q, v) => CompactsWindow(q, v)'
    BY <1>3 DEF CompactsWindow, Compacting
  <2> QED BY <1>3, <2>1 DEF BInv, AbandonedOnlyByFailure, history
<1> QED BY <1>2, <1>5, <1>7, <1>8, <1>9, <1>10 DEF BInv

\* A worker that stays between its claim and its close, on its window.
LEMMA WorkingKeeps ==
    ASSUME BInv, NEW p \in Workers, pc[p] \in Compacting, pc'[p] \in Compacting,
           \A q \in Workers \ {p} : pc'[q] = pc[q],
           UNCHANGED <<now, batch, raw, lock, kept, window, history>>
    PROVE  (LockHeld /\ ClaimStands /\ ArrivedIsRaw /\ AbandonedOnlyByFailure)'
<1>1. \A q \in Workers : pc'[q] \in Locked => pc[q] \in Locked
  BY DEF Locked
<1>2. \A q \in Workers : pc'[q] \in Compacting <=> pc[q] \in Compacting
  OBVIOUS
<1>3. LockHeld' /\ ClaimStands'
  BY <1>1, <1>2 DEF BInv, LockHeld, ClaimStands
<1>4. ArrivedIsRaw' /\ AbandonedOnlyByFailure'
  BY <1>2 DEF BInv, ArrivedIsRaw, AbandonedOnlyByFailure, CompactsWindow, history
<1> QED BY <1>3, <1>4

LEMMA CompactReadBInv ==
    ASSUME BInv, NEW p \in Workers, CompactRead(p)
    PROVE  BInv'
<1> USE DEF CompactRead, EventsIn, Go, tables
<1>1. BatchTypeOK'
  BY DEF BInv, BatchTypeOK, BatchPlaces, Locked, Compacting, history
<1>2. /\ pc[p] = "read" /\ pc'[p] = "write" /\ snapshot'[p] = raw[window[p]]
      /\ \A q \in Workers \ {p} : pc'[q] = pc[q] /\ snapshot'[q] = snapshot[q]
      /\ window[p] \in Windows
  BY DEF BInv, BatchTypeOK
<1>3. LoopIsOnTrack'
  <2>1. \A e \in raw[window[p]] : MetricOf[e] \in Metrics
    BY <1>2, CompactionAssumption DEF BInv, BatchTypeOK
  <2>2. UNCHANGED <<raw, summary, arrived, window>>
    BY DEF history
  <2>3. /\ \A m \in Metrics : summary[window[p]][m] = {}
        /\ arrived[window[p]] \subseteq raw[window[p]]
    BY <1>2 DEF BInv, LoopIsOnTrack, ArrivedIsRaw
  <2>4. /\ snapshot'[p] \subseteq raw'[window'[p]]
        /\ \A e \in snapshot'[p] : summary'[window'[p]][MetricOf[e]] = {}
        /\ arrived'[window'[p]] \subseteq snapshot'[p] \cup Summarised(window[p])'
    <3> HIDE DEF CompactRead, EventsIn, Go, tables
    <3> QED BY <1>2, <2>1, <2>2, <2>3
  <2>5. \A q \in Workers \ {p} : LoopIsOnTrack!(q)'
    <3> HIDE DEF CompactRead, EventsIn, Go, tables
    <3> QED BY <1>2, <2>2 DEF BInv, LoopIsOnTrack, Summarised
  <2> QED BY <1>2, <2>4, <2>5 DEF LoopIsOnTrack
<1>4. NoSummaryYet' /\ ClosedBatchIsSummarised'
  BY DEF BInv, NoSummaryYet, ClosedBatchIsSummarised, history
<1> QED BY <1>1, <1>2, <1>3, <1>4, WorkingKeeps DEF BInv, Compacting

\* One metric's summary: its row did not exist, and the rest stays to be done.
LEMMA WriteSummaryBInv ==
    ASSUME BInv, NEW p \in Workers, WriteSummary(p)
    PROVE  BInv'
<1> DEFINE w == window[p]
<1>1. PICK m \in {MetricOf[e] : e \in snapshot[p]} :
          LET group == {e \in snapshot[p] : MetricOf[e] = m} IN
          /\ summary' = [summary EXCEPT ![w][m] = IF @ = {} THEN group ELSE @]
          /\ snapshot' = [snapshot EXCEPT ![p] = @ \ group]
  BY DEF WriteSummary
<1> DEFINE group == {e \in snapshot[p] : MetricOf[e] = m}
<1>2. /\ pc[p] = "write" /\ w \in Windows /\ snapshot[p] \subseteq raw[w] /\ raw[w] \subseteq Events
      /\ \A e \in snapshot[p] : summary[w][MetricOf[e]] = {} /\ MetricOf[e] \in Metrics
      /\ arrived[w] \subseteq snapshot[p] \cup Summarised(w)
      /\ UNCHANGED <<now, batch, raw, lock, kept, pc, window, history>>
  BY CompactionAssumption DEF WriteSummary, BInv, BatchTypeOK, LoopIsOnTrack
<1>3. m \in Metrics /\ summary[w][m] = {} /\ group \subseteq Events
  BY <1>2
<1>4. /\ summary'[w][m] = group
      /\ \A n \in Metrics \ {m} : summary'[w][n] = summary[w][n]
      /\ \A v \in Windows \ {w} : summary'[v] = summary[v]
      /\ summary' \in [Windows -> [Metrics -> SUBSET Events]]
  BY <1>1, <1>2, <1>3 DEF BInv, BatchTypeOK
<1>5. /\ snapshot'[p] = snapshot[p] \ group
      /\ \A q \in Workers \ {p} : snapshot'[q] = snapshot[q]
      /\ snapshot' \in [Workers -> SUBSET Events]
  BY <1>1 DEF BInv, BatchTypeOK
<1> HIDE DEF group
<1>6. BatchTypeOK'
  BY <1>2, <1>4, <1>5 DEF BInv, BatchTypeOK, history
<1>7. NoSummaryYet'
  <2>1. batch[w] = "COMPACTING"
    BY <1>2 DEF BInv, ClaimStands, Compacting
  <2> QED BY <1>2, <1>4, <2>1 DEF BInv, NoSummaryYet
<1>8. ClosedBatchIsSummarised'
  <2>1. batch[w] = "COMPACTING"
    BY <1>2 DEF BInv, ClaimStands, Compacting
  <2>2. group \subseteq {e \in raw[w] : MetricOf[e] = m}
    BY <1>2 DEF group
  <2>3. \A n \in Metrics : summary'[w][n] \subseteq {e \in raw[w] : MetricOf[e] = n}
    BY <1>2, <1>4, <2>2 DEF BInv, ClosedBatchIsSummarised
  <2> QED BY <1>2, <1>4, <2>1, <2>3 DEF BInv, ClosedBatchIsSummarised, history
<1>9. LoopIsOnTrack'
  <2>1. ASSUME NEW q \in Workers \ {p}, pc[q] \in Compacting
        PROVE  window[q] \in Windows \ {w} /\ Summarised(window[q])' = Summarised(window[q])
    <3>1. window[q] # w
      BY <1>2, <2>1, OnePerWindow DEF BInv, Locked, Compacting
    <3> QED BY <1>2, <1>4, <3>1 DEF BInv, BatchTypeOK, Summarised
  <2>2. arrived[w] \subseteq snapshot'[p] \cup Summarised(w)'
    <3>1. \A n \in Metrics : summary[w][n] \subseteq summary'[w][n]
      BY <1>3, <1>4
    <3>2. Summarised(w) \subseteq Summarised(w)' /\ group \subseteq Summarised(w)'
      BY <1>2, <1>3, <1>4, <3>1 DEF Summarised
    <3> QED BY <1>2, <1>5, <3>2
  <2>3. \A e \in snapshot'[p] : MetricOf[e] # m /\ e \in snapshot[p]
    BY <1>5 DEF group
  <2>4. \A e \in snapshot'[p] : summary'[w][MetricOf[e]] = {}
    BY <1>2, <1>4, <2>3
  <2>5. ASSUME NEW q \in Workers \ {p}
        PROVE  /\ pc[q] = "read" => \A n \in Metrics : summary'[window[q]][n] = {}
               /\ pc[q] = "write" =>
                     /\ snapshot'[q] \subseteq raw[window[q]]
                     /\ \A e \in snapshot'[q] : summary'[window[q]][MetricOf[e]] = {}
                     /\ arrived[window[q]] \subseteq snapshot'[q] \cup Summarised(window[q])'
               /\ pc[q] = "close" => arrived[window[q]] \subseteq Summarised(window[q])'
    <3>1. CASE pc[q] \in Compacting
      <4>1. /\ summary'[window[q]] = summary[window[q]] /\ snapshot'[q] = snapshot[q]
            /\ Summarised(window[q])' = Summarised(window[q])
        BY <1>4, <1>5, <2>1, <3>1
      <4> QED BY <4>1 DEF BInv, LoopIsOnTrack
    <3>2. CASE pc[q] \notin Compacting
      BY <3>2 DEF Compacting
    <3> QED BY <3>1, <3>2
  <2> QED BY <1>2, <1>5, <2>2, <2>3, <2>4, <2>5 DEF LoopIsOnTrack, history
<1> QED BY <1>2, <1>6, <1>7, <1>8, <1>9, WorkingKeeps DEF BInv, Compacting

LEMMA SummariesDoneBInv ==
    ASSUME BInv, NEW p \in Workers, SummariesDone(p)
    PROVE  BInv'
<1> USE DEF SummariesDone, AllWritten, Go, tables
<1>1. BatchTypeOK'
  BY DEF BInv, BatchTypeOK, BatchPlaces, Locked, Compacting, history
<1>2. /\ pc[p] = "write" /\ pc'[p] = "close" /\ snapshot[p] = {}
      /\ \A q \in Workers \ {p} : pc'[q] = pc[q]
  BY DEF BInv, BatchTypeOK
<1>3. LoopIsOnTrack'
  BY <1>2 DEF BInv, LoopIsOnTrack, Summarised, history
<1>4. NoSummaryYet' /\ ClosedBatchIsSummarised'
  BY DEF BInv, NoSummaryYet, ClosedBatchIsSummarised, history
<1> QED BY <1>1, <1>2, <1>3, <1>4, WorkingKeeps DEF BInv, Compacting

\* The close: the batch is the worker's own, so nobody else is at work on it.
LEMMA CloseBatchBInv ==
    ASSUME BInv, NEW p \in Workers, CloseBatch(p)
    PROVE  BInv'
<1> DEFINE w == window[p]
<1> USE DEF CloseBatch, Go
<1>1. /\ pc[p] = "close" /\ w \in Windows /\ batch[w] = "COMPACTING"
      /\ arrived[w] \subseteq Summarised(w)
      /\ UNCHANGED <<now, raw, summary, lock, kept, window, snapshot, history>>
  BY DEF BInv, BatchTypeOK, ClaimStands, LoopIsOnTrack, Compacting
<1>2. batch' = [batch EXCEPT ![w] = "CLOSED"] /\ pc' = [pc EXCEPT ![p] = "unlock"]
  BY <1>1, Moves
<1>3. /\ batch'[w] = "CLOSED" /\ \A v \in Windows \ {w} : batch'[v] = batch[v]
      /\ pc'[p] = "unlock" /\ \A q \in Workers \ {p} : pc'[q] = pc[q]
  BY <1>1, <1>2 DEF BInv, BatchTypeOK
<1>4. BatchTypeOK'
  BY <1>1, <1>2 DEF BInv, BatchTypeOK, BatchStates, BatchPlaces, Locked, history
<1>5. \A q \in Workers : pc'[q] \in Locked => pc[q] \in Locked
  BY <1>1, <1>3 DEF Locked, Compacting
<1>6. \A q \in Workers : pc'[q] \in Compacting =>
          q # p /\ pc[q] = pc'[q] /\ window[q] \in Windows \ {w}
  BY <1>1, <1>3, OnePerWindow DEF BInv, BatchTypeOK, Locked, Compacting
<1>7. LockHeld' /\ ClaimStands' /\ NoSummaryYet' /\ ArrivedIsRaw'
  BY <1>1, <1>3, <1>5, <1>6
     DEF BInv, LockHeld, ClaimStands, NoSummaryYet, ArrivedIsRaw, history
<1>8. LoopIsOnTrack'
  BY SMTT(20), <1>1, <1>6 DEF BInv, LoopIsOnTrack, Compacting, Summarised, history
<1>9. ClosedBatchIsSummarised'
  BY <1>1, <1>3 DEF BInv, ClosedBatchIsSummarised, Summarised, history
<1>10. AbandonedOnlyByFailure'
  <2>1. \A q \in Workers, v \in Windows \ {w} : CompactsWindow(q, v) => CompactsWindow(q, v)'
    BY <1>1, <1>3 DEF CompactsWindow
  <2> QED BY <1>1, <1>3, <2>1 DEF BInv, AbandonedOnlyByFailure, history
<1> QED BY <1>4, <1>7, <1>8, <1>9, <1>10 DEF BInv

\* A worker that fails leaves its window among the failed ones, if claimed.
LEMMA FailureBInv ==
    ASSUME BInv, NEW p \in Workers, Throw(p) \/ UnlockFails(p) \/ Crash(p)
    PROVE  BInv'
<1> USE DEF Throw, UnlockFails, Crash, AfterThrow, CutShort, Go, tables, history
<1>1. 0 \in Windows
  BY CompactionAssumption DEF Windows
<1>2. /\ pc'[p] \in {"unlock", "idle"}
      /\ \A q \in Workers \ {p} : /\ pc'[q] = pc[q] /\ window'[q] = window[q]
                                  /\ snapshot'[q] = snapshot[q]
      /\ UNCHANGED <<now, batch, raw, summary, arrived>>
      /\ failed \subseteq failed'
      /\ pc[p] \in Compacting => window[p] \in failed'
  BY DEF BInv, BatchTypeOK, Compacting
<1>3. BatchTypeOK'
  <2>1. /\ pc' \in [Workers -> BatchPlaces] /\ window' \in [Workers -> Windows]
        /\ snapshot' \in [Workers -> SUBSET Events] /\ failed' \in SUBSET Windows
    <3>1. pc' \in [Workers -> BatchPlaces]
      BY DEF BInv, BatchTypeOK, BatchPlaces, Locked
    <3>2. window' \in [Workers -> Windows]
      BY <1>1 DEF BInv, BatchTypeOK
    <3>3. snapshot' \in [Workers -> SUBSET Events]
      BY DEF BInv, BatchTypeOK
    <3>4. failed' \in SUBSET Windows
      BY DEF BInv, BatchTypeOK
    <3> QED BY <3>1, <3>2, <3>3, <3>4
  <2>2. lock' \in [{LockOf[v] : v \in Windows} -> Workers \cup {Nobody}]
    BY DEF BInv, BatchTypeOK
  <2>3. kept' \in SUBSET {LockOf[v] : v \in Windows}
    BY DEF BInv, BatchTypeOK
  <2> QED BY <1>2, <2>1, <2>2, <2>3 DEF BInv, BatchTypeOK
<1>4. LockHeld'
  <2>1. CASE Throw(p) \/ UnlockFails(p)
    BY <2>1 DEF BInv, BatchTypeOK, LockHeld, Locked, Compacting
  <2>2. CASE Crash(p)
    <3>1. pc'[p] = "idle"
      BY <2>2 DEF BInv, BatchTypeOK
    <3>2. ASSUME NEW q \in Workers, pc'[q] \in Locked PROVE lock'[LockOf[window'[q]]] = q
      <4>1. q # p
        BY <3>1, <3>2 DEF Locked, Compacting
      <4>2. lock[LockOf[window[q]]] = q /\ window[q] \in Windows
        BY <1>2, <3>2, <4>1 DEF BInv, BatchTypeOK, LockHeld
      <4>3. LockOf[window[q]] \in DOMAIN lock
        BY <4>2 DEF BInv, BatchTypeOK
      <4> QED BY <1>2, <2>2, <4>1, <4>2, <4>3
    <3> QED BY <3>2 DEF LockHeld
  <2> QED BY <2>1, <2>2
<1>5. \A q \in Workers : pc'[q] \in Compacting => q # p /\ pc[q] = pc'[q]
  BY <1>2 DEF Compacting
<1> HIDE DEF Throw, UnlockFails, Crash, AfterThrow, CutShort, Go, tables, history
<1>6. ClaimStands' /\ NoSummaryYet' /\ ArrivedIsRaw' /\ ClosedBatchIsSummarised'
  BY <1>2, <1>5 DEF BInv, ClaimStands, NoSummaryYet, ArrivedIsRaw, ClosedBatchIsSummarised
<1>7. LoopIsOnTrack'
  <2>1. \A q \in Workers : pc'[q] \in {"read", "write", "close"} =>
           pc[q] = pc'[q] /\ window'[q] = window[q] /\ snapshot'[q] = snapshot[q]
    BY <1>2, <1>5 DEF Compacting
  <2>2. summary' = summary /\ raw' = raw /\ arrived' = arrived
        /\ \A w \in Windows : Summarised(w)' = Summarised(w)
    BY <1>2 DEF Summarised
  <2>3. \A q \in Workers : window[q] \in Windows
    BY DEF BInv, BatchTypeOK
  <2> QED BY <2>1, <2>2, <2>3 DEF BInv, LoopIsOnTrack
<1>8. AbandonedOnlyByFailure'
  <2>1. \A q \in Workers, v \in Windows :
            CompactsWindow(q, v) => CompactsWindow(q, v)' \/ v \in failed'
    BY <1>2 DEF CompactsWindow
  <2> QED BY <1>2, <2>1 DEF BInv, AbandonedOnlyByFailure
<1> QED BY <1>3, <1>4, <1>6, <1>7, <1>8 DEF BInv

\* Steps that move the clock at most.
LEMMA ClockBInv ==
    ASSUME BInv, BatchTypeOK', UNCHANGED <<tables, lock, kept, pc, window, snapshot, history>>
    PROVE  BInv'
<1> USE DEF tables, history
<1>1. LockHeld' /\ ClaimStands' /\ NoSummaryYet' /\ ArrivedIsRaw' /\ ClosedBatchIsSummarised'
  BY DEF BInv, LockHeld, ClaimStands, NoSummaryYet, ArrivedIsRaw, ClosedBatchIsSummarised
<1>2. LoopIsOnTrack'
  BY DEF BInv, LoopIsOnTrack, Summarised
<1>3. AbandonedOnlyByFailure'
  BY DEF BInv, AbandonedOnlyByFailure, CompactsWindow
<1> QED BY <1>1, <1>2, <1>3 DEF BInv

LEMMA StepBInv == ASSUME BInv, [BatchNext]_batchVars PROVE BInv'
<1>1. CASE UNCHANGED batchVars
  <2>1. BatchTypeOK'
    BY <1>1 DEF batchVars, tables, history, BInv, BatchTypeOK
  <2> QED BY <1>1, <2>1, ClockBInv DEF batchVars
<1>2. CASE AdvanceClock
  <2>1. BatchTypeOK'
    BY <1>2, CompactionAssumption DEF AdvanceClock, tables, history, BInv, BatchTypeOK, Windows
  <2> QED BY <1>2, <2>1, ClockBInv DEF AdvanceClock
<1>3. ASSUME NEW p \in Workers, Call(p) \/ Step(p) \/ Throw(p) \/ UnlockFails(p) \/ Crash(p)
      PROVE  BInv'
  BY <1>3, LookingBInv, ClaimBInv, NoClaimBInv, CompactReadBInv, WriteSummaryBInv,
     SummariesDoneBInv, CloseBatchBInv, EnsureInsertBInv, FailureBInv DEF Step
<1> QED BY <1>1, <1>2, <1>3, InsertRawEventBInv DEF BatchNext

-----------------------------------------------------------------------------
(* The theorems. *)

\* BInv holds in every state the workers reach.
THEOREM BatchInductive == BatchSpec => []BInv
<1>1. BatchInit => BInv
  BY InitBInv
<1>2. BInv /\ [BatchNext]_batchVars => BInv'
  BY StepBInv
<1> QED BY <1>1, <1>2, PTL DEF BatchSpec

\* batchCompactor.ts: a worker past its claim has the batch and its lock to
\* itself, whatever hashes to that lock.
THEOREM OneCompactor == BatchSpec => []CompactionIsExclusive
<1>1. BInv => CompactionIsExclusive
  BY DEF BInv, LockHeld, ClaimStands, CompactionIsExclusive, CompactsWindow, Locked
<1> QED BY <1>1, BatchInductive, PTL

\* batchCompactor.ts: a CLOSED batch is summarised in full and never touched
\* again, and a COMPACTING one without a worker was left there by a failure.
THEOREM SummariesAreSound == BatchSpec => SummariesHold
<1>1. BInv => ClosedBatchIsSummarised /\ AbandonedOnlyByFailure
  BY DEF BInv
<1>2. ASSUME BInv, [BatchNext]_batchVars, NEW w \in Windows, batch[w] = "CLOSED"
      PROVE  batch'[w] = "CLOSED" /\ summary'[w] = summary[w]
  <2>1. CASE UNCHANGED batchVars
    BY <1>2, <2>1 DEF batchVars, tables
  <2>2. CASE AdvanceClock \/ \E e \in Events, v \in Windows : InsertRawEvent(e, v)
    BY <1>2, <2>2 DEF AdvanceClock, InsertRawEvent, tables
  <2>3. ASSUME NEW p \in Workers, Call(p) \/ Throw(p) \/ UnlockFails(p) \/ Crash(p)
               \/ CompactReadState(p)
               \/ RotateLock(p) \/ RotateReadState(p) \/ CompactRead(p) \/ SummariesDone(p)
               \/ UnlockBatch(p) \/ EnsureBucket(p)
        PROVE  batch' = batch /\ summary' = summary
    BY <2>3 DEF Call, CompactLock, RotateFind, EnsureFind, Throw, UnlockFails, Crash, CompactReadState,
                RotateLock, RotateReadState, CompactRead, SummariesDone, UnlockBatch,
                EnsureBucket, tables
  <2>4. ASSUME NEW p \in Workers, CompactClaim(p) \/ RotateSwap(p) \/ CloseBatch(p)
               \/ EnsureInsert(p)
        PROVE  batch'[w] = "CLOSED" /\ summary' = summary
    BY <1>2, <2>4, Moves DEF BInv, BatchTypeOK, CompactClaim, RotateSwap, CloseBatch,
                EnsureInsert, InsertIfAbsent
  <2>5. ASSUME NEW p \in Workers, WriteSummary(p)
        PROVE  batch' = batch /\ summary'[w] = summary[w]
    <3>1. window[p] # w
      BY <1>2, <2>5 DEF WriteSummary, BInv, ClaimStands, Compacting
    <3> QED BY <1>2, <2>5, <3>1 DEF WriteSummary, BInv, BatchTypeOK
  <2> QED BY <1>2, <2>1, <2>2, <2>3, <2>4, <2>5 DEF BatchNext, Step
<1>3. BInv /\ [BatchNext]_batchVars =>
          [\A w \in Windows :
              batch[w] = "CLOSED" => batch'[w] = "CLOSED" /\ summary'[w] = summary[w]]_batchVars
  BY <1>2
<1> QED BY <1>1, <1>3, BatchInductive, PTL DEF BatchSpec, SummariesHold, ClosedIsFinal

-----------------------------------------------------------------------------
(* Locks and their holders. *)

\* A session that holds a lock is a worker in the section that its finally block
\* ends, on a window of that lock, or its unlock failed; and a lock whose unlock
\* failed is a session's.
LocksAreInUse ==
    /\ \A l \in DOMAIN lock, p \in Workers :
          lock[l] = p => l \in kept \/ (pc[p] \in Locked /\ LockOf[window[p]] = l)
    /\ \A l \in kept : l \in DOMAIN lock /\ lock[l] \in Workers

LEMMA SectionKeepsLocks ==
    ASSUME LocksAreInUse, lock' = lock, kept' = kept,
           \A q \in Workers : pc[q] \in Locked => pc'[q] \in Locked /\ window'[q] = window[q]
    PROVE  LocksAreInUse'
BY DEF LocksAreInUse

LEMMA TakingIsInUse ==
    ASSUME BatchTypeOK, LocksAreInUse, NEW p \in Workers, NEW w \in Windows, pc[p] \notin Locked,
           lock' = [lock EXCEPT ![LockOf[w]] = p], kept' = kept,
           pc'[p] \in Locked /\ window'[p] = w,
           \A q \in Workers : q # p => pc'[q] = pc[q] /\ window'[q] = window[q]
    PROVE  LocksAreInUse'
<1>1. lock \in [{LockOf[v] : v \in Windows} -> Workers \cup {Nobody}]
  BY DEF BatchTypeOK
<1>2. /\ DOMAIN lock' = DOMAIN lock /\ lock'[LockOf[w]] = p
      /\ \A l \in DOMAIN lock : l # LockOf[w] => lock'[l] = lock[l]
  BY <1>1
<1> QED BY <1>2 DEF LocksAreInUse

\* The worker p leaves its section: the locks that it still has are kept, and
\* the locks of others stay as they are.
LEMMA LeavingIsInUse ==
    ASSUME LocksAreInUse, NEW p \in Workers,
           DOMAIN lock' = DOMAIN lock,
           \A l \in DOMAIN lock : lock'[l] = p => l \in kept',
           \A l \in DOMAIN lock : lock[l] # p => lock'[l] = lock[l] /\ (l \in kept <=> l \in kept'),
           \A l \in DOMAIN lock : lock[l] = p => lock'[l] \in {Nobody, p},
           \A l \in kept' : l \in DOMAIN lock /\ lock'[l] \in Workers,
           \A q \in Workers : q # p => pc'[q] = pc[q] /\ window'[q] = window[q]
    PROVE  LocksAreInUse'
BY CompactionAssumption DEF LocksAreInUse

LEMMA LocksStep == ASSUME BInv, LocksAreInUse, [BatchNext]_batchVars PROVE LocksAreInUse'
<1>1. /\ BatchTypeOK /\ LockHeld /\ pc \in [Workers -> BatchPlaces] /\ window \in [Workers -> Windows]
      /\ lock \in [{LockOf[w] : w \in Windows} -> Workers \cup {Nobody}]
  BY DEF BInv, BatchTypeOK
<1>2. ASSUME NEW p \in Workers, UnlockBatch(p) \/ UnlockFails(p) PROVE LocksAreInUse'
  <2> DEFINE k == LockOf[window[p]]
  <2>1. lock[k] = p /\ k \in DOMAIN lock
    BY <1>1, <1>2 DEF UnlockBatch, UnlockFails, LockHeld, Locked
  <2>2. \A l \in DOMAIN lock : lock[l] = p => l = k \/ l \in kept
    BY DEF LocksAreInUse
  <2>3. \A q \in Workers : q # p => pc'[q] = pc[q] /\ window'[q] = window[q]
    BY <1>1, <1>2 DEF UnlockBatch, UnlockFails, Go
  <2>4. \A l \in kept : l \in DOMAIN lock /\ lock[l] \in Workers
    BY DEF LocksAreInUse
  <2>5. CASE UnlockBatch(p)
    <3>1. /\ DOMAIN lock' = DOMAIN lock /\ lock'[k] = (IF k \in kept THEN p ELSE Nobody)
          /\ \A l \in DOMAIN lock : l # k => lock'[l] = lock[l]
          /\ kept' = kept
      BY <1>1, <2>1, <2>5 DEF UnlockBatch
    <3> HIDE DEF k
    <3> QED BY <2>1, <2>2, <2>3, <2>4, <3>1, LeavingIsInUse, CompactionAssumption
  <2>6. CASE UnlockFails(p)
    <3>1. lock' = lock /\ kept' = kept \cup {k}
      BY <2>6 DEF UnlockFails
    <3> HIDE DEF k
    <3> QED BY <2>1, <2>2, <2>3, <2>4, <3>1, LeavingIsInUse
  <2> QED BY <1>2, <2>5, <2>6
<1>3. ASSUME NEW p \in Workers, Crash(p) PROVE LocksAreInUse'
  <2>1. /\ DOMAIN lock' = DOMAIN lock
        /\ \A l \in DOMAIN lock : lock'[l] = IF lock[l] = p THEN Nobody ELSE lock[l]
        /\ kept' = {l \in kept : lock[l] # p}
    BY <1>3 DEF Crash
  <2>2. \A q \in Workers : q # p => pc'[q] = pc[q] /\ window'[q] = window[q]
    BY <1>1, <1>3 DEF Crash, Go
  <2>3. \A l \in kept : l \in DOMAIN lock /\ lock[l] \in Workers
    BY DEF LocksAreInUse
  <2> QED BY <2>1, <2>2, <2>3, LeavingIsInUse, CompactionAssumption
<1>4. ASSUME NEW p \in Workers, NEW w \in Windows, CompactLock(p, w) PROVE LocksAreInUse'
  <2>1. /\ pc[p] \notin Locked /\ pc'[p] \in Locked /\ window'[p] = w
        /\ lock' = [lock EXCEPT ![LockOf[w]] = p] /\ kept' = kept
        /\ \A q \in Workers : q # p => pc'[q] = pc[q] /\ window'[q] = window[q]
    BY <1>1, <1>4 DEF CompactLock, Go, Locked, Compacting
  <2> QED BY <1>1, <2>1, TakingIsInUse
<1>5. ASSUME NEW p \in Workers, RotateLock(p), lock' # lock PROVE LocksAreInUse'
  <2>1. /\ pc[p] \notin Locked /\ pc'[p] \in Locked /\ window'[p] = window[p]
        /\ lock' = [lock EXCEPT ![LockOf[window[p]]] = p] /\ window[p] \in Windows
        /\ kept' = kept
        /\ \A q \in Workers : q # p => pc'[q] = pc[q] /\ window'[q] = window[q]
    BY <1>1, <1>5 DEF RotateLock, Go, Locked, Compacting
  <2> QED BY <1>1, <2>1, TakingIsInUse
<1>6. ASSUME NEW p \in Workers,
             \/ CompactReadState(p) \/ CompactClaim(p) \/ RotateReadState(p) \/ RotateSwap(p)
             \/ CompactRead(p) \/ WriteSummary(p) \/ SummariesDone(p) \/ CloseBatch(p) \/ Throw(p)
      PROVE  LocksAreInUse'
  <2>1. /\ lock' = lock /\ window' = window /\ kept' = kept
        /\ pc' = pc \/ \E where \in Locked : Go(p, where)
    BY <1>6 DEF CompactReadState, CompactClaim, RotateReadState, RotateSwap, AfterSwap, CompactRead,
                WriteSummary, SummariesDone, CloseBatch, Throw, AfterThrow, Locked, Compacting
  <2>2. \A q \in Workers : pc[q] \in Locked => pc'[q] \in Locked /\ window'[q] = window[q]
    BY <1>1, <2>1 DEF Go
  <2> QED BY <2>1, <2>2, SectionKeepsLocks
<1>7. ASSUME NEW p \in Workers,
             \/ RotateFind(p) \/ EnsureFind(p) \/ EnsureBucket(p) \/ EnsureInsert(p)
             \/ RotateLock(p) /\ lock' = lock
      PROVE  LocksAreInUse'
  <2>1. pc[p] \notin Locked
    BY <1>7 DEF RotateFind, EnsureFind, EnsureBucket, EnsureInsert, RotateLock, Locked, Compacting
  <2>2. /\ lock' = lock /\ kept' = kept
        /\ \A q \in Workers : q # p => pc'[q] = pc[q] /\ window'[q] = window[q]
    BY <1>1, <1>7 DEF RotateFind, EnsureFind, EnsureBucket, EnsureInsert, RotateLock, Go
  <2>3. \A q \in Workers : pc[q] \in Locked => pc'[q] \in Locked /\ window'[q] = window[q]
    BY <2>1, <2>2
  <2> QED BY <2>2, <2>3, SectionKeepsLocks
<1>8. CASE \/ AdvanceClock \/ UNCHANGED batchVars
           \/ \E e \in Events, w \in Windows : InsertRawEvent(e, w)
  <2>1. lock' = lock /\ kept' = kept /\ pc' = pc /\ window' = window
    BY <1>8 DEF AdvanceClock, InsertRawEvent, batchVars
  <2> QED BY <2>1, SectionKeepsLocks
<1>9. ASSUME NEW p \in Workers, Call(p) \/ Step(p) \/ Throw(p) \/ UnlockFails(p) \/ Crash(p)
      PROVE  LocksAreInUse'
  BY <1>2, <1>3, <1>4, <1>5, <1>6, <1>7, <1>9 DEF Call, Step
<1> QED BY <1>8, <1>9 DEF BatchNext

\* batchCompactor.ts, batchManager.ts: a lock is held only within a section whose
\* finally block sends the unlock, or by a session whose unlock query rejected and
\* that went back to the pool with it; no other failure leaves a lock behind. It is
\* the safety half of LocksAreReleased.
THEOREM LocksAreNotLeaked == BatchSpec => []LocksAreInUse
<1>1. BatchInit => LocksAreInUse
  BY CompactionAssumption DEF BatchInit, LocksAreInUse
<1> QED BY <1>1, LocksStep, BatchInductive, PTL DEF BatchSpec

-----------------------------------------------------------------------------
(***************************************************************************)
(* Tenant pool. The counters are what is held, and the call whose client   *)
(* is awaited had room when it was chosen. Releases only make room, and no *)
(* other call is granted meanwhile, so it has room when it is granted.     *)
(***************************************************************************)
CallPlaces == {"idle", "waiting", "connecting", "holding", "released", "rejected"}

\* What the calls c, the queue and the fair order say of each other.
Waits(c, q, o, l) ==
    /\ c \in [Requests -> {"idle", "waiting", "connecting", "holding", "released", "rejected"}]
    /\ q \in Seq(Requests) /\ o \in Seq(Tenants) /\ IsInjective(q) /\ IsInjective(o)
    /\ ToSet(q) = {r \in Requests : c[r] = "waiting"}
    /\ ToSet(o) = {Tenant[r] : r \in ToSet(q)}
    /\ l \in SUBSET ToSet(q)

Holders(c, t) == {r \in Requests : Tenant[r] = t /\ c[r] = "holding"}

AllHolders(c) == {r \in Requests : c[r] = "holding"}

\* The counters are what is held, within the caps.
Counts(c, a, g) ==
    /\ a \in [Tenants -> Nat] /\ g \in Nat
    /\ \A t \in Tenants : a[t] = Cardinality(Holders(c, t)) /\ a[t] <= TenantMax
    /\ g = Cardinality(AllHolders(c)) /\ g <= GlobalMax

\* There is room for r: it may be granted whatever is released meanwhile.
Room(r, a, g) ==
    /\ a[Tenant[r]] < TenantMax /\ g < GlobalMax
    /\ a[Tenant[r]] >= TenantMin => g + ReservedActive(a, Tenants) < GlobalMax

PoolInv ==
    /\ Waits(call, waitQueue, fairOrder, late)
    /\ Counts(call, tenantActive, globalActive)
    /\ next \in Requests \cup {NoRequest}
    /\ \A r \in Requests : r = next <=> call[r] = "connecting"
    /\ next # NoRequest => Room(next, tenantActive, globalActive)
    /\ hasClient \in BOOLEAN /\ timer \in BOOLEAN
    /\ free \in Nat /\ direct \in Nat /\ leaked \in Nat /\ removed \in BOOLEAN

LEMMA PoolArith ==
    /\ TenantMin \in Nat \ {0} /\ TenantMax \in Nat \ {0} /\ GlobalMax \in Nat \ {0} /\ TenantMin <= TenantMax
    /\ IsFiniteSet(Requests) /\ IsFiniteSet(Tenants) /\ NoRequest \notin Requests
    /\ \A r \in Requests : Tenant[r] \in Tenants
<1>1. IsFiniteSet(Requests)
  BY PoolAssumption
<1>2. IsFiniteSet({Tenant[r] : r \in Requests})
  <2> DEFINE f == [r \in Requests |-> Tenant[r]]
  <2>1. f \in Surjection(Requests, {Tenant[r] : r \in Requests})
    BY DEF Surjection
  <2> HIDE DEF f
  <2> QED BY <1>1, <2>1, FS_Surjection
<1> QED BY <1>1, <1>2, PoolAssumption DEF Tenants

-----------------------------------------------------------------------------
(* What is left of a queue. *)

\* The recursive function of Those, unfolded once.
ThoseStep(q, S, g) ==
    [i \in 0..Len(q) |-> IF i = 0 THEN <<>>
                         ELSE IF q[i] \in S THEN Append(g[i - 1], q[i]) ELSE g[i - 1]]

LEMMA ThoseUnfolds ==
    ASSUME NEW q, NEW S PROVE Those(q, S) = (CHOOSE g : g = ThoseStep(q, S, g))[Len(q)]
BY Zenon DEF Those, ThoseStep

\* What the first m of q leave: some of them, in S, each once if q has each once.
Leaves(X, q, S, m, s) ==
    /\ s \in Seq(X)
    /\ \A x : (\E k \in 1..Len(s) : s[k] = x) <=> (\E i \in 1..m : q[i] = x /\ x \in S)
    /\ IsInjective(q) => \A k, n \in 1..Len(s) : s[k] = s[n] => k = n

LEMMA LeavesOne ==
    ASSUME NEW X, NEW q \in Seq(X), NEW S, NEW m \in Nat, m + 1 <= Len(q), NEW s, Leaves(X, q, S, m, s)
    PROVE  Leaves(X, q, S, m + 1, IF q[m + 1] \in S THEN Append(s, q[m + 1]) ELSE s)
<1>1. /\ s \in Seq(X) /\ Len(s) \in Nat /\ q[m + 1] \in X /\ m + 1 \in DOMAIN q /\ DOMAIN q = 1..Len(q)
      /\ \A x : (\E k \in 1..Len(s) : s[k] = x) <=> (\E i \in 1..m : q[i] = x /\ x \in S)
      /\ IsInjective(q) => \A k, n \in 1..Len(s) : s[k] = s[n] => k = n
  BY DEF Leaves
<1>2. \A i \in 1..m + 1 : i \in 1..m \/ i = m + 1
  OBVIOUS
<1>3. 1..m \subseteq 1..m + 1 /\ m + 1 \in 1..m + 1 /\ 1..m \subseteq DOMAIN q /\ \A i \in 1..m : i # m + 1
  BY <1>1
<1>4. CASE q[m + 1] \notin S
  <2>1. \A x : (\E i \in 1..m + 1 : q[i] = x /\ x \in S) <=> (\E i \in 1..m : q[i] = x /\ x \in S)
    BY <1>2, <1>3, <1>4
  <2> QED BY <1>1, <1>4, <2>1 DEF Leaves
<1>5. CASE q[m + 1] \in S
  <2> DEFINE e == q[m + 1]
             w == Append(s, e)
  <2>1. /\ w \in Seq(X) /\ Len(w) = Len(s) + 1 /\ w[Len(s) + 1] = e
        /\ \A k \in 1..Len(s) : w[k] = s[k]
    BY <1>1
  <2>2. /\ \A k \in 1..Len(w) : k \in 1..Len(s) \/ k = Len(s) + 1
        /\ 1..Len(s) \subseteq 1..Len(w) /\ Len(s) + 1 \in 1..Len(w)
    BY <1>1, <2>1
  <2>3. \A x : (\E k \in 1..Len(w) : w[k] = x) <=> (x = e \/ \E k \in 1..Len(s) : s[k] = x)
    <3> HIDE DEF w
    <3> QED BY <2>1, <2>2
  <2>4. \A x : (\E i \in 1..m + 1 : q[i] = x /\ x \in S) <=> (x = e \/ \E i \in 1..m : q[i] = x /\ x \in S)
    BY <1>2, <1>3, <1>5
  <2>5. ASSUME IsInjective(q) PROVE \A k, n \in 1..Len(w) : w[k] = w[n] => k = n
    <3>1. \A k \in 1..Len(s) : s[k] # e
      <4> SUFFICES ASSUME NEW k \in 1..Len(s), s[k] = e PROVE FALSE
        OBVIOUS
      <4>1. PICK i \in 1..m : q[i] = e
        BY <1>1
      <4>2. i \in DOMAIN q /\ i # m + 1
        BY <1>3
      <4> QED BY <1>1, <2>5, <4>1, <4>2 DEF IsInjective
    <3>2. \A k, n \in 1..Len(s) : s[k] = s[n] => k = n
      BY <1>1, <2>5
    <3> HIDE DEF w, e
    <3> QED BY <2>1, <2>2, <3>1, <3>2
  <2>6. Leaves(X, q, S, m + 1, w)
    <3> HIDE DEF w, e
    <3> QED BY <1>1, <2>1, <2>3, <2>4, <2>5 DEF Leaves
  <2> QED BY <1>5, <2>6
<1> QED BY <1>4, <1>5

LEMMA ThoseIs ==
    ASSUME NEW X, NEW q \in Seq(X), NEW S
    PROVE  /\ Those(q, S) \in Seq(X) /\ ToSet(Those(q, S)) = ToSet(q) \cap S
           /\ IsInjective(q) => IsInjective(Those(q, S))
<1> DEFINE N == Len(q)
           Adds(i, s) == IF q[i] \in S THEN Append(s, q[i]) ELSE s
           Does(m, g) == /\ g = [i \in 0..m |-> g[i]] /\ g[0] = <<>>
                         /\ \A i \in 1..m : g[i] = Adds(i, g[i - 1])
           P == {m \in Nat : \E g : Does(m, g)}
<1>1. 0 \in P
  <2>1. Does(0, [i \in 0..0 |-> <<>>])
    OBVIOUS
  <2> QED BY <2>1
<1>2. ASSUME NEW m \in P PROVE m + 1 \in P
  <2>1. m \in Nat
    OBVIOUS
  <2>2. PICK g : Does(m, g)
    OBVIOUS
  <2> DEFINE h == [i \in 0..m + 1 |-> IF i <= m THEN g[i] ELSE Adds(m + 1, g[m])]
  <2> HIDE DEF Adds
  <2>3. h = [i \in 0..m + 1 |-> h[i]] /\ h[0] = <<>>
    BY <2>1, <2>2
  <2>4. \A i \in 1..m + 1 : h[i] = Adds(i, h[i - 1])
    <3> SUFFICES ASSUME NEW i \in 1..m + 1 PROVE h[i] = Adds(i, h[i - 1])
      OBVIOUS
    <3>1. h[i - 1] = g[i - 1]
      BY <2>1
    <3>2. CASE i <= m
      <4>1. i \in 1..m /\ h[i] = g[i]
        BY <2>1, <3>2
      <4> QED BY <2>2, <3>1, <4>1
    <3>3. CASE i = m + 1
      BY <2>1, <3>1, <3>3
    <3> QED BY <2>1, <3>2, <3>3
  <2> HIDE DEF h
  <2>5. Does(m + 1, h)
    BY <2>3, <2>4
  <2> HIDE DEF Does
  <2> QED BY <2>1, <2>5
<1>3. P = Nat
  <2>1. P \in SUBSET Nat
    OBVIOUS
  <2> HIDE DEF P
  <2> QED BY <1>1, <1>2, <2>1, NatSet
<1>4. N \in Nat
  OBVIOUS
<1>5. PICK g : Does(N, g)
  <2>1. N \in P
    BY <1>3, <1>4
  <2> QED BY <2>1
<1>6. g = ThoseStep(q, S, g)
  <2>1. \A i \in 0..N : g[i] = IF i = 0 THEN <<>> ELSE Adds(i, g[i - 1])
    <3> HIDE DEF Adds
    <3>1. \A i \in 0..N : i = 0 \/ i \in 1..N
      BY <1>4
    <3>2. g[0] = <<>> /\ \A i \in 1..N : g[i] = Adds(i, g[i - 1]) /\ i # 0
      BY <1>4, <1>5
    <3> QED BY <3>1, <3>2
  <2>2. g = [i \in 0..N |-> g[i]]
    BY <1>5
  <2> HIDE DEF Does
  <2> QED BY <2>1, <2>2 DEF ThoseStep
<1> DEFINE those == CHOOSE f : f = ThoseStep(q, S, f)
<1>7. those = ThoseStep(q, S, those) /\ Those(q, S) = those[N]
  <2>1. those = ThoseStep(q, S, those)
    BY <1>6
  <2> QED BY <2>1, ThoseUnfolds
<1> HIDE DEF those
<1>8. those[0] = <<>> /\ \A i \in 1..N : those[i] = Adds(i, those[i - 1])
  <2>1. \A i \in 0..N : ThoseStep(q, S, those)[i] = IF i = 0 THEN <<>> ELSE Adds(i, those[i - 1])
    BY DEF ThoseStep
  <2> HIDE DEF Adds
  <2>2. \A i \in 1..N : i \in 0..N /\ i # 0
    BY <1>4
  <2>3. 0 \in 0..N
    BY <1>4
  <2> QED BY <1>7, <2>1, <2>2, <2>3
<1> DEFINE Q == {m \in Nat : m <= N => Leaves(X, q, S, m, those[m])}
<1>9. 0 \in Q
  <2>1. Leaves(X, q, S, 0, <<>>)
    <3>1. <<>> \in Seq(X) /\ Len(<<>>) = 0 /\ 1..0 = {}
      OBVIOUS
    <3> QED BY <3>1 DEF Leaves
  <2> QED BY <1>8, <2>1
<1>10. ASSUME NEW m \in Q PROVE m + 1 \in Q
  <2>1. m \in Nat /\ m + 1 \in Nat
    OBVIOUS
  <2> SUFFICES ASSUME m + 1 <= N PROVE Leaves(X, q, S, m + 1, those[m + 1])
    BY <2>1
  <2>2. m + 1 \in 1..N /\ (m + 1) - 1 = m /\ m <= N
    BY <1>4, <2>1
  <2>3. Leaves(X, q, S, m, those[m])
    BY <2>2
  <2>4. those[m + 1] = Adds(m + 1, those[m])
    BY <1>8, <2>2
  <2> HIDE DEF Q
  <2> QED BY <2>1, <2>3, <2>4, LeavesOne
<1>11. Q = Nat
  <2>1. Q \in SUBSET Nat
    OBVIOUS
  <2> HIDE DEF Q
  <2> QED BY <1>9, <1>10, <2>1, NatSet
<1> DEFINE s == those[N]
<1>12. Leaves(X, q, S, N, s)
  <2>1. N \in Q /\ N <= N
    BY <1>4, <1>11
  <2> QED BY <2>1
<1> HIDE DEF s, Q, P
<1>13. s \in Seq(X) /\ DOMAIN s = 1..Len(s) /\ DOMAIN q = 1..N
  BY <1>12 DEF Leaves
<1>14. ToSet(s) = {s[k] : k \in 1..Len(s)} /\ ToSet(q) = {q[k] : k \in 1..N}
  BY <1>13 DEF ToSet
<1>15. ToSet(s) = ToSet(q) \cap S
  <2>1. \A x : (\E k \in 1..Len(s) : s[k] = x) <=> (\E i \in 1..N : q[i] = x /\ x \in S)
    BY <1>12 DEF Leaves
  <2>2. \A x : x \in ToSet(s) <=> (\E k \in 1..Len(s) : s[k] = x)
    BY <1>14
  <2>3. \A x : x \in ToSet(q) \cap S <=> (\E i \in 1..N : q[i] = x /\ x \in S)
    BY <1>14
  <2> QED BY <2>1, <2>2, <2>3
<1>16. IsInjective(q) => IsInjective(s)
  <2> SUFFICES ASSUME IsInjective(q) PROVE IsInjective(s)
    OBVIOUS
  <2>1. \A k, n \in 1..Len(s) : s[k] = s[n] => k = n
    BY <1>12 DEF Leaves
  <2> QED BY <1>13, <2>1 DEF IsInjective
<1> QED BY <1>7, <1>13, <1>15, <1>16 DEF s

\* The first of a queue in S is one of them.
LEMMA FirstIs ==
    ASSUME NEW X, NEW q \in Seq(X), NEW S, ToSet(q) \cap S # {}
    PROVE  First(q, S) \in ToSet(q) \cap S
<1> DEFINE At == {i \in 1..Len(q) : q[i] \in S}
<1>1. DOMAIN q = 1..Len(q) /\ ToSet(q) = {q[i] : i \in 1..Len(q)} /\ Len(q) \in Nat
  BY DEF ToSet
<1>2. At \in SUBSET Nat /\ At # {}
  BY <1>1
<1>3. PICK i \in At : \A j \in At : i <= j
  <2> HIDE DEF At
  <2> QED BY <1>2, LeastNat
<1>4. i \in DOMAIN q /\ q[i] \in S /\ \A j \in 1..(i - 1) : q[j] \notin S
  BY <1>1, <1>3
<1> DEFINE F(k) == k \in DOMAIN q /\ q[k] \in S /\ \A j \in 1..(k - 1) : q[j] \notin S
<1>5. F(i)
  BY <1>4
<1> DEFINE k == CHOOSE n \in DOMAIN q : q[n] \in S /\ \A j \in 1..(n - 1) : q[j] \notin S
<1>6. k \in DOMAIN q /\ q[k] \in S
  BY <1>4
<1>7. First(q, S) = q[k]
  BY DEF First
<1> HIDE DEF k
<1> QED BY <1>1, <1>6, <1>7

LEMMA AppendIs ==
    ASSUME NEW X, NEW q \in Seq(X), NEW e \in X
    PROVE  /\ Append(q, e) \in Seq(X) /\ ToSet(Append(q, e)) = ToSet(q) \cup {e}
           /\ IsInjective(q) /\ e \notin ToSet(q) => IsInjective(Append(q, e))
<1> DEFINE w == Append(q, e)
<1>1. /\ w \in Seq(X) /\ Len(w) = Len(q) + 1 /\ w[Len(q) + 1] = e /\ Len(q) \in Nat
      /\ \A k \in 1..Len(q) : w[k] = q[k]
  OBVIOUS
<1>2. DOMAIN q = 1..Len(q) /\ ToSet(q) = {q[k] : k \in 1..Len(q)}
  BY DEF ToSet
<1> HIDE DEF w
<1>3. DOMAIN w = 1..Len(w) /\ ToSet(w) = {w[k] : k \in 1..Len(w)}
  BY <1>1 DEF ToSet
<1>4. /\ \A k \in 1..Len(w) : k \in 1..Len(q) \/ k = Len(q) + 1
      /\ 1..Len(q) \subseteq 1..Len(w) /\ Len(q) + 1 \in 1..Len(w)
  BY <1>1
<1>5. ToSet(w) = ToSet(q) \cup {e}
  BY <1>1, <1>2, <1>3, <1>4
<1>6. ASSUME IsInjective(q), e \notin ToSet(q) PROVE IsInjective(w)
  <2>1. \A k \in 1..Len(q) : q[k] # e
    BY <1>2, <1>6
  <2>2. \A k, n \in 1..Len(q) : q[k] = q[n] => k = n
    BY <1>2, <1>6 DEF IsInjective
  <2>3. \A k, n \in 1..Len(w) : w[k] = w[n] => k = n
    BY <1>1, <1>4, <2>1, <2>2
  <2> QED BY <1>3, <2>3 DEF IsInjective
<1> QED BY <1>1, <1>5, <1>6 DEF w

-----------------------------------------------------------------------------
(* What tenants are due. *)

DueOf(a) == [t \in Tenants |-> Due(a, t)]

LEMMA DueTypes == ASSUME NEW a \in [Tenants -> Nat] PROVE DueOf(a) \in [Tenants -> Nat]
<1> SUFFICES ASSUME NEW t \in Tenants PROVE Due(a, t) \in Nat
  BY DEF DueOf
<1>1. a[t] \in Nat
  OBVIOUS
<1> QED BY <1>1, PoolArith DEF Due

LEMMA ReservedIsSum ==
    ASSUME NEW a, NEW R \in SUBSET Tenants PROVE ReservedActive(a, R) = SumOf(DueOf(a), R)
<1> DEFINE f == DueOf(a)
           Body(g) == [s \in SUBSET R |-> IF s = {} THEN 0 ELSE Due(a, OneOf(s)) + g[s \ {OneOf(s)}]]
<1>1. ReservedActive(a, R) = (CHOOSE g : g = Body(g))[R]
  BY Zenon DEF ReservedActive, MapThenSumSet, MapThenFoldSet, OneOf
<1>2. ASSUME NEW g PROVE Body(g) = SumStep(f, R, g)
  <2>1. ASSUME NEW s \in SUBSET R, s # {} PROVE f[OneOf(s)] = Due(a, OneOf(s))
    <3>1. OneOf(s) \in Tenants
      BY <2>1 DEF OneOf
    <3> QED BY <3>1 DEF DueOf
  <2> HIDE DEF f
  <2> QED BY <2>1 DEF SumStep
<1>3. (CHOOSE g : g = Body(g)) = Sums(f, R)
  <2> HIDE DEF f, Body
  <2> QED BY <1>2, Zenon DEF Sums
<1> QED BY <1>1, <1>3, SumIs

\* The part of one tenant in what all are due.
LEMMA ReservedParts ==
    ASSUME NEW a \in [Tenants -> Nat], NEW t \in Tenants
    PROVE  /\ ReservedActive(a, Tenants) \in Nat /\ ReservedActive(a, Tenants \ {t}) \in Nat
           /\ Due(a, t) \in Nat
           /\ ReservedActive(a, Tenants) = ReservedActive(a, Tenants \ {t}) + Due(a, t)
<1> DEFINE R == Tenants \ {t}
           f == DueOf(a)
<1>1. f \in [Tenants -> Nat] /\ f[t] = Due(a, t)
  BY DueTypes DEF DueOf
<1>2. Due(a, t) \in Nat /\ f[t] \in Nat
  BY <1>1
<1>3. R \in SUBSET Tenants /\ R \cup {t} = Tenants /\ t \in Tenants \ R
  OBVIOUS
<1> HIDE DEF R, f
<1>4. SumOf(f, Tenants) = SumOf(f, R) + f[t]
  BY <1>1, <1>3, PoolArith, SumAdds
<1>5. ReservedActive(a, Tenants) = SumOf(f, Tenants) /\ ReservedActive(a, R) = SumOf(f, R)
  BY <1>3, ReservedIsSum DEF f
<1>6. SumOf(f, Tenants) \in Nat
  BY <1>1, PoolArith, SumIsNat
<1>7. SumOf(f, R) \in Nat
  <2>1. IsFiniteSet(R) /\ \A x \in R : f[x] \in Nat
    BY <1>1, <1>3, PoolArith, FS_Subset
  <2> DEFINE h == [x \in R |-> f[x]]
  <2>2. SumOf(f, R) = Sums(f, Tenants)[R] /\ Sums(f, Tenants)[R] \in Nat
    BY <1>1, <1>3, PoolArith, SumOfPart, SumsAreNat
  <2> QED BY <2>2
<1> QED BY <1>1, <1>2, <1>4, <1>5, <1>6, <1>7 DEF R

\* One tenant's counter changes: so does what all are due, by its part.
LEMMA ReservedChanges ==
    ASSUME NEW a \in [Tenants -> Nat], NEW t \in Tenants, NEW n \in Nat
    PROVE  LET b == [a EXCEPT ![t] = n]
           IN  ReservedActive(b, Tenants) = ReservedActive(a, Tenants) - Due(a, t) + Due(b, t)
<1> DEFINE b == [a EXCEPT ![t] = n]
<1>1. b \in [Tenants -> Nat] /\ \A x \in Tenants \ {t} : b[x] = a[x]
  OBVIOUS
<1> HIDE DEF b
<1>2. \A x \in Tenants \ {t} : DueOf(b)[x] = DueOf(a)[x]
  BY <1>1 DEF DueOf, Due
<1>3. DueOf(a) \in [Tenants -> Nat] /\ DueOf(b) \in [Tenants -> Nat]
  BY <1>1, DueTypes
<1>4. SumOf(DueOf(b), Tenants) = SumOf(DueOf(a), Tenants) - DueOf(a)[t] + DueOf(b)[t]
  BY <1>2, <1>3, PoolArith, SumChanges
<1>5. DueOf(a)[t] = Due(a, t) /\ DueOf(b)[t] = Due(b, t)
  BY DEF DueOf
<1>6. ReservedActive(a, Tenants) = SumOf(DueOf(a), Tenants) /\ ReservedActive(b, Tenants) = SumOf(DueOf(b), Tenants)
  BY ReservedIsSum
<1>7. ReservedActive(b, Tenants) = ReservedActive(a, Tenants) - Due(a, t) + Due(b, t)
  BY <1>4, <1>5, <1>6
<1> QED BY <1>7 DEF b

\* A client is released: what is held and due together does not grow.
LEMMA ReleaseCommitsLess ==
    ASSUME NEW a \in [Tenants -> Nat], NEW t \in Tenants, a[t] > 0
    PROVE  LET b == [a EXCEPT ![t] = @ - 1]
           IN  /\ b \in [Tenants -> Nat] /\ b[t] = a[t] - 1 /\ \A x \in Tenants : b[x] <= a[x]
               /\ ReservedActive(b, Tenants) \in Nat /\ ReservedActive(a, Tenants) \in Nat
               /\ ReservedActive(b, Tenants) <= ReservedActive(a, Tenants) + 1
<1> DEFINE n == a[t] - 1
           b == [a EXCEPT ![t] = n]
<1>1. n \in Nat /\ a[t] \in Nat /\ \A x \in Tenants : a[x] \in Nat
  OBVIOUS
<1>2. b \in [Tenants -> Nat] /\ b[t] = n /\ \A x \in Tenants : b[x] <= a[x]
  BY <1>1
<1>3. ReservedActive(b, Tenants) = ReservedActive(a, Tenants) - Due(a, t) + Due(b, t)
  <2> HIDE DEF n
  <2> QED BY <1>1, ReservedChanges
<1>4. ReservedActive(b, Tenants) \in Nat /\ ReservedActive(a, Tenants) \in Nat
  <2> HIDE DEF b
  <2> QED BY <1>2, ReservedParts
<1>5. Due(b, t) <= Due(a, t) + 1 /\ Due(a, t) \in Nat /\ Due(b, t) \in Nat
  <2> HIDE DEF b
  <2> QED BY <1>1, <1>2, PoolArith DEF Due
<1>6. ReservedActive(b, Tenants) <= ReservedActive(a, Tenants) + 1
  <2> HIDE DEF b
  <2> QED BY <1>3, <1>4, <1>5
<1> QED BY <1>2, <1>4, <1>6

\* A client is granted: it is due, unless its tenant has none or its minimum.
LEMMA GrantCommits ==
    ASSUME NEW a \in [Tenants -> Nat], NEW t \in Tenants
    PROVE  LET b == [a EXCEPT ![t] = @ + 1]
           IN  /\ b \in [Tenants -> Nat] /\ b[t] = a[t] + 1 /\ \A x \in Tenants \ {t} : b[x] = a[x]
               /\ ReservedActive(b, Tenants) \in Nat /\ ReservedActive(a, Tenants) \in Nat
               /\ a[t] > 0 /\ a[t] < TenantMin => ReservedActive(b, Tenants) + 1 = ReservedActive(a, Tenants)
               /\ a[t] >= TenantMin => ReservedActive(b, Tenants) = ReservedActive(a, Tenants)
<1> DEFINE n == a[t] + 1
           b == [a EXCEPT ![t] = n]
<1>1. n \in Nat /\ a[t] \in Nat
  OBVIOUS
<1>2. b \in [Tenants -> Nat] /\ b[t] = n /\ \A x \in Tenants \ {t} : b[x] = a[x]
  BY <1>1
<1>3. ReservedActive(b, Tenants) = ReservedActive(a, Tenants) - Due(a, t) + Due(b, t)
  <2> HIDE DEF n
  <2> QED BY <1>1, ReservedChanges
<1>4. ReservedActive(b, Tenants) \in Nat /\ ReservedActive(a, Tenants) \in Nat
  <2> HIDE DEF b
  <2> QED BY <1>2, ReservedParts
<1>5. /\ a[t] > 0 /\ a[t] < TenantMin => Due(b, t) + 1 = Due(a, t)
      /\ a[t] >= TenantMin => Due(b, t) = Due(a, t)
      /\ Due(a, t) \in Nat /\ Due(b, t) \in Nat
  <2> HIDE DEF b
  <2> QED BY <1>1, <1>2, PoolArith DEF Due
<1>6. /\ a[t] > 0 /\ a[t] < TenantMin => ReservedActive(b, Tenants) + 1 = ReservedActive(a, Tenants)
      /\ a[t] >= TenantMin => ReservedActive(b, Tenants) = ReservedActive(a, Tenants)
  <2> HIDE DEF b
  <2> QED BY <1>3, <1>4, <1>5
<1> QED BY <1>2, <1>4, <1>6

-----------------------------------------------------------------------------
(* What is held. *)

LEMMA HoldersFinite ==
    ASSUME NEW c
    PROVE  IsFiniteSet(AllHolders(c)) /\ \A t : IsFiniteSet(Holders(c, t)) /\ Holders(c, t) \subseteq AllHolders(c)
BY PoolArith, FS_Subset DEF AllHolders, Holders

\* Calls that hold what was held before.
LEMMA CountsStay ==
    ASSUME NEW c, NEW d, NEW a, NEW g, Counts(c, a, g), \A r \in Requests : d[r] = "holding" <=> c[r] = "holding"
    PROVE  Counts(d, a, g)
<1>1. AllHolders(d) = AllHolders(c) /\ \A t \in Tenants : Holders(d, t) = Holders(c, t)
  BY DEF AllHolders, Holders
<1> QED BY <1>1 DEF Counts

\* A call is granted its client.
LEMMA CountsGrow ==
    ASSUME NEW c \in [Requests -> CallPlaces], NEW a, NEW g, Counts(c, a, g), NEW r \in Requests, c[r] # "holding",
           a[Tenant[r]] < TenantMax, g < GlobalMax
    PROVE  Counts([c EXCEPT ![r] = "holding"], [a EXCEPT ![Tenant[r]] = @ + 1], g + 1)
<1> DEFINE d == [c EXCEPT ![r] = "holding"]
           t == Tenant[r]
           b == [a EXCEPT ![t] = @ + 1]
<1>1. d[r] = "holding" /\ \A x \in Requests \ {r} : d[x] = c[x]
  OBVIOUS
<1>2. t \in Tenants /\ a \in [Tenants -> Nat] /\ g \in Nat
  BY PoolArith DEF Counts
<1>3. b \in [Tenants -> Nat] /\ b[t] = a[t] + 1 /\ \A x \in Tenants \ {t} : b[x] = a[x]
  BY <1>2
<1> HIDE DEF d, b
<1>4. /\ AllHolders(d) = AllHolders(c) \cup {r} /\ r \notin AllHolders(c)
      /\ Holders(d, t) = Holders(c, t) \cup {r} /\ r \notin Holders(c, t)
      /\ \A x \in Tenants \ {t} : Holders(d, x) = Holders(c, x)
  BY <1>1 DEF AllHolders, Holders
<1>5. Cardinality(AllHolders(d)) = Cardinality(AllHolders(c)) + 1
  BY <1>4, HoldersFinite, FS_AddElement
<1>6. Cardinality(Holders(d, t)) = Cardinality(Holders(c, t)) + 1
  BY <1>4, HoldersFinite, FS_AddElement
<1>7. /\ \A x \in Tenants : a[x] = Cardinality(Holders(c, x)) /\ a[x] <= TenantMax /\ a[x] \in Nat
      /\ g = Cardinality(AllHolders(c)) /\ g <= GlobalMax
  BY <1>2 DEF Counts
<1>8. \A x \in Tenants : b[x] = Cardinality(Holders(d, x)) /\ b[x] <= TenantMax
  <2> SUFFICES ASSUME NEW x \in Tenants PROVE b[x] = Cardinality(Holders(d, x)) /\ b[x] <= TenantMax
    OBVIOUS
  <2>1. CASE x = t
    <3> HIDE DEF t
    <3> QED BY <1>2, <1>3, <1>6, <1>7, <2>1, PoolArith DEF t
  <2>2. CASE x # t
    BY <1>3, <1>4, <1>7, <2>2
  <2> QED BY <2>1, <2>2
<1>9. g + 1 = Cardinality(AllHolders(d)) /\ g + 1 <= GlobalMax /\ g + 1 \in Nat
  BY <1>2, <1>5, <1>7, PoolArith
<1>10. Counts(d, b, g + 1)
  BY <1>3, <1>8, <1>9 DEF Counts
<1> QED BY <1>10 DEF d, b

\* A call gives its client back.
LEMMA CountsShrink ==
    ASSUME NEW c \in [Requests -> CallPlaces], NEW a, NEW g, Counts(c, a, g), NEW r \in Requests, c[r] = "holding"
    PROVE  /\ a[Tenant[r]] > 0 /\ g > 0
           /\ Counts([c EXCEPT ![r] = "released"], [a EXCEPT ![Tenant[r]] = @ - 1], g - 1)
<1> DEFINE d == [c EXCEPT ![r] = "released"]
           t == Tenant[r]
           b == [a EXCEPT ![t] = @ - 1]
<1>1. d[r] # "holding" /\ \A x \in Requests \ {r} : d[x] = c[x]
  OBVIOUS
<1>2. t \in Tenants /\ a \in [Tenants -> Nat] /\ g \in Nat
  BY PoolArith DEF Counts
<1>7. /\ \A x \in Tenants : a[x] = Cardinality(Holders(c, x)) /\ a[x] <= TenantMax /\ a[x] \in Nat
      /\ g = Cardinality(AllHolders(c)) /\ g <= GlobalMax
  BY <1>2 DEF Counts
<1>a. r \in Holders(c, t) /\ r \in AllHolders(c)
  BY DEF AllHolders, Holders
<1> HIDE DEF d
<1>4. /\ AllHolders(d) = AllHolders(c) \ {r} /\ Holders(d, t) = Holders(c, t) \ {r}
      /\ \A x \in Tenants \ {t} : Holders(d, x) = Holders(c, x)
  BY <1>1 DEF AllHolders, Holders
<1>5. /\ Cardinality(AllHolders(d)) = Cardinality(AllHolders(c)) - 1
      /\ Cardinality(AllHolders(d)) \in Nat
  BY <1>4, <1>a, HoldersFinite, FS_RemoveElement, FS_CardinalityType
<1>6. /\ Cardinality(Holders(d, t)) = Cardinality(Holders(c, t)) - 1
      /\ Cardinality(Holders(d, t)) \in Nat
  BY <1>4, <1>a, HoldersFinite, FS_RemoveElement, FS_CardinalityType
<1>b. a[t] > 0 /\ g > 0
  <2> HIDE DEF t
  <2> QED BY <1>2, <1>5, <1>6, <1>7
<1>3. b \in [Tenants -> Nat] /\ b[t] = a[t] - 1 /\ \A x \in Tenants \ {t} : b[x] = a[x]
  <2> HIDE DEF t
  <2>1. a[t] \in Nat /\ a[t] - 1 \in Nat
    BY <1>2, <1>b
  <2> QED BY <1>2, <2>1
<1> HIDE DEF b
<1>8. \A x \in Tenants : b[x] = Cardinality(Holders(d, x)) /\ b[x] <= TenantMax
  <2> SUFFICES ASSUME NEW x \in Tenants PROVE b[x] = Cardinality(Holders(d, x)) /\ b[x] <= TenantMax
    OBVIOUS
  <2>1. CASE x = t
    <3> HIDE DEF t
    <3> QED BY <1>2, <1>3, <1>6, <1>7, <2>1, PoolArith
  <2>2. CASE x # t
    BY <1>3, <1>4, <1>7, <2>2
  <2> QED BY <2>1, <2>2
<1>9. g - 1 = Cardinality(AllHolders(d)) /\ g - 1 <= GlobalMax /\ g - 1 \in Nat
  BY <1>2, <1>b, <1>5, <1>7, PoolArith
<1>10. Counts(d, b, g - 1)
  BY <1>3, <1>8, <1>9 DEF Counts
<1> QED BY <1>10, <1>b DEF d, b, t

-----------------------------------------------------------------------------
(* The loop. *)

\* pickNextRequest chooses a call that waits in time, and for which there is room.
LEMMA PickIs ==
    ASSUME NEW q \in Seq(Requests), NEW o \in Seq(Tenants), ToSet(o) = {Tenant[r] : r \in ToSet(q)},
           NEW a \in [Tenants -> Nat], NEW g \in Nat, Pick(a, g, q, o) # NoRequest
    PROVE  /\ Pick(a, g, q, o) \in ToSet(q) \ late /\ Pick(a, g, q, o) \in Requests
           /\ Room(Pick(a, g, q, o), a, g)
<1> DEFINE inTime == ToSet(q) \ late
           waiting == {Tenant[r] : r \in inTime}
           under == {t \in waiting : a[t] < TenantMin}
           able == {t \in IF under # {} THEN under ELSE waiting : CanGrant(t, a, g, q)}
           p == First(q, {r \in inTime : Tenant[r] = First(o, able)})
<1>1. able # {} /\ Pick(a, g, q, o) = p
  BY DEF Pick
<1>2. ToSet(q) \subseteq Requests
  BY DEF ToSet
<1>3. able \subseteq waiting /\ \A t \in able : CanGrant(t, a, g, q)
  OBVIOUS
<1> DEFINE t == First(o, able)
<1>4. t \in able /\ t \in ToSet(o)
  <2> HIDE DEF able
  <2>1. waiting \subseteq ToSet(o)
    OBVIOUS
  <2>2. ToSet(o) \cap able # {}
    BY <1>1, <1>3, <2>1
  <2> QED BY <2>2, FirstIs
<1>5. p \in inTime /\ Tenant[p] = t
  <2> HIDE DEF t, able
  <2> DEFINE S == {r \in inTime : Tenant[r] = t}
  <2>1. ToSet(q) \cap S # {}
    BY <1>3, <1>4
  <2>2. p \in ToSet(q) \cap S
    <3> HIDE DEF S
    <3>1. First(q, S) \in ToSet(q) \cap S
      BY <2>1, FirstIs
    <3> QED BY <3>1 DEF S, t
  <2> QED BY <2>2
<1>6. CanGrant(t, a, g, q) /\ t \in Tenants
  <2> HIDE DEF able, t
  <2> QED BY <1>2, <1>3, <1>4, PoolArith
<1> HIDE DEF t, able, p
<1>7. ASSUME a[t] >= TenantMin PROVE g + ReservedActive(a, Tenants) < GlobalMax
  <2>1. /\ ReservedActive(a, Tenants) \in Nat /\ ReservedActive(a, Tenants \ {t}) \in Nat
        /\ ReservedActive(a, Tenants) = ReservedActive(a, Tenants \ {t}) + Due(a, t)
    BY <1>6, ReservedParts
  <2>2. Due(a, t) = 0 /\ a[t] \in Nat
    BY <1>6, <1>7, PoolArith DEF Due
  <2>3. ReservedWaiting(a, q, Tenants \ {t}) \in Nat
    <3> DEFINE due == {r \in ToSet(q) \ late : Tenant[r] \in Tenants \ {t} /\ a[Tenant[r]] < TenantMin}
               d == Tenant[First(q, due)]
    <3>1. ReservedWaiting(a, q, Tenants \ {t}) = IF due = {} THEN 0 ELSE TenantMin - a[d]
      BY DEF ReservedWaiting
    <3>2. CASE due # {}
      <4>1. First(q, due) \in due
        <5>1. ToSet(q) \cap due # {}
          BY <3>2
        <5> HIDE DEF due
        <5> QED BY <5>1, FirstIs
      <4>2. d \in Tenants /\ a[d] < TenantMin
        BY <4>1
      <4> HIDE DEF d, due
      <4>3. TenantMin - a[d] \in Nat
        BY <4>2, PoolArith
      <4> QED BY <3>1, <3>2, <4>3
    <3> QED BY <3>1, <3>2
  <2>4. g + (ReservedActive(a, Tenants \ {t}) + ReservedWaiting(a, q, Tenants \ {t})) < GlobalMax
    BY <1>6, <1>7, <2>2, PoolArith DEF CanGrant, LeavesReserve, ReservedForGuarantees
  <2> QED BY <2>1, <2>2, <2>3, <2>4, PoolArith
<1>8. Room(p, a, g)
  BY <1>5, <1>6, <1>7 DEF Room, CanGrant, BelowCaps
<1> QED BY <1>1, <1>2, <1>5, <1>8

\* One turn of the loop, from calls c of which none is being connected.
LEMMA LoopKeeps ==
    ASSUME NEW c, NEW q, NEW o, NEW a, NEW g, NEW armed \in BOOLEAN,
           Waits(c, q, o, late), Counts(c, a, g), \A r \in Requests : c[r] # "connecting",
           Loop(c, q, o, a, g, armed), tenantActive' = a, globalActive' = g,
           free' \in Nat, direct' \in Nat, leaked' \in Nat /\ removed' \in BOOLEAN
    PROVE  PoolInv'
<1>1. /\ c \in [Requests -> {"idle", "waiting", "connecting", "holding", "released", "rejected"}]
      /\ q \in Seq(Requests) /\ o \in Seq(Tenants) /\ IsInjective(q) /\ IsInjective(o)
      /\ ToSet(q) = {r \in Requests : c[r] = "waiting"} /\ ToSet(o) = {Tenant[r] : r \in ToSet(q)}
      /\ late \in SUBSET ToSet(q) /\ a \in [Tenants -> Nat] /\ g \in Nat
  BY DEF Waits, Counts
<1> DEFINE p == Pick(a, g, q, o)
           rest == ToSet(q) \ (late \cup {p})
<1>2. /\ next' = p /\ hasClient' = FALSE /\ waitQueue' = Those(q, rest) /\ fairOrder' = Compact(o, rest)
      /\ late' = {}
      /\ call' = [r \in Requests |-> IF r = p THEN "connecting" ELSE IF r \in late THEN "rejected" ELSE c[r]]
      /\ timer' = (armed \/ (p = NoRequest /\ Rearms(rest)))
  BY DEF Loop
<1>3. p # NoRequest => p \in ToSet(q) \ late /\ p \in Requests /\ Room(p, a, g)
  BY <1>1, PickIs
<1> HIDE DEF p
<1>4. /\ waitQueue' \in Seq(Requests) /\ ToSet(waitQueue') = rest /\ IsInjective(waitQueue')
  <2>1. ToSet(q) \cap rest = rest
    OBVIOUS
  <2> HIDE DEF rest
  <2> QED BY <1>1, <1>2, <2>1, ThoseIs
<1>5. /\ fairOrder' \in Seq(Tenants) /\ ToSet(fairOrder') = {Tenant[r] : r \in rest} /\ IsInjective(fairOrder')
  <2> DEFINE S == {Tenant[r] : r \in rest}
  <2>1. ToSet(o) \cap S = S /\ fairOrder' = Those(o, S)
    BY <1>1, <1>2 DEF Compact
  <2> HIDE DEF S
  <2>2. ToSet(fairOrder') = S /\ fairOrder' \in Seq(Tenants) /\ IsInjective(fairOrder')
    BY <1>1, <2>1, ThoseIs
  <2> QED BY <2>2 DEF S
<1>6. \A r \in Requests :
         /\ call'[r] = IF r = p THEN "connecting" ELSE IF r \in late THEN "rejected" ELSE c[r]
         /\ call'[r] \in {"idle", "waiting", "connecting", "holding", "released", "rejected"}
         /\ call'[r] = "waiting" <=> r \in rest
         /\ call'[r] = "connecting" <=> r = p
         /\ call'[r] = "holding" <=> c[r] = "holding"
  <2> SUFFICES ASSUME NEW r \in Requests
      PROVE  /\ call'[r] = IF r = p THEN "connecting" ELSE IF r \in late THEN "rejected" ELSE c[r]
             /\ call'[r] \in {"idle", "waiting", "connecting", "holding", "released", "rejected"}
             /\ call'[r] = "waiting" <=> r \in rest
             /\ call'[r] = "connecting" <=> r = p
             /\ call'[r] = "holding" <=> c[r] = "holding"
    OBVIOUS
  <2>1. call'[r] = IF r = p THEN "connecting" ELSE IF r \in late THEN "rejected" ELSE c[r]
    BY <1>2
  <2>2. /\ r = p => c[r] = "waiting"
        /\ r \in late => c[r] = "waiting"
        /\ r \in ToSet(q) <=> c[r] = "waiting"
        /\ c[r] # "connecting"
        /\ c[r] \in {"idle", "waiting", "connecting", "holding", "released", "rejected"}
    BY <1>1, <1>3, PoolArith
  <2> QED BY <2>1, <2>2
<1>7. call' = [r \in Requests |-> call'[r]]
  BY <1>2
<1>8. Waits(call, waitQueue, fairOrder, late)'
  <2>1. call' \in [Requests -> {"idle", "waiting", "connecting", "holding", "released", "rejected"}]
    BY <1>6, <1>7
  <2>2. ToSet(waitQueue') = {r \in Requests : call'[r] = "waiting"}
    BY <1>1, <1>4, <1>6
  <2>3. late' \in SUBSET ToSet(waitQueue')
    BY <1>2
  <2> QED BY <1>4, <1>5, <2>1, <2>2, <2>3 DEF Waits
<1>9. Counts(call, tenantActive, globalActive)'
  <2>1. Counts(call', a, g)
    BY <1>6, CountsStay
  <2> QED BY <2>1
<1>10. /\ next' \in Requests \cup {NoRequest}
       /\ \A r \in Requests : r = next' <=> call'[r] = "connecting"
       /\ next' # NoRequest => Room(next, tenantActive, globalActive)'
  <2>1. next' # NoRequest => Room(next', a, g)
    BY <1>2, <1>3
  <2> QED BY <1>2, <1>3, <1>6, <2>1
<1>11. hasClient' \in BOOLEAN /\ timer' \in BOOLEAN
  BY <1>2
<1> QED BY <1>8, <1>9, <1>10, <1>11 DEF PoolInv

LEMMA NothingQueued ==
    <<>> \in Seq(Requests) /\ <<>> \in Seq(Tenants) /\ ToSet(<<>>) = {} /\ IsInjective(<<>>)
BY DEF ToSet, IsInjective

\* The pool is gone and every waiting call is rejected.
LEMMA RejectKeeps ==
    ASSUME PoolInv, NEW c, NEW q, NEW o, NEW a, NEW g, NEW armed \in BOOLEAN,
           Waits(c, q, o, late), Counts(c, a, g), \A r \in Requests : c[r] # "connecting",
           next = NoRequest, RejectAll(c, armed), tenantActive' = a, globalActive' = g,
           free' \in Nat, direct' \in Nat, leaked' \in Nat /\ removed' \in BOOLEAN
    PROVE  PoolInv'
<1>1. c \in [Requests -> {"idle", "waiting", "connecting", "holding", "released", "rejected"}]
  BY DEF Waits
<1>2. /\ call' = [r \in Requests |-> IF c[r] = "waiting" THEN "rejected" ELSE c[r]]
      /\ waitQueue' = <<>> /\ fairOrder' = <<>> /\ late' = {} /\ timer' = armed
      /\ next' = NoRequest /\ hasClient' = hasClient
  BY DEF RejectAll
<1>3. /\ call' \in [Requests -> {"idle", "waiting", "connecting", "holding", "released", "rejected"}]
      /\ \A r \in Requests : call'[r] # "waiting" /\ call'[r] # "connecting"
      /\ \A r \in Requests : call'[r] = "holding" <=> c[r] = "holding"
  BY <1>1, <1>2
<1>4. Waits(call, waitQueue, fairOrder, late)'
  <2>1. {r \in Requests : call'[r] = "waiting"} = {}
    BY <1>3
  <2>2. \A S : S = {} => {Tenant[r] : r \in S} = {}
    OBVIOUS
  <2>3. ToSet(waitQueue') = {} /\ {Tenant[r] : r \in ToSet(waitQueue')} = {}
    BY <1>2, <2>2, NothingQueued
  <2> QED BY <1>2, <1>3, <2>1, <2>3, NothingQueued DEF Waits
<1>5. Counts(call, tenantActive, globalActive)'
  <2>1. Counts(call', a, g)
    BY <1>3, CountsStay
  <2> QED BY <2>1
<1>6. \A r \in Requests : r = next' <=> call'[r] = "connecting"
  BY <1>2, <1>3, PoolArith
<1> QED BY <1>2, <1>4, <1>5, <1>6 DEF PoolInv

\* processQueue, which returns when another runs; counters only went down.
LEMMA RunKeeps ==
    ASSUME PoolInv, NEW c, NEW q, NEW o, NEW a, NEW g, NEW armed \in BOOLEAN,
           Waits(c, q, o, late), Counts(c, a, g), \A r \in Requests : r = next <=> c[r] = "connecting",
           next # NoRequest => Room(next, a, g),
           LoopUnlessRunning(c, q, o, a, g, armed), tenantActive' = a, globalActive' = g,
           free' \in Nat, direct' \in Nat, leaked' \in Nat /\ removed' \in BOOLEAN
    PROVE  PoolInv'
<1>1. CASE next = NoRequest /\ ~removed
  <2>1. Loop(c, q, o, a, g, armed) /\ \A r \in Requests : c[r] # "connecting"
    BY <1>1, PoolArith DEF LoopUnlessRunning
  <2> QED BY <2>1, LoopKeeps
<1>2. CASE next = NoRequest /\ removed
  <2>1. RejectAll(c, armed) /\ \A r \in Requests : c[r] # "connecting"
    BY <1>2, PoolArith DEF LoopUnlessRunning
  <2> QED BY <1>2, <2>1, RejectKeeps
<1>3. CASE next # NoRequest
  <2>1. /\ call' = c /\ waitQueue' = q /\ fairOrder' = o /\ timer' = armed
        /\ next' = next /\ hasClient' = hasClient /\ late' = late
    BY <1>3 DEF LoopUnlessRunning
  <2>2. Waits(call, waitQueue, fairOrder, late)' /\ Counts(call, tenantActive, globalActive)'
    BY <2>1
  <2>3. next' # NoRequest => Room(next, tenantActive, globalActive)'
    BY <2>1
  <2> QED BY <2>1, <2>2, <2>3 DEF PoolInv
<1> QED BY <1>1, <1>2, <1>3

-----------------------------------------------------------------------------
(* The operations. *)

LEMMA PoolInitInv == PoolInit => PoolInv
<1> SUFFICES ASSUME PoolInit PROVE PoolInv
  OBVIOUS
<1>1. <<>> \in Seq(Requests) /\ <<>> \in Seq(Tenants) /\ ToSet(<<>>) = {} /\ IsInjective(<<>>)
  BY NothingQueued
<1>2. \A r \in Requests : call[r] = "idle"
  BY DEF PoolInit
<1>3. Waits(call, waitQueue, fairOrder, late)
  <2>1. {r \in Requests : call[r] = "waiting"} = {} /\ {Tenant[r] : r \in ToSet(<<>>)} = {}
    BY <1>1, <1>2
  <2> QED BY <1>1, <1>2, <2>1 DEF PoolInit, Waits
<1>4. Counts(call, tenantActive, globalActive)
  <2>1. AllHolders(call) = {} /\ \A t \in Tenants : Holders(call, t) = {}
    BY <1>2 DEF AllHolders, Holders
  <2>2. Cardinality({}) = 0
    BY FS_EmptySet
  <2>3. tenantActive \in [Tenants -> Nat] /\ (\A t \in Tenants : tenantActive[t] = 0) /\ globalActive = 0
    BY DEF PoolInit
  <2>4. TenantMax \in Nat /\ GlobalMax \in Nat
    BY PoolArith
  <2>5. \A t \in Tenants : tenantActive[t] = Cardinality(Holders(call, t)) /\ tenantActive[t] <= TenantMax
    BY <2>1, <2>2, <2>3, <2>4
  <2>6. globalActive = Cardinality(AllHolders(call)) /\ globalActive <= GlobalMax /\ globalActive \in Nat
    BY <2>1, <2>2, <2>3, <2>4
  <2> QED BY <2>3, <2>5, <2>6 DEF Counts
<1> QED BY <1>2, <1>3, <1>4, PoolArith DEF PoolInit, PoolInv

LEMMA ConnectKeeps == ASSUME PoolInv, NEW r \in Requests, Connect(r) PROVE PoolInv'
<1> DEFINE c == [call EXCEPT ![r] = "waiting"]
           q == Append(waitQueue, r)
           o == IF Contains(fairOrder, Tenant[r]) THEN fairOrder ELSE Append(fairOrder, Tenant[r])
<1>1. /\ call[r] = "idle" /\ LoopUnlessRunning(c, q, o, tenantActive, globalActive, timer)
      /\ UNCHANGED <<tenantActive, globalActive, free, direct, leaked, removed>>
  BY DEF Connect
<1>2. /\ call \in [Requests -> {"idle", "waiting", "connecting", "holding", "released", "rejected"}]
      /\ waitQueue \in Seq(Requests) /\ fairOrder \in Seq(Tenants) /\ IsInjective(waitQueue) /\ IsInjective(fairOrder)
      /\ ToSet(waitQueue) = {x \in Requests : call[x] = "waiting"}
      /\ ToSet(fairOrder) = {Tenant[x] : x \in ToSet(waitQueue)}
      /\ late \in SUBSET ToSet(waitQueue) /\ Tenant[r] \in Tenants
      /\ Counts(call, tenantActive, globalActive) /\ timer \in BOOLEAN
      /\ free \in Nat /\ direct \in Nat /\ leaked \in Nat /\ removed \in BOOLEAN
  BY PoolArith DEF PoolInv, Waits
<1>3. \A x \in Requests : c[x] = IF x = r THEN "waiting" ELSE call[x]
  BY <1>2
<1>4. c \in [Requests -> {"idle", "waiting", "connecting", "holding", "released", "rejected"}]
  BY <1>2
<1>5. q \in Seq(Requests) /\ ToSet(q) = ToSet(waitQueue) \cup {r} /\ IsInjective(q)
  <2>1. r \notin ToSet(waitQueue)
    BY <1>1, <1>2
  <2> QED BY <1>2, <2>1, AppendIs
<1>6. o \in Seq(Tenants) /\ ToSet(o) = ToSet(fairOrder) \cup {Tenant[r]} /\ IsInjective(o)
  <2>1. Contains(fairOrder, Tenant[r]) <=> Tenant[r] \in ToSet(fairOrder)
    BY DEF Contains, ToSet
  <2>2. CASE Tenant[r] \in ToSet(fairOrder)
    BY <1>2, <2>1, <2>2
  <2>3. CASE Tenant[r] \notin ToSet(fairOrder)
    <3>1. o = Append(fairOrder, Tenant[r])
      BY <2>1, <2>3
    <3> QED BY <1>2, <2>3, <3>1, AppendIs
  <2> QED BY <2>2, <2>3
<1> HIDE DEF c, q, o
<1>7. Waits(c, q, o, late)
  <2>1. ToSet(q) = {x \in Requests : c[x] = "waiting"}
    BY <1>2, <1>3, <1>5
  <2>2. ToSet(o) = {Tenant[x] : x \in ToSet(q)}
    BY <1>2, <1>5, <1>6
  <2> QED BY <1>2, <1>4, <1>5, <1>6, <2>1, <2>2 DEF Waits
<1>8. Counts(c, tenantActive, globalActive)
  BY <1>1, <1>2, <1>3, CountsStay
<1>9. \A x \in Requests : x = next <=> c[x] = "connecting"
  BY <1>1, <1>3 DEF PoolInv
<1>10. next # NoRequest => Room(next, tenantActive, globalActive)
  BY DEF PoolInv
<1> QED BY <1>1, <1>2, <1>7, <1>8, <1>9, <1>10, RunKeeps

\* A step in which only the clients of the pg.Pool and what is late change.
LEMMA PoolStays ==
    ASSUME PoolInv, UNCHANGED <<call, waitQueue, fairOrder, tenantActive, globalActive, next, timer>>,
           hasClient' \in BOOLEAN, late' \in SUBSET ToSet(waitQueue), free' \in Nat, direct' \in Nat, leaked' \in Nat /\ removed' \in BOOLEAN
    PROVE  PoolInv'
<1>1. Waits(call, waitQueue, fairOrder, late')
  BY DEF PoolInv, Waits
<1>2. /\ Waits(call, waitQueue, fairOrder, late)' /\ Counts(call, tenantActive, globalActive)'
      /\ next' # NoRequest => Room(next, tenantActive, globalActive)'
  BY <1>1 DEF PoolInv
<1> QED BY <1>2 DEF PoolInv

LEMMA GrowLateKeeps == ASSUME PoolInv, GrowLate PROVE PoolInv'
<1>1. PICK i \in DOMAIN waitQueue :
         /\ late' = late \cup {waitQueue[i]}
         /\ UNCHANGED <<call, proxyVars, free, direct, leaked, removed>>
  BY DEF GrowLate
<1>2. late' \in SUBSET ToSet(waitQueue)
  BY <1>1 DEF PoolInv, Waits, ToSet
<1> QED BY <1>1, <1>2, PoolStays DEF proxyVars, PoolInv

LEMMA ClientsKeep ==
    ASSUME PoolInv, GetClient \/ TakeDirect \/ ReturnDirect \/ RemovePool PROVE PoolInv'
<1>1. late \in SUBSET ToSet(waitQueue) /\ hasClient \in BOOLEAN /\ free \in Nat /\ direct \in Nat /\ leaked \in Nat /\ removed \in BOOLEAN
  BY DEF PoolInv, Waits
<1>2. /\ UNCHANGED <<call, waitQueue, fairOrder, tenantActive, globalActive, next, timer, late>>
      /\ hasClient' \in BOOLEAN /\ free' \in Nat /\ direct' \in Nat /\ leaked' \in Nat /\ removed' \in BOOLEAN
  <2>1. CASE GetClient
    BY <1>1, <2>1 DEF GetClient
  <2>2. CASE TakeDirect
    BY <1>1, <2>2 DEF TakeDirect, proxyVars
  <2>3. CASE ReturnDirect
    BY <1>1, <2>3 DEF ReturnDirect, proxyVars
  <2>4. CASE RemovePool
    BY <1>1, <2>4 DEF RemovePool, proxyVars
  <2> QED BY <2>1, <2>2, <2>3, <2>4
<1> QED BY <1>1, <1>2, PoolStays

\* The call whose client is awaited ends in place s, and the loop goes on.
LEMMA EndKeeps ==
    ASSUME PoolInv, next # NoRequest, NEW s \in {"holding", "rejected"}, NEW a, NEW g,
           Counts([call EXCEPT ![next] = s], a, g),
           Loop([call EXCEPT ![next] = s], waitQueue, fairOrder, a, g, timer),
           tenantActive' = a, globalActive' = g, free' \in Nat, direct' \in Nat, leaked' \in Nat /\ removed' \in BOOLEAN
    PROVE  PoolInv'
<1> DEFINE c == [call EXCEPT ![next] = s]
<1>1. /\ call \in [Requests -> {"idle", "waiting", "connecting", "holding", "released", "rejected"}]
      /\ next \in Requests /\ call[next] = "connecting" /\ timer \in BOOLEAN
      /\ Waits(call, waitQueue, fairOrder, late)
  BY DEF PoolInv, Waits
<1>2. \A x \in Requests : c[x] = IF x = next THEN s ELSE call[x]
  BY <1>1
<1>3. c \in [Requests -> {"idle", "waiting", "connecting", "holding", "released", "rejected"}]
  BY <1>1
<1>4. \A x \in Requests : c[x] # "connecting"
  BY <1>2 DEF PoolInv
<1> HIDE DEF c
<1>5. {x \in Requests : c[x] = "waiting"} = {x \in Requests : call[x] = "waiting"}
  BY <1>1, <1>2
<1>6. Waits(c, waitQueue, fairOrder, late)
  BY <1>1, <1>3, <1>5 DEF Waits
<1> QED BY <1>1, <1>4, <1>6, LoopKeeps DEF c

LEMMA FailsKeep == ASSUME PoolInv, ConnectFails \/ SetFails PROVE PoolInv'
<1>1. /\ next # NoRequest
      /\ Loop([call EXCEPT ![next] = "rejected"], waitQueue, fairOrder, tenantActive, globalActive, timer)
      /\ UNCHANGED <<tenantActive, globalActive>> /\ free' \in Nat /\ direct' \in Nat /\ leaked' \in Nat /\ removed' \in BOOLEAN
  BY DEF ConnectFails, SetFails, PoolInv
<1> DEFINE c == [call EXCEPT ![next] = "rejected"]
<1>2. \A x \in Requests : c[x] = "holding" <=> call[x] = "holding"
  BY <1>1 DEF PoolInv, Waits
<1>3. Counts(c, tenantActive, globalActive)
  <2> HIDE DEF c
  <2> QED BY <1>2, CountsStay DEF PoolInv
<1> QED BY <1>1, <1>3, EndKeeps

LEMMA GrantIs ==
    ASSUME PoolInv, Grant
    PROVE  /\ next \in Requests /\ call[next] = "connecting" /\ Room(next, tenantActive, globalActive)
           /\ Tenant[next] \in Tenants /\ tenantActive \in [Tenants -> Nat] /\ globalActive \in Nat
           /\ tenantActive' = [tenantActive EXCEPT ![Tenant[next]] = @ + 1] /\ globalActive' = globalActive + 1
           /\ Counts([call EXCEPT ![next] = "holding"], tenantActive', globalActive')
<1>1. /\ next \in Requests /\ call[next] = "connecting" /\ Room(next, tenantActive, globalActive)
      /\ Counts(call, tenantActive, globalActive)
      /\ tenantActive' = [tenantActive EXCEPT ![Tenant[next]] = @ + 1] /\ globalActive' = globalActive + 1
  BY DEF Grant, PoolInv
<1>2. call \in [Requests -> CallPlaces]
  BY DEF PoolInv, Waits, CallPlaces
<1>3. Tenant[next] \in Tenants /\ tenantActive \in [Tenants -> Nat] /\ globalActive \in Nat
  BY <1>1, PoolArith DEF Counts
<1>4. call[next] # "holding" /\ tenantActive[Tenant[next]] < TenantMax /\ globalActive < GlobalMax
  BY <1>1 DEF Room
<1>5. Counts([call EXCEPT ![next] = "holding"], tenantActive', globalActive')
  BY <1>1, <1>2, <1>4, CountsGrow
<1> QED BY <1>1, <1>3, <1>5

LEMMA GrantKeeps == ASSUME PoolInv, Grant PROVE PoolInv'
<1>1. /\ next # NoRequest
      /\ Loop([call EXCEPT ![next] = "holding"], waitQueue, fairOrder, tenantActive', globalActive', timer)
      /\ free' \in Nat /\ direct' \in Nat /\ leaked' \in Nat /\ removed' \in BOOLEAN
  BY DEF Grant, PoolInv
<1>2. Counts([call EXCEPT ![next] = "holding"], tenantActive', globalActive')
  BY GrantIs
<1> QED BY <1>1, <1>2, EndKeeps

LEMMA ReleaseIs ==
    ASSUME PoolInv, NEW r \in Requests, ReleaseClient(r)
    PROVE  /\ call[r] = "holding" /\ tenantActive \in [Tenants -> Nat] /\ globalActive \in Nat
           /\ Tenant[r] \in Tenants /\ tenantActive[Tenant[r]] > 0 /\ globalActive > 0
           /\ tenantActive' = [tenantActive EXCEPT ![Tenant[r]] = @ - 1] /\ globalActive' = globalActive - 1
           /\ Counts([call EXCEPT ![r] = "released"], tenantActive', globalActive')
<1>1. /\ call[r] = "holding" /\ Counts(call, tenantActive, globalActive)
      /\ tenantActive' = [tenantActive EXCEPT ![Tenant[r]] = @ - 1] /\ globalActive' = globalActive - 1
  BY DEF ReleaseClient, AfterRelease, PoolInv
<1>2. call \in [Requests -> CallPlaces]
  BY DEF PoolInv, Waits, CallPlaces
<1>3. Tenant[r] \in Tenants /\ tenantActive \in [Tenants -> Nat] /\ globalActive \in Nat
  BY <1>1, PoolArith DEF Counts
<1>4. /\ tenantActive[Tenant[r]] > 0 /\ globalActive > 0
      /\ Counts([call EXCEPT ![r] = "released"], tenantActive', globalActive')
  BY <1>1, <1>2, CountsShrink
<1> QED BY <1>1, <1>3, <1>4

LEMMA ReleaseKeeps == ASSUME PoolInv, NEW r \in Requests, ReleaseClient(r) PROVE PoolInv'
<1> DEFINE c == [call EXCEPT ![r] = "released"]
<1>1. /\ LoopUnlessRunning(c, waitQueue, fairOrder, tenantActive', globalActive', timer)
      /\ free' \in Nat /\ direct' \in Nat /\ leaked' \in Nat /\ removed' \in BOOLEAN /\ timer \in BOOLEAN
  BY DEF ReleaseClient, PoolInv
<1>2. /\ call[r] = "holding" /\ tenantActive \in [Tenants -> Nat] /\ globalActive \in Nat
      /\ Tenant[r] \in Tenants /\ tenantActive[Tenant[r]] > 0 /\ globalActive > 0
      /\ tenantActive' = [tenantActive EXCEPT ![Tenant[r]] = @ - 1] /\ globalActive' = globalActive - 1
      /\ Counts(c, tenantActive', globalActive')
  BY ReleaseIs
<1>3. /\ call \in [Requests -> {"idle", "waiting", "connecting", "holding", "released", "rejected"}]
      /\ Waits(call, waitQueue, fairOrder, late)
  BY DEF PoolInv, Waits
<1>4. c \in [Requests -> {"idle", "waiting", "connecting", "holding", "released", "rejected"}]
  BY <1>3
<1>5. \A x \in Requests : c[x] = IF x = r THEN "released" ELSE call[x]
  BY <1>3
<1> HIDE DEF c
<1>6. {x \in Requests : c[x] = "waiting"} = {x \in Requests : call[x] = "waiting"}
  BY <1>2, <1>5
<1>7. Waits(c, waitQueue, fairOrder, late)
  BY <1>3, <1>4, <1>6 DEF Waits
<1>8. \A x \in Requests : x = next <=> c[x] = "connecting"
  BY <1>2, <1>5 DEF PoolInv
<1>9. ASSUME next # NoRequest PROVE Room(next, tenantActive', globalActive')
  <2> DEFINE n == Tenant[next]
             b == tenantActive'
  <2>1. n \in Tenants /\ Room(next, tenantActive, globalActive)
    BY <1>9, PoolArith DEF PoolInv
  <2>2. /\ b \in [Tenants -> Nat] /\ \A x \in Tenants : b[x] <= tenantActive[x]
        /\ ReservedActive(b, Tenants) \in Nat /\ ReservedActive(tenantActive, Tenants) \in Nat
        /\ ReservedActive(b, Tenants) <= ReservedActive(tenantActive, Tenants) + 1
    BY <1>2, ReleaseCommitsLess
  <2> HIDE DEF b
  <2>3. b[n] <= tenantActive[n] /\ b[n] \in Nat /\ tenantActive[n] \in Nat
    BY <1>2, <2>1, <2>2
  <2>4. /\ tenantActive[n] < TenantMax /\ globalActive < GlobalMax
        /\ tenantActive[n] >= TenantMin => globalActive + ReservedActive(tenantActive, Tenants) < GlobalMax
    BY <2>1 DEF Room
  <2>5. b[n] < TenantMax /\ globalActive' < GlobalMax
    BY <1>2, <2>3, <2>4, PoolArith
  <2>6. b[n] >= TenantMin => globalActive' + ReservedActive(b, Tenants) < GlobalMax
    BY <1>2, <2>2, <2>3, <2>4, PoolArith
  <2> QED BY <2>5, <2>6 DEF Room, b
<1> QED BY <1>1, <1>2, <1>7, <1>8, <1>9, RunKeeps

LEMMA TimerKeeps == ASSUME PoolInv, TimerFires PROVE PoolInv'
<1>1. /\ LoopUnlessRunning(call, waitQueue, fairOrder, tenantActive, globalActive, FALSE)
      /\ UNCHANGED <<tenantActive, globalActive>> /\ free' \in Nat /\ direct' \in Nat /\ leaked' \in Nat /\ removed' \in BOOLEAN
  BY DEF TimerFires, PoolInv
<1>2. /\ Waits(call, waitQueue, fairOrder, late) /\ Counts(call, tenantActive, globalActive)
      /\ \A r \in Requests : r = next <=> call[r] = "connecting"
      /\ next # NoRequest => Room(next, tenantActive, globalActive)
  BY DEF PoolInv
<1> QED BY <1>1, <1>2, RunKeeps

LEMMA PoolNextInv == PoolInv /\ [PoolNext]_poolVars => PoolInv'
<1> SUFFICES ASSUME PoolInv, [PoolNext]_poolVars PROVE PoolInv'
  OBVIOUS
<1>1. ASSUME UNCHANGED poolVars PROVE PoolInv'
  <2>1. late \in SUBSET ToSet(waitQueue)
    BY DEF PoolInv, Waits
  <2> QED BY <1>1, <2>1, PoolStays DEF poolVars, proxyVars, PoolInv
<1> QED BY <1>1, ConnectKeeps, ReleaseKeeps, GrowLateKeeps, ClientsKeep, FailsKeep, GrantKeeps, TimerKeeps
        DEF PoolNext, Quiet

\* pool_manager.ts: the counters are what is held, and there is room for the
\* request whose client the loop awaits, in every state.
THEOREM PoolInductive == PoolSpec => []PoolInv
<1>1. PoolInit => PoolInv
  BY PoolInitInv
<1>2. PoolInv /\ [PoolNext]_poolVars => PoolInv'
  BY PoolNextInv
<1> QED BY <1>1, <1>2, PTL DEF PoolSpec

LEMMA PoolInvTypes == PoolInv => PoolTypeOK
BY DEF PoolInv, PoolTypeOK, Waits, Counts

\* pool_manager.ts: the queue and the fair order list the waiting calls and
\* their tenants, each once, and every variable keeps its type.
THEOREM PoolTypeCorrect == PoolSpec => []PoolTypeOK
BY PoolInductive, PoolInvTypes, PTL

LEMMA InvWithinCaps == PoolInv => GrantsWithinCaps
<1> SUFFICES ASSUME PoolInv PROVE GrantsWithinCaps
  OBVIOUS
<1>1. \A t \in Tenants : Holding(t) = Holders(call, t)
  BY DEF Holding, Holders
<1> QED BY <1>1 DEF PoolInv, Counts, GrantsWithinCaps, AllHolders

Yields ==
    Committed' > GlobalMax /\ Committed' > Committed
        => \E t \in Tenants : tenantActive[t] = 0 /\ tenantActive'[t] = 1

\* Only a grant commits more, and past the limit only one to a newcomer.
LEMMA StepYields == PoolInv /\ [PoolNext]_poolVars => Yields
<1> SUFFICES ASSUME PoolInv, [PoolNext]_poolVars PROVE Yields
  OBVIOUS
<1>0. tenantActive \in [Tenants -> Nat] /\ globalActive \in Nat
  BY DEF PoolInv, Counts
<1>1. CASE Grant
  <2> DEFINE t == Tenant[next]
  <2>1. /\ t \in Tenants /\ Room(next, tenantActive, globalActive)
        /\ tenantActive' = [tenantActive EXCEPT ![t] = @ + 1] /\ globalActive' = globalActive + 1
    BY <1>1, GrantIs
  <2> HIDE DEF t
  <2> DEFINE b == tenantActive'
  <2>2. /\ b[t] = tenantActive[t] + 1
        /\ ReservedActive(b, Tenants) \in Nat /\ ReservedActive(tenantActive, Tenants) \in Nat
        /\ tenantActive[t] > 0 /\ tenantActive[t] < TenantMin
              => ReservedActive(b, Tenants) + 1 = ReservedActive(tenantActive, Tenants)
        /\ tenantActive[t] >= TenantMin => ReservedActive(b, Tenants) = ReservedActive(tenantActive, Tenants)
    BY <1>0, <2>1, GrantCommits
  <2>3. Committed = globalActive + ReservedActive(tenantActive, Tenants)
        /\ Committed' = globalActive' + ReservedActive(b, Tenants)
    BY DEF Committed
  <2> HIDE DEF b
  <2>4. tenantActive[t] \in Nat
    BY <1>0, <2>1
  <2>5. CASE tenantActive[t] = 0
    <3>1. b[t] = 1
      BY <2>2, <2>5
    <3> QED BY <2>1, <2>5, <3>1 DEF Yields, b
  <2>6. CASE tenantActive[t] > 0 /\ tenantActive[t] < TenantMin
    <3>1. ~(Committed' > Committed)
      BY <1>0, <2>1, <2>2, <2>3, <2>6
    <3> QED BY <3>1 DEF Yields
  <2>7. CASE tenantActive[t] >= TenantMin
    <3>1. globalActive + ReservedActive(tenantActive, Tenants) < GlobalMax
      BY <2>1, <2>7 DEF Room, t
    <3>2. ~(Committed' > GlobalMax)
      BY <1>0, <2>1, <2>2, <2>3, <2>7, <3>1, PoolArith
    <3> QED BY <3>2 DEF Yields
  <2> QED BY <2>4, <2>5, <2>6, <2>7, PoolArith
<1>2. ASSUME NEW r \in Requests, ReleaseClient(r) PROVE Yields
  <2> DEFINE t == Tenant[r]
             b == tenantActive'
  <2>1. /\ t \in Tenants /\ tenantActive[t] > 0 /\ globalActive > 0
        /\ tenantActive' = [tenantActive EXCEPT ![t] = @ - 1] /\ globalActive' = globalActive - 1
    BY <1>2, ReleaseIs
  <2> HIDE DEF t
  <2>2. /\ ReservedActive(b, Tenants) \in Nat /\ ReservedActive(tenantActive, Tenants) \in Nat
        /\ ReservedActive(b, Tenants) <= ReservedActive(tenantActive, Tenants) + 1
    BY <1>0, <2>1, ReleaseCommitsLess
  <2>3. Committed = globalActive + ReservedActive(tenantActive, Tenants)
        /\ Committed' = globalActive' + ReservedActive(b, Tenants)
    BY DEF Committed
  <2> HIDE DEF b
  <2>4. ~(Committed' > Committed)
    BY <1>0, <2>1, <2>2, <2>3
  <2> QED BY <2>4 DEF Yields
<1>3. ASSUME UNCHANGED <<tenantActive, globalActive>> PROVE Yields
  <2>1. Committed' = Committed
    BY <1>3 DEF Committed
  <2>2. Committed \in Int
    <3>1. ReservedActive(tenantActive, Tenants) \in Nat
      <4>1. CASE Tenants = {}
        <5>1. DueOf(tenantActive) \in [Tenants -> Nat]
          BY <1>0, DueTypes
        <5> QED BY <5>1, PoolArith, SumIsNat, ReservedIsSum
      <4>2. CASE Tenants # {}
        BY <1>0, <4>2, ReservedParts
      <4> QED BY <4>1, <4>2
    <3> QED BY <1>0, <3>1 DEF Committed
  <2> QED BY <2>1, <2>2 DEF Yields
<1>4. Grant \/ (\E r \in Requests : ReleaseClient(r)) \/ UNCHANGED <<tenantActive, globalActive>>
  BY DEF PoolNext, Connect, GrowLate, GetClient, ConnectFails, SetFails, TimerFires, TakeDirect, ReturnDirect,
         RemovePool, Quiet,
         poolVars, proxyVars
<1> QED BY <1>1, <1>2, <1>3, <1>4

\* pool_manager.ts canGrant, reservedForGuarantees: grants respect the caps of
\* each tenant and of the pool, whatever is released while a client is awaited,
\* and only a newcomer takes what others are due.
THEOREM SharesAreKept == PoolSpec => SharesHold
<1>1. PoolInv => GrantsWithinCaps
  BY InvWithinCaps
<1>2. PoolInv /\ [PoolNext]_poolVars => [Yields]_poolVars
  BY StepYields
<1>3. PoolSpec => []PoolInv
  BY PoolInductive
<1>4. PoolSpec => []GrantsWithinCaps
  BY <1>1, <1>3, PTL
<1>5. PoolSpec => [][Yields]_poolVars
  BY <1>2, <1>3, PTL DEF PoolSpec
<1>6. SharesHold <=> []GrantsWithinCaps /\ [][Yields]_poolVars
  BY DEF SharesHold, ReservesYieldToNewcomersOnly, Yields
<1> QED BY <1>4, <1>5, <1>6

-----------------------------------------------------------------------------
\* A waiting call is looked at again: the loop runs, or its timer is set.
QueueIsServed == \A r \in Requests : call[r] = "waiting" => next # NoRequest \/ timer

LEMMA LoopServes ==
    ASSUME NEW c \in [Requests -> CallPlaces], NEW q, NEW o, NEW a, NEW g, NEW armed \in BOOLEAN,
           \A r \in Requests : c[r] = "waiting" => r \in ToSet(q),
           Loop(c, q, o, a, g, armed)
    PROVE  QueueIsServed'
<1> SUFFICES ASSUME NEW r \in Requests, call'[r] = "waiting", next' = NoRequest PROVE timer' = TRUE
  BY DEF QueueIsServed
<1>1. PICK picked \in {Pick(a, g, q, o)} :
         LET rest == ToSet(q) \ (late \cup {picked})
         IN /\ next' = picked
            /\ call' = [s \in Requests |->
                           IF s = picked THEN "connecting" ELSE IF s \in late THEN "rejected" ELSE c[s]]
            /\ timer' = (armed \/ (picked = NoRequest /\ Rearms(rest)))
  BY DEF Loop
<1>2. r # picked /\ r \notin late /\ c[r] = "waiting"
  BY <1>1
<1>3. r \in ToSet(q) \ (late \cup {picked})
  BY <1>2
<1> QED BY <1>1, <1>3 DEF Rearms

LEMMA RunServes ==
    ASSUME NEW c \in [Requests -> CallPlaces], NEW q, NEW o, NEW a, NEW g, NEW armed \in BOOLEAN,
           \A r \in Requests : c[r] = "waiting" => r \in ToSet(q),
           LoopUnlessRunning(c, q, o, a, g, armed)
    PROVE  QueueIsServed'
<1>1. CASE next = NoRequest /\ ~removed
  BY <1>1, LoopServes DEF LoopUnlessRunning
<1>2. CASE next = NoRequest /\ removed
  <2>1. call' = [r \in Requests |-> IF c[r] = "waiting" THEN "rejected" ELSE c[r]]
    BY <1>2 DEF LoopUnlessRunning, RejectAll
  <2> QED BY <2>1 DEF QueueIsServed
<1>3. CASE next # NoRequest
  BY <1>3 DEF LoopUnlessRunning, QueueIsServed
<1> QED BY <1>1, <1>2, <1>3

LEMMA NextServes == PoolInv /\ QueueIsServed /\ [PoolNext]_poolVars => QueueIsServed'
<1> SUFFICES ASSUME PoolInv, QueueIsServed, [PoolNext]_poolVars PROVE QueueIsServed'
  OBVIOUS
<1>1. /\ call \in [Requests -> CallPlaces] /\ waitQueue \in Seq(Requests) /\ timer \in BOOLEAN
      /\ \A r \in Requests : call[r] = "waiting" => r \in ToSet(waitQueue)
  BY DEF PoolInv, Waits, CallPlaces
<1>2. ASSUME NEW r \in Requests, Connect(r) PROVE QueueIsServed'
  <2> DEFINE c == [call EXCEPT ![r] = "waiting"]
             q == Append(waitQueue, r)
             o == IF Contains(fairOrder, Tenant[r]) THEN fairOrder ELSE Append(fairOrder, Tenant[r])
  <2>1. c \in [Requests -> CallPlaces]
    BY <1>1 DEF CallPlaces
  <2>2. \A s \in Requests : c[s] = "waiting" => s \in ToSet(q)
    <3>1. ToSet(q) = ToSet(waitQueue) \cup {r}
      BY <1>1, AppendIs
    <3> QED BY <1>1, <3>1
  <2>3. LoopUnlessRunning(c, q, o, tenantActive, globalActive, timer)
    BY <1>2 DEF Connect
  <2> HIDE DEF c, q, o
  <2> QED BY <1>1, <2>1, <2>2, <2>3, RunServes
<1>3. ASSUME NEW r \in Requests, ReleaseClient(r) PROVE QueueIsServed'
  <2> DEFINE c == [call EXCEPT ![r] = "released"]
  <2>1. c \in [Requests -> CallPlaces] /\ \A s \in Requests : c[s] = "waiting" => s \in ToSet(waitQueue)
    BY <1>1 DEF CallPlaces
  <2>2. LoopUnlessRunning(c, waitQueue, fairOrder, tenantActive', globalActive', timer)
    BY <1>3 DEF ReleaseClient
  <2> HIDE DEF c
  <2> QED BY <1>1, <2>1, <2>2, RunServes
<1>4. CASE TimerFires
  <2>1. LoopUnlessRunning(call, waitQueue, fairOrder, tenantActive, globalActive, FALSE)
    BY <1>4 DEF TimerFires
  <2> QED BY <1>1, <2>1, RunServes
<1>5. ASSUME NEW goes \in {"rejected", "holding"}, NEW a, NEW g, next # NoRequest,
             Loop([call EXCEPT ![next] = goes], waitQueue, fairOrder, a, g, timer)
      PROVE  QueueIsServed'
  <2> DEFINE c == [call EXCEPT ![next] = goes]
  <2>1. c \in [Requests -> CallPlaces] /\ \A s \in Requests : c[s] = "waiting" => s \in ToSet(waitQueue)
    BY <1>1 DEF CallPlaces
  <2> HIDE DEF c
  <2>2. Loop(c, waitQueue, fairOrder, a, g, timer)
    BY <1>5 DEF c
  <2> QED BY <1>1, <2>1, <2>2, LoopServes
<1>6. CASE ConnectFails \/ SetFails
  BY <1>5, <1>6 DEF ConnectFails, SetFails
<1>7. CASE Grant
  BY <1>5, <1>7 DEF Grant
<1>8. CASE GrowLate \/ GetClient \/ TakeDirect \/ ReturnDirect \/ RemovePool \/ UNCHANGED poolVars
  <2>1. call' = call /\ next' = next /\ timer' = timer
    BY <1>8 DEF GrowLate, GetClient, TakeDirect, ReturnDirect, RemovePool, proxyVars, poolVars
  <2> QED BY <2>1 DEF QueueIsServed
<1> QED BY <1>2, <1>3, <1>4, <1>6, <1>7, <1>8 DEF PoolNext, Quiet

\* pool_manager.ts processQueue: whenever a call waits, the loop is under way or
\* a timer is set that will run it: no queue is forgotten, whatever rejects.
THEOREM NoQueueIsForgotten == PoolSpec => []QueueIsServed
<1>1. PoolInit => QueueIsServed
  BY DEF PoolInit, QueueIsServed
<1> QED BY <1>1, NextServes, PoolInductive, PTL DEF PoolSpec
-----------------------------------------------------------------------------
(***************************************************************************)
(* The runs of MCWatchers. The four share no state and one of them moves,  *)
(* so a run is one of each of them.                                        *)
(***************************************************************************)
LEMMA WatchersNextIs ==
    [Next]_vars => /\ [CertNext]_certVars /\ [BatchNext]_batchVars
                   /\ [ConfigNext]_configVars /\ [PoolNext]_poolVars
BY DEF Next, Runs, vars

\* The one that moves leaves the others where they are: every run is a behaviour
\* of each of the four.
THEOREM WatchersAreEach == Spec => CertSpec /\ BatchSpec /\ ConfigSpec /\ PoolSpec
<1>1. Init => CertInit /\ BatchInit /\ ConfigInit /\ PoolInit
  BY DEF Init
<1> QED BY <1>1, WatchersNextIs, PTL DEF Spec, CertSpec, BatchSpec, ConfigSpec, PoolSpec

\* Every variable of the four keeps its type.
THEOREM WatchersTypeCorrect == Spec => []TypeOK
<1>1. CertInv => CertTypeOK
  BY DEF CertInv
<1>2. BInv => BatchTypeOK
  BY DEF BInv
<1>3. ConfigInv => ConfigTypeOK
  BY DEF ConfigInv
<1>4. CertTypeOK /\ BatchTypeOK /\ ConfigTypeOK /\ PoolTypeOK => TypeOK
  BY DEF TypeOK
<1> QED BY <1>1, <1>2, <1>3, <1>4, WatchersAreEach, CertInductive, BatchInductive,
           ConfigInductive, PoolTypeCorrect, PTL

\* And what was shown of each holds in every run.
THEOREM WatchersAreSound ==
    Spec => /\ []CompactionIsExclusive /\ SummariesHold /\ []LocksAreInUse
            /\ RevocationIsLasting /\ VersionsHold /\ ReadersKeepUp
            /\ SharesHold /\ []QueueIsServed
BY WatchersAreEach, OneCompactor, SummariesAreSound, LocksAreNotLeaked, RevocationsLast,
   VersionsAreSound, NoPodFallsBack, SharesAreKept, NoQueueIsForgotten, PTL
=============================================================================
