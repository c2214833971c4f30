---------------------------- MODULE ReorderBuffer ----------------------------
(***************************************************************************)
(* RedisReorderBuffer (src/core/ingestion/validator.ts): frames of one     *)
(* device that arrive ahead of their turn wait in a sorted set, and a mark *)
(* says how far the device's frames were delivered. submit is a sequence   *)
(* of Redis commands; between two of them any other submit may run, in     *)
(* this process or in another. A frame is named by its sequence number.    *)
(***************************************************************************)
EXTENDS Integers, FiniteSets, FiniteSetsExt

CONSTANTS
    Submits,            \* concurrent calls of submit
    MaxFrame,           \* bound: frames are 1..MaxFrame
    MaxWindow,          \* maxWindow
    MaxLost             \* bound: frames lost by calls that reject

ASSUME ReorderAssumption ==
    /\ MaxFrame \in Nat /\ MaxWindow \in Nat \ {0} /\ MaxLost \in Nat

VARIABLES
    deliveredTo,    \* the key reorder:delivered
    waiting,        \* the sorted set reorder:buffer
    submit,         \* submit[c]: place, frame, number delivered as c counts it, frames c will return
    handed,         \* history: frames returned to callers
    lost,           \* history: frames in the hands of calls that rejected
    handedTwice,    \* history: some frame was returned to callers a second time
    calm            \* history: every call ran alone, and none rejected

reorderVars == <<deliveredTo, waiting, submit, handed, lost, handedTwice, calm>>

Frames == 1..MaxFrame

NoSubmit == [at |-> "none", frame |-> 0, current |-> 0, hands |-> {}]

ReorderTypeOK ==
    /\ deliveredTo \in 0..MaxFrame
    /\ waiting \in SUBSET Frames
    /\ submit \in [Submits -> [at : {"none", "read", "drain", "remove", "mark", "store", "count", "evict"},
                               frame : 0..MaxFrame, current : 0..MaxFrame,
                               hands : SUBSET Frames]]
    /\ handed \in SUBSET Frames /\ lost \in SUBSET Frames
    /\ handedTwice \in BOOLEAN /\ calm \in BOOLEAN

ReorderInit ==
    /\ deliveredTo = 0 /\ waiting = {}
    /\ submit = [c \in Submits |-> NoSubmit]
    /\ handed = {} /\ lost = {} /\ handedTwice = FALSE /\ calm = TRUE

-----------------------------------------------------------------------------
Continues(c, place, current, hands) ==
    submit' = [submit EXCEPT ![c] = [at |-> place, frame |-> submit[c].frame,
                                     current |-> current, hands |-> hands]]

Goes(c, place) == Continues(c, place, submit[c].current, submit[c].hands)

Submit(c, n) ==
    /\ submit[c].at = "none"
    /\ submit' = [submit EXCEPT ![c] = [at |-> "read", frame |-> n, current |-> 0, hands |-> {}]]
    /\ calm' = (calm /\ \A d \in Submits : submit[d].at = "none")
    /\ UNCHANGED <<deliveredTo, waiting, handed, lost, handedTwice>>

\* GET, and the frame is behind the mark: dropped.
DropDelivered(c) ==
    /\ submit[c].at = "read"
    /\ submit[c].frame <= deliveredTo
    /\ submit' = [submit EXCEPT ![c] = NoSubmit]
    /\ UNCHANGED <<deliveredTo, waiting, handed, lost, handedTwice, calm>>

\* Mutant: a frame that leaves a gap of one counts as in sequence.
InSequenceOrNext(n, current) == n \in {current + 1, current + 2}

InSequence(n, current) == n = current + 1

TakeInSequence(c) ==
    /\ submit[c].at = "read"
    /\ submit[c].frame > deliveredTo /\ InSequence(submit[c].frame, deliveredTo)
    /\ Continues(c, "drain", submit[c].frame, {submit[c].frame})
    /\ UNCHANGED <<deliveredTo, waiting, handed, lost, handedTwice, calm>>

\* ZRANGEBYSCORE of the next frame.
FindNext(c) ==
    /\ submit[c].at = "drain"
    /\ IF submit[c].current + 1 \in waiting
       THEN Continues(c, "remove", submit[c].current, submit[c].hands \cup {submit[c].current + 1})
       ELSE Goes(c, "mark")
    /\ UNCHANGED <<deliveredTo, waiting, handed, lost, handedTwice, calm>>

\* ZREMRANGEBYSCORE of it; another call may have removed it.
RemoveNext(c) ==
    /\ submit[c].at = "remove"
    /\ waiting' = waiting \ {submit[c].current + 1}
    /\ Continues(c, "drain", submit[c].current + 1, submit[c].hands)
    /\ UNCHANGED <<deliveredTo, handed, lost, handedTwice, calm>>

\* SET of the mark, to what this call counted, and the frames are returned.
SetDelivered(c) ==
    /\ submit[c].at = "mark"
    /\ deliveredTo' = submit[c].current
    /\ handed' = handed \cup submit[c].hands
    /\ handedTwice' = (handedTwice \/ handed \cap submit[c].hands # {})
    /\ submit' = [submit EXCEPT ![c] = NoSubmit]
    /\ UNCHANGED <<waiting, lost, calm>>

\* Out of sequence: judged by the GET, stored by a later command.
JudgeAhead(c) ==
    /\ submit[c].at = "read"
    /\ submit[c].frame > deliveredTo /\ ~InSequence(submit[c].frame, deliveredTo)
    /\ Goes(c, "store")
    /\ UNCHANGED <<deliveredTo, waiting, handed, lost, handedTwice, calm>>

\* ZADD
Store(c) ==
    /\ submit[c].at = "store"
    /\ waiting' = waiting \cup {submit[c].frame}
    /\ Goes(c, "count")
    /\ UNCHANGED <<deliveredTo, handed, lost, handedTwice, calm>>

\* ZCARD: whether too many frames wait.
Count(c) ==
    /\ submit[c].at = "count"
    /\ IF Cardinality(waiting) > MaxWindow
       THEN Goes(c, "evict")
       ELSE submit' = [submit EXCEPT ![c] = NoSubmit]
    /\ UNCHANGED <<deliveredTo, waiting, handed, lost, handedTwice, calm>>

\* ZPOPMAX drops the newest; the device has to send it again.
Evict(c) ==
    /\ submit[c].at = "evict"
    /\ waiting' = IF waiting = {} THEN {} ELSE waiting \ {Max(waiting)}
    /\ submit' = [submit EXCEPT ![c] = NoSubmit]
    /\ UNCHANGED <<deliveredTo, handed, lost, handedTwice, calm>>

\* What the command a call waits for leaves, if it is applied.
Applied(c) ==
    CASE submit[c].at = "mark"   -> <<submit[c].current, waiting>>
      [] submit[c].at = "remove" -> <<deliveredTo, waiting \ {submit[c].current + 1}>>
      [] submit[c].at = "store"  -> <<deliveredTo, waiting \cup {submit[c].frame}>>
      [] submit[c].at = "evict" /\ waiting # {} -> <<deliveredTo, waiting \ {Max(waiting)}>>
      [] OTHER -> <<deliveredTo, waiting>>

\* A command rejects, applied or not, and so does submit.
SubmitFails(c) ==
    /\ submit[c].at # "none"
    /\ Cardinality(lost \cup submit[c].hands) <= MaxLost
    /\ \E left \in {<<deliveredTo, waiting>>, Applied(c)} :
          deliveredTo' = left[1] /\ waiting' = left[2]
    /\ lost' = lost \cup submit[c].hands
    /\ calm' = FALSE
    /\ submit' = [submit EXCEPT ![c] = NoSubmit]
    /\ UNCHANGED <<handed, handedTwice>>

ReorderNext ==
    \E c \in Submits :
        \/ \E n \in Frames : Submit(c, n)
        \/ DropDelivered(c) \/ TakeInSequence(c) \/ JudgeAhead(c)
        \/ FindNext(c) \/ RemoveNext(c) \/ SetDelivered(c)
        \/ Store(c) \/ Count(c) \/ Evict(c) \/ SubmitFails(c)

ReorderSpec == ReorderInit /\ [][ReorderNext]_reorderVars

-----------------------------------------------------------------------------
(* Properties. *)

\* validator.ts: the mark passes no frame by. However submits interleave, the
\* frames up to it were returned to callers, or were in the hands of a call
\* that rejected; a call that moves the mark back only repeats frames.
NothingSkipped == \A n \in 1..deliveredTo : n \in handed \cup lost

\* validator.ts: calls that never overlap return every frame once and in order,
\* whatever is sent again or evicted, and leave none waiting whose turn has come.
SequentialSubmitsRelease ==
    calm => /\ handed = 1..deliveredTo /\ ~handedTwice
            /\ (\A c \in Submits : submit[c].at = "none") =>
                  \A n \in waiting : n > deliveredTo + 1

\* Both: what RedisReorderBuffer promises to callers that overlap, and to those
\* that do not.
FramesInOrder == NothingSkipped /\ SequentialSubmitsRelease
=============================================================================
