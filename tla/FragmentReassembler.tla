------------------------- MODULE FragmentReassembler -------------------------
(***************************************************************************)
(* TelemetryFragmentReassembler (src/core/ingestion/stream_parser.ts): one *)
(* connection's chunks are joined and cut into messages at a terminator.   *)
(* The device sends messages 1, 2, ... one after another, each of some     *)
(* bytes and a terminator; a chunk ends anywhere. A byte is named by its   *)
(* message and its place in it; the last one is the terminator.            *)
(***************************************************************************)
EXTENDS Integers, Sequences

CONSTANTS
    Body,           \* bytes of a message before its terminator
    MaxPartial,     \* maxPartialMessageSize
    Timeout,        \* messageTimeoutMs in ticks
    MaxMessages,    \* bound: messages the device sends
    MaxChunk        \* bound: bytes of a chunk

ASSUME ReassemblerAssumption ==
    /\ Body \in Nat /\ MaxPartial \in Nat /\ Timeout \in Nat \ {0}
    /\ MaxMessages \in Nat /\ MaxChunk \in Nat \ {0}

VARIABLES
    unsent,     \* bytes of the stream the device has not sent
    buffer,     \* buffer
    timer,      \* ticks until timeoutHandle fires; 0 without one
    shut,       \* closed
    messages,   \* history: the messages append returned
    cut,        \* history: a partial message was discarded
    waited      \* history: ticks the first byte of buffer has waited

reassemblerVars == <<unsent, buffer, timer, shut, messages, cut, waited>>

Byte == [of : 1..MaxMessages, at : 1..(Body + 1)]

IsTerminator(b) == b.at = Body + 1

Message(m) == [i \in 1..Body |-> [of |-> m, at |-> i]]

\* The p-th byte a device would send.
ByteAt(p) == [of |-> 1 + (p - 1) \div (Body + 1), at |-> 1 + ((p - 1) % (Body + 1))]

Stream == [p \in 1..(MaxMessages * (Body + 1)) |-> ByteAt(p)]

ReassemblerTypeOK ==
    /\ unsent \in Seq(Byte) /\ buffer \in Seq(Byte)
    /\ timer \in 0..Timeout /\ shut \in BOOLEAN /\ cut \in BOOLEAN
    /\ messages \in Seq(Seq(Byte)) /\ Len(messages) <= MaxMessages
    /\ waited \in Nat

ReassemblerInit ==
    /\ unsent = Stream /\ buffer = <<>>
    /\ timer = 0 /\ shut = FALSE
    /\ messages = <<>> /\ cut = FALSE /\ waited = 0

-----------------------------------------------------------------------------
\* One more byte is joined: a terminator ends a message.
Join(split, b) ==
    IF IsTerminator(b)
    THEN [messages |-> Append(split.messages, split.rest), rest |-> <<>>]
    ELSE [messages |-> split.messages, rest |-> Append(split.rest, b)]

\* The messages that end in bytes, and what follows the last terminator.
Split(bytes) ==
    LET split[i \in 0..Len(bytes)] ==
            IF i = 0 THEN [messages |-> <<>>, rest |-> <<>>]
            ELSE Join(split[i - 1], bytes[i])
    IN split[Len(bytes)]

\* Mutant: what follows the last terminator is dropped with it.
RestDropped(split) == IF split.messages = <<>> THEN split.rest ELSE <<>>

Rest(split) == split.rest

\* The timer runs on when a rest stays; an empty buffer stops it.
Armed(left) == IF left = <<>> THEN 0 ELSE IF timer = 0 THEN Timeout ELSE timer

\* append
AppendChunk(n) ==
    LET joined == buffer \o SubSeq(unsent, 1, n)
        split  == Split(joined)
        left   == Rest(split)
    IN  /\ ~shut /\ n <= Len(unsent) /\ Len(joined) <= MaxPartial
        /\ unsent' = SubSeq(unsent, n + 1, Len(unsent))
        /\ messages' = messages \o split.messages
        /\ buffer' = left
        /\ timer' = Armed(left)
        /\ waited' = IF buffer # <<>> /\ split.messages = <<>> THEN waited ELSE 0
        /\ UNCHANGED <<shut, cut>>

Discard ==
    /\ buffer' = <<>> /\ timer' = 0 /\ waited' = 0
    /\ cut' = (cut \/ buffer # <<>>)

\* The chunk would exceed the limit: close code 1009.
CloseTooBig(n) ==
    /\ ~shut /\ n <= Len(unsent) /\ Len(buffer) + n > MaxPartial
    /\ shut' = TRUE
    /\ unsent' = SubSeq(unsent, n + 1, Len(unsent))
    /\ Discard
    /\ UNCHANGED messages

\* partial_message_timeout: the connection stays open.
TimeOut == timer = 1 /\ Discard /\ UNCHANGED <<unsent, shut, messages>>

Dispose == Discard /\ UNCHANGED <<unsent, shut, messages>>

TimePasses ==
    /\ timer > 1
    /\ timer' = timer - 1 /\ waited' = waited + 1
    /\ UNCHANGED <<unsent, buffer, shut, messages, cut>>

ReassemblerNext ==
    \/ \E n \in 1..MaxChunk : AppendChunk(n) \/ CloseTooBig(n)
    \/ TimeOut \/ Dispose \/ TimePasses

ReassemblerSpec == ReassemblerInit /\ [][ReassemblerNext]_reassemblerVars

-----------------------------------------------------------------------------
(* Properties. *)

\* stream_parser.ts: until a partial message is discarded, the messages
\* returned are the device's, whole and in order, however chunks divide them;
\* after that, what is returned is at least the end of one of them.
MessagesAreWhole ==
    /\ ~cut => messages = [m \in 1..Len(messages) |-> Message(m)]
    /\ \A k \in 1..Len(messages) : \E m \in 1..MaxMessages, from \in 1..(Body + 1) :
          messages[k] = SubSeq(Message(m), from, Body)

\* stream_parser.ts: a rest is bounded in size and in the time it is kept, even
\* when terminators and timers alternate.
PartialIsBounded ==
    /\ Len(buffer) <= MaxPartial
    /\ buffer # <<>> => timer > 0 /\ waited < Timeout

\* What a connection hands on, and what it keeps meanwhile.
ReassemblyHolds == MessagesAreWhole /\ PartialIsBounded
=============================================================================
