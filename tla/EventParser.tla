---------------------------- MODULE EventParser ----------------------------
(***************************************************************************)
(* How a process reads the events of its pool: userland/sys/src/events.rs. *)
(* The kernel lays events out in words, one after the other; the iterator  *)
(* EventParser takes them apart again.  A word is WordBytes bytes wide and *)
(* holds a number; only the length of a message is counted in bytes.       *)
(***************************************************************************)
EXTENDS Integers, Sequences

CONSTANTS
    WordBytes,      \* size_of::<usize>()
    Lengths,        \* lengths of messages, in bytes
    Replies,        \* ids of reply capabilities, 0 for none
    MaxWritten      \* bound: events written before they are read

VARIABLES
    words,          \* the mapped buffer
    written,        \* history: the events in it
    at,             \* how many bytes the parser has consumed
    parsed,         \* the events the parser has returned
    reading         \* "no", "yes", "done", or "panicked"

parserVars == <<words, written, at, parsed, reading>>

(* create_event_types!: the tag of an event is its place in the list, and  *)
(* its payload is MessageSent's size, CapDrop's data, or empty.            *)
EventNums == [MessageSent |-> 0, ThreadExit |-> 1, CapDrop |-> 2, InterruptTrigger |-> 3, MessageRecieved |-> 4]

PayloadWords == [MessageSent |-> 1, ThreadExit |-> 0, CapDrop |-> 1, InterruptTrigger |-> 0]

Kinds == DOMAIN PayloadWords

(* EventNums::from_repr *)
Known(tag) == \E k \in DOMAIN EventNums : EventNums[k] = tag

KindOf(tag) == CHOOSE k \in DOMAIN EventNums : EventNums[k] = tag

(* What a reader sees of an event: a message has a reply and a length,     *)
(* another event its payload.                                              *)
Parsed(kind, id, reply, data) == [kind |-> kind, id |-> id, reply |-> reply, data |-> data]

Filled(n, w) == [i \in 1 .. n |-> w]

WordsOf(bytes) == (bytes + WordBytes - 1) \div WordBytes

(* A word that is no tag, for the contents of a message. *)
Content == 99

ParserInit == words = <<>> /\ written = <<>> /\ at = 0 /\ parsed = <<>> /\ reading = "no"

-----------------------------------------------------------------------------
(* The kernel's side, under the lock of the pool *)

(* Event::as_raw and EventRaw::as_bytes: tag, id and payload. *)
AsRaw(kind, id) ==
    <<EventNums[kind], id>> \o Filled(PayloadWords[kind], id)

Put(raw, event) ==
    /\ reading = "no" /\ Len(written) < MaxWritten
    /\ words' = words \o raw
    /\ written' = Append(written, event)
    /\ UNCHANGED <<at, parsed, reading>>

WriteEvent(kind) ==
    LET id == Len(written)
    IN  Put(AsRaw(kind, id), Parsed(kind, id, 0, IF PayloadWords[kind] = 0 THEN 0 ELSE id))

(* A message: its event number, id, reply and length, then its bytes,      *)
(* rounded up to whole words.                                              *)
WriteMessage(bytes, reply) ==
    LET id == Len(written)
    IN  Put(<<EventNums.MessageRecieved, id, reply, bytes>> \o Filled(WordsOf(bytes), Content),
            Parsed("MessageRecieved", id, reply, bytes))

(* The buffers are swapped and the pool's reader starts. *)
StartReading ==
    /\ reading = "no" /\ words # <<>>
    /\ reading' = "yes"
    /\ UNCHANGED <<words, written, at, parsed>>

-----------------------------------------------------------------------------
(* The iterator *)

Length == Len(words) * WordBytes

(* take_bytes succeeds *)
CanTakeAllButLast(pos, n) == n < Length - pos

CanTake(pos, n) == n <= Length - pos

WordAt(pos) == words[(pos \div WordBytes) + 1]

(* make_aligned: the bytes it skips. *)
AlignAmount(pos) == WordBytes - (pos % WordBytes)

(* next returns None: the tag or a later part of the event is not there.   *)
HeaderOf(kind) == IF kind = "MessageRecieved" THEN 4 ELSE 2 + PayloadWords[kind]

Complete ==
    /\ CanTake(at, WordBytes) /\ Known(WordAt(at))
    /\ CanTake(at, HeaderOf(KindOf(WordAt(at))) * WordBytes)
    /\ KindOf(WordAt(at)) = "MessageRecieved" =>
          CanTake(at + 4 * WordBytes, WordAt(at + 3 * WordBytes))

NextNone ==
    /\ reading = "yes" /\ ~Complete
    /\ reading' = "done"
    /\ UNCHANGED <<words, written, at, parsed>>

(* next returns an event. *)
NextEvent ==
    LET kind == KindOf(WordAt(at))
        id == WordAt(at + WordBytes)
    IN  /\ reading = "yes" /\ Complete /\ kind # "MessageRecieved"
        /\ parsed' = Append(parsed, Parsed(kind, id, 0,
                        IF PayloadWords[kind] = 0 THEN 0 ELSE WordAt(at + 2 * WordBytes)))
        /\ at' = at + HeaderOf(kind) * WordBytes
        /\ UNCHANGED <<words, written, reading>>

(* next returns a message, after it has aligned itself for the next event. *)
NextMessage ==
    LET id == WordAt(at + WordBytes)
        bytes == WordAt(at + 3 * WordBytes)
        end == at + 4 * WordBytes + bytes
    IN  /\ reading = "yes" /\ Complete /\ KindOf(WordAt(at)) = "MessageRecieved"
        /\ IF CanTake(end, AlignAmount(end))
           THEN /\ parsed' = Append(parsed, Parsed("MessageRecieved", id, WordAt(at + 2 * WordBytes), bytes))
                /\ at' = end + AlignAmount(end)
                /\ UNCHANGED reading
           ELSE /\ reading' = "panicked"
                /\ UNCHANGED <<parsed, at>>
        /\ UNCHANGED <<words, written>>

ParserNext ==
    \/ \E k \in Kinds : WriteEvent(k)
    \/ \E n \in Lengths, r \in Replies : WriteMessage(n, r)
    \/ StartReading \/ NextNone \/ NextEvent \/ NextMessage

ParserSpec == ParserInit /\ [][ParserNext]_parserVars

-----------------------------------------------------------------------------
(* What was written comes back: as long as no message ends on a word, the  *)
(* iterator returns the events of the buffer, in order, whole, and then    *)
(* None.  make_aligned is what the condition is about: it skips a whole    *)
(* word when there is nothing to skip.                                     *)
ParsesWhatWasWritten ==
    LET ends(i) == written[i].kind = "MessageRecieved" /\ written[i].data % WordBytes = 0
    IN  (\A i \in DOMAIN written : ~ends(i)) =>
            /\ parsed = SubSeq(written, 1, Len(parsed))
            /\ reading = "done" => parsed = written
            /\ reading # "panicked"
=============================================================================
