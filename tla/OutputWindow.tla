---------------------------- MODULE OutputWindow ----------------------------
(***************************************************************************)
(* How a command's output reaches the operation plan: the bounded window   *)
(* the agent keeps (JobRunner._append_output, get, _load_jobs) and the     *)
(* executor that polls it by absolute offset                               *)
(* (OperationExecutor._execute_shell, _consume_output, _append_output).    *)
(*                                                                         *)
(* A byte of the stream is its absolute position; starts holds the         *)
(* positions where a UTF-8 character begins, and a character is its first  *)
(* position.  The agent appends while the executor's answer is on its way, *)
(* drops the oldest bytes at its limit, may fail to write its file, and    *)
(* may restart from the file.                                              *)
(***************************************************************************)
EXTENDS Integers, FiniteSets, Sequences, SequencesExt

CONSTANTS
    output_limit,    \* bytes the agent retains
    MAX_CHARS,       \* _MAX_STEP_OUTPUT_CHARS
    MARKER_CHARS,    \* length of "[Earlier Agent output was truncated]\n"
    Widths,          \* bytes of a UTF-8 character
    MaxBytes,        \* bound: bytes the command writes
    MaxChunk,        \* bound: characters in one redacted chunk
    MaxLost          \* bound: failing metadata writes

ASSUME OutputWindowAssumption ==
    /\ output_limit \in Nat /\ output_limit >= 4    \* server.py keeps the default, 64 KiB
    /\ MAX_CHARS \in Nat
    /\ MARKER_CHARS \in Nat \ {0}
    /\ Widths \subseteq 1..4
    /\ MaxBytes \in Nat
    /\ MaxChunk \in Nat
    /\ MaxLost \in Nat

VARIABLES
    window,    \* _JobState: the retained bytes and their two offsets
    status,    \* _JobState.status
    starts,    \* the positions at which characters of the stream begin
    saved,     \* the window in the metadata file
    reading,   \* the reader thread is alive
    answer,    \* the snapshot on its way to the executor
    offset,    \* the executor's next offset
    pending,   \* characters the executor's redactor holds back
    parts,     \* output_parts: characters and truncation markers
    chars,     \* output_chars
    client,    \* the executor: polling, waiting, done, failed
    lost       \* metadata writes that raised

windowVars == <<window, status, starts, saved, reading, answer, offset, pending, parts,
          chars, client, lost>>

Marker == -1

Empty == [output |-> <<>>, output_offset |-> 0, truncated_before |-> 0]

(* shell.execute answers with the snapshot of the queued job.              *)
WindowInit ==
    /\ window = Empty
    /\ status = "running"
    /\ starts = {}
    /\ saved = Empty
    /\ reading = TRUE
    /\ answer = [output |-> <<>>, output_offset |-> 0, truncated_before |-> 0,
                 terminal |-> FALSE]
    /\ offset = 0
    /\ pending = <<>>
    /\ parts = <<>>
    /\ chars = 0
    /\ client = "waiting"
    /\ lost = 0

clientVars == <<answer, offset, pending, parts, chars, client>>

-----------------------------------------------------------------------------
Continuation(byte, begin) == byte \notin begin

(* The first place at or after from that is not inside a character.        *)
Skip(bytes, from, begin) ==
    CHOOSE k \in from..Len(bytes) :
       /\ k < Len(bytes) => ~Continuation(bytes[k + 1], begin)
       /\ \A i \in from..(k - 1) : Continuation(bytes[i + 1], begin)

(* Mutant: cut exactly at the limit, inside a character.                   *)
CutAtLimit(bytes, begin) ==
    IF Len(bytes) > output_limit THEN Len(bytes) - output_limit ELSE 0

(* remove, advanced past continuation bytes to the next character.         *)
CutAt(bytes, begin) ==
    Skip(bytes, IF Len(bytes) > output_limit THEN Len(bytes) - output_limit ELSE 0, begin)

Grown(w, new, begin) ==
    LET bytes  == w.output \o new
        kept   == SubSeq(bytes, CutAt(bytes, begin) + 1, Len(bytes))
        length == w.output_offset + Len(new)
    IN [output |-> kept, output_offset |-> length, truncated_before |-> length - Len(kept)]

(* The characters of a chunk: they begin where the stream ended, each is   *)
(* as wide as a character may be, and the last one ends at to.             *)
Chunk(from, to, begins) ==
    /\ from \in begins
    /\ Cardinality(begins) <= MaxChunk
    /\ \A p \in begins : \E w \in Widths :
          /\ p + w \in begins \cup {to}
          /\ \A q \in begins : q <= p \/ p + w <= q

(* _append_output with a chunk of whole characters, and its write.  When   *)
(* _persist raises in the reader the file may have been replaced already.  *)
AppendOutput(to, begins) ==
    LET from  == window.output_offset
        bytes == [i \in 1..(to - from) |-> from + i - 1]
        grown == Grown(window, bytes, starts \cup begins)
    IN /\ reading /\ Chunk(from, to, begins)
       /\ starts' = starts \cup begins
       /\ window' = grown
       /\ \/ saved' = grown /\ UNCHANGED <<reading, lost>>
          \/ /\ lost < MaxLost
             /\ lost' = lost + 1
             /\ reading' = FALSE
             /\ saved' \in {saved, grown}
       /\ UNCHANGED <<status, answer, offset, pending, parts, chars, client>>

(* _finish writes the file too; the reader may still deliver what it has.  *)
JobFinishes ==
    /\ status = "running"
    /\ status' = "terminal"
    /\ \/ saved' = window /\ UNCHANGED lost
       \/ lost < MaxLost /\ lost' = lost + 1 /\ saved' \in {saved, window}
    /\ UNCHANGED <<window, starts, reading>>
    /\ UNCHANGED clientVars

(* The agent restarts and loads the file: the job failed, no reader.  (A   *)
(* file too large or unreadable is skipped, LoadSkips of JobRunner: then   *)
(* there is no job to poll, and no window.)                                *)
AgentRestarts ==
    /\ window' = saved
    /\ status' = "terminal"
    /\ reading' = FALSE
    /\ UNCHANGED <<starts, saved, lost>>
    /\ UNCHANGED clientVars

-----------------------------------------------------------------------------
(* Mutant: the snapshot repeats everything retained, whatever was asked.   *)
SnapshotAll(requested_offset) ==
    [output |-> window.output, output_offset |-> window.output_offset,
     truncated_before |-> window.truncated_before, terminal |-> status = "terminal"]

(* get: retained bytes at or after the offset, from a character's start.   *)
Snapshot(requested_offset) ==
    LET requested == Max({requested_offset, window.truncated_before})
        index == requested - window.truncated_before
        skip  == Skip(window.output, index, starts)
    IN [output |-> SubSeq(window.output, skip + 1, Len(window.output)),
        output_offset |-> window.output_offset,
        truncated_before |-> requested + (skip - index),
        terminal |-> status = "terminal"]

(* job.get: the agent refuses an offset beyond what it has.                *)
PollOutput ==
    /\ client = "polling"
    /\ \/ /\ offset <= window.output_offset
          /\ answer' = Snapshot(offset)
          /\ client' = "waiting"
       \/ /\ offset > window.output_offset
          /\ client' = "failed"
          /\ UNCHANGED answer
    /\ UNCHANGED <<offset, pending, parts, chars>>
    /\ UNCHANGED <<window, status, starts, saved, reading, lost>>

(* _validate_job_snapshot; decoding needs the first byte to begin a        *)
(* character.                                                              *)
Valid(snapshot) ==
    /\ snapshot.output_offset = snapshot.truncated_before + Len(snapshot.output)
    /\ snapshot.output # <<>> => snapshot.output[1] \in starts

(* Decoding reads one byte after the other.                                *)
Text(snapshot) ==
    LET bytes == snapshot.output
        read[i \in 0..Len(bytes)] ==
            IF i = 0 THEN <<>>
            ELSE IF bytes[i] \in starts THEN Append(read[i - 1], bytes[i])
            ELSE read[i - 1]
    IN read[Len(bytes)]

(* OperationExecutor._append_output on <<parts, chars>>.                   *)
Bounded(collected, chunk) ==
    LET room == MAX_CHARS - collected.chars
        kept == IF room <= 0 THEN <<>> ELSE SubSeq(chunk, 1, Min({room, Len(chunk)}))
    IN [parts |-> collected.parts \o kept, chars |-> collected.chars + Len(kept)]

Marked(collected) ==
    [parts |-> Append(collected.parts, Marker),
     chars |-> collected.chars + Min({MARKER_CHARS, MAX_CHARS - collected.chars})]

(* Mutant: a gap leaves no marker.                                         *)
NeverTruncated(snapshot) == FALSE

Truncated(snapshot) == snapshot.truncated_before > offset /\ chars < MAX_CHARS

(* Mutant: a terminal snapshot does not flush the redactor.                *)
EmitPrefix(fed, hold) == Len(fed) - hold

Emit(fed, hold) == IF answer.terminal THEN Len(fed) ELSE Len(fed) - hold

(***************************************************************************)
(* _consume_output.  At a gap what the redactor held is flushed, a marker  *)
(* follows and a new redactor starts.  feed emits a prefix of what it has  *)
(* and holds the rest back (a possible secret); a terminal snapshot        *)
(* flushes it.                                                             *)
(***************************************************************************)
ConsumeOutput ==
    LET collected == [parts |-> parts, chars |-> chars]
        flushed == Bounded(collected, pending)
        before  == IF ~Truncated(answer) THEN collected
                   ELSE IF flushed.chars < MAX_CHARS THEN Marked(flushed)
                   ELSE flushed
        fed     == (IF Truncated(answer) THEN <<>> ELSE pending) \o Text(answer)
    IN \E hold \in 0..Len(fed) :
          LET emit == Emit(fed, hold)
              after == Bounded(before, SubSeq(fed, 1, emit))
          IN /\ pending' = SubSeq(fed, emit + 1, Len(fed))
             /\ parts' = after.parts
             /\ chars' = after.chars
             /\ offset' = answer.output_offset
             /\ client' = IF answer.terminal THEN "done" ELSE "polling"

(* A snapshot that is not valid, or older than what was read, ends the     *)
(* step with "Agent job response is invalid" or "... offset is invalid".   *)
Receive ==
    /\ client = "waiting"
    /\ IF Valid(answer) /\ answer.truncated_before >= offset
       THEN ConsumeOutput
       ELSE client' = "failed" /\ UNCHANGED <<offset, pending, parts, chars>>
    /\ UNCHANGED <<answer, window, status, starts, saved, reading, lost>>

WindowNext ==
    \/ \E to \in (window.output_offset + 1)..MaxBytes :
          \E begins \in SUBSET (window.output_offset..(to - 1)) : AppendOutput(to, begins)
    \/ JobFinishes
    \/ AgentRestarts
    \/ PollOutput
    \/ Receive

WindowSpec == WindowInit /\ [][WindowNext]_windowVars
-----------------------------------------------------------------------------
Suffix(w) ==
    /\ Len(w.output) <= output_limit
    /\ w.output_offset = w.truncated_before + Len(w.output)
    /\ \A i \in 1..Len(w.output) : w.output[i] = w.truncated_before + i - 1
    /\ w.output # <<>> => w.output[1] \in starts

(***************************************************************************)
(* Offsets tell the truth: in memory and in the file, truncated_before is  *)
(* the position of the first retained byte, which begins a character, and  *)
(* at most output_limit bytes are retained.                                *)
(***************************************************************************)
WindowIsSuffix == Suffix(window) /\ Suffix(saved)

Characters(from, to) == {p \in starts : from < p /\ p < to}

Successive(p, q) == p < q /\ Characters(p, q) = {}

Linked(all) ==
    \A i \in 1..(Len(all) - 1) :
       /\ all[i] # Marker /\ all[i + 1] # Marker => Successive(all[i], all[i + 1])
       /\ all[i + 1] = Marker => all[i] # Marker
       /\ all[i + 1] = Marker /\ i + 2 <= Len(all) =>
             all[i] < all[i + 2] /\ Characters(all[i], all[i + 2]) # {}

BeforeStream == -2      \* a character before the stream

(***************************************************************************)
(* Polling neither repeats nor silently drops output: the collected        *)
(* characters are in stream order from the first one, and any that are     *)
(* missing between two of them are missing at a truncation marker, which   *)
(* stands nowhere else.                                                    *)
(***************************************************************************)
NoSilentGap == Linked(<<BeforeStream>> \o parts)

(***************************************************************************)
(* A finished step has everything: unless the character limit cut it, the  *)
(* collected output ends with the last character the terminal snapshot     *)
(* covers.                                                                 *)
(***************************************************************************)
DoneHasTail ==
    client = "done" /\ chars < MAX_CHARS /\ Characters(-1, offset) # {} =>
        parts # <<>> /\ Characters(Last(parts), offset) = {}

(***************************************************************************)
(* The executor never gives up on an honest agent: it rejects a snapshot,  *)
(* or has its offset rejected, only when the agent lost a write.           *)
(***************************************************************************)
FailsOnlyAfterLostWrite == client = "failed" => lost > 0
-----------------------------------------------------------------------------
(* The inductive invariant behind these properties.                        *)
Retained == [output : Seq(Int), output_offset : Nat, truncated_before : Nat]

WindowTypes ==
    /\ window \in Retained /\ saved \in Retained
    /\ starts \in SUBSET Nat
    /\ reading \in BOOLEAN
    /\ answer \in [output : Seq(Int), output_offset : Nat, truncated_before : Nat,
                   terminal : BOOLEAN]
    /\ client \in {"polling", "waiting", "done", "failed"}
    /\ offset \in Nat /\ pending \in Seq(Int) /\ parts \in Seq(Int)
    /\ chars \in Nat /\ lost \in Nat

(* Characters are whole: a position where output ends is one where the     *)
(* next character begins, or will.                                         *)
Edge(p) ==
    \/ p \in starts
    \/ /\ \A q \in starts : q < p
       /\ window.output_offset <= p /\ saved.output_offset <= p
       /\ reading => p = window.output_offset

(* What the agent holds, in memory or in its file.                         *)
RetainedInv(w) ==
    /\ Suffix(w)
    /\ Edge(w.output_offset)
    /\ w.output_offset > 0 => w.output # <<>>

AgentInv ==
    /\ RetainedInv(window) /\ RetainedInv(saved)
    /\ lost = 0 => saved = window
    /\ reading => \A p \in starts : p < window.output_offset

(* The snapshot on its way starts where the executor stopped, or behind a  *)
(* gap that has swallowed a character.                                     *)
AnswerInv ==
    client = "waiting" =>
        /\ Valid(answer)
        /\ \A i \in 1..Len(answer.output) : answer.output[i] = answer.truncated_before + i - 1
        /\ Edge(answer.output_offset)
        /\ reading \/ lost = 0 => answer.output_offset <= window.output_offset
        /\ answer.truncated_before >= offset
        /\ answer.truncated_before > offset => answer.output # <<>> /\ offset \in starts

(* What has been read ends just before the executor's offset.              *)
UpTo(all, to) ==
    /\ Last(all) # Marker /\ Last(all) < to
    /\ Characters(Last(all), to) = {}

CollectedInv ==
    /\ \A i \in 1..Len(parts) : parts[i] < offset
    /\ NoSilentGap
    /\ chars < MAX_CHARS =>
          LET all == <<BeforeStream>> \o parts \o pending
          IN Linked(all) /\ UpTo(all, offset) /\ \A i \in 1..Len(all) : all[i] < offset

ClientInv ==
    /\ Edge(offset)
    /\ reading \/ lost = 0 => offset <= window.output_offset
    /\ FailsOnlyAfterLostWrite
    /\ client = "done" /\ chars < MAX_CHARS => pending = <<>>

WindowInv == WindowTypes /\ AgentInv /\ AnswerInv /\ ClientInv /\ CollectedInv
=============================================================================
