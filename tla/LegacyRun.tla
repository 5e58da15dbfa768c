------------------------------- MODULE LegacyRun -------------------------------
(***************************************************************************)
(* One recipe run by the Winetricks compatibility host (run_legacy_recipe, *)
(* forward_process_output and record_process_output in operation.rs).  The *)
(* child writes lines into two pipes; a reader task for each stream sends  *)
(* them through one bounded channel to the operation, which records them,  *)
(* looks at its cancellation, and polls the child.  A descendant of the    *)
(* child may keep the pipes open after the child has ended.                *)
(*                                                                         *)
(* LeaveUnread and SendAtOnce are faulty variants of the definition they   *)
(* precede.                                                                *)
(***************************************************************************)
EXTENDS Naturals, Sequences, SequencesExt

CONSTANTS
  Streams,     \* stdout and stderr
  Lines,       \* bound on the lines written to one stream
  Blank,       \* lines that hold nothing but white space
  PipeCap,     \* what a pipe holds (64 KiB)
  ChannelCap,  \* what the channel holds (128 lines)
  LiveLines,   \* lines shown while the recipe runs (200)
  TailLines    \* lines kept for the report of a failure (8)

ASSUME RunAssumption ==
  /\ {Lines, ChannelCap, LiveLines} \subseteq Nat
  /\ TailLines \in Nat \ {0}

VARIABLES
  child,       \* "running", "succeeded", "failed" or "killed"
  helper,      \* its descendant: "none", "holds" the pipes or "gone"
  written,     \* lines written to each stream
  readUpTo,    \* lines each reader has read
  hand,        \* streams whose reader has a line that is not yet sent
  reader,      \* each reader: "reading", "done", "broken" or "stopped"
  channel,     \* lines on their way
  open,        \* whether the receiver still exists
  loop,        \* where the operation stands
  flagged,     \* whether it is cancelled
  timedOut,    \* whether it stopped collecting
  recorded,    \* every line it has recorded
  emitted, suppressed, tail

process == <<child, helper, written>>
readers == <<readUpTo, hand, reader>>
record  == <<recorded, emitted, suppressed, tail>>
runVars == <<process, readers, channel, open, loop, flagged, timedOut, record>>

RunInit ==
  /\ child = "running" /\ helper = "none"
  /\ written = [s \in Streams |-> 0]
  /\ readUpTo = [s \in Streams |-> 0] /\ hand = {}
  /\ reader = [s \in Streams |-> "reading"]
  /\ channel = <<>> /\ open = TRUE
  /\ loop = "emptying" /\ flagged = FALSE /\ timedOut = FALSE
  /\ recorded = <<>> /\ emitted = 0 /\ suppressed = 0 /\ tail = <<>>

PipesOpen == child = "running" \/ helper = "holds"

-----------------------------------------------------------------------------
(* The child and its descendant.                                           *)

WriteLine(s) ==
  /\ PipesOpen /\ written[s] < Lines /\ written[s] - readUpTo[s] < PipeCap
  /\ reader[s] = "reading"
  /\ written' = [written EXCEPT ![s] = @ + 1]
  /\ UNCHANGED <<child, helper, readers, channel, open, loop, flagged, timedOut, record>>

Fork ==
  /\ child = "running" /\ helper = "none"
  /\ helper' = "holds"
  /\ UNCHANGED <<child, written, readers, channel, open, loop, flagged, timedOut, record>>

ChildEnds ==
  /\ child = "running"
  /\ child' \in {"succeeded", "failed"}
  /\ UNCHANGED <<helper, written, readers, channel, open, loop, flagged, timedOut, record>>

HelperEnds ==
  /\ helper = "holds"
  /\ helper' = "gone"
  /\ UNCHANGED <<child, written, readers, channel, open, loop, flagged, timedOut, record>>

-----------------------------------------------------------------------------
(* The reader of a stream.                                                 *)

ReadLine(s) ==
  /\ reader[s] = "reading" /\ s \notin hand /\ readUpTo[s] < written[s]
  /\ readUpTo' = [readUpTo EXCEPT ![s] = @ + 1]
  /\ hand' = hand \cup {s}
  /\ UNCHANGED <<process, reader, channel, open, loop, flagged, timedOut, record>>

\* As if the channel had no limit.
SendAtOnce(s) ==
  /\ reader[s] = "reading" /\ s \in hand /\ open
  /\ channel' = Append(channel, <<s, readUpTo[s]>>)
  /\ hand' = hand \ {s}
  /\ UNCHANGED <<process, reader, readUpTo, open, loop, flagged, timedOut, record>>

\* send() waits for room, and fails once the receiver is gone.
SendLine(s) ==
  /\ reader[s] = "reading" /\ s \in hand
  /\ \/ /\ open /\ Len(channel) < ChannelCap
        /\ channel' = Append(channel, <<s, readUpTo[s]>>)
        /\ UNCHANGED reader
     \/ /\ ~open
        /\ reader' = [reader EXCEPT ![s] = "done"]
        /\ UNCHANGED channel
  /\ hand' = hand \ {s}
  /\ UNCHANGED <<process, readUpTo, open, loop, flagged, timedOut, record>>

\* A line that is not UTF-8 is an error, with which the reader ends; whoever
\* writes to the pipe then is told so.
BreakOff(s) ==
  /\ reader[s] = "reading" /\ s \notin hand /\ readUpTo[s] < written[s]
  /\ reader' = [reader EXCEPT ![s] = "broken"]
  /\ UNCHANGED <<process, readUpTo, hand, channel, open, loop, flagged, timedOut, record>>

EndOfFile(s) ==
  /\ reader[s] = "reading" /\ s \notin hand
  /\ readUpTo[s] = written[s] /\ ~PipesOpen
  /\ reader' = [reader EXCEPT ![s] = "done"]
  /\ UNCHANGED <<process, readUpTo, hand, channel, open, loop, flagged, timedOut, record>>

-----------------------------------------------------------------------------
(* The operation.                                                          *)

\* record_process_output() of the first line in the channel.
RecordLine ==
  LET line == Head(channel) IN
  /\ channel # <<>>
  /\ channel' = Tail(channel)
  /\ IF line \in Blank
     THEN UNCHANGED record
     ELSE /\ recorded' = Append(recorded, line)
          /\ tail' = Append(IF Len(tail) = TailLines THEN Tail(tail) ELSE tail, line)
          /\ IF emitted < LiveLines
             THEN emitted' = emitted + 1 /\ UNCHANGED suppressed
             ELSE suppressed' = suppressed + 1 /\ UNCHANGED emitted

Pass(place) ==
  /\ loop' = place
  /\ UNCHANGED <<helper, written, readers, flagged, timedOut, record>>

\* try_recv() until there is nothing.
TakePending ==
  /\ loop = "emptying" /\ RecordLine
  /\ UNCHANGED <<process, readers, open, loop, flagged, timedOut>>

NothingPending ==
  /\ loop = "emptying" /\ channel = <<>>
  /\ Pass("checking") /\ UNCHANGED <<child, channel, open>>

LookAtFlag ==
  /\ loop = "checking"
  /\ IF flagged
     THEN /\ child' = IF child = "running" THEN "killed" ELSE child
          /\ Pass("reaping")
     ELSE Pass("polling") /\ UNCHANGED child
  /\ UNCHANGED <<channel, open>>

\* The run returns Cancelled: its receiver goes, its readers stay by themselves.
Reap ==
  /\ loop = "reaping" /\ child # "running"
  /\ Pass("cancelled")
  /\ open' = FALSE /\ channel' = <<>>
  /\ UNCHANGED child

LeaveUnread ==
  /\ loop = "polling"
  /\ Pass(IF child = "running" THEN "waiting" ELSE "joining")
  /\ UNCHANGED <<child, channel, open>>

Poll ==
  /\ loop = "polling"
  /\ Pass(IF child = "running" THEN "waiting" ELSE "collecting")
  /\ UNCHANGED <<child, channel, open>>

\* select!: a line, or 100 ms.
AwaitLine ==
  /\ loop = "waiting"
  /\ RecordLine \/ UNCHANGED <<channel, record>>
  /\ loop' = "emptying"
  /\ UNCHANGED <<process, readers, open, flagged, timedOut>>

\* The child has ended: what its pipes still hold is collected for one second.
Collect ==
  /\ loop = "collecting" /\ RecordLine
  /\ UNCHANGED <<process, readers, open, loop, flagged, timedOut>>

CollectedAll ==
  /\ loop = "collecting" /\ channel = <<>>
  /\ \A s \in Streams : reader[s] # "reading"
  /\ Pass("joining") /\ UNCHANGED <<child, channel, open>>

StopCollecting ==
  /\ loop = "collecting"
  /\ timedOut' = TRUE
  /\ reader' = [s \in Streams |-> IF reader[s] = "reading" THEN "stopped" ELSE reader[s]]
  /\ hand' = {}
  /\ loop' = "joining"
  /\ UNCHANGED <<process, readUpTo, channel, open, flagged, record>>

\* Both reader tasks are awaited, whatever became of them.
Join ==
  /\ loop = "joining"
  /\ \A s \in Streams : reader[s] # "reading"
  /\ loop' = child
  /\ open' = FALSE /\ channel' = <<>>
  /\ UNCHANGED <<process, readers, flagged, timedOut, record>>

Returned == {"succeeded", "failed", "cancelled"}

CancelRun ==
  /\ loop \notin Returned /\ ~flagged
  /\ flagged' = TRUE
  /\ UNCHANGED <<process, readers, channel, open, loop, timedOut, record>>

Operation ==
  \/ TakePending \/ NothingPending \/ LookAtFlag \/ Reap \/ Poll \/ AwaitLine
  \/ Collect \/ CollectedAll \/ StopCollecting \/ Join

Reader(s) == ReadLine(s) \/ SendLine(s) \/ BreakOff(s) \/ EndOfFile(s)

RunNext ==
  \/ \E s \in Streams : WriteLine(s) \/ Reader(s)
  \/ Fork \/ ChildEnds \/ HelperEnds
  \/ Operation \/ CancelRun

\* The runtime polls every task again.  Nothing is assumed of the child, which
\* may neither write nor end, and nothing of its descendant.
RunFairness == WF_runVars(Operation) /\ \A s \in Streams : WF_runVars(Reader(s))

RunSpec == RunInit /\ [][RunNext]_runVars
FairRunSpec == RunSpec /\ RunFairness

-----------------------------------------------------------------------------
(* Properties.                                                             *)

RunTypeOK ==
  /\ child \in {"running", "succeeded", "failed", "killed"}
  /\ helper \in {"none", "holds", "gone"}
  /\ written \in [Streams -> 0 .. Lines] /\ readUpTo \in [Streams -> 0 .. Lines]
  /\ hand \subseteq Streams
  /\ reader \in [Streams -> {"reading", "done", "broken", "stopped"}]
  /\ channel \in Seq(Streams \X (1 .. Lines)) /\ Len(channel) <= ChannelCap
  /\ open \in BOOLEAN /\ flagged \in BOOLEAN /\ timedOut \in BOOLEAN
  /\ loop \in {"emptying", "checking", "reaping", "polling", "waiting", "collecting",
               "joining"} \cup Returned
  /\ recorded \in Seq(Streams \X (1 .. Lines))

\* How many lines of a stream its reader has passed on.
Sent(s) == IF s \in hand THEN readUpTo[s] - 1 ELSE readUpTo[s]

\* The lines of a stream among some lines, and the first n but the blank ones.
Of(s, lines) == {line \in ToSet(lines) : line[1] = s}
First(s, n) == {<<s, k>> : k \in 1 .. n} \ Blank

\* The lines of each stream have the order in which they were written, each once.
InOrder(lines) ==
  \A i, k \in DOMAIN lines : i < k /\ lines[i][1] = lines[k][1] => lines[i][2] < lines[k][2]

\* Lines are recorded once and in order.  Until the run gives up collecting, what was
\* read of a stream is recorded, in the channel or in its reader's hand; a run that
\* concludes with the child's status without having given up has recorded everything
\* that was ever written to a readable stream, by the child or a descendant; and each
\* recorded line was shown or counted as omitted, with the last ones kept for the
\* error (operation.rs 477-562, 1208-1262).
OutputIsAccountedFor ==
  /\ InOrder(recorded \o channel)
  /\ open /\ ~timedOut => \A s \in Streams :
       Of(s, recorded) \cup (Of(s, channel) \ Blank) = First(s, Sent(s))
  /\ loop \in {"succeeded", "failed"} /\ ~timedOut => \A s \in Streams :
       reader[s] = "broken" \/ Of(s, recorded) = First(s, written[s])
  /\ emitted + suppressed = Len(recorded) /\ emitted <= LiveLines
  /\ Len(tail) = IF Len(recorded) < TailLines THEN Len(recorded) ELSE TailLines
  /\ \A i \in DOMAIN tail : tail[i] = recorded[Len(recorded) - Len(tail) + i]

\* The run returns when the child has ended, though a descendant keeps the pipes
\* open for ever, and when it is cancelled, though the child neither ends nor
\* reads or writes; and its readers do not outlive the pipes.
RunEnds ==
  child # "running" \/ flagged ~>
    /\ loop \in Returned
    /\ helper # "holds" => \A s \in Streams : reader[s] # "reading"

=============================================================================
