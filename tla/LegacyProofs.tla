------------------------------ MODULE LegacyProofs ------------------------------
(***************************************************************************)
(* What holds of the Winetricks compatibility host: of the choice of a     *)
(* Winetricks for any number of runs, installations and versions, and any  *)
(* bound on what others do; and of a run of it for any number of streams   *)
(* and lines and any limits on pipes, channel and log.                     *)
(***************************************************************************)
EXTENDS LegacyHost, LegacyRun, TLAPS

-----------------------------------------------------------------------------
(* The choice of a Winetricks.                                             *)

\* The staging file of a call is as far as the call is.
Staged(i) ==
  /\ call[i] = "runnable" => staged[i] = Managed
  /\ staged[i] # Missing => call[i] \in {"staged", "runnable", "gone"}

\* What a run's preflight saw is still so, unless others changed something, and
\* what ran was what it saw.
Chosen(r) ==
  r \notin unsettled =>
    /\ run[r] = "checked" => BinaryFor(baseline[r]) = baseline[r]
    /\ run[r] = "ran" => executed[r] = baseline[r]

HostInv ==
  /\ HostTypeOK
  /\ host # NotRunnable
  /\ \A i \in Installs : Staged(i)
  /\ \A r \in Runs : Chosen(r)

\* Nothing is staged, and no run has chosen, at first.
LEMMA InitHost == HostInit => HostInv
BY HostAssumption DEF HostInit, HostInv, HostTypeOK, Staged, Chosen

\* Neither an installation nor a run that goes on disturbs the choice of a run.
LEMMA HostStep == HostInv /\ [HostNext]_hostVars => HostInv'
<1> SUFFICES ASSUME HostInv, [HostNext]_hostVars
             PROVE  HostInv'
  OBVIOUS
<1> USE HostAssumption
    DEF HostInv, HostTypeOK, Staged, Chosen, BinaryFor, binaries, calls, runs, others,
        CallGoto, RunGoto
<1>1. ASSUME NEW i \in Installs, BeginInstall(i) PROVE HostInv'
  BY <1>1 DEF BeginInstall
<1>2. ASSUME NEW i \in Installs, RefuseDownload(i) PROVE HostInv'
  BY <1>2 DEF RefuseDownload
<1>3. ASSUME NEW i \in Installs, Stage(i) PROVE HostInv'
  BY <1>3 DEF Stage
<1>4. ASSUME NEW i \in Installs, SetMode(i) PROVE HostInv'
  BY <1>4 DEF SetMode
<1>5. ASSUME NEW i \in Installs, PublishHost(i) PROVE HostInv'
  BY <1>5 DEF PublishHost
<1>6. ASSUME NEW i \in Installs, AbortInstall(i) PROVE HostInv'
  BY <1>6 DEF AbortInstall
<1>7. ASSUME NEW i \in Installs, AskInstalled(i) PROVE HostInv'
  BY <1>7 DEF AskInstalled
<1>8. ASSUME NEW i \in Installs, ExitInstall(i) PROVE HostInv'
  BY <1>8 DEF ExitInstall
<1>9. ASSUME NEW r \in Runs, Preflight(r) PROVE HostInv'
  BY <1>9 DEF Preflight
<1>10. ASSUME NEW r \in Runs, Execute(r) PROVE HostInv'
  BY <1>10 DEF Execute, Unusable
<1>11. ASSUME ReplaceBinary PROVE HostInv'
  BY <1>11 DEF ReplaceBinary
<1>12. ASSUME UNCHANGED hostVars PROVE HostInv'
  BY <1>12 DEF hostVars
<1> QED
  BY <1>1, <1>2, <1>3, <1>4, <1>5, <1>6, <1>7, <1>8, <1>9, <1>10, <1>11, <1>12 DEF HostNext

\* However many calls install the managed host while recipes run, a recipe is run
\* by the version that its preflight saw, and nobody finds a host half installed.
THEOREM BaselinesAreKept == HostSpec => []BaselineRuns
<1>1. HostInv => BaselineRuns
  BY DEF HostInv, Staged, Chosen, BaselineRuns
<1> QED
  BY InitHost, HostStep, <1>1, PTL DEF HostSpec

-----------------------------------------------------------------------------
(* The inductive invariant of a run.                                       *)

Line == Streams \X (1 .. Lines)

RunTypes ==
  /\ RunTypeOK
  /\ tail \in Seq(Line) /\ emitted \in Nat /\ suppressed \in Nat

\* The operation collects once the child has ended by itself, and joins readers that
\* have ended; the receiver is there until it returns.
Conduct ==
  /\ child = "killed" => loop \in {"reaping", "cancelled"}
  /\ loop \in {"collecting", "joining", "succeeded", "failed"} => child \in {"succeeded", "failed"}
  /\ open <=> loop \notin Returned
  /\ ~open => channel = <<>>
  /\ timedOut => loop \in {"joining"} \cup Returned
  /\ loop \in {"joining", "succeeded", "failed"} => \A s \in Streams : reader[s] # "reading"
  /\ loop = "joining" /\ ~timedOut => channel = <<>>

\* A reader has a line in its hand only while it reads, and is done once everything
\* was read that will ever be written.
Reading(s) ==
  /\ readUpTo[s] <= written[s]
  /\ s \in hand => reader[s] = "reading" /\ readUpTo[s] > 0
  /\ reader[s] = "stopped" => timedOut
  /\ reader[s] = "done" /\ open => readUpTo[s] = written[s] /\ ~PipesOpen

RunInv == RunTypes /\ Conduct /\ \A s \in Streams : Reading(s)

\* What is recorded was sent before what is in the channel, and that before what its
\* reader has in its hand.
Ordered ==
  /\ InOrder(recorded) /\ InOrder(channel)
  /\ \A x \in ToSet(recorded), y \in ToSet(channel) : x[1] = y[1] => x[2] < y[2]
  /\ \A line \in ToSet(recorded) : line \notin Blank /\ line[2] <= Sent(line[1])
  /\ \A line \in ToSet(channel) : line[2] <= Sent(line[1])

\* Nothing that was sent is missing.
NothingMissing ==
  /\ open /\ ~timedOut => \A s \in Streams : \A n \in 1 .. Sent(s) :
       <<s, n>> \in Blank \cup ToSet(recorded) \cup ToSet(channel)
  /\ loop \in {"succeeded", "failed"} /\ ~timedOut => \A s \in Streams :
       reader[s] = "broken" \/ \A n \in 1 .. written[s] : <<s, n>> \in Blank \cup ToSet(recorded)

\* The tail is the end of what is recorded.
Counted ==
  /\ emitted + suppressed = Len(recorded) /\ emitted <= LiveLines
  /\ Len(tail) = IF Len(recorded) < TailLines THEN Len(recorded) ELSE TailLines
  /\ \A i \in DOMAIN tail : tail[i] = recorded[Len(recorded) - Len(tail) + i]

RunInvariant == RunInv /\ Ordered /\ NothingMissing /\ Counted

-----------------------------------------------------------------------------
(* Sequences of lines.                                                     *)

LEMMA SetOfAppend ==
  ASSUME NEW S, NEW seq \in Seq(S), NEW x \in S
  PROVE  Append(seq, x) \in Seq(S) /\ ToSet(Append(seq, x)) = ToSet(seq) \cup {x}
<1>1. /\ DOMAIN Append(seq, x) = 1 .. Len(seq) + 1
      /\ Append(seq, x)[Len(seq) + 1] = x
      /\ \A i \in 1 .. Len(seq) : Append(seq, x)[i] = seq[i]
  OBVIOUS
<1> QED
  BY <1>1 DEF ToSet

LEMMA SetOfLines ==
  ASSUME NEW S, NEW seq \in Seq(S)
  PROVE  ToSet(seq) \subseteq S
BY DEF ToSet

LEMMA SetOfTail ==
  ASSUME NEW S, NEW seq \in Seq(S), seq # <<>>
  PROVE  /\ Head(seq) \in S /\ Tail(seq) \in Seq(S) /\ Len(Tail(seq)) = Len(seq) - 1
         /\ ToSet(seq) = {Head(seq)} \cup ToSet(Tail(seq))
<1>1. /\ Len(seq) \in Nat \ {0} /\ Len(Tail(seq)) = Len(seq) - 1
      /\ Head(seq) = seq[1] /\ DOMAIN Tail(seq) = 1 .. Len(Tail(seq))
      /\ \A i \in 1 .. Len(Tail(seq)) : Tail(seq)[i] = seq[i + 1]
  OBVIOUS
<1>2. ToSet(Tail(seq)) \subseteq ToSet(seq)
  BY <1>1 DEF ToSet
<1>3. ASSUME NEW i \in 1 .. Len(seq) PROVE seq[i] \in {Head(seq)} \cup ToSet(Tail(seq))
  <2>1. CASE i = 1
    BY <1>1, <2>1
  <2>2. CASE i # 1
    <3>1. i - 1 \in DOMAIN Tail(seq) /\ seq[i] = Tail(seq)[i - 1]
      BY <1>1, <2>2
    <3>2. Tail(seq)[i - 1] \in ToSet(Tail(seq))
      BY <3>1 DEF ToSet
    <3> QED
      BY <3>1, <3>2
  <2> QED
    BY <2>1, <2>2
<1> QED
  BY <1>1, <1>2, <1>3 DEF ToSet

LEMMA AppendInOrder ==
  ASSUME NEW seq \in Seq(Line), NEW x \in Line, InOrder(seq),
         \A y \in ToSet(seq) : y[1] = x[1] => y[2] < x[2]
  PROVE  InOrder(Append(seq, x))
<1>1. /\ DOMAIN Append(seq, x) = 1 .. Len(seq) + 1
      /\ Append(seq, x)[Len(seq) + 1] = x
      /\ \A i \in 1 .. Len(seq) : Append(seq, x)[i] = seq[i] /\ seq[i] \in ToSet(seq)
  BY DEF ToSet
<1> QED
  BY <1>1 DEF InOrder

LEMMA TailInOrder ==
  ASSUME NEW seq \in Seq(Line), seq # <<>>, InOrder(seq)
  PROVE  /\ InOrder(Tail(seq))
         /\ \A y \in ToSet(Tail(seq)) : Head(seq)[1] = y[1] => Head(seq)[2] < y[2]
<1>1. /\ Len(seq) \in Nat \ {0} /\ Len(Tail(seq)) = Len(seq) - 1
      /\ Head(seq) = seq[1] /\ DOMAIN Tail(seq) = 1 .. Len(seq) - 1
      /\ \A i \in 1 .. Len(seq) - 1 : Tail(seq)[i] = seq[i + 1]
  OBVIOUS
<1> QED
  BY <1>1 DEF InOrder, ToSet

-----------------------------------------------------------------------------
(* Types, and how the operation conducts itself.                           *)

LEMMA Limits ==
  /\ Lines \in Nat /\ ChannelCap \in Nat /\ LiveLines \in Nat
  /\ TailLines \in Nat /\ TailLines > 0
BY RunAssumption

LEMMA NoLines == <<>> \in Seq(Line) /\ Len(<<>>) = 0 /\ ToSet(<<>>) = {} /\ InOrder(<<>>)
BY DEF ToSet, InOrder

\* Nothing has been written at first.
LEMMA InitRun == RunInit => RunInvariant
<1> SUFFICES ASSUME RunInit
             PROVE  RunInvariant
  OBVIOUS
<1> USE Limits, NoLines DEF RunInit
<1>1. RunTypes
  <2>1. /\ channel \in Seq(Line) /\ Len(channel) <= ChannelCap
        /\ recorded \in Seq(Line) /\ tail \in Seq(Line)
    OBVIOUS
  <2>2. /\ written \in [Streams -> 0 .. Lines] /\ readUpTo \in [Streams -> 0 .. Lines]
        /\ hand \subseteq Streams
        /\ reader \in [Streams -> {"reading", "done", "broken", "stopped"}]
    OBVIOUS
  <2>3. RunTypeOK
    BY <2>1, <2>2 DEF RunTypeOK, Line
  <2> QED
    BY <2>1, <2>3 DEF RunTypes
<1>2. Conduct /\ \A s \in Streams : Reading(s)
  BY DEF Conduct, Reading, Returned
<1>3. Ordered
  BY DEF Ordered
<1>4. NothingMissing
  BY DEF NothingMissing, Sent
<1>5. Counted
  BY DEF Counted
<1> QED
  BY <1>1, <1>2, <1>3, <1>4, <1>5 DEF RunInvariant, RunInv

\* Recording moves the first line of the channel to the end of what is recorded, if it
\* is not blank.
LEMMA RecordTypes ==
  ASSUME RunTypes, RecordLine
  PROVE  /\ channel # <<>> /\ Head(channel) \in Line
         /\ channel' \in Seq(Line) /\ Len(channel') <= ChannelCap
         /\ recorded' \in Seq(Line) /\ tail' \in Seq(Line)
         /\ emitted' \in Nat /\ suppressed' \in Nat
<1>1. /\ channel \in Seq(Line) /\ Len(channel) <= ChannelCap /\ recorded \in Seq(Line)
      /\ tail \in Seq(Line) /\ emitted \in Nat /\ suppressed \in Nat
  BY DEF RunTypes, RunTypeOK, Line
<1>2. channel # <<>> /\ channel' = Tail(channel)
  BY DEF RecordLine
<1>3. /\ Head(channel) \in Line /\ Tail(channel) \in Seq(Line)
      /\ Len(Tail(channel)) = Len(channel) - 1
  BY <1>1, <1>2, SetOfTail
<1>4. CASE Head(channel) \in Blank
  BY <1>1, <1>2, <1>3, <1>4, Limits DEF RecordLine, record
<1>5. CASE Head(channel) \notin Blank
  <2>1. recorded' = Append(recorded, Head(channel))
        /\ tail' = Append(IF Len(tail) = TailLines THEN Tail(tail) ELSE tail, Head(channel))
        /\ (emitted' = emitted \/ emitted' = emitted + 1)
        /\ (suppressed' = suppressed \/ suppressed' = suppressed + 1)
    BY <1>5 DEF RecordLine
  <2>2. (IF Len(tail) = TailLines THEN Tail(tail) ELSE tail) \in Seq(Line)
    <3>1. Len(tail) = TailLines => tail # <<>>
      BY Limits
    <3> QED
      BY <1>1, <3>1, SetOfTail
  <2>3. recorded' \in Seq(Line) /\ tail' \in Seq(Line)
    BY <1>1, <1>3, <2>1, <2>2, SetOfAppend
  <2>4. emitted' \in Nat /\ suppressed' \in Nat
    BY <1>1, <2>1
  <2> QED
    BY <1>1, <1>2, <1>3, <2>3, <2>4, Limits
<1> QED
  BY <1>4, <1>5

\* Each step keeps the types.
LEMMA RunTypesStep == RunInv /\ [RunNext]_runVars => RunTypes'
<1> SUFFICES ASSUME RunInv, [RunNext]_runVars
             PROVE  RunTypes'
  OBVIOUS
<1> USE Limits
    DEF RunInv, RunTypes, RunTypeOK, Line, Returned
<1>1. ASSUME NEW s \in Streams, WriteLine(s) PROVE RunTypes'
  BY <1>1 DEF WriteLine, PipesOpen, readers, record
<1>2. ASSUME NEW s \in Streams, ReadLine(s) PROVE RunTypes'
  BY <1>2 DEF ReadLine, process, record
<1>3. ASSUME NEW s \in Streams, SendLine(s) PROVE RunTypes'
  <2>1. <<s, readUpTo[s]>> \in Line
    BY <1>3 DEF SendLine, Reading
  <2>2. /\ channel' \in Seq(Line) /\ Len(channel') <= ChannelCap
    <3>1. CASE channel' = channel
      BY <3>1
    <3>2. CASE channel' = Append(channel, <<s, readUpTo[s]>>) /\ Len(channel) < ChannelCap
      <4>1. Len(channel') = Len(channel) + 1
        BY <2>1, <3>2
      <4> QED
        BY <2>1, <3>2, <4>1, SetOfAppend
    <3> QED
      BY <1>3, <3>1, <3>2 DEF SendLine
  <2>3. /\ reader' \in [Streams -> {"reading", "done", "broken", "stopped"}]
        /\ UNCHANGED <<process, readUpTo, open, loop, flagged, timedOut, record>>
    BY <1>3 DEF SendLine
  <2>4. hand' \subseteq Streams
    BY <1>3 DEF SendLine
  <2> QED
    BY <2>2, <2>3, <2>4 DEF process, record
<1>4. ASSUME NEW s \in Streams, BreakOff(s) PROVE RunTypes'
  BY <1>4 DEF BreakOff, process, record
<1>5. ASSUME NEW s \in Streams, EndOfFile(s) PROVE RunTypes'
  BY <1>5 DEF EndOfFile, PipesOpen, process, record
<1>6. ASSUME Fork PROVE RunTypes'
  BY <1>6 DEF Fork, readers, record
<1>7. ASSUME ChildEnds PROVE RunTypes'
  BY <1>7 DEF ChildEnds, readers, record
<1>8. ASSUME HelperEnds PROVE RunTypes'
  BY <1>8 DEF HelperEnds, readers, record
<1>9. ASSUME TakePending PROVE RunTypes'
  BY <1>9, RecordTypes DEF TakePending, process, readers
<1>10. ASSUME NothingPending PROVE RunTypes'
  BY <1>10 DEF NothingPending, Pass, readers, record
<1>11. ASSUME LookAtFlag PROVE RunTypes'
  BY <1>11 DEF LookAtFlag, Pass, readers, record
<1>12. ASSUME Reap PROVE RunTypes'
  <2>1. channel' \in Seq(Line) /\ Len(channel') <= ChannelCap
    BY <1>12, NoLines DEF Reap
  <2> QED
    BY <1>12, <2>1 DEF Reap, Pass, readers, record
<1>13. ASSUME Poll PROVE RunTypes'
  BY <1>13 DEF Poll, Pass, readers, record
<1>14. ASSUME AwaitLine PROVE RunTypes'
  BY <1>14, RecordTypes DEF AwaitLine, record, process, readers
<1>15. ASSUME Collect PROVE RunTypes'
  BY <1>15, RecordTypes DEF Collect, process, readers
<1>16. ASSUME CollectedAll PROVE RunTypes'
  BY <1>16 DEF CollectedAll, Pass, readers, record
<1>17. ASSUME StopCollecting PROVE RunTypes'
  BY <1>17 DEF StopCollecting, process, record
<1>18. ASSUME Join PROVE RunTypes'
  <2>1. channel' \in Seq(Line) /\ Len(channel') <= ChannelCap
    BY <1>18, NoLines DEF Join
  <2> QED
    BY <1>18, <2>1 DEF Join, Conduct, process, readers, record
<1>19. ASSUME CancelRun PROVE RunTypes'
  BY <1>19 DEF CancelRun, process, readers, record
<1>20. ASSUME UNCHANGED runVars PROVE RunTypes'
  BY <1>20 DEF runVars, process, readers, record
<1> QED
  BY <1>1, <1>2, <1>3, <1>4, <1>5, <1>6, <1>7, <1>8, <1>9, <1>10, <1>11, <1>12, <1>13,
     <1>14, <1>15, <1>16, <1>17, <1>18, <1>19, <1>20 DEF RunNext, Reader, Operation

\* The operation goes on to join only what has ended.
LEMMA ConductStep == RunInv /\ [RunNext]_runVars => Conduct'
<1> SUFFICES ASSUME RunInv, [RunNext]_runVars
             PROVE  Conduct'
  OBVIOUS
<1> USE Limits
    DEF RunInv, RunTypes, RunTypeOK, Conduct, Returned
<1>1. ASSUME NEW s \in Streams, WriteLine(s) PROVE Conduct'
  BY <1>1 DEF WriteLine, PipesOpen, readers, record
<1>2. ASSUME NEW s \in Streams, ReadLine(s) PROVE Conduct'
  BY <1>2 DEF ReadLine, process, record
<1>3. ASSUME NEW s \in Streams, SendLine(s) PROVE Conduct'
  BY <1>3 DEF SendLine, process, record
<1>4. ASSUME NEW s \in Streams, BreakOff(s) PROVE Conduct'
  BY <1>4 DEF BreakOff, process, record
<1>5. ASSUME NEW s \in Streams, EndOfFile(s) PROVE Conduct'
  BY <1>5 DEF EndOfFile, PipesOpen, process, record
<1>6. ASSUME Fork PROVE Conduct'
  BY <1>6 DEF Fork, readers, record
<1>7. ASSUME ChildEnds PROVE Conduct'
  BY <1>7 DEF ChildEnds, readers, record
<1>8. ASSUME HelperEnds PROVE Conduct'
  BY <1>8 DEF HelperEnds, readers, record
<1>9. ASSUME TakePending PROVE Conduct'
  <2>1. open /\ channel' = Tail(channel)
    BY <1>9 DEF TakePending, RecordLine, record
  <2> QED
    BY <1>9, <2>1 DEF TakePending, process, readers, record
<1>10. ASSUME NothingPending PROVE Conduct'
  BY <1>10 DEF NothingPending, Pass, readers, record
<1>11. ASSUME LookAtFlag PROVE Conduct'
  BY <1>11 DEF LookAtFlag, Pass, readers, record
<1>12. ASSUME Reap PROVE Conduct'
  BY <1>12 DEF Reap, Pass, readers, record
<1>13. ASSUME Poll PROVE Conduct'
  BY <1>13 DEF Poll, Pass, readers, record
<1>14. ASSUME AwaitLine PROVE Conduct'
  <2>1. open
    BY <1>14 DEF AwaitLine
  <2> QED
    BY <1>14, <2>1 DEF AwaitLine, process, readers, record
<1>15. ASSUME Collect PROVE Conduct'
  <2>1. open /\ channel' = Tail(channel)
    BY <1>15 DEF Collect, RecordLine, record
  <2> QED
    BY <1>15, <2>1 DEF Collect, process, readers, record
<1>16. ASSUME CollectedAll PROVE Conduct'
  BY <1>16 DEF CollectedAll, Pass, readers, record
<1>17. ASSUME StopCollecting PROVE Conduct'
  BY <1>17 DEF StopCollecting, process, record
<1>18. ASSUME Join PROVE Conduct'
  BY <1>18 DEF Join, process, readers, record
<1>19. ASSUME CancelRun PROVE Conduct'
  BY <1>19 DEF CancelRun, process, readers, record
<1>20. ASSUME UNCHANGED runVars PROVE Conduct'
  BY <1>20 DEF runVars, process, readers, record
<1> QED
  BY <1>1, <1>2, <1>3, <1>4, <1>5, <1>6, <1>7, <1>8, <1>9, <1>10, <1>11, <1>12, <1>13,
     <1>14, <1>15, <1>16, <1>17, <1>18, <1>19, <1>20 DEF RunNext, Reader, Operation

\* A reader is done when there is nothing left to read.
LEMMA ReadingStep == RunInv /\ [RunNext]_runVars => \A r \in Streams : Reading(r)'
<1> SUFFICES ASSUME RunInv, [RunNext]_runVars
             PROVE  \A r \in Streams : Reading(r)'
  OBVIOUS
<1> USE Limits
    DEF RunInv, RunTypes, RunTypeOK, Reading, PipesOpen
<1>1. ASSUME NEW s \in Streams, WriteLine(s) PROVE \A r \in Streams : Reading(r)'
  BY <1>1 DEF WriteLine, process, readers, record, PipesOpen
<1>2. ASSUME NEW s \in Streams, ReadLine(s) PROVE \A r \in Streams : Reading(r)'
  BY <1>2 DEF ReadLine, process, readers, record
<1>3. ASSUME NEW s \in Streams, SendLine(s) PROVE \A r \in Streams : Reading(r)'
  BY <1>3 DEF SendLine, process, readers, record
<1>4. ASSUME NEW s \in Streams, BreakOff(s) PROVE \A r \in Streams : Reading(r)'
  BY <1>4 DEF BreakOff, process, readers, record
<1>5. ASSUME NEW s \in Streams, EndOfFile(s) PROVE \A r \in Streams : Reading(r)'
  BY <1>5 DEF EndOfFile, process, readers, record, PipesOpen
<1>6. ASSUME Fork PROVE \A r \in Streams : Reading(r)'
  BY <1>6 DEF Fork, process, readers, record
<1>7. ASSUME ChildEnds PROVE \A r \in Streams : Reading(r)'
  BY <1>7 DEF ChildEnds, process, readers, record
<1>8. ASSUME HelperEnds PROVE \A r \in Streams : Reading(r)'
  BY <1>8 DEF HelperEnds, process, readers, record
<1>9. ASSUME TakePending PROVE \A r \in Streams : Reading(r)'
  BY <1>9 DEF TakePending, process, readers, record
<1>10. ASSUME NothingPending PROVE \A r \in Streams : Reading(r)'
  BY <1>10 DEF NothingPending, process, readers, record, Pass
<1>11. ASSUME LookAtFlag PROVE \A r \in Streams : Reading(r)'
  BY <1>11 DEF LookAtFlag, process, readers, record, Pass
<1>12. ASSUME Reap PROVE \A r \in Streams : Reading(r)'
  BY <1>12 DEF Reap, process, readers, record, Pass
<1>13. ASSUME Poll PROVE \A r \in Streams : Reading(r)'
  BY <1>13 DEF Poll, process, readers, record, Pass
<1>14. ASSUME AwaitLine PROVE \A r \in Streams : Reading(r)'
  BY <1>14 DEF AwaitLine, process, readers, record
<1>15. ASSUME Collect PROVE \A r \in Streams : Reading(r)'
  BY <1>15 DEF Collect, process, readers, record
<1>16. ASSUME CollectedAll PROVE \A r \in Streams : Reading(r)'
  BY <1>16 DEF CollectedAll, process, readers, record, Pass
<1>17. ASSUME StopCollecting PROVE \A r \in Streams : Reading(r)'
  BY <1>17 DEF StopCollecting, process, readers, record
<1>18. ASSUME Join PROVE \A r \in Streams : Reading(r)'
  BY <1>18 DEF Join, process, readers, record
<1>19. ASSUME CancelRun PROVE \A r \in Streams : Reading(r)'
  BY <1>19 DEF CancelRun, process, readers, record
<1>20. ASSUME UNCHANGED runVars PROVE \A r \in Streams : Reading(r)'
  BY <1>20 DEF runVars, process, readers, record
<1> QED
  BY <1>1, <1>2, <1>3, <1>4, <1>5, <1>6, <1>7, <1>8, <1>9, <1>10, <1>11, <1>12, <1>13,
     <1>14, <1>15, <1>16, <1>17, <1>18, <1>19, <1>20 DEF RunNext, Reader, Operation

-----------------------------------------------------------------------------
(* Order.                                                                  *)

\* Recording changes neither the order nor what is ahead of what.
LEMMA RecordOrdered ==
  ASSUME RunTypes, Ordered, RecordLine, UNCHANGED <<readUpTo, hand>>
  PROVE  /\ Ordered'
         /\ \A line \in (ToSet(recorded) \cup ToSet(channel)) \ Blank :
              line \in ToSet(recorded') \cup ToSet(channel')
<1> DEFINE head == Head(channel)
<1>1. channel # <<>> /\ channel' = Tail(channel)
  BY DEF RecordLine
<1>2. channel \in Seq(Line) /\ recorded \in Seq(Line)
  BY DEF RunTypes, RunTypeOK, Line
<1>3. head \in Line /\ ToSet(channel) = {head} \cup ToSet(channel')
  BY <1>1, <1>2, SetOfTail
<1>4. InOrder(channel') /\ \A y \in ToSet(channel') : head[1] = y[1] => head[2] < y[2]
  BY <1>1, <1>2, TailInOrder DEF Ordered
<1>5. \A s : Sent(s)' = Sent(s)
  BY DEF Sent
<1>6. CASE head \in Blank
  <2>1. recorded' = recorded
    BY <1>6 DEF RecordLine, record
  <2> QED
    BY <1>3, <1>4, <1>5, <1>6, <2>1 DEF Ordered
<1>7. CASE head \notin Blank
  <2>1. recorded' = Append(recorded, head)
    BY <1>7 DEF RecordLine
  <2>2. ToSet(recorded') = ToSet(recorded) \cup {head}
    BY <1>2, <1>3, <2>1, SetOfAppend
  <2>3. InOrder(recorded')
    BY <1>2, <1>3, <2>1, AppendInOrder DEF Ordered
  <2> HIDE DEF head
  <2> QED
    BY <1>3, <1>4, <1>5, <1>7, <2>2, <2>3 DEF Ordered
<1> QED
  BY <1>6, <1>7

\* Nothing moves when lines are at most read and the limit of what was sent at most grows.
LEMMA OrderedStays ==
  ASSUME RunInv, RunInv', Ordered, recorded' = recorded, channel' \in {channel, <<>>},
         \A s \in Streams : Sent(s) <= Sent(s)'
  PROVE  Ordered'
<1>1. /\ ToSet(recorded) \subseteq Line /\ ToSet(channel) \subseteq Line
  BY SetOfLines DEF RunInv, RunTypes, RunTypeOK, Line
<1>2. \A s \in Streams : Sent(s) \in Int /\ Sent(s)' \in Int
  <2>1. \A s \in Streams : readUpTo[s] \in 0 .. Lines /\ readUpTo'[s] \in 0 .. Lines
    BY DEF RunInv, RunTypes, RunTypeOK
  <2> QED
    BY <2>1, Limits DEF Sent
<1>3. \A line \in Line : line[1] \in Streams /\ line[2] \in Nat
  BY Limits DEF Line
<1> QED
  BY <1>1, <1>2, <1>3, NoLines DEF Ordered

\* Lines leave their reader, the channel and the record in order.
LEMMA OrderedStep == RunInv /\ RunInv' /\ Ordered /\ [RunNext]_runVars => Ordered'
<1> SUFFICES ASSUME RunInv, RunInv', Ordered, [RunNext]_runVars
             PROVE  Ordered'
  OBVIOUS
<1> USE Limits
    DEF RunInv, RunTypes, RunTypeOK
<1>1. ASSUME NEW s \in Streams, WriteLine(s) PROVE Ordered'
  <2>1. \A q \in Streams : Sent(q) <= Sent(q)'
    <3>1. readUpTo' = readUpTo /\ hand' = hand
      BY <1>1 DEF WriteLine, readers
    <3>2. \A q \in Streams : readUpTo[q] \in Int
      OBVIOUS
    <3> QED
      BY <3>1, <3>2 DEF Sent
  <2>2. recorded' = recorded /\ channel' \in {channel, <<>>}
    BY <1>1 DEF WriteLine, record
  <2> QED
    BY <2>1, <2>2, OrderedStays
<1>2. ASSUME NEW s \in Streams, ReadLine(s) PROVE Ordered'
  <2>1. \A q \in Streams : Sent(q) <= Sent(q)'
    BY SMTT(30), <1>2 DEF ReadLine, Sent
  <2>2. recorded' = recorded /\ channel' \in {channel, <<>>}
    BY <1>2 DEF ReadLine, record
  <2> QED
    BY <2>1, <2>2, OrderedStays
<1>3. ASSUME NEW s \in Streams, SendLine(s) PROVE Ordered'
  <2> DEFINE line == <<s, readUpTo[s]>>
  <2>1. line \in Line /\ s \in hand
    BY <1>3 DEF SendLine, Reading, Line
  <2>2. Sent(s) = readUpTo[s] - 1 /\ Sent(s)' = readUpTo[s] /\ recorded' = recorded
        /\ \A q \in Streams \ {s} : Sent(q)' = Sent(q)
    BY <1>3 DEF SendLine, Sent, record
  <2>3. \A q \in Streams : Sent(q) \in Int /\ Sent(q)' \in Int
    <3>1. \A q \in Streams : readUpTo[q] \in 0 .. Lines /\ readUpTo'[q] \in 0 .. Lines
      OBVIOUS
    <3> QED
      BY SMTT(30), <3>1 DEF Sent
  <2>4. \A q \in Streams : Sent(q) <= Sent(q)'
    <3>1. readUpTo[s] \in Int
      OBVIOUS
    <3> HIDE DEF RunInv, RunTypes, RunTypeOK
    <3>2. Sent(s) <= Sent(s)'
      BY <2>2, <3>1
    <3>3. \A q \in Streams \ {s} : Sent(q) <= Sent(q)'
      BY <2>2, <2>3
    <3> QED
      BY <3>2, <3>3
  <2>5. CASE channel' = channel
    BY <2>2, <2>4, <2>5, OrderedStays
  <2>6. CASE channel' = Append(channel, line)
    <3>1. ToSet(channel') = ToSet(channel) \cup {line}
      <4>1. channel \in Seq(Line)
        BY DEF Line
      <4> HIDE DEF RunInv, RunTypes, RunTypeOK, line
      <4> QED
        BY <2>1, <2>6, <4>1, SetOfAppend
    <3>2. \A x \in ToSet(recorded) \cup ToSet(channel) : x \in Line
      BY SetOfLines DEF Line
    <3>3. \A x \in ToSet(recorded) \cup ToSet(channel) : x[1] = s => x[2] < readUpTo[s]
      BY SMTT(30), <2>2, <3>2 DEF Ordered, Line
    <3>4. InOrder(channel')
      BY <2>1, <2>6, <3>3, AppendInOrder DEF Ordered, Line
    <3>5. \A x \in Line : x[1] \in Streams /\ x[2] \in Nat /\ Sent(x[1]) <= Sent(x[1])'
      BY <2>4 DEF Line
    <3>6. readUpTo[s] \in Int /\ line[1] = s /\ line[2] = readUpTo[s]
      OBVIOUS
    <3> HIDE DEF RunInv, RunTypes, RunTypeOK, line
    <3>7. \A x \in ToSet(channel') : x[2] <= Sent(x[1])'
      <4>1. \A x \in ToSet(channel) : x[2] <= Sent(x[1])'
        <5> SUFFICES ASSUME NEW x \in ToSet(channel) PROVE x[2] <= Sent(x[1])'
          OBVIOUS
        <5>1. x[2] <= Sent(x[1])
          BY DEF Ordered
        <5>2. x[2] \in Int /\ Sent(x[1]) \in Int /\ Sent(x[1])' \in Int /\ Sent(x[1]) <= Sent(x[1])'
          BY <2>3, <3>2, <3>5
        <5> QED
          BY <5>1, <5>2
      <4> QED
        BY <2>2, <3>1, <3>6, <4>1
    <3>8. \A x \in ToSet(recorded) : x[2] <= Sent(x[1])'
      <4> SUFFICES ASSUME NEW x \in ToSet(recorded) PROVE x[2] <= Sent(x[1])'
        OBVIOUS
      <4>1. x[2] <= Sent(x[1])
        BY DEF Ordered
      <4>2. x[2] \in Int /\ Sent(x[1]) \in Int /\ Sent(x[1])' \in Int /\ Sent(x[1]) <= Sent(x[1])'
        BY <2>3, <3>2, <3>5
      <4> QED
        BY <4>1, <4>2
    <3>9. \A x \in ToSet(recorded), y \in ToSet(channel') : x[1] = y[1] => x[2] < y[2]
      BY <3>1, <3>3, <3>6 DEF Ordered
    <3> QED
      BY <2>2, <3>4, <3>7, <3>8, <3>9 DEF Ordered
  <2> QED
    BY <1>3, <2>5, <2>6 DEF SendLine
<1>4. ASSUME NEW s \in Streams, BreakOff(s) PROVE Ordered'
  <2>1. \A q \in Streams : Sent(q) <= Sent(q)'
    BY <1>4 DEF BreakOff, readers, Sent
  <2>2. recorded' = recorded /\ channel' \in {channel, <<>>}
    BY <1>4 DEF BreakOff, record
  <2> QED
    BY <2>1, <2>2, OrderedStays
<1>5. ASSUME NEW s \in Streams, EndOfFile(s) PROVE Ordered'
  <2>1. \A q \in Streams : Sent(q) <= Sent(q)'
    <3>1. \A q \in Streams : readUpTo[q] \in 0 .. Lines /\ Sent(q)' = Sent(q)
      BY <1>5 DEF EndOfFile, Sent
    <3> QED
      BY SMTT(30), <3>1 DEF Sent
  <2>2. recorded' = recorded /\ channel' \in {channel, <<>>}
    BY <1>5 DEF EndOfFile, record
  <2> QED
    BY <2>1, <2>2, OrderedStays
<1>6. ASSUME Fork PROVE Ordered'
  <2>1. \A q \in Streams : Sent(q) <= Sent(q)'
    BY <1>6 DEF Fork, readers, Sent
  <2>2. recorded' = recorded /\ channel' \in {channel, <<>>}
    BY <1>6 DEF Fork, record
  <2> QED
    BY <2>1, <2>2, OrderedStays
<1>7. ASSUME ChildEnds PROVE Ordered'
  <2>1. \A q \in Streams : Sent(q) <= Sent(q)'
    BY <1>7 DEF ChildEnds, readers, Sent
  <2>2. recorded' = recorded /\ channel' \in {channel, <<>>}
    BY <1>7 DEF ChildEnds, record
  <2> QED
    BY <2>1, <2>2, OrderedStays
<1>8. ASSUME HelperEnds PROVE Ordered'
  <2>1. \A q \in Streams : Sent(q) <= Sent(q)'
    BY <1>8 DEF HelperEnds, readers, Sent
  <2>2. recorded' = recorded /\ channel' \in {channel, <<>>}
    BY <1>8 DEF HelperEnds, record
  <2> QED
    BY <2>1, <2>2, OrderedStays
<1>9. ASSUME TakePending PROVE Ordered'
  BY <1>9, RecordOrdered DEF TakePending, readers
<1>10. ASSUME NothingPending PROVE Ordered'
  <2>1. \A q \in Streams : Sent(q) <= Sent(q)'
    BY <1>10 DEF NothingPending, Pass, readers, Sent
  <2>2. recorded' = recorded /\ channel' \in {channel, <<>>}
    BY <1>10 DEF NothingPending, Pass, record
  <2> QED
    BY <2>1, <2>2, OrderedStays
<1>11. ASSUME LookAtFlag PROVE Ordered'
  <2>1. \A q \in Streams : Sent(q) <= Sent(q)'
    BY <1>11 DEF LookAtFlag, Pass, readers, Sent
  <2>2. recorded' = recorded /\ channel' \in {channel, <<>>}
    BY <1>11 DEF LookAtFlag, Pass, record
  <2> QED
    BY <2>1, <2>2, OrderedStays
<1>12. ASSUME Reap PROVE Ordered'
  <2>1. \A q \in Streams : Sent(q) <= Sent(q)'
    BY <1>12 DEF Reap, Pass, readers, Sent
  <2>2. recorded' = recorded /\ channel' \in {channel, <<>>}
    BY <1>12 DEF Reap, Pass, record
  <2> QED
    BY <2>1, <2>2, OrderedStays
<1>13. ASSUME Poll PROVE Ordered'
  <2>1. \A q \in Streams : Sent(q) <= Sent(q)'
    BY <1>13 DEF Poll, Pass, readers, Sent
  <2>2. recorded' = recorded /\ channel' \in {channel, <<>>}
    BY <1>13 DEF Poll, Pass, record
  <2> QED
    BY <2>1, <2>2, OrderedStays
<1>14. ASSUME AwaitLine PROVE Ordered'
  <2>1. CASE RecordLine
    BY <1>14, <2>1, RecordOrdered DEF AwaitLine, readers
  <2>2. CASE UNCHANGED <<channel, record>>
    BY <1>14, <2>2 DEF AwaitLine, readers, record, Ordered, Sent
  <2> QED
    BY <1>14, <2>1, <2>2 DEF AwaitLine
<1>15. ASSUME Collect PROVE Ordered'
  BY <1>15, RecordOrdered DEF Collect, readers
<1>16. ASSUME CollectedAll PROVE Ordered'
  <2>1. \A q \in Streams : Sent(q) <= Sent(q)'
    BY <1>16 DEF CollectedAll, Pass, readers, Sent
  <2>2. recorded' = recorded /\ channel' \in {channel, <<>>}
    BY <1>16 DEF CollectedAll, Pass, record
  <2> QED
    BY <2>1, <2>2, OrderedStays
<1>17. ASSUME StopCollecting PROVE Ordered'
  <2>1. \A q \in Streams : Sent(q) <= Sent(q)'
    BY <1>17 DEF StopCollecting, readers, Sent
  <2>2. recorded' = recorded /\ channel' \in {channel, <<>>}
    BY <1>17 DEF StopCollecting, record
  <2> QED
    BY <2>1, <2>2, OrderedStays
<1>18. ASSUME Join PROVE Ordered'
  <2>1. \A q \in Streams : Sent(q) <= Sent(q)'
    BY <1>18 DEF Join, readers, Sent
  <2>2. recorded' = recorded /\ channel' \in {channel, <<>>}
    BY <1>18 DEF Join, record
  <2> QED
    BY <2>1, <2>2, OrderedStays
<1>19. ASSUME CancelRun PROVE Ordered'
  <2>1. \A q \in Streams : Sent(q) <= Sent(q)'
    BY <1>19 DEF CancelRun, readers, Sent
  <2>2. recorded' = recorded /\ channel' \in {channel, <<>>}
    BY <1>19 DEF CancelRun, record
  <2> QED
    BY <2>1, <2>2, OrderedStays
<1>20. ASSUME UNCHANGED runVars PROVE Ordered'
  <2>1. \A q \in Streams : Sent(q) <= Sent(q)'
    BY <1>20 DEF runVars, readers, Sent
  <2>2. recorded' = recorded /\ channel' \in {channel, <<>>}
    BY <1>20 DEF runVars, record
  <2> QED
    BY <2>1, <2>2, OrderedStays
<1> QED
  BY <1>1, <1>2, <1>3, <1>4, <1>5, <1>6, <1>7, <1>8, <1>9, <1>10, <1>11, <1>12, <1>13,
     <1>14, <1>15, <1>16, <1>17, <1>18, <1>19, <1>20 DEF RunNext, Reader, Operation

-----------------------------------------------------------------------------
(* Completeness.                                                           *)

\* What is complete stays so when nothing is sent and the operation does not return.
LEMMA CompleteStays ==
  ASSUME RunInv, NothingMissing,
         open' => open /\ UNCHANGED <<recorded, channel>> /\ \A s \in Streams : Sent(s)' = Sent(s),
         timedOut => timedOut',
         loop' \in {"succeeded", "failed"} =>
           /\ UNCHANGED <<loop, written, recorded>>
           /\ \A s \in Streams : reader[s] = "broken" => reader'[s] = "broken"
  PROVE  NothingMissing'
<1>1. ASSUME open', ~timedOut', NEW s \in Streams, NEW n \in 1 .. Sent(s)'
      PROVE  <<s, n>> \in Blank \cup ToSet(recorded') \cup ToSet(channel')
  <2>1. open /\ ~timedOut /\ recorded' = recorded /\ channel' = channel /\ n \in 1 .. Sent(s)
    BY <1>1
  <2> QED
    BY <2>1 DEF NothingMissing
<1>2. ASSUME loop' \in {"succeeded", "failed"}, ~timedOut'
      PROVE  \A s \in Streams : reader'[s] = "broken" \/
               \A n \in 1 .. written'[s] : <<s, n>> \in Blank \cup ToSet(recorded')
  BY <1>2 DEF NothingMissing
<1> QED
  BY <1>1, <1>2 DEF NothingMissing

\* Nothing is lost on the way, and the operation returns when nothing is on its way.
LEMMA CompleteStep == RunInv /\ Ordered /\ NothingMissing /\ [RunNext]_runVars => NothingMissing'
<1> SUFFICES ASSUME RunInv, Ordered, NothingMissing, [RunNext]_runVars
             PROVE  NothingMissing'
  OBVIOUS
<1> USE Limits
<1>1. ASSUME NEW s \in Streams, WriteLine(s) PROVE NothingMissing'
  <2>1. open' => open /\ UNCHANGED <<recorded, channel>> /\ \A q \in Streams : Sent(q)' = Sent(q)
    BY <1>1 DEF WriteLine, process, readers, record, Sent
  <2>2. /\ timedOut => timedOut'
        /\ loop' \in {"succeeded", "failed"} =>
             /\ UNCHANGED <<loop, written, recorded>>
             /\ \A q \in Streams : reader[q] = "broken" => reader'[q] = "broken"
    BY <1>1 DEF WriteLine, process, readers, record, Conduct, RunInv, RunTypes, RunTypeOK
  <2> QED
    BY <2>1, <2>2, CompleteStays
<1>2. ASSUME NEW s \in Streams, ReadLine(s) PROVE NothingMissing'
  <2>1. \A q \in Streams : Sent(q)' = Sent(q)
    <3>1. \A q \in Streams : readUpTo[q] \in 0 .. Lines
      BY DEF RunInv, RunTypes, RunTypeOK
    <3> QED
      BY <1>2, <3>1 DEF ReadLine, Sent, RunInv, RunTypes, RunTypeOK
  <2>2. open' => open /\ UNCHANGED <<recorded, channel>> /\ \A q \in Streams : Sent(q)' = Sent(q)
    BY <1>2, <2>1 DEF ReadLine, process, record
  <2>3. /\ timedOut => timedOut'
        /\ loop' \in {"succeeded", "failed"} =>
             /\ UNCHANGED <<loop, written, recorded>>
             /\ \A q \in Streams : reader[q] = "broken" => reader'[q] = "broken"
    BY <1>2 DEF ReadLine, process, readers, record, Conduct, RunInv, RunTypes, RunTypeOK
  <2> QED
    BY <2>2, <2>3, CompleteStays
<1>3. ASSUME NEW s \in Streams, SendLine(s) PROVE NothingMissing'
  <2> DEFINE line == <<s, readUpTo[s]>>
  <2>1. line \in Line /\ s \in hand /\ channel \in Seq(Line) /\ reader[s] = "reading"
    BY <1>3 DEF SendLine, Reading, Line, RunInv, RunTypes, RunTypeOK
  <2>2. UNCHANGED <<open, timedOut, loop, written, recorded>>
    BY <1>3 DEF SendLine, process, record
  <2>3. loop \notin {"succeeded", "failed"}
    BY <2>1 DEF RunInv, Conduct
  <2>4. ASSUME open', ~timedOut', NEW q \in Streams, NEW n \in 1 .. Sent(q)'
        PROVE  <<q, n>> \in Blank \cup ToSet(recorded') \cup ToSet(channel')
    <3>1. ToSet(channel') = ToSet(channel) \cup {line}
      <4>1. channel' = Append(channel, line)
        BY <1>3, <2>2, <2>4 DEF SendLine
      <4> HIDE DEF line
      <4> QED
        BY <2>1, <4>1, SetOfAppend
    <3>2. CASE n \in 1 .. Sent(q)
      BY <2>2, <2>4, <3>1, <3>2 DEF NothingMissing
    <3>3. CASE n \notin 1 .. Sent(q)
      <4>1. q = s
        BY <1>3, <3>3 DEF SendLine, Sent
      <4>2. n = readUpTo[s]
        <5>1. readUpTo[s] \in 0 .. Lines
          BY DEF RunInv, RunTypes, RunTypeOK
        <5> QED
          BY <1>3, <2>1, <3>3, <4>1, <5>1 DEF SendLine, Sent
      <4> QED
        BY <3>1, <4>1, <4>2
    <3> QED
      BY <3>2, <3>3
  <2> QED
    BY <2>2, <2>3, <2>4 DEF NothingMissing
<1>4. ASSUME NEW s \in Streams, BreakOff(s) PROVE NothingMissing'
  <2>1. open' => open /\ UNCHANGED <<recorded, channel>> /\ \A q \in Streams : Sent(q)' = Sent(q)
    BY <1>4 DEF BreakOff, process, readers, record, Sent
  <2>2. /\ timedOut => timedOut'
        /\ loop' \in {"succeeded", "failed"} =>
             /\ UNCHANGED <<loop, written, recorded>>
             /\ \A q \in Streams : reader[q] = "broken" => reader'[q] = "broken"
    BY <1>4 DEF BreakOff, process, readers, record, Conduct, RunInv, RunTypes, RunTypeOK
  <2> QED
    BY <2>1, <2>2, CompleteStays
<1>5. ASSUME NEW s \in Streams, EndOfFile(s) PROVE NothingMissing'
  <2>1. open' => open /\ UNCHANGED <<recorded, channel>> /\ \A q \in Streams : Sent(q)' = Sent(q)
    BY <1>5 DEF EndOfFile, process, readers, record, Sent
  <2>2. /\ timedOut => timedOut'
        /\ loop' \in {"succeeded", "failed"} =>
             /\ UNCHANGED <<loop, written, recorded>>
             /\ \A q \in Streams : reader[q] = "broken" => reader'[q] = "broken"
    BY <1>5 DEF EndOfFile, process, readers, record
  <2> QED
    BY <2>1, <2>2, CompleteStays
<1>6. ASSUME Fork PROVE NothingMissing'
  <2>1. open' => open /\ UNCHANGED <<recorded, channel>> /\ \A q \in Streams : Sent(q)' = Sent(q)
    BY <1>6 DEF Fork, process, readers, record, Sent
  <2>2. /\ timedOut => timedOut'
        /\ loop' \in {"succeeded", "failed"} =>
             /\ UNCHANGED <<loop, written, recorded>>
             /\ \A q \in Streams : reader[q] = "broken" => reader'[q] = "broken"
    BY <1>6 DEF Fork, process, readers, record
  <2> QED
    BY <2>1, <2>2, CompleteStays
<1>7. ASSUME ChildEnds PROVE NothingMissing'
  <2>1. open' => open /\ UNCHANGED <<recorded, channel>> /\ \A q \in Streams : Sent(q)' = Sent(q)
    BY <1>7 DEF ChildEnds, process, readers, record, Sent
  <2>2. /\ timedOut => timedOut'
        /\ loop' \in {"succeeded", "failed"} =>
             /\ UNCHANGED <<loop, written, recorded>>
             /\ \A q \in Streams : reader[q] = "broken" => reader'[q] = "broken"
    BY <1>7 DEF ChildEnds, process, readers, record
  <2> QED
    BY <2>1, <2>2, CompleteStays
<1>8. ASSUME HelperEnds PROVE NothingMissing'
  <2>1. open' => open /\ UNCHANGED <<recorded, channel>> /\ \A q \in Streams : Sent(q)' = Sent(q)
    BY <1>8 DEF HelperEnds, process, readers, record, Sent
  <2>2. /\ timedOut => timedOut'
        /\ loop' \in {"succeeded", "failed"} =>
             /\ UNCHANGED <<loop, written, recorded>>
             /\ \A q \in Streams : reader[q] = "broken" => reader'[q] = "broken"
    BY <1>8 DEF HelperEnds, process, readers, record
  <2> QED
    BY <2>1, <2>2, CompleteStays
<1>9. ASSUME TakePending PROVE NothingMissing'
  <2>1. open => /\ \A q \in Streams : Sent(q)' = Sent(q)
                /\ ToSet(recorded) \cup ToSet(channel) \subseteq
                     Blank \cup ToSet(recorded') \cup ToSet(channel')
    BY RecordOrdered, <1>9 DEF TakePending, RunInv, Sent, readers
  <2>2. UNCHANGED <<open, timedOut>> /\ loop' \notin {"succeeded", "failed"}
    BY <1>9 DEF TakePending
  <2>3. ASSUME open', ~timedOut', NEW q \in Streams, NEW n \in 1 .. Sent(q)'
        PROVE  <<q, n>> \in Blank \cup ToSet(recorded') \cup ToSet(channel')
    BY <2>1, <2>2, <2>3 DEF NothingMissing
  <2> QED
    BY <2>2, <2>3 DEF NothingMissing
<1>10. ASSUME NothingPending PROVE NothingMissing'
  <2>1. open' => open /\ UNCHANGED <<recorded, channel>> /\ \A q \in Streams : Sent(q)' = Sent(q)
    BY <1>10 DEF NothingPending, Pass, process, readers, record, Sent
  <2>2. /\ timedOut => timedOut'
        /\ loop' \in {"succeeded", "failed"} =>
             /\ UNCHANGED <<loop, written, recorded>>
             /\ \A q \in Streams : reader[q] = "broken" => reader'[q] = "broken"
    BY <1>10 DEF NothingPending, Pass, process, readers, record
  <2> QED
    BY <2>1, <2>2, CompleteStays
<1>11. ASSUME LookAtFlag PROVE NothingMissing'
  <2>1. open' => open /\ UNCHANGED <<recorded, channel>> /\ \A q \in Streams : Sent(q)' = Sent(q)
    BY <1>11 DEF LookAtFlag, Pass, process, readers, record, Sent
  <2>2. /\ timedOut => timedOut'
        /\ loop' \in {"succeeded", "failed"} =>
             /\ UNCHANGED <<loop, written, recorded>>
             /\ \A q \in Streams : reader[q] = "broken" => reader'[q] = "broken"
    BY <1>11 DEF LookAtFlag, Pass, process, readers, record
  <2> QED
    BY <2>1, <2>2, CompleteStays
<1>12. ASSUME Reap PROVE NothingMissing'
  <2>1. open' => open /\ UNCHANGED <<recorded, channel>> /\ \A q \in Streams : Sent(q)' = Sent(q)
    BY <1>12 DEF Reap, Pass, process, readers, record, Sent
  <2>2. /\ timedOut => timedOut'
        /\ loop' \in {"succeeded", "failed"} =>
             /\ UNCHANGED <<loop, written, recorded>>
             /\ \A q \in Streams : reader[q] = "broken" => reader'[q] = "broken"
    BY <1>12 DEF Reap, Pass, process, readers, record
  <2> QED
    BY <2>1, <2>2, CompleteStays
<1>13. ASSUME Poll PROVE NothingMissing'
  <2>1. open' => open /\ UNCHANGED <<recorded, channel>> /\ \A q \in Streams : Sent(q)' = Sent(q)
    BY <1>13 DEF Poll, Pass, process, readers, record, Sent
  <2>2. /\ timedOut => timedOut'
        /\ loop' \in {"succeeded", "failed"} =>
             /\ UNCHANGED <<loop, written, recorded>>
             /\ \A q \in Streams : reader[q] = "broken" => reader'[q] = "broken"
    BY <1>13 DEF Poll, Pass, process, readers, record
  <2> QED
    BY <2>1, <2>2, CompleteStays
<1>14. ASSUME AwaitLine PROVE NothingMissing'
  <2>1. UNCHANGED readers /\ open' = open /\ timedOut' = timedOut /\ loop' = "emptying"
        /\ (RecordLine \/ UNCHANGED <<channel, record>>)
    BY <1>14 DEF AwaitLine
  <2>2. /\ \A q \in Streams : Sent(q)' = Sent(q)
        /\ ToSet(recorded) \cup ToSet(channel) \subseteq
             Blank \cup ToSet(recorded') \cup ToSet(channel')
    <3>1. CASE RecordLine
      BY <2>1, <3>1, RecordOrdered DEF RunInv, Sent, readers
    <3>2. CASE UNCHANGED <<channel, record>>
      BY <2>1, <3>2 DEF Sent, readers, record
    <3> QED
      BY <2>1, <3>1, <3>2
  <2>3. ASSUME open', ~timedOut', NEW q \in Streams, NEW n \in 1 .. Sent(q)'
        PROVE  <<q, n>> \in Blank \cup ToSet(recorded') \cup ToSet(channel')
    BY <2>1, <2>2, <2>3 DEF NothingMissing
  <2> QED
    BY <2>1, <2>3 DEF NothingMissing
<1>15. ASSUME Collect PROVE NothingMissing'
  <2>1. open => /\ \A q \in Streams : Sent(q)' = Sent(q)
                /\ ToSet(recorded) \cup ToSet(channel) \subseteq
                     Blank \cup ToSet(recorded') \cup ToSet(channel')
    BY RecordOrdered, <1>15 DEF Collect, RunInv, Sent, readers
  <2>2. UNCHANGED <<open, timedOut>> /\ loop' \notin {"succeeded", "failed"}
    BY <1>15 DEF Collect
  <2>3. ASSUME open', ~timedOut', NEW q \in Streams, NEW n \in 1 .. Sent(q)'
        PROVE  <<q, n>> \in Blank \cup ToSet(recorded') \cup ToSet(channel')
    BY <2>1, <2>2, <2>3 DEF NothingMissing
  <2> QED
    BY <2>2, <2>3 DEF NothingMissing
<1>16. ASSUME CollectedAll PROVE NothingMissing'
  <2>1. open' => open /\ UNCHANGED <<recorded, channel>> /\ \A q \in Streams : Sent(q)' = Sent(q)
    BY <1>16 DEF CollectedAll, Pass, process, readers, record, Sent
  <2>2. /\ timedOut => timedOut'
        /\ loop' \in {"succeeded", "failed"} =>
             /\ UNCHANGED <<loop, written, recorded>>
             /\ \A q \in Streams : reader[q] = "broken" => reader'[q] = "broken"
    BY <1>16 DEF CollectedAll, Pass, process, readers, record
  <2> QED
    BY <2>1, <2>2, CompleteStays
<1>17. ASSUME StopCollecting PROVE NothingMissing'
  BY <1>17 DEF StopCollecting, NothingMissing
<1>18. ASSUME Join PROVE NothingMissing'
  <2>1. loop = "joining" /\ open /\ child \in {"succeeded", "failed"} /\ ~open'
        /\ UNCHANGED <<readUpTo, hand, reader, written, recorded, timedOut>>
    BY <1>18 DEF Join, process, readers, record, RunInv, Conduct, Returned
  <2>2. ASSUME ~timedOut, NEW q \in Streams, reader[q] # "broken", NEW n \in 1 .. written[q]
        PROVE  <<q, n>> \in Blank \cup ToSet(recorded)
    <3>1. channel = <<>> /\ reader[q] = "done"
      BY <1>18, <2>1, <2>2 DEF Join, RunInv, Conduct, Reading, RunTypes, RunTypeOK
    <3>2. Sent(q) = written[q]
      BY <2>1, <3>1 DEF Sent, RunInv, Reading
    <3> QED
      BY <2>1, <2>2, <3>1, <3>2, NoLines DEF NothingMissing
  <2> QED
    BY <2>1, <2>2 DEF NothingMissing
<1>19. ASSUME CancelRun PROVE NothingMissing'
  <2>1. open' => open /\ UNCHANGED <<recorded, channel>> /\ \A q \in Streams : Sent(q)' = Sent(q)
    BY <1>19 DEF CancelRun, process, readers, record, Sent
  <2>2. /\ timedOut => timedOut'
        /\ loop' \in {"succeeded", "failed"} =>
             /\ UNCHANGED <<loop, written, recorded>>
             /\ \A q \in Streams : reader[q] = "broken" => reader'[q] = "broken"
    BY <1>19 DEF CancelRun, process, readers, record
  <2> QED
    BY <2>1, <2>2, CompleteStays
<1>20. ASSUME UNCHANGED runVars PROVE NothingMissing'
  <2>1. open' => open /\ UNCHANGED <<recorded, channel>> /\ \A q \in Streams : Sent(q)' = Sent(q)
    BY <1>20 DEF runVars, process, readers, record, Sent
  <2>2. /\ timedOut => timedOut'
        /\ loop' \in {"succeeded", "failed"} =>
             /\ UNCHANGED <<loop, written, recorded>>
             /\ \A q \in Streams : reader[q] = "broken" => reader'[q] = "broken"
    BY <1>20 DEF runVars, process, readers, record
  <2> QED
    BY <2>1, <2>2, CompleteStays
<1> QED
  BY <1>1, <1>2, <1>3, <1>4, <1>5, <1>6, <1>7, <1>8, <1>9, <1>10, <1>11, <1>12, <1>13,
     <1>14, <1>15, <1>16, <1>17, <1>18, <1>19, <1>20 DEF RunNext, Reader, Operation

-----------------------------------------------------------------------------
(* The report.                                                             *)

LEMMA RecordCounted ==
  ASSUME RunTypes, Counted, RecordLine
  PROVE  Counted'
<1> DEFINE line == Head(channel)
           base == IF Len(tail) = TailLines THEN Tail(tail) ELSE tail
           new == Append(recorded, line)
<1>1. recorded \in Seq(Line) /\ tail \in Seq(Line) /\ emitted \in Nat /\ suppressed \in Nat
  BY DEF RunTypes, RunTypeOK, Line
<1>2. CASE line \in Blank
  BY <1>2 DEF RecordLine, record, Counted
<1>3. CASE line \notin Blank
  <2>1. /\ recorded' = new /\ tail' = Append(base, line)
        /\ \/ emitted < LiveLines /\ emitted' = emitted + 1 /\ suppressed' = suppressed
           \/ suppressed' = suppressed + 1 /\ emitted' = emitted
    BY <1>3 DEF RecordLine
  <2>2. line \in Line
    BY RecordTypes
  <2>3. /\ Len(new) = Len(recorded) + 1 /\ new[Len(recorded) + 1] = line
        /\ \A i \in 1 .. Len(recorded) : new[i] = recorded[i]
    BY <1>1, <2>2
  <2>4. /\ base \in Seq(Line)
        /\ Len(base) = IF Len(tail) = TailLines THEN TailLines - 1 ELSE Len(tail)
        /\ \A i \in 1 .. Len(base) :
             base[i] = IF Len(tail) = TailLines THEN tail[i + 1] ELSE tail[i]
    <3>1. CASE Len(tail) = TailLines
      <4>1. tail # <<>>
        BY <3>1, Limits
      <4> QED
        BY <1>1, <3>1, <4>1
    <3>2. CASE Len(tail) # TailLines
      BY <1>1, <3>2
    <3> QED
      BY <3>1, <3>2
  <2>5. /\ Len(tail') = Len(base) + 1 /\ tail'[Len(base) + 1] = line
        /\ DOMAIN tail' = 1 .. Len(base) + 1
        /\ \A i \in 1 .. Len(base) : tail'[i] = base[i]
    BY <2>1, <2>2, <2>4
  <2>6. Len(recorded) \in Nat /\ Len(tail) \in Nat /\ DOMAIN tail = 1 .. Len(tail)
    BY <1>1
  <2> HIDE DEF line, base, new
  <2>7. /\ Len(tail) = IF Len(recorded) < TailLines THEN Len(recorded) ELSE TailLines
        /\ \A i \in 1 .. Len(tail) : tail[i] = recorded[Len(recorded) - Len(tail) + i]
        /\ emitted + suppressed = Len(recorded) /\ emitted <= LiveLines
    BY <2>6 DEF Counted
  <2>8. Len(recorded') = Len(recorded) + 1 /\ recorded'[Len(recorded) + 1] = line
         /\ \A i \in 1 .. Len(recorded) : recorded'[i] = recorded[i]
    BY <2>1, <2>3
  <2>9. emitted \in Nat /\ suppressed \in Nat
    BY <1>1
  <2>10. emitted' + suppressed' = Len(recorded') /\ emitted' <= LiveLines
    <3>1. emitted + suppressed = Len(recorded) /\ emitted <= LiveLines
      BY DEF Counted
    <3>2. Len(recorded') = Len(recorded) + 1
      BY <2>8
    <3>3. \/ emitted < LiveLines /\ emitted' = emitted + 1 /\ suppressed' = suppressed
          \/ suppressed' = suppressed + 1 /\ emitted' = emitted
      BY <2>1
    <3> QED
      BY <2>6, <2>9, <3>1, <3>2, <3>3, Limits
  <2>11. Len(tail') = IF Len(recorded') < TailLines THEN Len(recorded') ELSE TailLines
    BY <2>4, <2>5, <2>6, <2>7, <2>8, Limits
  <2>12. Len(base) \in Nat /\ Len(base) <= Len(recorded)
         /\ Len(recorded') - Len(tail') = Len(recorded) - Len(base)
    BY <2>4, <2>5, <2>6, <2>7, <2>8, Limits
  <2>13. ASSUME NEW i \in DOMAIN tail'
         PROVE  tail'[i] = recorded'[Len(recorded') - Len(tail') + i]
    <3>1. CASE i = Len(base) + 1
      BY <2>5, <2>6, <2>8, <2>12, <3>1
    <3>2. CASE i \in 1 .. Len(base)
      <4>1. base[i] = recorded[Len(recorded) - Len(base) + i]
        <5>1. CASE Len(tail) = TailLines
          <6>1. i + 1 \in 1 .. Len(tail) /\ base[i] = tail[i + 1]
            BY <2>4, <2>6, <3>2, <5>1, Limits
          <6>2. Len(recorded) - Len(tail) + (i + 1) = Len(recorded) - Len(base) + i
            BY <2>4, <2>6, <3>2, <5>1, Limits
          <6> QED
            BY <2>7, <6>1, <6>2
        <5>2. CASE Len(tail) # TailLines
          BY <2>4, <2>6, <2>7, <3>2, <5>2
        <5> QED
          BY <5>1, <5>2
      <4>2. Len(recorded) - Len(base) + i \in 1 .. Len(recorded)
        BY <2>6, <2>12, <3>2
      <4> QED
        BY <2>5, <2>8, <2>12, <3>2, <4>1, <4>2
    <3> QED
      BY <2>5, <2>12, <3>1, <3>2
  <2> QED
    BY <2>10, <2>11, <2>13 DEF Counted
<1> QED
  BY <1>2, <1>3

\* Every recorded line is counted once and is the last of the tail.
LEMMA CountedStep == RunInv /\ Counted /\ [RunNext]_runVars => Counted'
<1> SUFFICES ASSUME RunInv, Counted, [RunNext]_runVars
             PROVE  Counted'
  OBVIOUS
<1>1. RecordLine \/ UNCHANGED record
<2>1. ASSUME NEW s \in Streams, WriteLine(s) PROVE RecordLine \/ UNCHANGED record
  BY <2>1 DEF WriteLine
<2>2. ASSUME NEW s \in Streams, ReadLine(s) PROVE RecordLine \/ UNCHANGED record
  BY <2>2 DEF ReadLine
<2>3. ASSUME NEW s \in Streams, SendLine(s) PROVE RecordLine \/ UNCHANGED record
  BY <2>3 DEF SendLine
<2>4. ASSUME NEW s \in Streams, BreakOff(s) PROVE RecordLine \/ UNCHANGED record
  BY <2>4 DEF BreakOff
<2>5. ASSUME NEW s \in Streams, EndOfFile(s) PROVE RecordLine \/ UNCHANGED record
  BY <2>5 DEF EndOfFile
<2>6. ASSUME Fork PROVE RecordLine \/ UNCHANGED record
  BY <2>6 DEF Fork
<2>7. ASSUME ChildEnds PROVE RecordLine \/ UNCHANGED record
  BY <2>7 DEF ChildEnds
<2>8. ASSUME HelperEnds PROVE RecordLine \/ UNCHANGED record
  BY <2>8 DEF HelperEnds
<2>9. ASSUME TakePending PROVE RecordLine \/ UNCHANGED record
  BY <2>9 DEF TakePending
<2>10. ASSUME NothingPending PROVE RecordLine \/ UNCHANGED record
  BY <2>10 DEF NothingPending, Pass
<2>11. ASSUME LookAtFlag PROVE RecordLine \/ UNCHANGED record
  BY <2>11 DEF LookAtFlag, Pass
<2>12. ASSUME Reap PROVE RecordLine \/ UNCHANGED record
  BY <2>12 DEF Reap, Pass
<2>13. ASSUME Poll PROVE RecordLine \/ UNCHANGED record
  BY <2>13 DEF Poll, Pass
<2>14. ASSUME AwaitLine PROVE RecordLine \/ UNCHANGED record
  BY <2>14 DEF AwaitLine
<2>15. ASSUME Collect PROVE RecordLine \/ UNCHANGED record
  BY <2>15 DEF Collect
<2>16. ASSUME CollectedAll PROVE RecordLine \/ UNCHANGED record
  BY <2>16 DEF CollectedAll, Pass
<2>17. ASSUME StopCollecting PROVE RecordLine \/ UNCHANGED record
  BY <2>17 DEF StopCollecting
<2>18. ASSUME Join PROVE RecordLine \/ UNCHANGED record
  BY <2>18 DEF Join
<2>19. ASSUME CancelRun PROVE RecordLine \/ UNCHANGED record
  BY <2>19 DEF CancelRun
<2>20. ASSUME UNCHANGED runVars PROVE RecordLine \/ UNCHANGED record
  BY <2>20 DEF runVars
<2> QED
  BY <2>1, <2>2, <2>3, <2>4, <2>5, <2>6, <2>7, <2>8, <2>9, <2>10, <2>11, <2>12, <2>13,
     <2>14, <2>15, <2>16, <2>17, <2>18, <2>19, <2>20 DEF RunNext, Reader, Operation
<1>2. CASE UNCHANGED record
  BY <1>2 DEF record, Counted
<1> QED
  BY <1>1, <1>2, RecordCounted DEF RunInv

-----------------------------------------------------------------------------
(* The theorems.                                                           *)

LEMMA RunStep == RunInvariant /\ [RunNext]_runVars => RunInvariant'
<1>1. RunInv /\ [RunNext]_runVars => RunInv'
  BY RunTypesStep, ConductStep, ReadingStep DEF RunInv
<1> QED
  BY <1>1, OrderedStep, CompleteStep, CountedStep DEF RunInvariant

\* Every variable of a run keeps its type.
THEOREM RunTypeCorrect == RunSpec => []RunTypeOK
<1>1. RunInvariant => RunTypeOK
  BY DEF RunInvariant, RunInv, RunTypes
<1> QED
  BY InitRun, RunStep, <1>1, PTL DEF RunSpec

LEMMA JoinInOrder ==
  ASSUME RunInv, Ordered
  PROVE  InOrder(recorded \o channel)
<1> DEFINE way == recorded \o channel
           n == Len(recorded)
<1>1. recorded \in Seq(Line) /\ channel \in Seq(Line)
  BY DEF RunInv, RunTypes, RunTypeOK, Line
<1>2. /\ n \in Nat /\ Len(channel) \in Nat /\ DOMAIN way = 1 .. n + Len(channel)
      /\ DOMAIN recorded = 1 .. n /\ DOMAIN channel = 1 .. Len(channel)
      /\ \A i \in 1 .. n : way[i] = recorded[i]
      /\ \A i \in 1 .. Len(channel) : way[n + i] = channel[i]
  BY <1>1
<1> SUFFICES ASSUME NEW i \in DOMAIN way, NEW k \in DOMAIN way, i < k, way[i][1] = way[k][1]
             PROVE  way[i][2] < way[k][2]
  BY DEF InOrder
<1> HIDE DEF way, n
<1>3. CASE k <= n
  BY <1>2, <1>3 DEF Ordered, InOrder
<1>4. CASE n < i
  <2>1. i - n \in 1 .. Len(channel) /\ k - n \in 1 .. Len(channel) /\ i - n < k - n
    BY <1>2, <1>4
  <2>2. way[i] = channel[i - n] /\ way[k] = channel[k - n]
    <3>1. way[n + (i - n)] = channel[i - n] /\ way[n + (k - n)] = channel[k - n]
      BY <1>2, <2>1
    <3> QED
      BY <1>2, <3>1
  <2> QED
    BY SMTT(30), <1>2, <2>1, <2>2 DEF Ordered, InOrder
<1>5. CASE i <= n /\ n < k
  <2>1. k - n \in 1 .. Len(channel) /\ way[k] = channel[k - n]
    <3>1. k - n \in 1 .. Len(channel)
      BY <1>2, <1>5
    <3>2. way[n + (k - n)] = channel[k - n]
      BY <1>2, <3>1
    <3> QED
      BY <1>2, <3>1, <3>2
  <2>2. way[i] \in ToSet(recorded) /\ way[k] \in ToSet(channel)
    BY <1>2, <1>5, <2>1 DEF ToSet
  <2> QED
    BY <2>2 DEF Ordered
<1> QED
  BY <1>2, <1>3, <1>4, <1>5

\* Nothing that the host prints is lost, repeated or out of order, whatever the sizes of
\* pipes and channel, unless the run gives up collecting (operation.rs 477-562, 1208-1262).
THEOREM OutputIsKept == RunSpec => []OutputIsAccountedFor
<1>1. RunInvariant => OutputIsAccountedFor
  <2> SUFFICES ASSUME RunInv, Ordered, NothingMissing, Counted
               PROVE  OutputIsAccountedFor
    BY DEF RunInvariant
  <2>1. ToSet(recorded) \subseteq Line /\ ToSet(channel) \subseteq Line
    BY SetOfLines DEF RunInv, RunTypes, RunTypeOK, Line
  <2>2. \A s \in Streams : Sent(s) \in Int /\ Sent(s) <= written[s] /\ written[s] \in Int
    <3>1. \A s \in Streams : readUpTo[s] \in 0 .. Lines /\ written[s] \in 0 .. Lines
                             /\ readUpTo[s] <= written[s]
      BY DEF RunInv, RunTypes, RunTypeOK, Reading
    <3> QED
      BY <3>1, Limits DEF Sent
  <2>3. \A x \in Line : x[1] \in Streams /\ x[2] \in Int /\ x[2] >= 1 /\ x = <<x[1], x[2]>>
    BY Limits DEF Line
  <2>4. \A s \in Streams : Of(s, recorded) \cup (Of(s, channel) \ Blank) \subseteq First(s, Sent(s))
    BY <2>1, <2>2, <2>3 DEF Ordered, Of, First
  <2>5. ASSUME open, ~timedOut, NEW s \in Streams
        PROVE  First(s, Sent(s)) \subseteq Of(s, recorded) \cup (Of(s, channel) \ Blank)
    BY <2>5 DEF NothingMissing, Of, First
  <2>6. ASSUME loop \in {"succeeded", "failed"}, ~timedOut, NEW s \in Streams, reader[s] # "broken"
        PROVE  Of(s, recorded) = First(s, written[s])
    <3>1. First(s, written[s]) \subseteq Of(s, recorded)
      BY <2>6 DEF NothingMissing, Of, First
    <3>2. First(s, Sent(s)) \subseteq First(s, written[s])
      BY <2>2 DEF First
    <3> QED
      BY <2>4, <3>1, <3>2
  <2>7. InOrder(recorded \o channel)
    BY JoinInOrder
  <2> QED
    BY <2>4, <2>5, <2>6, <2>7 DEF OutputIsAccountedFor, Counted
<1> QED
  BY InitRun, RunStep, <1>1, PTL DEF RunSpec

=============================================================================
