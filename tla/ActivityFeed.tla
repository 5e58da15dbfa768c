------------------------------ MODULE ActivityFeed ------------------------------
(***************************************************************************)
(* What the desktop window shows of operations (app.tsx, dialogs.tsx).     *)
(* The engine writes records and emits events; the window hears events in  *)
(* their order, once its listener is there, and asks for the records when  *)
(* it loads and whenever an operation ends.  Answers take their time and   *)
(* may arrive in any order.  The window may be loaded anew while           *)
(* operations run, a command line or a second window may work on the same  *)
(* records, and no dialog is in the way of anything: all can be left while *)
(* their call is under way.                                                *)
(*                                                                         *)
(* FilterRecorded is a faulty variant of the definition it precedes.       *)
(***************************************************************************)
EXTENDS Naturals, SequencesExt

CONSTANTS
  Operations,
  Requests,    \* bounds the calls that are on their way at once
  Nothing,     \* no operation
  MaxExtras    \* bound on reloads, refreshes and clearings, here and elsewhere

ASSUME FeedAssumption == Nothing \notin Operations /\ MaxExtras \in Nat

VARIABLES
  table,       \* the state in each operation's record
  work,        \* where the engine is with each
  emitted,     \* the events of each, which are numbered
  wire,        \* events on their way to the window
  listening,   \* whether its listener is registered
  data,        \* the records the window has, or <<>> before it has any
  shown,       \* the numbers of the events it has of each operation
  active,      \* the operation of the drawer
  starting,    \* the operations whose start is not answered
  ask,         \* the requests: kind, how far they are, what they read, the drawer then
  earlier,     \* pairs of requests that have read, in that order
  late,        \* those that read before one whose answer is there
  extras,      \* those so far
  unseen,      \* operations that changed behind the last reading, all if that failed
  outdated,    \* whether the records are older than an answer before
  lost,        \* operations with events that nobody heard, or that an answer dropped
  orphaned     \* operations that lost the drawer before they ended

engine  == <<table, work, emitted>>
window  == <<data, shown, active, starting>>
calls   == <<ask, earlier, late>>
history == <<unseen, outdated, lost, orphaned>>
feedVars == <<engine, wire, listening, window, calls, extras, history>>

\* A terminal state is one of three that the window treats alike.
States == {"planned", "waiting", "ended"}

\* Only a clearing remembers the drawer.
Ask(kind) == [kind |-> kind, phase |-> "sent", rows |-> <<>>,
              drawer |-> IF kind = "clear" THEN active ELSE Nothing]
Idle == [kind |-> "none", phase |-> "sent", rows |-> <<>>, drawer |-> Nothing]

FeedInit ==
  /\ table = [o \in Operations |-> "none"]
  /\ work = [o \in Operations |-> "none"]
  /\ emitted = [o \in Operations |-> <<>>]
  /\ wire = <<>> /\ listening = FALSE
  /\ data = <<>> /\ shown = [o \in Operations |-> {}]
  /\ active = Nothing /\ starting = {}
  /\ \E q \in Requests : ask = [r \in Requests |-> IF r = q THEN Ask("load") ELSE Idle]
  /\ earlier = {} /\ late = {}
  /\ extras = 0
  /\ unseen = {} /\ outdated = FALSE
  /\ lost = {} /\ orphaned = {}

-----------------------------------------------------------------------------
(* The engine.  Of the stages of an operation that is not over one is kept, *)
(* a prompt: the others are recorded and announced in the same way.        *)

\* The number of a new event, and whether it is heard.
Emit(o, state) ==
  /\ emitted' = [emitted EXCEPT ![o] = Append(@, state)]
  /\ wire' = IF listening THEN Append(wire, <<o, Len(emitted[o]) + 1>>) ELSE wire
  /\ lost' = IF listening THEN lost ELSE lost \cup {o}

Running(o) == work[o] \notin {"none", "over", "elsewhere"}

Record(o, state) == table' = [table EXCEPT ![o] = state]
Reach(o, place)  == work' = [work EXCEPT ![o] = place]

\* Somebody will read the records, or is made to by an end that he hears.
ReadingDue ==
  \/ \E q \in Requests : ask[q].kind # "none" /\ ask[q].phase # "read"
  \/ \E e \in ToSet(wire) : emitted[e[1]][e[2]] = "ended"

Changed(ops) == unseen' = IF ReadingDue THEN unseen ELSE unseen \cup ops

\* start() writes the first record before it answers.
Accept(o) ==
  /\ work[o] = "sent"
  /\ Record(o, "planned") /\ Reach(o, "planned")
  /\ UNCHANGED <<emitted, wire, listening, window, calls, extras, history>>

\* The plan that is made first is refused, or the record cannot be written: it may
\* be asked for again.
RefuseStart(o) ==
  /\ work[o] = "sent" /\ Reach(o, "none")
  /\ starting' = starting \ {o} /\ orphaned' = orphaned \ {o}
  /\ UNCHANGED <<table, emitted, wire, listening, data, shown, active, calls, extras,
                 unseen, outdated, lost>>

\* A record precedes its event ...
RecordPrompt(o) ==
  /\ work[o] = "planned" /\ Record(o, "waiting") /\ Reach(o, "asking")
  /\ UNCHANGED <<emitted, wire, listening, window, calls, extras, history>>

EmitPrompt(o) ==
  /\ work[o] = "asking" /\ Emit(o, "waiting") /\ Reach(o, "waiting")
  /\ UNCHANGED <<table, listening, window, calls, extras, unseen, outdated, orphaned>>

\* ... but at the end, which may come early.
EmitEnd(o) ==
  /\ work[o] \in {"planned", "resumed"}
  /\ Emit(o, "ended")
  /\ Reach(o, "ending")
  /\ UNCHANGED <<table, listening, window, calls, extras, unseen, outdated, orphaned>>

RecordEnd(o) ==
  /\ work[o] = "ending" /\ Reach(o, "over")
  /\ Record(o, "ended") \/ UNCHANGED table
  /\ Changed({o})
  /\ UNCHANGED <<emitted, wire, listening, window, calls, extras, outdated, lost,
                 orphaned>>

\* A record that is not the last cannot be written: the task is left without a word.
Abandon(o) ==
  /\ work[o] \in {"planned", "resumed"} /\ Reach(o, "over")
  /\ Changed({o})
  /\ UNCHANGED <<table, emitted, wire, listening, window, calls, extras, outdated, lost,
                 orphaned>>

\* An operation of another process begins or ends: its events do not get here.
RunElsewhere(o) ==
  /\ \/ work[o] = "none" /\ Record(o, "planned")
     \/ work[o] = "elsewhere" /\ table[o] = "planned" /\ Record(o, "ended")
  /\ Reach(o, "elsewhere")
  /\ Changed({o})
  /\ UNCHANGED <<emitted, wire, listening, window, calls, extras, outdated, lost,
                 orphaned>>

Ended == {o \in Operations : table[o] = "ended"}

DeleteEnded == table' = [o \in Operations |-> IF o \in Ended THEN "none" ELSE table[o]]

\* A second window clears the history.
ClearElsewhere ==
  /\ extras < MaxExtras /\ extras' = extras + 1
  /\ DeleteEnded /\ Changed(Ended)
  /\ UNCHANGED <<work, emitted, wire, listening, window, calls, outdated, lost,
                 orphaned>>

-----------------------------------------------------------------------------
(* Requests.                                                               *)

Send(q, kind) ==
  /\ ask[q].kind = "none"
  /\ ask' = [ask EXCEPT ![q] = Ask(kind)]

\* Those whose answer is on its way.
Pending == {q \in Requests : ask[q].kind # "none" /\ ask[q].phase = "read"}

\* operation_history(), bootstrap(): one query.
Read(q) ==
  /\ ask[q].kind # "none"
  /\ ask[q].phase = (IF ask[q].kind = "clear" THEN "deleted" ELSE "sent")
  /\ ask' = [ask EXCEPT ![q].phase = "read", ![q].rows = table]
  /\ earlier' = earlier \cup Pending \X {q}
  /\ unseen' = {}
  /\ UNCHANGED <<engine, wire, listening, window, late, extras, outdated, lost,
                 orphaned>>

\* The query fails, or that of the prefixes which goes with it: nothing is replaced.
FailRequest(q) ==
  /\ ask[q].kind # "none" /\ ask[q].phase # "read"
  /\ ask' = [ask EXCEPT ![q] = Idle]
  /\ unseen' = Operations
  /\ UNCHANGED <<engine, wire, listening, window, earlier, late, extras, outdated, lost,
                 orphaned>>

\* clear_operation_history() deletes the concluded records before it reads.
Delete(q) ==
  /\ ask[q].kind = "clear" /\ ask[q].phase = "sent"
  /\ ask' = [ask EXCEPT ![q].phase = "deleted"]
  /\ DeleteEnded
  /\ UNCHANGED <<work, emitted, wire, listening, window, earlier, late, extras, history>>

Kept(q) == {o \in Operations : ask[q].rows[o] # "none"}

FilterRecorded(q) == [o \in Operations |-> IF o \in Kept(q) THEN shown[o] ELSE {}]

\* The events that clearActivity() keeps: the drawer is that of the time of the call.
FilterEvents(q) ==
  [o \in Operations |-> IF o \in Kept(q) \cup {ask[q].drawer} THEN shown[o] ELSE {}]

\* An answer arrives: bootstrap() replaces everything, the others what is there.
Receive(q) ==
  /\ ask[q].kind # "none" /\ ask[q].phase = "read"
  /\ LET applied == ask[q].kind = "load" \/ data # <<>> IN
     /\ data' = IF applied THEN ask[q].rows ELSE data
     /\ outdated' = IF applied THEN q \in late ELSE outdated
  /\ late' = (late \cup {r \in Requests : <<r, q>> \in earlier}) \ {q}
  /\ earlier' = {e \in earlier : q \notin {e[1], e[2]}}
  /\ ask' = [ask EXCEPT ![q] = Idle]
  /\ IF ask[q].kind = "clear"
     THEN /\ shown' = FilterEvents(q)
          /\ lost' = lost \cup {o \in Operations \ Kept(q) :
                                o # ask[q].drawer /\ shown[o] # {}}
     ELSE UNCHANGED <<shown, lost>>
  /\ UNCHANGED <<engine, wire, listening, active, starting, extras, unseen, orphaned>>

-----------------------------------------------------------------------------
(* The window.                                                             *)

\* onOperationEvent() is answered.
Listen ==
  /\ ~listening /\ listening' = TRUE
  /\ UNCHANGED <<engine, wire, window, calls, extras, history>>

\* An event is added unless its number is there; one that ends its operation
\* makes the window ask for the records.
Hear ==
  LET o == Head(wire)[1]
      n == Head(wire)[2]
  IN
  /\ wire # <<>> /\ wire' = Tail(wire)
  /\ shown' = [shown EXCEPT ![o] = @ \cup {n}]
  /\ IF emitted[o][n] = "ended"
     THEN \E q \in Requests : Send(q, "refresh")
     ELSE UNCHANGED ask
  /\ UNCHANGED <<engine, listening, data, active, starting, earlier, late, extras, history>>

\* The user presses Refresh, or Retry where nothing could be loaded, or a new
\* catalog loads all, which is the same to the records once there are any.
RefreshView ==
  /\ extras < MaxExtras
  /\ extras' = extras + 1
  /\ \E q \in Requests : Send(q, IF data = <<>> THEN "load" ELSE "refresh")
  /\ UNCHANGED <<engine, wire, listening, window, earlier, late, history>>

\* start() of the review dialog, which may be closed at once and opened again.
AskStart(o) ==
  /\ data # <<>> /\ work[o] = "none"
  /\ Reach(o, "sent") /\ starting' = starting \cup {o}
  /\ UNCHANGED <<table, emitted, wire, listening, data, shown, active, calls, extras,
                 history>>

\* The last event that is shown of it ends it.
Finished(o) ==
  \E n \in shown[o] : emitted[o][n] = "ended" /\ \A m \in shown[o] : m <= n

\* onStarted() forgets what there is of the operation and gives it the drawer.
Started(o) ==
  /\ o \in starting /\ work[o] # "sent"
  /\ starting' = starting \ {o} /\ active' = o
  /\ shown' = [shown EXCEPT ![o] = {}]
  /\ lost' = IF shown[o] # {} THEN lost \cup {o} ELSE lost
  /\ orphaned' = IF active # Nothing /\ ~Finished(active)
                 THEN orphaned \cup {active} ELSE orphaned
  /\ UNCHANGED <<engine, wire, listening, data, calls, extras, unseen, outdated>>

\* The drawer offers the choices of a prompt, and otherwise to cancel.
AnswerPrompt ==
  /\ active # Nothing /\ ~Finished(active)
  /\ work[active] = "waiting"
  /\ Reach(active, "resumed")
  /\ UNCHANGED <<table, emitted, wire, listening, window, calls, extras, history>>

CloseDrawer ==
  /\ active # Nothing /\ Finished(active)
  /\ active' = Nothing
  /\ UNCHANGED <<engine, wire, listening, data, shown, starting, calls, extras, history>>

AskClear ==
  /\ data # <<>> /\ extras < MaxExtras
  /\ extras' = extras + 1
  /\ \E q \in Requests : Send(q, "clear")
  /\ UNCHANGED <<engine, wire, listening, window, earlier, late, history>>

\* The page is loaded anew.  A start that is under way goes on; a deletion that is
\* may count as one by a second window.
Reload ==
  /\ extras < MaxExtras
  /\ extras' = extras + 1
  /\ wire' = <<>> /\ listening' = FALSE
  /\ data' = <<>> /\ shown' = [o \in Operations |-> {}]
  /\ active' = Nothing /\ starting' = {}
  /\ \E q \in Requests : ask' = [r \in Requests |-> IF r = q THEN Ask("load") ELSE Idle]
  /\ earlier' = {} /\ late' = {}
  /\ unseen' = {} /\ outdated' = FALSE
  /\ lost' = lost \cup {Head(e) : e \in ToSet(wire)}
  /\ orphaned' = orphaned \cup {o \in Operations : Running(o)}
  /\ UNCHANGED engine

FeedNext ==
  \/ \E o \in Operations : \/ Accept(o) \/ RefuseStart(o) \/ RecordPrompt(o)
                           \/ EmitPrompt(o) \/ EmitEnd(o) \/ RecordEnd(o) \/ Abandon(o)
                           \/ RunElsewhere(o) \/ AskStart(o) \/ Started(o)
  \/ \E q \in Requests : Read(q) \/ FailRequest(q) \/ Delete(q) \/ Receive(q)
  \/ ClearElsewhere \/ Listen \/ Hear \/ RefreshView \/ AnswerPrompt \/ CloseDrawer
  \/ AskClear \/ Reload

FeedSpec == FeedInit /\ [][FeedNext]_feedVars

-----------------------------------------------------------------------------
(* Properties.                                                             *)

FeedTypeOK ==
  /\ table \in [Operations -> States \cup {"none"}]
  /\ work \in [Operations -> {"none", "sent", "planned", "asking", "waiting", "resumed",
                              "ending", "over", "elsewhere"}]
  /\ \A o \in Operations : shown[o] \subseteq 1 .. Len(emitted[o])
  /\ data = <<>> \/ data \in [Operations -> States \cup {"none"}]
  /\ active \in Operations \cup {Nothing} /\ starting \subseteq Operations
  /\ earlier \subseteq Pending \X Pending /\ late \subseteq Pending
  /\ unseen \cup lost \cup orphaned \subseteq Operations

OnTheWay(o) == {n \in 1 .. Len(emitted[o]) : <<o, n>> \in ToSet(wire)}

Quiet ==
  /\ data # <<>> /\ wire = <<>>
  /\ \A q \in Requests : ask[q].kind = "none"
  /\ \A o \in Operations : ~Running(o)

\* Once everything is quiet the window shows each record as it is, unless an older
\* answer replaced a newer one, the last reading failed, or the record changed, was
\* abandoned or was concluded when no reading was due any more, which another process
\* may do at any time.  The drawer has every event of its operation that arrived, its
\* result included, whatever is cleared meanwhile, and an operation that waits for the
\* user has the drawer.  Left out of both are an operation whose events were dropped by
\* the answer to its start or to a clearing asked for before it had the drawer, or were
\* emitted without a listener, and one that lost the drawer to another or to a reload
\* (app.tsx 63-186, 456-495).
ViewIsTruthful ==
  /\ Quiet => outdated \/ \A o \in Operations \ unseen : data[o] = table[o]
  /\ active # Nothing /\ active \notin lost =>
       shown[active] = (1 .. Len(emitted[active])) \ OnTheWay(active)
  /\ \A o \in Operations :
       work[o] = "waiting" /\ o \notin starting \cup orphaned => active = o

=============================================================================
