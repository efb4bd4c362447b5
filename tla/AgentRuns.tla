------------------------------- MODULE AgentRuns -------------------------------
(***************************************************************************)
(* The dashboard's background runs: AgentRunManager                        *)
(* (src/dojoagents/dashboard/agent_runs.py) and the local event stream of  *)
(* dashboard/server.py.                                                    *)
(*                                                                         *)
(* Two threads share the run records without a lock.  On the portal's      *)
(* event loop a run executes: it appends events, then sets the status,     *)
(* then settles.  On the server's event loop handlers create, cancel and   *)
(* prune runs, stream their events, and shut the manager down.  An action  *)
(* is what one of them does between two awaits, cut again wherever it      *)
(* reads or writes a second field that the other thread uses.              *)
(*                                                                         *)
(* Cancelling a run marks its future; the run sees that at one of its      *)
(* awaits, if it ever comes to one (anyio's blocking portal, external).    *)
(***************************************************************************)
EXTENDS Naturals, Sequences

CONSTANTS
  LocalRuns,      \* one per call of create_run
  Viewers,        \* one event stream each
  MaxEvents,      \* events an agent emits
  Patient         \* TRUE: a wait for a run to settle does not time out

ASSUME EventBound == MaxEvents \in Nat
ASSUME PatienceSwitch == Patient \in BOOLEAN

VARIABLES
  record,         \* the run records; known: in the manager's table
  task,           \* where _execute stands
  cancelled,      \* the runs whose future is cancelled
  creator,        \* the create_run handlers
  canceller,      \* the cancel_run handlers
  manager,        \* shutdown
  sweep,          \* the runs its loop has yet to come to
  viewer          \* the event streams

runVars == <<record, task, cancelled, creator, canceller, manager, sweep, viewer>>
handlerVars == <<creator, canceller, manager, sweep>>

EventKinds == {"event", "done", "error"}
TaskStates == {"none", "agent", "answered", "completing", "failing", "cancelling",
               "reporting", "over"}
Watching == {"look", "events", "status", "wait", "recheck"}

RunsTypeOK ==
  /\ record \in [LocalRuns -> [known: BOOLEAN,
                               status: {"running", "done", "error", "cancelled"},
                               log: Seq(EventKinds),
                               settled: BOOLEAN]]
  /\ task \in [LocalRuns -> TaskStates]
  /\ cancelled \in SUBSET LocalRuns
  /\ creator \in [LocalRuns -> {"idle", "registered", "over"}]
  /\ canceller \in [LocalRuns -> {"idle", "waiting", "marking"}]
  /\ manager \in {"open", "cancelling", "waiting", "closed"}
  /\ sweep \in SUBSET LocalRuns
  /\ viewer \in [Viewers -> [pc: {"idle", "closed", "gone"} \cup Watching,
                             run: LocalRuns, index: 0..MaxEvents + 1]]

RunsInit ==
  /\ record = [r \in LocalRuns |->
       [known |-> FALSE, status |-> "running", log |-> <<>>, settled |-> FALSE]]
  /\ task = [r \in LocalRuns |-> "none"]
  /\ cancelled = {}
  /\ creator = [r \in LocalRuns |-> "idle"]
  /\ canceller = [r \in LocalRuns |-> "idle"]
  /\ manager = "open"
  /\ sweep = {}
  /\ viewer \in [Viewers -> [pc: {"idle"}, run: LocalRuns, index: {0}]]

Known == {r \in LocalRuns : record[r].known}
Alive(r) == task[r] \notin {"none", "over"}

-----------------------------------------------------------------------------
(* create_run, on the server's loop. *)

\* The record is in the table before on_started is awaited.
Register(r) ==
  /\ creator[r] = "idle"
  /\ creator' = [creator EXCEPT ![r] = "registered"]
  /\ record' = [record EXCEPT ![r].known = TRUE]
  /\ UNCHANGED <<task, cancelled, canceller, manager, sweep, viewer>>

\* on_started raises: the record stays, running and without a task.
StartedRaises(r) ==
  /\ creator[r] = "registered"
  /\ creator' = [creator EXCEPT ![r] = "over"]
  /\ UNCHANGED <<record, task, cancelled, canceller, manager, sweep, viewer>>

Schedule_CheckedBefore(r) ==
  /\ creator[r] = "registered"
  /\ manager # "closed"
  /\ creator' = [creator EXCEPT ![r] = "over"]
  /\ task' = [task EXCEPT ![r] = "agent"]
  /\ UNCHANGED <<record, cancelled, canceller, manager, sweep, viewer>>

\* _closed is looked at after on_started, with no await before the task starts.
Schedule(r) ==
  /\ creator[r] = "registered"
  /\ manager = "open"
  /\ creator' = [creator EXCEPT ![r] = "over"]
  /\ task' = [task EXCEPT ![r] = "agent"]
  /\ UNCHANGED <<record, cancelled, canceller, manager, sweep, viewer>>

\* PortalShutdownError, and again the record stays.
ScheduleRefused(r) ==
  /\ creator[r] = "registered"
  /\ manager # "open"
  /\ creator' = [creator EXCEPT ![r] = "over"]
  /\ UNCHANGED <<record, task, cancelled, canceller, manager, sweep, viewer>>

\* _prune_expired, in some create_run, of a run without an event for an hour
\* (a run is scheduled in less).
Prune(r) ==
  /\ creator[r] = "over" /\ record[r].known
  /\ record' = [record EXCEPT ![r].known = FALSE]
  /\ cancelled' = IF Alive(r) THEN cancelled \cup {r} ELSE cancelled
  /\ UNCHANGED <<task, handlerVars, viewer>>

-----------------------------------------------------------------------------
(* _execute, on the portal's loop. *)

HasEnded(log) == log # <<>> /\ log[Len(log)] \in {"done", "error"}
Closed(log, last) == IF HasEnded(log) THEN log ELSE Append(log, last)

\* Events of the agent, its own done or error among them.
AgentEmits(r) ==
  /\ task[r] = "agent"
  /\ Len(record[r].log) < MaxEvents
  /\ \E e \in EventKinds : record' = [record EXCEPT ![r].log = Append(@, e)]
  /\ UNCHANGED <<task, cancelled, handlerVars, viewer>>

AgentReturns_Unclosed(r) ==
  /\ task[r] = "agent"
  /\ task' = [task EXCEPT ![r] = "answered"]
  /\ UNCHANGED <<record, cancelled, handlerVars, viewer>>

AgentReturns(r) ==
  /\ task[r] = "agent"
  /\ task' = [task EXCEPT ![r] = "answered"]
  /\ record' = [record EXCEPT ![r].log = Closed(@, "done")]
  /\ UNCHANGED <<cancelled, handlerVars, viewer>>

\* The agent, or on_completed after the status was set, raises.
Raises(r) ==
  /\ task[r] \in {"agent", "completing"}
  /\ task' = [task EXCEPT ![r] = "failing"]
  /\ record' = [record EXCEPT ![r].log = Closed(@, "error")]
  /\ UNCHANGED <<cancelled, handlerVars, viewer>>

\* The cancellation comes up at an await of the agent or of on_completed.
CancelArrives(r) ==
  /\ r \in cancelled
  /\ task[r] \in {"agent", "completing"}
  /\ task' = [task EXCEPT ![r] = "cancelling"]
  /\ record' = [record EXCEPT ![r].log = Closed(@, "error")]
  /\ UNCHANGED <<cancelled, handlerVars, viewer>>

Outcome == [answered |-> "done", failing |-> "error", cancelling |-> "cancelled"]

\* The status, after the last event; then on_completed, on_failed or on_cancelled.
SetStatus(r) ==
  /\ task[r] \in DOMAIN Outcome
  /\ record' = [record EXCEPT ![r].status = Outcome[task[r]]]
  /\ task' = [task EXCEPT ![r] = IF @ = "answered" THEN "completing" ELSE "reporting"]
  /\ UNCHANGED <<cancelled, handlerVars, viewer>>

\* finally: mark_settled.
Settle(r) ==
  /\ task[r] \in {"completing", "reporting"}
  /\ record' = [record EXCEPT ![r].settled = TRUE]
  /\ task' = [task EXCEPT ![r] = "over"]
  /\ UNCHANGED <<cancelled, handlerVars, viewer>>

-----------------------------------------------------------------------------
(* cancel_run, on the server's loop. *)

CancelRun(r) ==
  /\ canceller[r] = "idle"
  /\ r \in Known /\ record[r].status = "running" /\ task[r] # "none"
  /\ canceller' = [canceller EXCEPT ![r] = "waiting"]
  /\ cancelled' = cancelled \cup {r}
  /\ UNCHANGED <<record, task, creator, manager, sweep, viewer>>

CancelWakes_WhenSettled(r) ==
  /\ canceller[r] = "waiting"
  /\ record[r].settled
  /\ canceller' = [canceller EXCEPT ![r] =
       IF record[r].status = "running" THEN "marking" ELSE "idle"]
  /\ UNCHANGED <<record, task, cancelled, creator, manager, sweep, viewer>>

\* The run has settled or the wait has timed out; then the status is read.
CancelWakes(r) ==
  /\ canceller[r] = "waiting"
  /\ record[r].settled \/ ~Patient
  /\ canceller' = [canceller EXCEPT ![r] =
       IF record[r].status = "running" THEN "marking" ELSE "idle"]
  /\ UNCHANGED <<record, task, cancelled, creator, manager, sweep, viewer>>

\* The status is written, whatever it has become since it was read.
CancelMarks(r) ==
  /\ canceller[r] = "marking"
  /\ canceller' = [canceller EXCEPT ![r] = "idle"]
  /\ record' = [record EXCEPT ![r].status = "cancelled"]
  /\ UNCHANGED <<task, cancelled, creator, manager, sweep, viewer>>

-----------------------------------------------------------------------------
(* shutdown, on the server's loop. *)

\* _closed is set, and the loop over the records begins, in one go.
Shutdown ==
  /\ manager = "open"
  /\ manager' = "cancelling"
  /\ sweep' = Known
  /\ UNCHANGED <<record, task, cancelled, creator, canceller, viewer>>

ShutdownCancels(r) ==
  /\ manager = "cancelling" /\ r \in sweep
  /\ sweep' = sweep \ {r}
  /\ cancelled' = IF Alive(r) THEN cancelled \cup {r} ELSE cancelled
  /\ UNCHANGED <<record, task, creator, canceller, manager, viewer>>

ShutdownWaits ==
  /\ manager = "cancelling" /\ sweep = {}
  /\ manager' = "waiting"
  /\ sweep' = {r \in Known : task[r] # "none"}
  /\ UNCHANGED <<record, task, cancelled, creator, canceller, viewer>>

ShutdownWaited(r) ==
  /\ manager = "waiting" /\ r \in sweep
  /\ record[r].settled \/ ~Patient
  /\ sweep' = sweep \ {r}
  /\ UNCHANGED <<record, task, cancelled, creator, canceller, manager, viewer>>

\* The portal stops and cancels what it still runs.
PortalStops ==
  /\ manager = "waiting" /\ sweep = {}
  /\ manager' = "closed"
  /\ cancelled' = cancelled \cup {r \in LocalRuns : Alive(r)}
  /\ UNCHANGED <<record, task, creator, canceller, sweep, viewer>>

-----------------------------------------------------------------------------
(* stream_chat_run_events of a run the store does not have, on the server's loop. *)

View(c, pc) ==
  /\ viewer' = [viewer EXCEPT ![c].pc = pc]
  /\ UNCHANGED <<record, task, cancelled, handlerVars>>

OpenStream(c) == viewer[c].pc = "idle" /\ viewer[c].run \in Known /\ View(c, "look")

\* The record is looked up again on each round.
LookUp(c) == viewer[c].pc = "look" /\ View(c, IF viewer[c].run \in Known THEN "events" ELSE "gone")

SendEvent(c) ==
  /\ viewer[c].pc = "events"
  /\ viewer[c].index < Len(record[viewer[c].run].log)
  /\ viewer' = [viewer EXCEPT ![c].index = @ + 1]
  /\ UNCHANGED <<record, task, cancelled, handlerVars>>

NoMoreEvents(c) ==
  /\ viewer[c].pc = "events"
  /\ viewer[c].index >= Len(record[viewer[c].run].log)
  /\ View(c, "status")

LookAtStatus(c) ==
  /\ viewer[c].pc = "status"
  /\ View(c, IF record[viewer[c].run].status = "running" THEN "wait" ELSE "closed")

\* wait_for_events, which returns the status it reads last.
WaitForEvents(c) ==
  /\ viewer[c].pc = "wait"
  /\ View(c, IF record[viewer[c].run].status = "running" THEN "look" ELSE "recheck")

LookAgain(c) ==
  /\ viewer[c].pc = "recheck"
  /\ View(c, IF viewer[c].index >= Len(record[viewer[c].run].log) THEN "closed" ELSE "look")

ViewerStep(c) ==
  LookUp(c) \/ SendEvent(c) \/ NoMoreEvents(c) \/ LookAtStatus(c) \/ WaitForEvents(c) \/ LookAgain(c)

HandlerStep(r) ==
  \/ Register(r) \/ StartedRaises(r) \/ Schedule(r) \/ ScheduleRefused(r) \/ Prune(r)
  \/ CancelRun(r) \/ CancelWakes(r) \/ CancelMarks(r)
  \/ ShutdownCancels(r) \/ ShutdownWaited(r)
ExecuteStep(r) ==
  \/ AgentEmits(r) \/ AgentReturns(r) \/ Raises(r) \/ CancelArrives(r)
  \/ SetStatus(r) \/ Settle(r)

RunsNext ==
  \/ \E r \in LocalRuns : HandlerStep(r) \/ ExecuteStep(r)
  \/ Shutdown \/ ShutdownWaits \/ PortalStops
  \/ \E c \in Viewers : OpenStream(c) \/ ViewerStep(c)

RunsSpec == RunsInit /\ [][RunsNext]_runVars

\* The server's loop runs, a wait times out, and the client of a stream reads.
\* The agent may be wedged for ever.
RunsFairness ==
  /\ \A r \in LocalRuns : WF_runVars(CancelWakes(r)) /\ WF_runVars(CancelMarks(r))
  /\ \A c \in Viewers : WF_runVars(ViewerStep(c))

FairRunsSpec == RunsSpec /\ RunsFairness

-----------------------------------------------------------------------------
(* Properties. *)

\* A run that has settled has an outcome and a terminal event as its last, on
\* each of _execute's ways out: cancel_run reads the status after the wait.
SettledRunHasEnded ==
  \A r \in LocalRuns : record[r].settled =>
    record[r].status # "running" /\ HasEnded(record[r].log)

\* Once shutdown has come to its waits nothing runs that was not told to stop:
\* no handler that was waiting in on_started starts a run behind its back.
ShutdownReachesEveryRun ==
  manager \in {"waiting", "closed"} =>
    \A r \in LocalRuns : Alive(r) => r \in cancelled

\* A client that has its run cancelled sees its stream end, though the run may
\* be wedged and never unwind (the bounded wait of cancel_run).
CancelEndsTheStream ==
  \A c \in Viewers :
    viewer[c].pc \in Watching /\ canceller[viewer[c].run] = "waiting"
      ~> viewer[c].pc \in {"closed", "gone"}

\* What tests/test_agent_run_manager.py expects of a stream: that it has the
\* whole log when it ends, a terminal event as the last.
StreamEndsWithTerminalEvent ==
  \A c \in Viewers : viewer[c].pc = "closed" =>
    /\ viewer[c].index = Len(record[viewer[c].run].log)
    /\ HasEnded(record[viewer[c].run].log)
=============================================================================
