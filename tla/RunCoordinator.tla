------------------------------ MODULE RunCoordinator ------------------------------
(***************************************************************************)
(* The agent's own caller of the store: one worker per request, each the   *)
(* life of one AgentLoop.run with its CanonicalAgentRun, RunCoordinator,   *)
(* event writer and heartbeat (src/dojoagents/agent/loop.py,               *)
(* agent/session_run.py, sessions/run_coordinator.py).                     *)
(*                                                                         *)
(* A worker is three tasks: the request itself, which emits events and     *)
(* ends the run; the event writer, which drains the event stream into the  *)
(* coordinator's buffer and the buffer into the store; and the heartbeat,  *)
(* which renews the lease and looks for a cancellation request.  An action *)
(* is what one of them does between two awaits; the store calls in between *)
(* are the actions of SessionStore.  Workers may be in other processes:    *)
(* they share nothing but the store.                                       *)
(*                                                                         *)
(* A worker's turn id and idempotency key are its run id (a request and    *)
(* its retry carry the same ones), its holder id is its own.  Messages,    *)
(* usage and tool calls of the request are left to the store model; here   *)
(* they are store calls that a lost lease refuses (CoreLosesLease).        *)
(***************************************************************************)
EXTENDS SessionStore, FiniteSets

CONSTANTS
  Workers,        \* one per request; also its holder id
  Capacity,       \* events that may wait in the stream before the emitter waits (28)
  Batch,          \* event_batch_size
  RenewAt,        \* a heartbeat renews when no more than this is left of the lease
  Timely,         \* TRUE: no worker at work lets its lease run out
  Faulty          \* TRUE: store calls of the writer and the heartbeat may fail

ASSUME WorkerNames == Workers \subseteq Holders /\ Runs \subseteq Keys \cap TurnIds
ASSUME WorkerBounds == Capacity \in Nat /\ Batch \in Nat \ {0} /\ RenewAt \in Nat
ASSUME WorkerSwitches == Timely \in BOOLEAN /\ Faulty \in BOOLEAN

VARIABLE worker   \* what each worker keeps in memory

coordinatorVars == <<vars, worker>>

AtWork == {"begun", "starting", "working", "closing", "ending"}
Over == {"refused", "ended", "suspended", "lost", "abandoned", "crashed"}
Goals == {"commit", "fail", "cancel", "suspend"}

WorkerRecord ==
  [pc: {"idle", "ready"} \cup AtWork \cup Over,
   run: Runs,
   turn: 0..MaxTurn + 1,         \* turn_sequence
   token: 0..MaxToken,           \* handle.lease
   view: Nat,                    \* handle.lease.expires_at - now
   next: 1..MaxSeq + 1,          \* _next_sequence
   queue: 0..Capacity,           \* events in the writer's stream
   buffer: SUBSET [seq: 1..MaxSeq, body: Payloads],
   writer: BOOLEAN,              \* the writer task runs
   beats: BOOLEAN,               \* the heartbeat task runs
   goal: Goals,                  \* how the worker means to end the run
   shield: BOOLEAN,              \* it does so in a shielded scope
   emitted: Nat]                 \* history: the events it emitted

WorkerTypeOK == worker \in [Workers -> WorkerRecord]

CoordinatorInit ==
  /\ Init
  /\ worker \in [Workers ->
       [pc: {"idle"}, run: Runs, turn: {0}, token: {0}, view: {0}, next: {1},
        queue: {0}, buffer: {{}}, writer: {FALSE}, beats: {FALSE},
        goal: {"commit"}, shield: {FALSE}, emitted: {0}]]

Run(w) == worker[w].run
Token(w) == worker[w].token
Ending(w, goals) == worker[w].pc = "ending" /\ worker[w].goal \in goals /\ worker[w].buffer = {}

\* The worker's tasks are gone and it will not use its lease again.
Leaves(w, pc) ==
  worker' = [worker EXCEPT ![w].pc = pc, ![w].view = 0, ![w].queue = 0,
                           ![w].buffer = {}, ![w].writer = FALSE, ![w].beats = FALSE]

-----------------------------------------------------------------------------
(* Beginning: CanonicalAgentRun.begin. *)

\* The next turn sequence is read before the lease is taken.
ReadTurns(w) ==
  /\ worker[w].pc = "idle"
  /\ \E n \in 1..MaxTurn :
       /\ \A u \in turns : u.seq < n
       /\ n = 1 \/ \E u \in turns : u.seq = n - 1
       /\ worker' = [worker EXCEPT ![w].pc = "ready", ![w].turn = n]
  /\ UNCHANGED vars

Begin(w) ==
  /\ worker[w].pc = "ready"
  /\ BeginRunWithLease(Run(w), Run(w), w, {})
  /\ worker' = [worker EXCEPT ![w].pc = "begun", ![w].token = lease'.token,
                              ![w].view = lease'.left]

BeginRefused(w) ==
  /\ worker[w].pc = "ready"
  /\ Live \/ runs[Run(w)].status \in Ended
  /\ Leaves(w, "refused")
  /\ UNCHANGED vars

\* RunCoordinator.begin continues after the last stored event; then the writer
\* and the heartbeat start.  (Emit's bound leaves the numbers it needs.)
StartWriting(w, n) ==
  worker' = [worker EXCEPT ![w].pc = "starting", ![w].next = n,
                           ![w].writer = TRUE, ![w].beats = TRUE]

ReadEvents_FromOne(w) == worker[w].pc = "begun" /\ StartWriting(w, 1) /\ UNCHANGED vars

ReadEvents(w) ==
  /\ worker[w].pc = "begun"
  /\ \E n \in 1 .. MaxSeq - 1 :
       /\ \A e \in events[Run(w)] : e.seq < n
       /\ n = 1 \/ \E e \in events[Run(w)] : e.seq = n - 1
       /\ StartWriting(w, n)
  /\ UNCHANGED vars

\* Cache lookup and harness state are behind it: the body of _run_scoped's try.
StartCore(w) ==
  /\ worker[w].pc = "starting"
  /\ worker' = [worker EXCEPT ![w].pc = "working"]
  /\ UNCHANGED vars

\* An error before that try block is raised without ending the run.
StartFails(w) ==
  /\ Faulty
  /\ worker[w].pc \in {"begun", "starting"}
  /\ Leaves(w, "abandoned")
  /\ UNCHANGED vars

-----------------------------------------------------------------------------
(* The request: AgentLoop._run_core and what follows it. *)

Emit_Overfull(w) ==
  /\ worker[w].pc = "working"
  /\ worker[w].next + worker[w].queue + 2 <= MaxSeq
  /\ worker' = [worker EXCEPT ![w].queue = @ + 1, ![w].emitted = @ + 1]
  /\ UNCHANGED vars

\* The emitter waits while the stream is full (wait_for_capacity).  Bound: two
\* sequence numbers stay free, for a refused done event and an error event.
Emit(w) ==
  /\ worker[w].pc = "working"
  /\ worker[w].queue < Capacity
  /\ worker[w].next + worker[w].queue + 2 <= MaxSeq
  /\ worker' = [worker EXCEPT ![w].queue = @ + 1, ![w].emitted = @ + 1]
  /\ UNCHANGED vars

\* The answer is there (commit) or the core raised (fail).
FinishCore(w, goal) ==
  /\ worker[w].pc = "working"
  /\ worker' = [worker EXCEPT ![w].pc = "closing", ![w].goal = goal]
  /\ UNCHANGED vars

\* A store call of the core is refused, or the emitter finds the writer gone:
\* SessionLeaseLostError is raised on, with no further write.
CoreLosesLease(w) ==
  /\ worker[w].pc = "working"
  /\ ~ValidLease(Token(w)) \/ ~worker[w].writer
  /\ Leaves(w, "lost")
  /\ UNCHANGED vars

\* _prepare_terminal: the heartbeat first, then the writer, once it has
\* drained the stream or given up.
CloseHeartbeat(w) ==
  /\ worker[w].pc = "closing"
  /\ worker[w].beats
  /\ worker' = [worker EXCEPT ![w].beats = FALSE]
  /\ UNCHANGED vars

CloseWriter_Undrained(w) ==
  /\ worker[w].pc = "closing"
  /\ ~worker[w].beats
  /\ worker' = [worker EXCEPT ![w].pc = "ending", ![w].writer = FALSE, ![w].queue = 0]
  /\ UNCHANGED vars

CloseWriter_AwaitsDrain(w) ==
  /\ worker[w].pc = "closing"
  /\ ~worker[w].beats
  /\ worker[w].queue = 0 /\ worker[w].buffer = {}
  /\ worker' = [worker EXCEPT ![w].pc = "ending", ![w].writer = FALSE]
  /\ UNCHANGED vars

CloseWriter(w) ==
  /\ worker[w].pc = "closing"
  /\ ~worker[w].beats
  /\ ~worker[w].writer \/ (worker[w].queue = 0 /\ worker[w].buffer = {})
  /\ worker' = [worker EXCEPT ![w].pc = "ending", ![w].writer = FALSE, ![w].queue = 0]
  /\ UNCHANGED vars

-----------------------------------------------------------------------------
(* The event writer. *)

Take_CountsFirst(w) ==
  /\ worker[w].writer
  /\ worker[w].queue > 0
  /\ worker[w].buffer = {}
  /\ \E p \in Payloads :
       worker' = [worker EXCEPT ![w].buffer = {[seq |-> worker[w].next + 1, body |-> p]},
                                ![w].next = @ + 1,
                                ![w].queue = @ - 1]
  /\ UNCHANGED vars

Take(w) ==
  LET n == IF worker[w].queue < Batch THEN worker[w].queue ELSE Batch
      first == worker[w].next
  IN  /\ worker[w].writer
      /\ worker[w].queue > 0
      /\ worker[w].buffer = {}
      /\ \E p \in Payloads :
           worker' = [worker EXCEPT
             ![w].buffer = {[seq |-> s, body |-> p] : s \in first .. first + n - 1},
             ![w].next = first + n,
             ![w].queue = @ - n]
      /\ UNCHANGED vars

\* flush, by the writer or by the worker that ends the run.
MayFlush(w) == worker[w].writer \/ worker[w].pc = "ending"

Flush(w) ==
  /\ MayFlush(w)
  /\ worker[w].buffer # {}
  /\ AppendEvents(Run(w), Token(w), worker[w].buffer)
  /\ worker' = [worker EXCEPT ![w].buffer = {}]

\* The lease is somebody else's: the writer stops and keeps the error for the
\* emitter; a flush that was to end the run ends the worker instead.
FlushLost(w) ==
  /\ MayFlush(w)
  /\ worker[w].buffer # {}
  /\ lease.token # Token(w)
  /\ IF worker[w].writer
     THEN worker' = [worker EXCEPT ![w].writer = FALSE]
     ELSE Leaves(w, "lost")
  /\ UNCHANGED vars

-----------------------------------------------------------------------------
(* The heartbeat, and cancellation. *)

\* The scope around the request is cancelled, its other tasks with it.  The
\* cleanup for that is shielded; before _run_scoped's try block and in the
\* handler that fails the run there is none.
StopOwner(w, goal) ==
  \/ /\ worker[w].pc \in {"begun", "starting"} \/
          (worker[w].pc \in {"closing", "ending"} /\ worker[w].goal = "fail" /\ ~worker[w].shield)
     /\ Leaves(w, "abandoned")
  \/ /\ worker[w].pc = "working" \/
          (worker[w].pc \in {"closing", "ending"} /\ worker[w].goal = "commit")
     /\ worker' = [worker EXCEPT ![w].pc = "ending", ![w].goal = goal, ![w].shield = TRUE,
                                 ![w].writer = FALSE, ![w].beats = FALSE, ![w].queue = 0]
  \/ /\ worker[w].pc = "closing" /\ worker[w].shield
     /\ worker' = [worker EXCEPT ![w].writer = FALSE, ![w].beats = FALSE, ![w].queue = 0]

Renew(w) ==
  /\ worker[w].beats
  /\ worker[w].view <= RenewAt
  /\ RenewLease(Token(w))
  /\ worker' = [worker EXCEPT ![w].view = lease'.left]

RenewLost(w) ==
  /\ worker[w].beats
  /\ worker[w].view <= RenewAt
  /\ ~MatchedLease(Token(w))
  /\ StopOwner(w, "cancel")
  /\ UNCHANGED vars

SeeCancel_WhenRenewing(w) ==
  /\ worker[w].beats
  /\ worker[w].view <= RenewAt
  /\ runs[Run(w)].status = "cancellation_requested"
  /\ StopOwner(w, "cancel")
  /\ UNCHANGED vars

SeeCancel(w) ==
  /\ worker[w].beats
  /\ runs[Run(w)].status = "cancellation_requested"
  /\ StopOwner(w, "cancel")
  /\ UNCHANGED vars

\* Four failed flushes, or three failed heartbeats.
TaskFails(w) ==
  /\ Faulty
  /\ worker[w].beats \/ (worker[w].writer /\ worker[w].buffer # {})
  /\ StopOwner(w, "cancel")
  /\ UNCHANGED vars

\* The caller cancels: the scope (a portal's future), or the task alone, whose
\* writer and heartbeat then run until they are closed.  _run_control says
\* whether that is a cancellation, a deadline or a suspension.
CancelTask(w, goal) ==
  /\ \/ StopOwner(w, goal)
     \/ /\ worker[w].pc = "working" \/ (worker[w].pc = "closing" /\ worker[w].goal = "commit")
        /\ worker' = [worker EXCEPT ![w].pc = "closing", ![w].goal = goal, ![w].shield = TRUE]
  /\ UNCHANGED vars

\* The scope is cancelled while a store call runs: its thread completes the
\* call, and the worker is interrupted before it notes the result.  The buffer
\* is then flushed again, and a stored turn is followed by a terminal write.
FlushUnseen(w, goal) ==
  /\ MayFlush(w)
  /\ worker[w].buffer # {}
  /\ AppendEvents(Run(w), Token(w), worker[w].buffer)
  /\ StopOwner(w, goal)

CommitUnseen(w, goal) ==
  /\ Ending(w, {"commit"})
  /\ CommitTurn(Run(w), Token(w), Run(w), worker[w].turn, worker[w].next)
  /\ worker' = [worker EXCEPT ![w].goal = goal, ![w].shield = TRUE, ![w].next = @ + 1]

Crash(w) ==
  /\ worker[w].pc \in {"ready"} \cup AtWork
  /\ Leaves(w, "crashed")
  /\ UNCHANGED vars

-----------------------------------------------------------------------------
(* Ending: RunCoordinator.commit, fail, cancel and suspend after their flush. *)

Commit(w) ==
  /\ Ending(w, {"commit"})
  /\ CommitTurn(Run(w), Token(w), Run(w), worker[w].turn, worker[w].next)
  /\ Leaves(w, "ended")

\* commit_turn raises.  A turn stored under the id is another worker's, with
\* other timestamps, and so a conflict, whatever became of the lease.  The done
\* event's sequence number is used up by then.
CommitRefused(w) ==
  LET stored == \E u \in turns : u.id = Run(w)
  IN  /\ Ending(w, {"commit"})
      /\ ~MayCommit(Run(w), Token(w), Run(w), worker[w].turn)
      /\ IF ~stored /\ ~ValidLease(Token(w))
         THEN Leaves(w, "lost")
         ELSE worker' = [worker EXCEPT ![w].goal = "fail", ![w].next = @ + 1]
      /\ UNCHANGED vars

StatusOf(goal) == IF goal = "fail" THEN "failed" ELSE "cancelled"

Finish_StatusOnly(w) ==
  /\ Ending(w, {"fail", "cancel"})
  /\ runs' = [runs EXCEPT ![Run(w)].status = StatusOf(worker[w].goal)]
  /\ Leaves(w, "ended")
  /\ UNCHANGED <<leaseVars, events, turns, messageVars, toolVars>>

Finish(w) ==
  /\ Ending(w, {"fail", "cancel"})
  /\ FinishRun(Run(w), Token(w), StatusOf(worker[w].goal), worker[w].next)
  /\ Leaves(w, "ended")

FinishRefused_Silently(w) ==
  /\ Ending(w, {"fail", "cancel"})
  /\ ~MayFinish(Run(w), Token(w))
  /\ Leaves(w, "ended")
  /\ UNCHANGED vars

\* The run has that status already, or it cannot be given it: a lost lease is
\* logged and swallowed.
FinishRefused(w) ==
  /\ Ending(w, {"fail", "cancel"})
  /\ IF runs[Run(w)].status = StatusOf(worker[w].goal)
     THEN Leaves(w, "ended")
     ELSE ~MayFinish(Run(w), Token(w)) /\ Leaves(w, "lost")
  /\ UNCHANGED vars

Suspend(w) ==
  /\ Ending(w, {"suspend"})
  /\ ReleaseLease(Token(w))
  /\ Leaves(w, "suspended")

\* release_lease answers like a success when the session has no lease at all.
SuspendRefused(w) ==
  /\ Ending(w, {"suspend"})
  /\ ~ValidLease(Token(w))
  /\ Leaves(w, IF lease.token = 0 THEN "suspended" ELSE "lost")
  /\ UNCHANGED vars

-----------------------------------------------------------------------------
(* The clock, and the client that asks for a cancellation. *)

TimePasses ==
  /\ Tick
  /\ Timely => \A w \in Workers : worker[w].pc \in AtWork => worker[w].view > 1
  /\ worker' = [w \in Workers |->
       [worker[w] EXCEPT !.view = IF @ > 0 THEN @ - 1 ELSE 0]]

ClientCancels(r) == RequestCancel(r) /\ UNCHANGED worker

WriterStep(w) == Take(w) \/ Flush(w) \/ FlushLost(w)
HeartbeatStep(w) == Renew(w) \/ RenewLost(w) \/ SeeCancel(w)
CloseStep(w) == CloseHeartbeat(w) \/ CloseWriter(w)
EndingStep(w) ==
  \/ Commit(w) \/ CommitRefused(w)
  \/ Finish(w) \/ FinishRefused(w)
  \/ Suspend(w) \/ SuspendRefused(w)
BeginningStep(w) ==
  ReadTurns(w) \/ Begin(w) \/ BeginRefused(w) \/ ReadEvents(w) \/ StartCore(w) \/ StartFails(w)
CoreStep(w) ==
  Emit(w) \/ CoreLosesLease(w) \/ \E goal \in {"commit", "fail"} : FinishCore(w, goal)
OutsideStep(w) ==
  \/ TaskFails(w)
  \/ Crash(w)
  \/ \E goal \in {"cancel", "fail", "suspend"} :
       CancelTask(w, goal) \/ FlushUnseen(w, goal) \/ CommitUnseen(w, goal)

CoordinatorNext ==
  \/ \E w \in Workers :
       \/ BeginningStep(w) \/ CoreStep(w) \/ WriterStep(w) \/ HeartbeatStep(w)
       \/ CloseStep(w) \/ EndingStep(w) \/ OutsideStep(w)
  \/ TimePasses
  \/ \E r \in Runs : ClientCancels(r)

CoordinatorSpec == CoordinatorInit /\ [][CoordinatorNext]_coordinatorVars

\* The event loop runs a task that is ready, and a store call returns; each
\* heartbeat looks for a cancellation after it has renewed.  The start of a
\* worker, the core (an LLM), the clients and the clock may stop.
Fairness ==
  \A w \in Workers :
    /\ WF_coordinatorVars(ReadEvents(w))
    /\ WF_coordinatorVars(WriterStep(w))
    /\ WF_coordinatorVars(Renew(w) \/ RenewLost(w))
    /\ WF_coordinatorVars(SeeCancel(w))
    /\ WF_coordinatorVars(CloseStep(w))
    /\ WF_coordinatorVars(EndingStep(w))

FairCoordinatorSpec == CoordinatorSpec /\ Fairness

-----------------------------------------------------------------------------
(* Properties. *)

Terminal(r) == {e \in events[r] : e.body \in {"done", "error"}}

\* The events stored under the worker's token; its turn is stored with the last.
Written(w) == {e \in events[Run(w)] : e.token = Token(w)}
Committed(w) == \E e \in Written(w) : e.body = "done"

\* A worker at work never thinks its lease lasts longer than it does: while its
\* own copy has not expired the store's lease is its own, unless its own commit
\* gave it back (heartbeat, commit_turn).
LocalViewIsSafe ==
  \A w \in Workers :
    worker[w].pc \in AtWork /\ worker[w].view > 0 /\ ~Committed(w) =>
      lease.token = Token(w) /\ worker[w].view <= lease.left

\* An ended run has one terminal event, which is its last; a run that has not
\* ended has none.  A reader of the event log may stop at it.
EndedRunHasLastEvent ==
  \A r \in Runs :
    IF runs[r].status \in Ended
    THEN \E e \in Terminal(r) : Terminal(r) = {e} /\ \A f \in events[r] : f.seq <= e.seq
    ELSE Terminal(r) = {}

\* The ordinary events of a run are numbered from 1 without a hole, through
\* failed flushes, lost leases and takeovers.
NoHoles ==
  \A r \in Runs : \A e \in events[r] \ Terminal(r) :
    \A s \in 1 .. e.seq : \E f \in events[r] \ Terminal(r) : f.seq = s

\* A run whose done event a worker wrote holds every event that worker emitted:
\* the writer is drained before the turn is committed.
CommittedEverything ==
  \A w \in Workers :
    Committed(w) => Cardinality(Written(w)) = worker[w].emitted + 1

\* A worker that ends without an error has seen its run end.
EndedWorkerEndedRun ==
  \A w \in Workers : worker[w].pc = "ended" => runs[Run(w)].status \in Ended

\* What docs/site/en/design/async-runtime.md says of cancellation: persistence
\* still happens.  A worker cancelled while it fails its run leaves it running.
NoRunIsAbandoned ==
  \A w \in Workers :
    worker[w].pc = "abandoned" /\ lease.token = Token(w) => runs[Run(w)].status \in Ended

\* A worker that has begun to end its run comes to an end, whatever happens to
\* its lease, its store calls and the requests to cancel it.
CleanupEnds ==
  \A w \in Workers :
    worker[w].pc \in {"closing", "ending"} ~> worker[w].pc \in Over

\* A request to cancel is heeded: a worker on such a run comes to an end even
\* when its core never would, unless another has taken the run over and ended
\* it meanwhile (heartbeat, SeeCancel).
CancelEndsWork ==
  \A w \in Workers :
    worker[w].pc \in AtWork /\ runs[Run(w)].status = "cancellation_requested"
      ~> worker[w].pc \in Over \/ runs[Run(w)].status \in Ended

\* A session's turns are numbered from 1 without a gap, though a worker reads
\* the next number before it has the lease (CanonicalAgentRun.begin).
TurnsAreNumbered == {u.seq : u \in turns} = 1 .. Cardinality(turns)

\* With Timely, a worker finds its lease gone only if its own commit gave it
\* back: renewing in time is enough to keep it (heartbeat).
RenewedWorkerIsNotFenced == \A w \in Workers : worker[w].pc = "lost" => Committed(w)

\* Workers use the store as its callers may: everything that holds of
\* SessionStore holds of it among workers.
ImplementsStore == Spec
=============================================================================
