------------------------------ MODULE EventLogProofs ------------------------------
(***************************************************************************)
(* What workers write, and what a client that follows a run receives, for  *)
(* every value of the constants: the ordinary events of a run are numbered *)
(* from 1 without a hole, an ended run has one terminal event, which is    *)
(* its last, a committed run holds every event its worker emitted, and a   *)
(* stream hands its client a prefix of the log and, before it ends, all of *)
(* it.  With leases renewed in time, no worker is refused for its lease.   *)
(***************************************************************************)
EXTENDS PersistedStream, RunCoordinatorSafety, StoreRefinement, WellFoundedInduction

\* The log of one run: what EndedRunHasLastEvent and NoHoles say of it.
EndEvents(log) == {e \in log : e.body \in {"done", "error"}}

LastIsTerminal(log, status) ==
  IF status \in Ended
  THEN \E e \in EndEvents(log) : EndEvents(log) = {e} /\ \A f \in log : f.seq <= e.seq
  ELSE EndEvents(log) = {}

Numbered(log) ==
  \A e \in log \ EndEvents(log) :
    \A s \in 1 .. e.seq : \E f \in log \ EndEvents(log) : f.seq = s

LogsAreGood ==
  \A r \in Runs : LastIsTerminal(events[r], runs[r].status) /\ Numbered(events[r])

\* The events of a buffer, as a flush under the token stores them.
Stored(buffer, token) == {[seq |-> b.seq, body |-> b.body, token |-> token] : b \in buffer}

\* Where a worker stands in the log of its run: its next number is beyond what
\* is stored and what is in its buffer; the buffer follows the log, or is in it
\* already (an unseen flush); and nothing is missing below the next number,
\* unless that was used up by a refused done event.
Stands(v, log) ==
  /\ \A e \in log : e.seq < v.next
  /\ \A b \in v.buffer : b.seq < v.next
  /\ \/ \A e \in log, b \in v.buffer : e.seq < b.seq
     \/ Stored(v.buffer, v.token) \subseteq log
  /\ \/ v.pc = "ending" /\ v.buffer = {}
     \/ \A s \in 1 .. v.next - 1 :
          (\E e \in log : e.seq = s) \/ (\E b \in v.buffer : b.seq = s)

\* A worker whose token is the lease's works on an active run, and stands so in
\* its log once it has read where the log ends.
Sees(v, log, status, token) ==
  /\ v.pc = "ending" => v.writer = FALSE
  /\ v.pc \in AtWork /\ token = v.token =>
       status \in Active /\ (v.pc # "begun" => Stands(v, log))

WorkersSee ==
  \A u \in Workers : Sees(worker[u], events[Run(u)], runs[Run(u)].status, lease.token)

-----------------------------------------------------------------------------
(* Steps that leave a worker where it stands. *)

Steady(v, y) ==
  /\ y.run = v.run
  /\ y.pc = "ending" => y.writer = FALSE \/ (v.pc = "ending" /\ y.writer = v.writer)
  /\ y.pc \in AtWork =>
       /\ v.pc \in AtWork
       /\ y.token = v.token /\ y.next = v.next /\ y.buffer = v.buffer
       /\ v.pc = "begun" => y.pc = "begun"
       /\ v.pc = "ending" => y.pc = "ending"

AllSteady == \A u \in Workers : Steady(worker[u], worker'[u])

LEMMA SteadySees ==
  ASSUME NEW v, NEW y, NEW log, NEW status, NEW status2, NEW token, NEW token2,
         Sees(v, log, status, token), Steady(v, y),
         y.pc \in AtWork /\ token2 = y.token =>
           token = v.token /\ (status \in Active => status2 \in Active)
  PROVE  Sees(y, log, status2, token2)
<1>1. y.pc = "ending" => y.writer = FALSE
  BY DEF Sees, Steady
<1>2. ASSUME y.pc \in AtWork, token2 = y.token
      PROVE  status2 \in Active /\ (y.pc # "begun" => Stands(y, log))
  <2>1. /\ v.pc \in AtWork /\ token = v.token
        /\ y.token = v.token /\ y.next = v.next /\ y.buffer = v.buffer
        /\ v.pc = "begun" => y.pc = "begun"
        /\ v.pc = "ending" => y.pc = "ending"
    BY <1>2 DEF Steady
  <2>2. status2 \in Active /\ (y.pc # "begun" => Stands(v, log))
    BY <1>2, <2>1 DEF Sees
  <2>3. Stands(v, log) => Stands(y, log)
    BY <2>1 DEF Stands
  <2>4. QED
    BY <2>2, <2>3
<1>3. QED
  BY <1>1, <1>2 DEF Sees

LEMMA SameIsSteady ==
  ASSUME NEW v
  PROVE  Steady(v, v)
BY DEF Steady

LEMMA LeavingIsSteady ==
  ASSUME WorkerTypeOK, NEW w \in Workers, NEW pc \in Over, Leaves(w, pc)
  PROVE  AllSteady
<1>1. worker'[w].pc = pc /\ worker'[w].run = worker[w].run
  BY DEF Leaves, WorkerTypeOK, WorkerRecord
<1>2. pc \notin AtWork /\ pc # "ending"
  BY DEF Over, AtWork
<1>3. Steady(worker[w], worker'[w])
  BY <1>1, <1>2 DEF Steady
<1>4. \A u \in Workers \ {w} : worker'[u] = worker[u]
  BY DEF Leaves, WorkerTypeOK
<1>5. QED
  BY <1>3, <1>4, SameIsSteady DEF AllSteady

LEMMA StoppingIsSteady ==
  ASSUME WorkerTypeOK, NEW w \in Workers, NEW goal, StopOwner(w, goal)
  PROVE  AllSteady
<1>1. CASE Leaves(w, "abandoned")
  BY <1>1, LeavingIsSteady DEF Over
<1>2. CASE /\ worker[w].pc \in {"working", "closing", "ending"}
           /\ worker' = [worker EXCEPT ![w].pc = "ending", ![w].goal = goal, ![w].shield = TRUE,
                           ![w].writer = FALSE, ![w].beats = FALSE, ![w].queue = 0]
  <2>1. /\ worker'[w].pc = "ending" /\ worker'[w].run = worker[w].run
        /\ worker'[w].token = worker[w].token /\ worker'[w].next = worker[w].next
        /\ worker'[w].buffer = worker[w].buffer /\ worker'[w].writer = FALSE
    BY <1>2 DEF WorkerTypeOK, WorkerRecord
  <2>2. Steady(worker[w], worker'[w])
    BY <1>2, <2>1 DEF Steady, AtWork
  <2>3. \A u \in Workers \ {w} : worker'[u] = worker[u]
    BY <1>2 DEF WorkerTypeOK
  <2>4. QED
    BY <2>2, <2>3, SameIsSteady DEF AllSteady
<1>3. CASE /\ worker[w].pc = "closing"
           /\ worker' = [worker EXCEPT ![w].writer = FALSE, ![w].beats = FALSE, ![w].queue = 0]
  <2>1. /\ worker'[w].pc = "closing" /\ worker'[w].run = worker[w].run
        /\ worker'[w].token = worker[w].token /\ worker'[w].next = worker[w].next
        /\ worker'[w].buffer = worker[w].buffer
    BY <1>3 DEF WorkerTypeOK, WorkerRecord
  <2>2. Steady(worker[w], worker'[w])
    BY <1>3, <2>1 DEF Steady, AtWork
  <2>3. \A u \in Workers \ {w} : worker'[u] = worker[u]
    BY <1>3 DEF WorkerTypeOK
  <2>4. QED
    BY <2>2, <2>3, SameIsSteady DEF AllSteady
<1>4. QED
  BY <1>1, <1>2, <1>3 DEF StopOwner

\* The steps that do move a worker in its log.
MovesInLog(w) ==
  \/ Begin(w) \/ ReadEvents(w) \/ Take(w) \/ Flush(w) \/ CommitRefused(w)
  \/ \E goal : CommitUnseen(w, goal)

LEMMA MostAreSteady ==
  ASSUME WorkerTypeOK, [CoordinatorNext]_coordinatorVars, \A w \in Workers : ~MovesInLog(w)
  PROVE  AllSteady
<1>1. ASSUME NEW w \in Workers, BeginningStep(w)
      PROVE  AllSteady
  <2>1. CASE ReadTurns(w)
    <3>1. PICK n \in 1..MaxTurn : worker' = [worker EXCEPT ![w].pc = "ready", ![w].turn = n]
      BY <2>1 DEF ReadTurns
    <3>2. QED
      BY <3>1 DEF AllSteady, Steady, WorkerTypeOK, WorkerRecord, AtWork
  <2>2. CASE BeginRefused(w) \/ StartFails(w)
    BY <2>2, LeavingIsSteady DEF BeginRefused, StartFails, Over
  <2>3. CASE StartCore(w)
    BY <2>3 DEF StartCore, AllSteady, Steady, WorkerTypeOK, WorkerRecord, AtWork
  <2>4. QED
    BY <1>1, <2>1, <2>2, <2>3 DEF BeginningStep, MovesInLog
<1>2. ASSUME NEW w \in Workers, CoreStep(w)
      PROVE  AllSteady
  <2>1. CASE Emit(w)
    BY <2>1 DEF Emit, AllSteady, Steady, WorkerTypeOK, WorkerRecord, AtWork
  <2>2. CASE CoreLosesLease(w)
    BY <2>2, LeavingIsSteady DEF CoreLosesLease, Over
  <2>3. ASSUME NEW goal, FinishCore(w, goal)
        PROVE  AllSteady
    BY <2>3 DEF FinishCore, AllSteady, Steady, WorkerTypeOK, WorkerRecord, AtWork
  <2>4. QED
    BY <1>2, <2>1, <2>2, <2>3 DEF CoreStep
<1>3. ASSUME NEW w \in Workers, WriterStep(w)
      PROVE  AllSteady
  <2>1. FlushLost(w)
    BY <1>3 DEF WriterStep, MovesInLog
  <2>2. CASE Leaves(w, "lost")
    BY <2>2, LeavingIsSteady DEF Over
  <2>3. CASE worker' = [worker EXCEPT ![w].writer = FALSE]
    BY <2>3 DEF AllSteady, Steady, WorkerTypeOK, WorkerRecord, AtWork
  <2>4. QED
    BY <2>1, <2>2, <2>3 DEF FlushLost
<1>4. ASSUME NEW w \in Workers, HeartbeatStep(w)
      PROVE  AllSteady
  <2>1. CASE Renew(w)
    BY <2>1 DEF Renew, AllSteady, Steady, WorkerTypeOK, WorkerRecord, AtWork
  <2>2. CASE RenewLost(w) \/ SeeCancel(w)
    BY <2>2, StoppingIsSteady DEF RenewLost, SeeCancel
  <2>3. QED
    BY <1>4, <2>1, <2>2 DEF HeartbeatStep
<1>5. ASSUME NEW w \in Workers, CloseStep(w)
      PROVE  AllSteady
  <2>1. CASE CloseHeartbeat(w)
    BY <2>1 DEF CloseHeartbeat, AllSteady, Steady, WorkerTypeOK, WorkerRecord, AtWork
  <2>2. CASE CloseWriter(w)
    BY <2>2 DEF CloseWriter, AllSteady, Steady, WorkerTypeOK, WorkerRecord, AtWork
  <2>3. QED
    BY <1>5, <2>1, <2>2 DEF CloseStep
<1>6. ASSUME NEW w \in Workers, EndingStep(w)
      PROVE  AllSteady
  <2>1. \E pc \in Over : Leaves(w, pc)
    BY <1>6 DEF EndingStep, Commit, Finish, FinishRefused, Suspend, SuspendRefused, Over,
                MovesInLog
  <2>2. QED
    BY <2>1, LeavingIsSteady
<1>7. ASSUME NEW w \in Workers, OutsideStep(w)
      PROVE  AllSteady
  <2>1. CASE TaskFails(w) \/ \E goal : FlushUnseen(w, goal)
    BY <2>1, StoppingIsSteady DEF TaskFails, FlushUnseen
  <2>2. CASE Crash(w)
    BY <2>2, LeavingIsSteady DEF Crash, Over
  <2>3. ASSUME NEW goal, CancelTask(w, goal)
        PROVE  AllSteady
    <3>1. CASE StopOwner(w, goal)
      BY <3>1, StoppingIsSteady
    <3>2. CASE /\ worker[w].pc \in {"working", "closing"}
               /\ worker' = [worker EXCEPT ![w].pc = "closing", ![w].goal = goal,
                                           ![w].shield = TRUE]
      BY <3>2 DEF AllSteady, Steady, WorkerTypeOK, WorkerRecord, AtWork
    <3>3. QED
      BY <2>3, <3>1, <3>2 DEF CancelTask
  <2>4. QED
    BY <1>7, <2>1, <2>2, <2>3 DEF OutsideStep, MovesInLog
<1>8. CASE TimePasses
  <2>1. ASSUME NEW u \in Workers
        PROVE  Steady(worker[u], worker'[u])
    <3>1. worker[u] \in WorkerRecord
      BY DEF WorkerTypeOK
    <3>2. worker'[u] = [worker[u] EXCEPT !.view = IF @ > 0 THEN @ - 1 ELSE 0]
      BY <1>8 DEF TimePasses
    <3>3. QED
      BY <3>1, <3>2 DEF Steady, WorkerRecord
  <2>2. QED
    BY <2>1 DEF AllSteady
<1>9. CASE UNCHANGED worker
  BY <1>9, SameIsSteady DEF AllSteady
<1>10. QED
  BY <1>1, <1>2, <1>3, <1>4, <1>5, <1>6, <1>7, <1>8, <1>9
     DEF CoordinatorNext, ClientCancels, coordinatorVars

-----------------------------------------------------------------------------
(* A log that grows. *)

\* The events of a flush.
LEMMA LogAppends ==
  ASSUME NEW log \in SUBSET Event, NEW new \in SUBSET Event, NEW status \in Active,
         NEW n \in Nat, LastIsTerminal(log, status),
         \A e \in new : e.body \notin {"done", "error"},
         \A e \in log \cup new : e.seq < n,
         \A s \in 1 .. n - 1 : \E e \in log \cup new : e.seq = s
  PROVE  LastIsTerminal(log \cup new, status) /\ Numbered(log \cup new)
<1>1. EndEvents(log) = {} /\ status \notin Ended
  BY DEF LastIsTerminal, Active, Ended
<1>2. EndEvents(log \cup new) = {}
  BY <1>1 DEF EndEvents
<1>3. ASSUME NEW e \in log \cup new, NEW s \in 1 .. e.seq
      PROVE  \E f \in log \cup new : f.seq = s
  <2>1. e.seq \in Nat /\ e.seq < n
    BY NatBounds DEF Event
  <2>2. s \in 1 .. n - 1
    BY <2>1
  <2>3. QED
    BY <2>2
<1>4. QED
  BY <1>1, <1>2, <1>3 DEF LastIsTerminal, Numbered

\* The event that ends the run.
LEMMA LogCloses ==
  ASSUME NEW log \in SUBSET Event, NEW last \in Event, NEW status \in Active,
         NEW status2 \in Ended, LastIsTerminal(log, status), Numbered(log),
         last.body \in {"done", "error"}, \A e \in log : e.seq < last.seq
  PROVE  LastIsTerminal(log \cup {last}, status2) /\ Numbered(log \cup {last})
<1>1. EndEvents(log) = {}
  BY DEF LastIsTerminal, Active, Ended
<1>2. EndEvents(log \cup {last}) = {last}
  BY <1>1 DEF EndEvents
<1>3. \A f \in log \cup {last} : f.seq <= last.seq
  BY NatBounds DEF Event
<1>4. (log \cup {last}) \ EndEvents(log \cup {last}) = log \ EndEvents(log)
  <2>1. last \notin log
    BY NatBounds DEF Event
  <2>2. QED
    BY <1>1, <1>2, <2>1
<1>5. LastIsTerminal(log \cup {last}, status2)
  BY <1>2, <1>3 DEF LastIsTerminal
<1>6. Numbered(log \cup {last})
  BY <1>4 DEF Numbered
<1>7. QED
  BY <1>5, <1>6

\* The log after a flush of v.
LEMMA FlushedLog ==
  ASSUME NEW v \in WorkerRecord, NEW log \in SUBSET Event, Stands(v, log), v.buffer # {}
  PROVE  /\ \A e \in log \cup Stored(v.buffer, v.token) : e.seq < v.next
         /\ \A s \in 1 .. v.next - 1 :
              \E e \in log \cup Stored(v.buffer, v.token) : e.seq = s
<1> DEFINE new == Stored(v.buffer, v.token)
<1>1. \A e \in new : \E b \in v.buffer : e.seq = b.seq
  BY DEF Stored
<1>2. ASSUME NEW b \in v.buffer
      PROVE  \E e \in new : e.seq = b.seq
  <2>1. [seq |-> b.seq, body |-> b.body, token |-> v.token] \in new
    BY DEF Stored
  <2>2. QED
    BY <2>1
<1> HIDE DEF new
<1>3. \A e \in log \cup new : e.seq < v.next
  BY <1>1 DEF Stands
<1>4. \A s \in 1 .. v.next - 1 : \E e \in log \cup new : e.seq = s
  BY <1>2 DEF Stands
<1>5. QED
  BY <1>3, <1>4 DEF new

\* v stands in that log, whether it notices the flush or not.
LEMMA StandsAfterFlush ==
  ASSUME NEW v \in WorkerRecord, NEW y, NEW log \in SUBSET Event,
         Stands(v, log), v.buffer # {},
         y.next = v.next, y.token = v.token, y.buffer = v.buffer \/ y.buffer = {}
  PROVE  Stands(y, log \cup Stored(v.buffer, v.token))
<1> DEFINE after == log \cup Stored(v.buffer, v.token)
<1>1. /\ \A e \in after : e.seq < v.next
      /\ \A s \in 1 .. v.next - 1 : \E e \in after : e.seq = s
  BY FlushedLog
<1>2. Stored(y.buffer, y.token) \subseteq after
  BY DEF Stored
<1> HIDE DEF after
<1>3. \A b \in y.buffer : b.seq < y.next
  BY DEF Stands
<1>4. QED
  BY <1>1, <1>2, <1>3 DEF Stands, after

\* The writer takes the next n events of the stream into an empty buffer.
LEMMA StandsAfterTake ==
  ASSUME NEW v \in WorkerRecord, NEW y, NEW log \in SUBSET Event, NEW n \in Nat, NEW p,
         Stands(v, log), v.buffer = {}, v.pc # "ending",
         y.next = v.next + n,
         y.buffer = {[seq |-> s, body |-> p] : s \in v.next .. v.next + n - 1}
  PROVE  Stands(y, log)
<1>0. v.next \in Nat /\ v.next >= 1 /\ \A e \in log : e.seq \in Nat
  BY NatBounds DEF WorkerRecord, Event
<1>1. \A b \in y.buffer : b.seq \in v.next .. v.next + n - 1
  OBVIOUS
<1>2. \A s \in v.next .. v.next + n - 1 : \E b \in y.buffer : b.seq = s
  <2>1. ASSUME NEW s \in v.next .. v.next + n - 1
        PROVE  [seq |-> s, body |-> p] \in y.buffer /\ [seq |-> s, body |-> p].seq = s
    BY <2>1
  <2>2. QED
    BY <2>1
<1>3. \A e \in log : e.seq < v.next
  BY DEF Stands
<1>4. \A s \in 1 .. v.next - 1 : \E e \in log : e.seq = s
  BY DEF Stands
<1>5. \A e \in log : e.seq < y.next
  BY <1>0, <1>3
<1>6. \A b \in y.buffer : b.seq < y.next
  BY <1>0, <1>1
<1>7. \A e \in log, b \in y.buffer : e.seq < b.seq
  BY <1>0, <1>1, <1>3
<1>8. \A s \in 1 .. y.next - 1 : (\E e \in log : e.seq = s) \/ (\E b \in y.buffer : b.seq = s)
  BY <1>0, <1>2, <1>4
<1>9. QED
  BY <1>5, <1>6, <1>7, <1>8 DEF Stands

-----------------------------------------------------------------------------
(* A worker whose token is the lease's sees the log as it is. *)

\* What the workers' part of a step makes of the store, unless it is one of the
\* store calls that write a log, start or end a run, or change the lease.
WritesStore(w) ==
  \/ Begin(w) \/ Flush(w) \/ Commit(w) \/ Finish(w) \/ Suspend(w)
  \/ \E goal \in {"cancel", "fail", "suspend"} : FlushUnseen(w, goal) \/ CommitUnseen(w, goal)

QuietStore ==
  /\ events' = events /\ lease'.token = lease.token
  /\ \A r \in Runs : /\ runs[r].status \in Active => runs'[r].status \in Active
                     /\ runs[r].status \in Ended <=> runs'[r].status \in Ended

LEMMA MostAreQuiet ==
  ASSUME TypeOK, [CoordinatorNext]_coordinatorVars, \A w \in Workers : ~WritesStore(w)
  PROVE  QuietStore
<1>0. runs \in RunsType /\ lease \in LeaseType
  BY DEF TypeOK, RunsType, LeaseType
<1>1. CASE UNCHANGED <<events, lease, runs>>
  BY <1>1 DEF QuietStore
<1>2. UNCHANGED vars => UNCHANGED <<events, lease, runs>>
  BY DEF vars, leaseVars
<1>3. ASSUME NEW w \in Workers, BeginningStep(w) \/ CoreStep(w) \/ CloseStep(w)
      PROVE  UNCHANGED vars
  BY <1>3 DEF BeginningStep, WritesStore, ReadTurns, BeginRefused, ReadEvents,
              StartCore, StartFails, CoreStep, Emit, CoreLosesLease, FinishCore, CloseStep,
              CloseHeartbeat, CloseWriter
<1>4. ASSUME NEW w \in Workers, WriterStep(w) \/ EndingStep(w) \/ OutsideStep(w)
      PROVE  UNCHANGED vars
  BY <1>4 DEF WriterStep, WritesStore, Take, FlushLost, EndingStep, CommitRefused,
              FinishRefused, SuspendRefused, OutsideStep, TaskFails, Crash, CancelTask
<1>5. ASSUME NEW w \in Workers, HeartbeatStep(w)
      PROVE  QuietStore
  <2>1. CASE Renew(w)
    <3>1. lease' = Extended(lease) /\ UNCHANGED <<events, runs>>
      BY <2>1 DEF Renew, RenewLease
    <3>2. lease'.token = lease.token
      BY <1>0, <3>1 DEF Extended, LeaseType
    <3>3. QED
      BY <3>1, <3>2 DEF QuietStore
  <2>2. CASE RenewLost(w) \/ SeeCancel(w)
    BY <1>1, <1>2, <2>2 DEF RenewLost, SeeCancel
  <2>3. QED
    BY <1>5, <2>1, <2>2 DEF HeartbeatStep
<1>6. CASE TimePasses
  <2>1. lease' = [lease EXCEPT !.left = @ - 1] /\ UNCHANGED <<events, runs>>
    BY <1>6 DEF TimePasses, Tick
  <2>2. lease'.token = lease.token
    BY <1>0, <2>1 DEF LeaseType
  <2>3. QED
    BY <2>1, <2>2 DEF QuietStore
<1>7. ASSUME NEW r \in Runs, ClientCancels(r)
      PROVE  QuietStore
  <2>1. /\ runs' = [runs EXCEPT ![r].status = "cancellation_requested"]
        /\ runs[r].status = "running" /\ UNCHANGED <<events, lease>>
    BY <1>7 DEF ClientCancels, RequestCancel, leaseVars
  <2>2. QED
    BY <1>0, <2>1 DEF QuietStore, RunsType, Active, Ended
<1>8. QED
  BY <1>1, <1>2, <1>3, <1>4, <1>5, <1>6, <1>7 DEF CoordinatorNext, coordinatorVars

LEMMA LogsStay ==
  ASSUME LogsAreGood, events' = events,
         \A r \in Runs : runs[r].status \in Ended <=> runs'[r].status \in Ended
  PROVE  LogsAreGood'
BY DEF LogsAreGood, LastIsTerminal

\* One log changes.
LEMMA OneLogChanges ==
  ASSUME LogsAreGood, NEW r \in Runs,
         \A s \in Runs \ {r} : events'[s] = events[s] /\ runs'[s] = runs[s],
         LastIsTerminal(events'[r], runs'[r].status), Numbered(events'[r])
  PROVE  LogsAreGood'
<1>1. ASSUME NEW s \in Runs
      PROVE  LastIsTerminal(events'[s], runs'[s].status) /\ Numbered(events'[s])
  <2>1. CASE s = r
    BY <2>1
  <2>2. CASE s # r
    BY <2>2 DEF LogsAreGood
  <2>3. QED
    BY <2>1, <2>2
<1>2. QED
  BY <1>1 DEF LogsAreGood

\* A step that writes no log: w may move in its own.
LEMMA MostSee ==
  ASSUME WorkerTypeOK, WorkersSee, NEW w \in Workers, events' = events,
         \A u \in Workers \ {w} : Steady(worker[u], worker'[u]),
         \A u \in Workers \ {w} :
           worker'[u].pc \in AtWork /\ lease'.token = worker'[u].token => lease.token = Token(u),
         \A r \in Runs : runs[r].status \in Active => runs'[r].status \in Active,
         Sees(worker'[w], events'[worker'[w].run], runs'[worker'[w].run].status, lease'.token)
  PROVE  WorkersSee'
<1>1. ASSUME NEW u \in Workers, u # w
      PROVE  Sees(worker'[u], events'[worker'[u].run], runs'[worker'[u].run].status, lease'.token)
  <2>1. /\ worker[u].run \in Runs
        /\ Steady(worker[u], worker'[u])
        /\ Sees(worker[u], events[worker[u].run], runs[worker[u].run].status, lease.token)
    BY <1>1 DEF WorkerTypeOK, WorkerRecord, WorkersSee, Run
  <2>2. worker'[u].run = worker[u].run
    BY <2>1 DEF Steady
  <2>3. worker'[u].pc \in AtWork /\ lease'.token = worker'[u].token =>
          /\ lease.token = worker[u].token
          /\ runs[worker[u].run].status \in Active => runs'[worker[u].run].status \in Active
    BY <1>1, <2>1 DEF Token
  <2>4. Sees(worker'[u], events[worker[u].run], runs'[worker[u].run].status, lease'.token)
    BY <2>1, <2>3, SteadySees
  <2>5. QED
    BY <2>2, <2>4
<1>2. QED
  BY <1>1 DEF WorkersSee, Run

LEMMA EndingWithoutWriter ==
  ASSUME WorkersSee, AllSteady
  PROVE  \A u \in Workers : worker'[u].pc = "ending" => worker'[u].writer = FALSE
BY DEF WorkersSee, AllSteady, Sees, Steady

\* The lease is given back.
LEMMA NoLeaseSees ==
  ASSUME WorkersOK', lease' = NoLease,
         \A u \in Workers : worker'[u].pc = "ending" => worker'[u].writer = FALSE
  PROVE  WorkersSee'
<1>1. ASSUME NEW u \in Workers, worker'[u].pc \in AtWork
      PROVE  lease'.token # worker'[u].token
  BY <1>1 DEF WorkersOK, Sound, NoLease
<1>2. QED
  BY <1>1 DEF WorkersSee, Sees

\* Only w holds the lease: the others need not see anything.
LEMMA OthersSee ==
  ASSUME LeaseViews, WorkersSee, NEW w \in Workers, worker[w].pc \in AtWork,
         lease.token = Token(w), lease'.token = lease.token,
         \A u \in Workers \ {w} : Steady(worker[u], worker'[u]),
         Sees(worker'[w], events'[worker'[w].run], runs'[worker'[w].run].status, lease'.token)
  PROVE  WorkersSee'
<1>1. ASSUME NEW u \in Workers, u # w
      PROVE  Sees(worker'[u], events'[worker'[u].run], runs'[worker'[u].run].status, lease'.token)
  <2>1. worker'[u].pc = "ending" => worker'[u].writer = FALSE
    BY <1>1 DEF WorkersSee, Sees, Steady
  <2>2. ~(worker'[u].pc \in AtWork /\ lease'.token = worker'[u].token)
    <3>1. SUFFICES ASSUME worker'[u].pc \in AtWork, lease'.token = worker'[u].token
                   PROVE  FALSE
      OBVIOUS
    <3>2. worker[u].pc \in AtWork /\ lease.token = Token(u)
      BY <1>1, <3>1 DEF Steady, Token
    <3>3. QED
      BY <1>1, <3>2, OneHolder
  <2>3. QED
    BY <2>1, <2>2 DEF Sees
<1>2. QED
  BY <1>1 DEF WorkersSee, Run

-----------------------------------------------------------------------------
(* The steps, one by one. *)

EventInv == LogsAreGood /\ WorkersSee

\* A worker, its run and the run's log.
LEMMA WorkerData ==
  ASSUME CoordinatorInv, NEW w \in Workers
  PROVE  /\ worker[w] \in WorkerRecord /\ Sound(worker[w], leaseCounter)
         /\ Run(w) \in Runs /\ events[Run(w)] \in SUBSET Event
         /\ worker[w].pc \in AtWork => Token(w) \in Tokens
<1>1. worker[w] \in WorkerRecord /\ Sound(worker[w], leaseCounter)
  BY DEF CoordinatorInv, WorkersOK, WorkerTypeOK
<1>2. Run(w) \in Runs
  BY <1>1 DEF Run, WorkerRecord
<1>3. worker[w].pc \in AtWork => Token(w) \in Tokens
  BY <1>1, NatBounds DEF Sound, Token, Tokens, CoordinatorInv, TypeOK
<1>4. QED
  BY <1>1, <1>2, <1>3 DEF CoordinatorInv, TypeOK

LEMMA SteadyStep ==
  ASSUME CoordinatorInv, EventInv, AllSteady, QuietStore
  PROVE  EventInv'
<1>1. LogsAreGood'
  BY LogsStay DEF EventInv, QuietStore
<1>2. ASSUME NEW w \in Workers
      PROVE  Sees(worker'[w], events'[worker'[w].run], runs'[worker'[w].run].status, lease'.token)
  <2>1. /\ worker[w].run \in Runs
        /\ Steady(worker[w], worker'[w])
        /\ Sees(worker[w], events[worker[w].run], runs[worker[w].run].status, lease.token)
    BY WorkerData DEF AllSteady, EventInv, WorkersSee, Run
  <2>2. /\ worker'[w].run = worker[w].run
        /\ worker'[w].pc \in AtWork => worker'[w].token = worker[w].token
    BY <2>1 DEF Steady
  <2>3. Sees(worker'[w], events[worker[w].run], runs'[worker[w].run].status, lease'.token)
    BY <2>1, <2>2, SteadySees DEF QuietStore
  <2>4. QED
    BY <2>2, <2>3 DEF QuietStore
<1>3. QED
  BY <1>1, <1>2 DEF EventInv, WorkersSee, Run

LEMMA BeginStepSees ==
  ASSUME CoordinatorInv, LeaseViews, EventInv, NEW w \in Workers, Begin(w)
  PROVE  EventInv'
<1>0. /\ worker[w] \in WorkerRecord /\ Run(w) \in Runs /\ runs \in RunsType
      /\ WorkerTypeOK /\ TypeOK /\ leaseCounter \in Nat
  BY WorkerData, NatBounds DEF CoordinatorInv, WorkersOK, TypeOK, RunsType
<1>1. /\ GrantLease(w) /\ events' = events
      /\ runs[Run(w)].status = "absent" \/ runs[Run(w)].status \in Active
      /\ runs' = IF runs[Run(w)].status = "absent"
                 THEN [runs EXCEPT ![Run(w)] = [status |-> "running", key |-> Run(w)]]
                 ELSE runs
  BY DEF Begin, BeginRunWithLease, KeyIsFree
<1>2. /\ runs'[Run(w)].status \in Active
      /\ \A r \in Runs : /\ runs[r].status \in Active => runs'[r].status \in Active
                         /\ runs[r].status \in Ended <=> runs'[r].status \in Ended
  BY <1>0, <1>1 DEF RunsType, Active, Ended
<1>3. LogsAreGood'
  BY <1>1, <1>2, LogsStay DEF EventInv
<1>4. /\ \A u \in Workers \ {w} : worker'[u] = worker[u]
      /\ worker'[w].pc = "begun" /\ worker'[w].run = Run(w)
  BY <1>0 DEF Begin, Run, WorkerTypeOK, WorkerRecord
<1>5. ASSUME NEW u \in Workers \ {w}, worker[u].pc \in AtWork, lease'.token = Token(u)
      PROVE  lease.token = Token(u)
  <2>1. Token(u) \in 1..leaseCounter
    BY <1>5, WorkerData DEF Sound, Token
  <2>2. CASE lease'.token = lease.token
    BY <1>5, <2>2
  <2>3. CASE lease'.token = leaseCounter + 1
    BY <1>0, <1>5, <2>1, <2>3
  <2>4. QED
    BY <1>0, <1>1, <2>2, <2>3, GrantGives
<1>6. Sees(worker'[w], events'[worker'[w].run], runs'[worker'[w].run].status, lease'.token)
  BY <1>2, <1>4 DEF Sees
<1>7. \A u \in Workers \ {w} : Steady(worker[u], worker'[u])
  BY <1>4, SameIsSteady
<1>8. \A u \in Workers \ {w} :
        worker'[u].pc \in AtWork /\ lease'.token = worker'[u].token => lease.token = Token(u)
  BY <1>4, <1>5 DEF Token
<1>9. WorkersSee'
  BY <1>0, <1>1, <1>2, <1>6, <1>7, <1>8, MostSee DEF EventInv
<1>10. QED
  BY <1>3, <1>9 DEF EventInv

\* Only w's memory changes, and the store stays.
LEMMA MemoryStep ==
  ASSUME CoordinatorInv, EventInv, NEW w \in Workers, UNCHANGED vars,
         \A u \in Workers \ {w} : worker'[u] = worker[u], worker'[w].run = Run(w),
         Sees(worker'[w], events[Run(w)], runs[Run(w)].status, lease.token)
  PROVE  EventInv'
<1>1. UNCHANGED <<events, runs, lease>>
  BY DEF vars, leaseVars
<1>2. LogsAreGood'
  BY <1>1, LogsStay DEF EventInv
<1>3. \A u \in Workers \ {w} : Steady(worker[u], worker'[u])
  BY SameIsSteady
<1>4. \A u \in Workers \ {w} :
        worker'[u].pc \in AtWork /\ lease'.token = worker'[u].token => lease.token = Token(u)
  BY <1>1 DEF Token
<1>5. Sees(worker'[w], events'[worker'[w].run], runs'[worker'[w].run].status, lease'.token)
  BY <1>1
<1>6. \A r \in Runs : runs[r].status \in Active => runs'[r].status \in Active
  BY <1>1
<1>7. WorkersSee'
  BY <1>1, <1>3, <1>4, <1>5, <1>6, MostSee DEF EventInv, CoordinatorInv, WorkersOK
<1>8. QED
  BY <1>2, <1>7 DEF EventInv

\* The next number follows the last event, and NoHoles fills what is below.
LEMMA ReadStepSees ==
  ASSUME CoordinatorInv, EventInv, NEW w \in Workers, ReadEvents(w)
  PROVE  EventInv'
<1> DEFINE v == worker[w]
           y == worker'[w]
           log == events[Run(w)]
           status == runs[Run(w)].status
<1>0. /\ v \in WorkerRecord /\ Run(w) \in Runs /\ log \in SUBSET Event
      /\ v.pc = "begun" /\ v.buffer = {} /\ WorkerTypeOK
      /\ Sees(v, log, status, lease.token)
      /\ LastIsTerminal(log, status) /\ Numbered(log)
  BY WorkerData DEF ReadEvents, Sound, Writing, AtWork, EventInv, WorkersSee, LogsAreGood,
                    CoordinatorInv, WorkersOK
<1>1. PICK n \in 1 .. MaxSeq - 1 :
        /\ \A e \in log : e.seq < n
        /\ n = 1 \/ \E e \in log : e.seq = n - 1
        /\ StartWriting(w, n) /\ UNCHANGED vars
  BY DEF ReadEvents
<1>2. /\ \A u \in Workers \ {w} : worker'[u] = worker[u]
      /\ y.run = Run(w) /\ y.pc = "starting" /\ y.next = n /\ y.buffer = {}
      /\ y.token = v.token
  BY <1>0, <1>1 DEF StartWriting, Run, WorkerTypeOK, WorkerRecord
<1>3. ASSUME lease.token = v.token
      PROVE  status \in Active /\ Stands(y, log)
  <2>1. status \in Active
    BY <1>0, <1>3 DEF Sees, AtWork
  <2>2. EndEvents(log) = {}
    BY <1>0, <2>1 DEF LastIsTerminal, Active, Ended
  <2>3. ASSUME NEW s \in 1 .. n - 1
        PROVE  \E e \in log : e.seq = s
    <3>1. PICK e \in log : e.seq = n - 1
      BY <1>1, <2>3
    <3>2. QED
      BY <1>0, <2>2, <2>3, <3>1 DEF Numbered
  <2>4. Stands(y, log)
    BY <1>1, <1>2, <2>3 DEF Stands
  <2>5. QED
    BY <2>1, <2>4
<1>4. Sees(y, log, status, lease.token)
  BY <1>2, <1>3 DEF Sees
<1> HIDE DEF v, y, log, status
<1>5. QED
  BY <1>1, <1>2, <1>4, MemoryStep DEF y, log, status

LEMMA TakeStepSees ==
  ASSUME CoordinatorInv, EventInv, NEW w \in Workers, Take(w)
  PROVE  EventInv'
<1> DEFINE v == worker[w]
           y == worker'[w]
           log == events[Run(w)]
           status == runs[Run(w)].status
           n == IF worker[w].queue < Batch THEN worker[w].queue ELSE Batch
           new(p) == {[seq |-> s, body |-> p] : s \in v.next .. v.next + n - 1}
<1>0. /\ v \in WorkerRecord /\ Run(w) \in Runs /\ log \in SUBSET Event
      /\ v.buffer = {} /\ v.writer = TRUE /\ WorkerTypeOK
      /\ Sees(v, log, status, lease.token)
  BY WorkerData DEF Take, EventInv, WorkersSee, CoordinatorInv, WorkersOK, WorkerRecord
<1>1. n \in Nat
  BY <1>0, WorkerBounds DEF WorkerRecord
<1>2. PICK p \in Payloads :
        worker' = [worker EXCEPT ![w].buffer = new(p), ![w].next = v.next + n, ![w].queue = @ - n]
  BY DEF Take
<1>3. UNCHANGED vars
  BY DEF Take
<1> HIDE DEF n
<1>4. /\ \A u \in Workers \ {w} : worker'[u] = worker[u]
      /\ y.run = Run(w) /\ y.pc = v.pc /\ y.next = v.next + n /\ y.buffer = new(p)
      /\ y.token = v.token /\ y.writer = v.writer
  <2> HIDE DEF new
  <2>1. QED
    BY <1>0, <1>2 DEF Run, WorkerTypeOK, WorkerRecord
<1>5. v.pc # "ending"
  BY <1>0 DEF Sees
<1>6. ASSUME Stands(v, log)
      PROVE  Stands(y, log)
  <2>1. y.buffer = {[seq |-> s, body |-> p] : s \in v.next .. v.next + n - 1}
    BY <1>4
  <2>2. y.next = v.next + n
    BY <1>4
  <2> HIDE DEF v, y, log, new
  <2>3. QED
    <3>1. v \in WorkerRecord /\ log \in SUBSET Event /\ v.buffer = {}
      BY <1>0
    <3>2. QED
      BY <1>1, <1>5, <1>6, <2>1, <2>2, <3>1, StandsAfterTake
<1>7. Sees(y, log, status, lease.token)
  BY <1>0, <1>4, <1>5, <1>6 DEF Sees
<1> HIDE DEF v, y, log, status
<1>8. QED
  BY <1>3, <1>4, <1>7, MemoryStep DEF y, log, status

\* The number of a refused done event is used up: nothing is left to write but
\* the event that ends the run.
LEMMA RefusedStepSees ==
  ASSUME CoordinatorInv, EventInv, NEW w \in Workers, Ending(w, {"commit"}), UNCHANGED vars,
         worker' = [worker EXCEPT ![w].goal = "fail", ![w].next = @ + 1]
  PROVE  EventInv'
<1> DEFINE v == worker[w]
           y == worker'[w]
           log == events[Run(w)]
           status == runs[Run(w)].status
<1>0. /\ v \in WorkerRecord /\ log \in SUBSET Event /\ v.pc = "ending" /\ v.buffer = {}
      /\ WorkerTypeOK /\ Sees(v, log, status, lease.token)
  BY WorkerData DEF Ending, EventInv, WorkersSee, CoordinatorInv, WorkersOK
<1>1. /\ \A u \in Workers \ {w} : worker'[u] = worker[u]
      /\ y.run = Run(w) /\ y.pc = v.pc /\ y.next = v.next + 1 /\ y.buffer = v.buffer
      /\ y.token = v.token /\ y.writer = v.writer
  BY <1>0 DEF Run, WorkerTypeOK, WorkerRecord
<1>2. ASSUME Stands(v, log)
      PROVE  Stands(y, log)
  <2>1. \A e \in log : e.seq < y.next
    BY <1>0, <1>1, <1>2, NatBounds DEF Stands, WorkerRecord, Event
  <2>2. QED
    BY <1>0, <1>1, <2>1 DEF Stands
<1>3. Sees(y, log, status, lease.token)
  BY <1>0, <1>1, <1>2 DEF Sees
<1> HIDE DEF v, y, log, status
<1>4. QED
  BY <1>1, <1>3, MemoryStep DEF y, log, status

\* A flush, whether the worker sees that it is done (Flush) or is stopped while
\* it waits (FlushUnseen).
LEMMA FlushStepSees ==
  ASSUME CoordinatorInv, LeaseViews, EventInv, NEW w \in Workers,
         MayFlush(w), worker[w].buffer # {},
         AppendEvents(Run(w), Token(w), worker[w].buffer),
         \A u \in Workers \ {w} : Steady(worker[u], worker'[u]),
         worker'[w].run = Run(w),
         worker'[w].pc = "ending" => worker'[w].writer = FALSE,
         worker'[w].pc \in AtWork =>
           /\ worker'[w].next = worker[w].next /\ worker'[w].token = worker[w].token
           /\ worker'[w].buffer = worker[w].buffer \/ worker'[w].buffer = {}
  PROVE  EventInv'
<1> DEFINE v == worker[w]
           y == worker'[w]
           r == Run(w)
           log == events[r]
           new == Stored(v.buffer, v.token)
           status == runs[r].status
<1>0. /\ v \in WorkerRecord /\ Sound(v, leaseCounter) /\ r \in Runs /\ log \in SUBSET Event
      /\ Sees(v, log, status, lease.token)
      /\ LastIsTerminal(log, status) /\ Numbered(log)
  BY WorkerData DEF EventInv, WorkersSee, LogsAreGood
<1>1. v.pc \in AtWork /\ v.pc # "begun"
  BY <1>0 DEF MayFlush, Sound, Writing, AtWork
<1>2. /\ lease.token = v.token /\ runs' = runs
      /\ events' = [events EXCEPT ![r] = @ \cup new]
  BY DEF AppendEvents, Stored, Token
<1>3. status \in Active /\ Stands(v, log)
  BY <1>0, <1>1, <1>2 DEF Sees
<1>4. new \in SUBSET Event /\ \A e \in new : e.body \notin {"done", "error"}
  <2>1. v.token \in Tokens /\ v.buffer \in SUBSET [seq: 1..MaxSeq, body: Payloads]
    BY <1>0, <1>1, WorkerData DEF Token, WorkerRecord
  <2> HIDE DEF v
  <2>2. new \in SUBSET Event
    BY <2>1 DEF Stored, Event
  <2>3. \A b \in v.buffer : b.body \notin {"done", "error"}
    BY <2>1, EventBodies
  <2>4. \A e \in new : \E b \in v.buffer : e.body = b.body
    BY DEF Stored
  <2>5. QED
    BY <2>2, <2>3, <2>4
<1>5. /\ events'[r] = log \cup new
      /\ \A s \in Runs \ {r} : events'[s] = events[s]
  <2>1. events \in [Runs -> SUBSET Event]
    BY DEF CoordinatorInv, TypeOK
  <2> HIDE DEF r, new
  <2>2. QED
    BY <1>0, <1>2, <2>1
<1>6. lease'.token = lease.token
  BY FlushLease DEF CoordinatorInv
<1>7. /\ \A e \in log \cup new : e.seq < v.next
      /\ \A s \in 1 .. v.next - 1 : \E e \in log \cup new : e.seq = s
  <2>1. Stands(v, log) /\ v.buffer # {}
    BY <1>3
  <2> HIDE DEF v, log
  <2>2. QED
    BY <1>0, <2>1, FlushedLog
<1>8. y.pc \in AtWork => Stands(y, log \cup new)
  <2>1. SUFFICES ASSUME y.pc \in AtWork
                 PROVE  Stands(y, log \cup new)
    OBVIOUS
  <2>2. /\ Stands(v, log) /\ v.buffer # {} /\ y.next = v.next /\ y.token = v.token
        /\ y.buffer = v.buffer \/ y.buffer = {}
    BY <1>3, <2>1
  <2> HIDE DEF v, y, log
  <2>3. QED
    BY <1>0, <2>2, StandsAfterFlush
<1>9. LastIsTerminal(log \cup new, status) /\ Numbered(log \cup new)
  <2>1. v.next \in Nat
    BY <1>0, NatBounds DEF WorkerRecord
  <2> HIDE DEF v, log, new, status
  <2>2. QED
    BY <1>0, <1>3, <1>4, <1>7, <2>1, LogAppends
<1>10. LogsAreGood'
  BY <1>0, <1>2, <1>5, <1>9, OneLogChanges DEF EventInv
<1>11. Sees(y, events'[y.run], runs'[y.run].status, lease'.token)
  BY <1>2, <1>3, <1>5, <1>8 DEF Sees
<1>12. WorkersSee'
  BY <1>1, <1>2, <1>6, <1>11, OthersSee DEF EventInv, Token
<1>13. QED
  BY <1>10, <1>12 DEF EventInv

\* The store call that ends a worker's run finds its log as the worker left it.
LEMMA EndingStands ==
  ASSUME CoordinatorInv, EventInv, NEW w \in Workers, NEW goals, Ending(w, goals),
         ValidLease(Token(w))
  PROVE  /\ Run(w) \in Runs /\ events[Run(w)] \in SUBSET Event
         /\ worker[w].next \in 1..MaxSeq /\ Token(w) \in Tokens
         /\ runs[Run(w)].status \in Active
         /\ \A e \in events[Run(w)] : e.seq < worker[w].next
         /\ LastIsTerminal(events[Run(w)], runs[Run(w)].status) /\ Numbered(events[Run(w)])
<1>1. worker[w].pc = "ending" /\ lease.token = worker[w].token
  BY DEF Ending, ValidLease, Token
<1>2. worker[w].pc \in AtWork /\ worker[w].pc # "begun"
  BY <1>1 DEF AtWork
<1>3. /\ Run(w) \in Runs /\ events[Run(w)] \in SUBSET Event /\ Token(w) \in Tokens
  BY <1>2, WorkerData
<1>4. Sees(worker[w], events[Run(w)], runs[Run(w)].status, lease.token)
  BY DEF EventInv, WorkersSee
<1>5. runs[Run(w)].status \in Active /\ Stands(worker[w], events[Run(w)])
  BY <1>1, <1>2, <1>4 DEF Sees
<1>6. worker[w].next \in 1..MaxSeq
  BY EndingArguments DEF CoordinatorInv
<1>7. QED
  BY <1>3, <1>5, <1>6 DEF Stands, EventInv, LogsAreGood

LEMMA LogEnds ==
  ASSUME CoordinatorInv, EventInv, NEW w \in Workers, NEW goals, Ending(w, goals),
         ValidLease(Token(w)), NEW status \in Ended, NEW body \in {"done", "error"},
         runs' = [runs EXCEPT ![Run(w)].status = status],
         events' = [events EXCEPT ![Run(w)] =
                      @ \cup {[seq |-> worker[w].next, body |-> body, token |-> Token(w)]}]
  PROVE  LogsAreGood'
<1> DEFINE r == Run(w)
           last == [seq |-> worker[w].next, body |-> body, token |-> Token(w)]
<1>0. /\ r \in Runs /\ events[r] \in SUBSET Event /\ runs[r].status \in Active
      /\ \A e \in events[r] : e.seq < worker[w].next
      /\ LastIsTerminal(events[r], runs[r].status) /\ Numbered(events[r])
      /\ last \in Event
  BY EndingStands DEF Event
<1>1. last.seq = worker[w].next /\ last.body = body
  OBVIOUS
<1> HIDE DEF last
<1>2. LastIsTerminal(events[r] \cup {last}, status) /\ Numbered(events[r] \cup {last})
  BY <1>0, <1>1, LogCloses
<1>3. /\ events'[r] = events[r] \cup {last} /\ runs'[r].status = status
      /\ \A s \in Runs \ {r} : events'[s] = events[s] /\ runs'[s] = runs[s]
  <2>1. events \in [Runs -> SUBSET Event] /\ runs \in RunsType
    BY DEF CoordinatorInv, TypeOK, RunsType
  <2>2. events' = [events EXCEPT ![r] = @ \cup {last}]
    BY DEF last
  <2> HIDE DEF r
  <2>3. QED
    BY <1>0, <2>1, <2>2 DEF RunsType, r
<1>4. QED
  BY <1>0, <1>2, <1>3, OneLogChanges DEF EventInv

LEMMA CommitStepSees ==
  ASSUME CoordinatorInv, WorkersOK', EventInv, NEW w \in Workers, Ending(w, {"commit"}),
         CommitTurn(Run(w), Token(w), Run(w), worker[w].turn, worker[w].next),
         \A u \in Workers : worker'[u].pc = "ending" => worker'[u].writer = FALSE
  PROVE  EventInv'
<1>1. /\ ValidLease(Token(w)) /\ lease' = NoLease
      /\ runs' = [runs EXCEPT ![Run(w)].status = "completed"]
      /\ events' = [events EXCEPT ![Run(w)] =
                      @ \cup {[seq |-> worker[w].next, body |-> "done", token |-> Token(w)]}]
  BY DEF CommitTurn, MayCommit
<1>2. LogsAreGood'
  BY <1>1, LogEnds DEF Ended
<1>3. WorkersSee'
  BY <1>1, NoLeaseSees
<1>4. QED
  BY <1>2, <1>3 DEF EventInv

LEMMA FinishStepSees ==
  ASSUME CoordinatorInv, WorkersOK', EventInv, NEW w \in Workers, Finish(w),
         \A u \in Workers : worker'[u].pc = "ending" => worker'[u].writer = FALSE
  PROVE  EventInv'
<1>1. /\ Ending(w, {"fail", "cancel"})
      /\ FinishRun(Run(w), Token(w), StatusOf(worker[w].goal), worker[w].next)
      /\ ValidLease(Token(w)) /\ lease' = NoLease
      /\ StatusOf(worker[w].goal) \in Ended
  BY DEF Finish, FinishRun, MayFinish, StatusOf, Ended
<1>2. ~\E e \in events[Run(w)] : e.seq = worker[w].next
  <2>1. \A e \in events[Run(w)] : e.seq < worker[w].next /\ e.seq \in Nat
    BY <1>1, EndingStands DEF Event
  <2>2. QED
    BY <2>1
<1>3. /\ runs' = [runs EXCEPT ![Run(w)].status = StatusOf(worker[w].goal)]
      /\ events' = [events EXCEPT ![Run(w)] =
                      @ \cup {[seq |-> worker[w].next, body |-> "error", token |-> Token(w)]}]
  BY <1>1, <1>2 DEF FinishRun
<1>4. LogsAreGood'
  BY <1>1, <1>3, LogEnds
<1>5. WorkersSee'
  BY <1>1, NoLeaseSees
<1>6. QED
  BY <1>4, <1>5 DEF EventInv

LEMMA EventNext ==
  ASSUME CoordinatorInv, LeaseViews, EventInv, [CoordinatorNext]_coordinatorVars
  PROVE  EventInv'
<1>0. WorkersOK' /\ WorkerTypeOK /\ TypeOK
  BY WorkersNext DEF CoordinatorInv, WorkersOK
<1>1. CASE \E w \in Workers : Begin(w) \/ ReadEvents(w) \/ Take(w)
  BY <1>1, BeginStepSees, ReadStepSees, TakeStepSees
<1>2. ASSUME NEW w \in Workers, Flush(w)
      PROVE  EventInv'
  <2>1. /\ \A u \in Workers \ {w} : worker'[u] = worker[u]
        /\ worker'[w].run = Run(w) /\ worker'[w].pc = worker[w].pc
        /\ worker'[w].writer = worker[w].writer /\ worker'[w].next = worker[w].next
        /\ worker'[w].token = worker[w].token /\ worker'[w].buffer = {}
    BY <1>0, <1>2 DEF Flush, Run, WorkerTypeOK, WorkerRecord
  <2>2. worker'[w].pc = "ending" => worker'[w].writer = FALSE
    BY <2>1 DEF EventInv, WorkersSee, Sees
  <2>3. \A u \in Workers \ {w} : Steady(worker[u], worker'[u])
    BY <2>1, SameIsSteady
  <2>4. /\ MayFlush(w) /\ worker[w].buffer # {}
        /\ AppendEvents(Run(w), Token(w), worker[w].buffer)
    BY <1>2 DEF Flush
  <2>5. QED
    BY <2>1, <2>2, <2>3, <2>4, FlushStepSees
<1>3. ASSUME NEW w \in Workers, NEW goal, FlushUnseen(w, goal)
      PROVE  EventInv'
  <2>1. /\ MayFlush(w) /\ worker[w].buffer # {}
        /\ AppendEvents(Run(w), Token(w), worker[w].buffer) /\ StopOwner(w, goal)
    BY <1>3 DEF FlushUnseen
  <2>2. AllSteady
    BY <1>0, <2>1, StoppingIsSteady
  <2>3. worker'[w].pc = "ending" => worker'[w].writer = FALSE
    BY <2>2, EndingWithoutWriter DEF EventInv
  <2>4. /\ worker'[w].run = Run(w)
        /\ worker'[w].pc \in AtWork =>
             /\ worker'[w].next = worker[w].next /\ worker'[w].token = worker[w].token
             /\ worker'[w].buffer = worker[w].buffer
    BY <2>2 DEF AllSteady, Steady, Run
  <2>5. \A u \in Workers \ {w} : Steady(worker[u], worker'[u])
    BY <2>2 DEF AllSteady
  <2>6. QED
    BY <2>1, <2>3, <2>4, <2>5, FlushStepSees
<1>4. ASSUME NEW w \in Workers, Commit(w)
      PROVE  EventInv'
  <2>1. AllSteady
    BY <1>0, <1>4, LeavingIsSteady DEF Commit, Over
  <2>2. \A u \in Workers : worker'[u].pc = "ending" => worker'[u].writer = FALSE
    BY <2>1, EndingWithoutWriter DEF EventInv
  <2>3. QED
    BY <1>0, <1>4, <2>2, CommitStepSees DEF Commit
<1>5. ASSUME NEW w \in Workers, NEW goal, CommitUnseen(w, goal)
      PROVE  EventInv'
  <2>1. \A u \in Workers : worker'[u].pc = worker[u].pc /\ worker'[u].writer = worker[u].writer
    BY <1>0, <1>5 DEF CommitUnseen, WorkerTypeOK, WorkerRecord
  <2>2. \A u \in Workers : worker'[u].pc = "ending" => worker'[u].writer = FALSE
    BY <2>1 DEF EventInv, WorkersSee, Sees
  <2>3. QED
    BY <1>0, <1>5, <2>2, CommitStepSees DEF CommitUnseen
<1>6. ASSUME NEW w \in Workers, CommitRefused(w)
      PROVE  EventInv'
  <2>1. Ending(w, {"commit"}) /\ UNCHANGED vars
    BY <1>6 DEF CommitRefused
  <2>2. CASE Leaves(w, "lost")
    <3>1. AllSteady
      BY <1>0, <2>2, LeavingIsSteady DEF Over
    <3>2. QuietStore
      BY <2>1 DEF QuietStore, vars, leaseVars
    <3>3. QED
      BY <3>1, <3>2, SteadyStep
  <2>3. CASE worker' = [worker EXCEPT ![w].goal = "fail", ![w].next = @ + 1]
    BY <2>1, <2>3, RefusedStepSees
  <2>4. QED
    BY <1>6, <2>2, <2>3 DEF CommitRefused
<1>7. ASSUME NEW w \in Workers, Finish(w)
      PROVE  EventInv'
  <2>1. AllSteady
    BY <1>0, <1>7, LeavingIsSteady DEF Finish, Over
  <2>2. \A u \in Workers : worker'[u].pc = "ending" => worker'[u].writer = FALSE
    BY <2>1, EndingWithoutWriter DEF EventInv
  <2>3. QED
    BY <1>0, <1>7, <2>2, FinishStepSees
<1>8. ASSUME NEW w \in Workers, Suspend(w)
      PROVE  EventInv'
  <2>1. AllSteady
    BY <1>0, <1>8, LeavingIsSteady DEF Suspend, Over
  <2>2. \A u \in Workers : worker'[u].pc = "ending" => worker'[u].writer = FALSE
    BY <2>1, EndingWithoutWriter DEF EventInv
  <2>3. lease' = NoLease /\ UNCHANGED <<events, runs>>
    BY <1>8 DEF Suspend, ReleaseLease
  <2>4. WorkersSee'
    BY <1>0, <2>2, <2>3, NoLeaseSees
  <2>5. LogsAreGood'
    BY <2>3, LogsStay DEF EventInv
  <2>6. QED
    BY <2>4, <2>5 DEF EventInv
<1>9. CASE \A w \in Workers : ~MovesInLog(w) /\ ~WritesStore(w)
  <2>1. AllSteady /\ QuietStore
    BY <1>0, <1>9, MostAreSteady, MostAreQuiet
  <2>2. QED
    BY <2>1, SteadyStep
<1>10. QED
  BY <1>1, <1>2, <1>3, <1>4, <1>5, <1>6, <1>7, <1>8, <1>9 DEF MovesInLog, WritesStore

LEMMA EventInit == CoordinatorInit => EventInv
<1> SUFFICES ASSUME CoordinatorInit
             PROVE  EventInv
  OBVIOUS
<1>1. \A r \in Runs : events[r] = {} /\ runs[r].status = "absent"
  BY DEF CoordinatorInit, Init, NoRun
<1>2. LogsAreGood
  BY <1>1 DEF LogsAreGood, LastIsTerminal, Numbered, EndEvents, Ended
<1>3. \A u \in Workers : worker[u].pc = "idle"
  BY DEF CoordinatorInit
<1>4. WorkersSee
  BY <1>3 DEF WorkersSee, Sees, AtWork
<1>5. QED
  BY <1>2, <1>4 DEF EventInv

WorkInv == CoordinatorInv /\ LeaseViews /\ EventInv

LEMMA WorkInvNext ==
  ASSUME WorkInv, [CoordinatorNext]_coordinatorVars
  PROVE  WorkInv'
<1>1. CoordinatorInv'
  BY StepIsStore, NextType, LeaseNext, WorkersNext DEF WorkInv, CoordinatorInv
<1>2. LeaseViews' /\ EventInv'
  BY <1>1, EventNext, ViewsNext DEF WorkInv
<1>3. QED
  BY <1>1, <1>2 DEF WorkInv

LEMMA WorkInvHolds == CoordinatorSpec => []WorkInv
<1>1. CoordinatorInit => LeaseViews /\ EventInv
  <2>1. CoordinatorInit => \A u \in Workers : worker[u].pc \notin AtWork
    BY DEF CoordinatorInit, AtWork
  <2>2. QED
    BY <2>1, EventInit DEF LeaseViews, LocalViewIsSafe, HoldsOwn
<1>2. WorkInv /\ [CoordinatorNext]_coordinatorVars => WorkInv'
  BY WorkInvNext
<1>3. QED
  BY <1>1, <1>2, CoordinatorInvHolds, PTL DEF CoordinatorSpec, WorkInv

\* An ended run has one terminal event, which is its last, and no other run has
\* any: workers write no event after it, and the number it is given is free
\* (RunCoordinator.commit and fail, _finish_run).
THEOREM RunsEndWithTheirLastEvent == CoordinatorSpec => []EndedRunHasLastEvent
<1>1. WorkInv => EndedRunHasLastEvent
  BY DEF WorkInv, EventInv, LogsAreGood, LastIsTerminal, EndEvents, EndedRunHasLastEvent, Terminal
<1>2. QED
  BY <1>1, WorkInvHolds, PTL

\* The ordinary events of a run are numbered from 1 without a hole, through
\* takeovers, lost leases and flushes that are sent twice (RunCoordinator.begin,
\* flush).
THEOREM LogsHaveNoHoles == CoordinatorSpec => []NoHoles
<1>1. WorkInv => NoHoles
  BY DEF WorkInv, EventInv, LogsAreGood, Numbered, EndEvents, NoHoles, Terminal
<1>2. QED
  BY <1>1, WorkInvHolds, PTL

-----------------------------------------------------------------------------
(* What a worker has emitted, counted in its log. *)

\* Every token in use is one worker's: a worker that has not begun has none and
\* holds no lease, and no event is stored under a token that was not granted.
TokensAreOwn ==
  /\ \A u \in Workers : worker[u].pc \in {"idle", "ready"} => Token(u) = 0 /\ lease.holder # u
  /\ \A u \in Workers : Token(u) \in 0..leaseCounter
  /\ \A u, w \in Workers : u # w /\ Token(u) = Token(w) => Token(u) = 0
  /\ \A r \in Runs : \A e \in events[r] : e.token \in 1..leaseCounter

\* What v has emitted is stored, in its buffer or in its stream, as long as it
\* may still commit; mine is what it has stored.  Nothing follows a done event.
Tally(v, mine, token) ==
  /\ v.pc \in {"idle", "ready"} => v.emitted = 0
  /\ v.shield => v.goal # "commit"
  /\ v.pc \in AtWork /\ v.goal = "commit" /\ token = v.token =>
       /\ v.pc \in {"starting", "working", "closing"} => v.writer
       /\ v.pc = "ending" => v.queue = 0
       /\ IsFiniteSet(mine) /\ IsFiniteSet(v.buffer)
       /\ \A e \in mine, b \in v.buffer : e.seq # b.seq
       /\ Cardinality(mine) + Cardinality(v.buffer) + v.queue = v.emitted
  /\ (\E e \in mine : e.body = "done") =>
       /\ v.pc \in {"ending"} \cup Over
       /\ Cardinality(mine) = v.emitted + 1

TallyInv == \A u \in Workers : Tally(worker[u], Written(u), lease.token)

\* A step of a worker that leaves its count as it is.
Tame(v, y, token) ==
  /\ y.run = v.run /\ y.token = v.token /\ y.emitted = v.emitted
  /\ y.pc \in {"idle", "ready"} => v.pc \in {"idle", "ready"}
  /\ v.pc \in {"ending"} \cup Over => y.pc \in {"ending"} \cup Over
  /\ y.shield => y.goal # "commit" \/ (v.shield /\ v.goal = "commit")
  /\ y.pc \in AtWork /\ y.goal = "commit" /\ token = v.token =>
       /\ v.pc \in AtWork /\ v.goal = "commit"
       /\ y.queue = v.queue /\ y.buffer = v.buffer
       /\ y.pc \in {"starting", "working", "closing"} =>
            y.writer \/ (v.pc \in {"starting", "working", "closing"} /\ y.writer = v.writer)
       /\ y.pc = "ending" => v.pc = "ending" \/ y.queue = 0

AllTame == \A u \in Workers : Tame(worker[u], worker'[u], lease.token)

LEMMA TameTallies ==
  ASSUME NEW v, NEW y, NEW mine, NEW token, NEW token2,
         Tally(v, mine, token), Tame(v, y, token),
         y.pc \in AtWork /\ token2 = y.token => token = v.token
  PROVE  Tally(y, mine, token2)
<1>1. y.pc \in {"idle", "ready"} => y.emitted = 0
  BY DEF Tame, Tally
<1>2. y.shield => y.goal # "commit"
  BY DEF Tame, Tally
<1>3. ASSUME y.pc \in AtWork, y.goal = "commit", token2 = y.token
      PROVE  /\ y.pc \in {"starting", "working", "closing"} => y.writer
             /\ y.pc = "ending" => y.queue = 0
             /\ IsFiniteSet(mine) /\ IsFiniteSet(y.buffer)
             /\ \A e \in mine, b \in y.buffer : e.seq # b.seq
             /\ Cardinality(mine) + Cardinality(y.buffer) + y.queue = y.emitted
  <2>1. /\ v.pc \in AtWork /\ v.goal = "commit" /\ token = v.token
        /\ y.queue = v.queue /\ y.buffer = v.buffer /\ y.emitted = v.emitted
        /\ y.pc \in {"starting", "working", "closing"} =>
             y.writer \/ (v.pc \in {"starting", "working", "closing"} /\ y.writer = v.writer)
        /\ y.pc = "ending" => v.pc = "ending" \/ y.queue = 0
    BY <1>3 DEF Tame
  <2>2. /\ v.pc \in {"starting", "working", "closing"} => v.writer
        /\ v.pc = "ending" => v.queue = 0
        /\ IsFiniteSet(mine) /\ IsFiniteSet(v.buffer)
        /\ \A e \in mine, b \in v.buffer : e.seq # b.seq
        /\ Cardinality(mine) + Cardinality(v.buffer) + v.queue = v.emitted
    BY <2>1 DEF Tally
  <2>3. y.pc \in {"starting", "working", "closing"} => y.writer
    BY <2>1, <2>2, Zenon
  <2>4. QED
    BY <2>1, <2>2, <2>3
<1>4. (\E e \in mine : e.body = "done") =>
        y.pc \in {"ending"} \cup Over /\ Cardinality(mine) = y.emitted + 1
  BY DEF Tame, Tally
<1>5. QED
  BY <1>1, <1>2, <1>3, <1>4 DEF Tally

LEMMA LeavingIsTame ==
  ASSUME WorkerTypeOK, TallyInv, NEW w \in Workers, NEW pc \in Over, Leaves(w, pc)
  PROVE  AllTame
<1>1. /\ worker'[w].pc = pc /\ worker'[w].run = worker[w].run
      /\ worker'[w].token = worker[w].token /\ worker'[w].emitted = worker[w].emitted
      /\ worker'[w].shield = worker[w].shield /\ worker'[w].goal = worker[w].goal
  BY DEF Leaves, WorkerTypeOK, WorkerRecord
<1>2. pc \notin AtWork /\ pc \notin {"idle", "ready"}
  BY DEF Over, AtWork
<1>3. Tame(worker[w], worker'[w], lease.token)
  BY <1>1, <1>2 DEF Tame
<1>4. \A u \in Workers \ {w} : worker'[u] = worker[u]
  BY DEF Leaves, WorkerTypeOK
<1>5. QED
  BY <1>3, <1>4 DEF AllTame, Tame

\* One worker moves.
LEMMA OneIsTame ==
  ASSUME NEW w \in Workers, \A u \in Workers \ {w} : worker'[u] = worker[u],
         Tame(worker[w], worker'[w], lease.token)
  PROVE  AllTame
BY DEF AllTame, Tame

LEMMA StoppingIsTame ==
  ASSUME WorkerTypeOK, TallyInv, NEW w \in Workers, NEW goal, goal # "commit", StopOwner(w, goal)
  PROVE  AllTame
<1>1. CASE Leaves(w, "abandoned")
  BY <1>1, LeavingIsTame DEF Over
<1>2. CASE /\ worker[w].pc \in {"working", "closing", "ending"}
           /\ worker' = [worker EXCEPT ![w].pc = "ending", ![w].goal = goal, ![w].shield = TRUE,
                           ![w].writer = FALSE, ![w].beats = FALSE, ![w].queue = 0]
  <2>1. /\ worker'[w].pc = "ending" /\ worker'[w].run = worker[w].run
        /\ worker'[w].token = worker[w].token /\ worker'[w].emitted = worker[w].emitted
        /\ worker'[w].goal = goal
    BY <1>2 DEF WorkerTypeOK, WorkerRecord
  <2>2. Tame(worker[w], worker'[w], lease.token)
    BY <2>1 DEF Tame
  <2>3. \A u \in Workers \ {w} : worker'[u] = worker[u]
    BY <1>2 DEF WorkerTypeOK
  <2>4. QED
    BY <2>2, <2>3, OneIsTame
<1>3. CASE /\ worker[w].pc = "closing" /\ worker[w].shield
           /\ worker' = [worker EXCEPT ![w].writer = FALSE, ![w].beats = FALSE, ![w].queue = 0]
  <2>1. /\ worker'[w].pc = "closing" /\ worker'[w].run = worker[w].run
        /\ worker'[w].token = worker[w].token /\ worker'[w].emitted = worker[w].emitted
        /\ worker'[w].goal = worker[w].goal
    BY <1>3 DEF WorkerTypeOK, WorkerRecord
  <2>2. worker[w].goal # "commit"
    BY <1>3 DEF TallyInv, Tally
  <2>3. Tame(worker[w], worker'[w], lease.token)
    BY <1>3, <2>1, <2>2 DEF Tame, Over
  <2>4. \A u \in Workers \ {w} : worker'[u] = worker[u]
    BY <1>3 DEF WorkerTypeOK
  <2>5. QED
    BY <2>3, <2>4, OneIsTame
<1>4. QED
  BY <1>1, <1>2, <1>3 DEF StopOwner

\* The steps that do change what is counted, or where.
Counts(w) ==
  \/ Begin(w) \/ Emit(w) \/ Take(w) \/ Flush(w)
  \/ \E goal \in {"cancel", "fail", "suspend"} : CommitUnseen(w, goal)

LEMMA MostAreTame ==
  ASSUME WorkersOK, TallyInv, [CoordinatorNext]_coordinatorVars, \A w \in Workers : ~Counts(w)
  PROVE  AllTame
<1>0. WorkerTypeOK /\ \A u \in Workers : Sound(worker[u], leaseCounter)
  BY DEF WorkersOK
<1>1. ASSUME NEW w \in Workers, BeginningStep(w)
      PROVE  AllTame
  <2>1. CASE ReadTurns(w)
    <3>1. PICK n \in 1..MaxTurn : worker' = [worker EXCEPT ![w].pc = "ready", ![w].turn = n]
      BY <2>1 DEF ReadTurns
    <3>2. QED
      BY <1>0, <2>1, <3>1 DEF ReadTurns, AllTame, Tame, WorkerTypeOK, WorkerRecord, AtWork, Over
  <2>2. CASE BeginRefused(w) \/ StartFails(w)
    BY <1>0, <2>2, LeavingIsTame DEF BeginRefused, StartFails, Over
  <2>3. CASE ReadEvents(w)
    <3>1. PICK n \in 1 .. MaxSeq - 1 : StartWriting(w, n)
      BY <2>3 DEF ReadEvents
    <3>2. worker[w].pc = "begun"
      BY <2>3 DEF ReadEvents
    <3>3. QED
      BY <1>0, <3>1, <3>2 DEF StartWriting, AllTame, Tame, WorkerTypeOK, WorkerRecord, AtWork, Over
  <2>4. CASE StartCore(w)
    BY <1>0, <2>4 DEF StartCore, AllTame, Tame, WorkerTypeOK, WorkerRecord, AtWork, Over
  <2>5. QED
    BY <1>1, <2>1, <2>2, <2>3, <2>4 DEF BeginningStep, Counts
<1>2. ASSUME NEW w \in Workers, CoreStep(w)
      PROVE  AllTame
  <2>1. CASE CoreLosesLease(w)
    BY <1>0, <2>1, LeavingIsTame DEF CoreLosesLease, Over
  <2>2. ASSUME NEW goal, FinishCore(w, goal)
        PROVE  AllTame
    <3>1. worker[w].goal = "commit"
      BY <1>0, <2>2 DEF FinishCore, Sound
    <3>2. QED
      BY <1>0, <2>2, <3>1 DEF FinishCore, AllTame, Tame, WorkerTypeOK, WorkerRecord, AtWork, Over
  <2>3. QED
    BY <1>2, <2>1, <2>2 DEF CoreStep, Counts
<1>3. ASSUME NEW w \in Workers, WriterStep(w)
      PROVE  AllTame
  <2>1. FlushLost(w)
    BY <1>3 DEF WriterStep, Counts
  <2>2. CASE Leaves(w, "lost")
    BY <1>0, <2>2, LeavingIsTame DEF Over
  <2>3. CASE worker' = [worker EXCEPT ![w].writer = FALSE]
    <3>1. lease.token # worker[w].token
      BY <2>1 DEF FlushLost, Token
    <3>2. QED
      BY <1>0, <2>3, <3>1 DEF AllTame, Tame, WorkerTypeOK, WorkerRecord
  <2>4. QED
    BY <2>1, <2>2, <2>3 DEF FlushLost
<1>4. ASSUME NEW w \in Workers, HeartbeatStep(w)
      PROVE  AllTame
  <2>1. CASE Renew(w)
    BY <1>0, <2>1 DEF Renew, AllTame, Tame, WorkerTypeOK, WorkerRecord
  <2>2. CASE RenewLost(w) \/ SeeCancel(w)
    BY <1>0, <2>2, StoppingIsTame DEF RenewLost, SeeCancel
  <2>3. QED
    BY <1>4, <2>1, <2>2 DEF HeartbeatStep
<1>5. ASSUME NEW w \in Workers, CloseStep(w)
      PROVE  AllTame
  <2>1. CASE CloseHeartbeat(w)
    BY <1>0, <2>1 DEF CloseHeartbeat, AllTame, Tame, WorkerTypeOK, WorkerRecord
  <2>2. CASE CloseWriter(w)
    <3>1. /\ worker[w].pc = "closing" /\ worker'[w].pc = "ending" /\ worker'[w].queue = 0
          /\ worker'[w].run = worker[w].run /\ worker'[w].buffer = worker[w].buffer
          /\ worker'[w].token = worker[w].token /\ worker'[w].emitted = worker[w].emitted
          /\ worker'[w].shield = worker[w].shield /\ worker'[w].goal = worker[w].goal
          /\ \A u \in Workers \ {w} : worker'[u] = worker[u]
      BY <1>0, <2>2 DEF CloseWriter, WorkerTypeOK, WorkerRecord
    <3>2. ASSUME worker[w].goal = "commit", lease.token = worker[w].token
          PROVE  worker[w].queue = 0
      <4>1. worker[w].writer
        BY <3>1, <3>2 DEF TallyInv, Tally, AtWork
      <4>2. QED
        BY <2>2, <4>1 DEF CloseWriter
    <3>3. Tame(worker[w], worker'[w], lease.token)
      BY <3>1, <3>2 DEF Tame, AtWork
    <3>4. QED
      BY <3>1, <3>3, OneIsTame
  <2>3. QED
    BY <1>5, <2>1, <2>2 DEF CloseStep
<1>6. ASSUME NEW w \in Workers, EndingStep(w)
      PROVE  AllTame
  <2>1. CASE \E pc \in Over : Leaves(w, pc)
    BY <1>0, <2>1, LeavingIsTame
  <2>2. CASE worker' = [worker EXCEPT ![w].goal = "fail", ![w].next = @ + 1]
    BY <1>0, <2>2 DEF AllTame, Tame, WorkerTypeOK, WorkerRecord
  <2>3. QED
    BY <1>6, <2>1, <2>2
       DEF EndingStep, Commit, CommitRefused, Finish, FinishRefused, Suspend, SuspendRefused, Over
<1>7. ASSUME NEW w \in Workers, OutsideStep(w)
      PROVE  AllTame
  <2>1. CASE TaskFails(w)
    BY <1>0, <2>1, StoppingIsTame DEF TaskFails
  <2>2. CASE Crash(w)
    BY <1>0, <2>2, LeavingIsTame DEF Crash, Over
  <2>3. ASSUME NEW goal \in {"cancel", "fail", "suspend"},
               CancelTask(w, goal) \/ FlushUnseen(w, goal)
        PROVE  AllTame
    <3>1. CASE StopOwner(w, goal)
      BY <1>0, <3>1, StoppingIsTame
    <3>2. CASE /\ worker[w].pc \in {"working", "closing"}
               /\ worker' = [worker EXCEPT ![w].pc = "closing", ![w].goal = goal,
                                           ![w].shield = TRUE]
      BY <1>0, <3>2 DEF AllTame, Tame, WorkerTypeOK, WorkerRecord, AtWork, Over
    <3>3. QED
      BY <2>3, <3>1, <3>2 DEF CancelTask, FlushUnseen
  <2>4. QED
    BY <1>7, <2>1, <2>2, <2>3 DEF OutsideStep, Counts
<1>8. CASE TimePasses
  <2>1. ASSUME NEW u \in Workers
        PROVE  Tame(worker[u], worker'[u], lease.token)
    <3>1. worker[u] \in WorkerRecord
      BY <1>0 DEF WorkerTypeOK
    <3>2. worker'[u] = [worker[u] EXCEPT !.view = IF @ > 0 THEN @ - 1 ELSE 0]
      BY <1>8 DEF TimePasses
    <3>3. QED
      BY <3>1, <3>2 DEF Tame, WorkerRecord
  <2>2. QED
    BY <2>1 DEF AllTame
<1>9. CASE UNCHANGED worker
  BY <1>9 DEF AllTame, Tame
<1>10. QED
  BY <1>1, <1>2, <1>3, <1>4, <1>5, <1>6, <1>7, <1>8, <1>9
     DEF CoordinatorNext, ClientCancels, coordinatorVars

-----------------------------------------------------------------------------
(* Tokens are own. *)

\* Only beginning gives anyone a lease.
LEMMA HolderStays ==
  ASSUME TypeOK, [CoordinatorNext]_coordinatorVars, \A w \in Workers : ~Begin(w)
  PROVE  lease'.holder \in {lease.holder, NoHolder} /\ leaseCounter' = leaseCounter
<1>0. lease \in LeaseType
  BY DEF TypeOK, LeaseType
<1> DEFINE Stays == lease'.holder \in {lease.holder, NoHolder} /\ leaseCounter' = leaseCounter
<1>1. CASE UNCHANGED vars
  BY <1>1 DEF vars, leaseVars
<1>2. CASE lease' \in {lease, NoLease, Extended(lease)} /\ leaseCounter' = leaseCounter
  <2>1. Extended(lease).holder = lease.holder
    BY <1>0 DEF Extended, LeaseType
  <2>2. NoLease.holder = NoHolder
    BY DEF NoLease
  <2>3. QED
    BY <1>2, <2>1, <2>2
<1>3. ASSUME NEW w \in Workers, BeginningStep(w) \/ CoreStep(w) \/ CloseStep(w)
      PROVE  UNCHANGED vars
  BY <1>3 DEF BeginningStep, ReadTurns, BeginRefused, ReadEvents, StartCore, StartFails,
              CoreStep, Emit, CoreLosesLease, FinishCore, CloseStep, CloseHeartbeat, CloseWriter
<1>4. ASSUME NEW w \in Workers, NEW batch, AppendEvents(Run(w), Token(w), batch)
      PROVE  lease' \in {lease, NoLease, Extended(lease)} /\ leaseCounter' = leaseCounter
  BY <1>4 DEF AppendEvents
<1>5. ASSUME NEW w \in Workers, WriterStep(w)
      PROVE  Stays
  <2>1. CASE Flush(w)
    BY <1>2, <1>4, <2>1 DEF Flush
  <2>2. CASE Take(w) \/ FlushLost(w)
    BY <1>1, <2>2 DEF Take, FlushLost
  <2>3. QED
    BY <1>5, <2>1, <2>2 DEF WriterStep
<1>6. ASSUME NEW w \in Workers, HeartbeatStep(w)
      PROVE  Stays
  BY <1>1, <1>2, <1>6 DEF HeartbeatStep, Renew, RenewLease, RenewLost, SeeCancel
<1>7. ASSUME NEW w \in Workers, EndingStep(w)
      PROVE  Stays
  BY <1>1, <1>2, <1>7 DEF EndingStep, Commit, CommitTurn, CommitRefused, Finish, FinishRun,
                          FinishRefused, Suspend, ReleaseLease, SuspendRefused
<1>8. ASSUME NEW w \in Workers, OutsideStep(w)
      PROVE  Stays
  <2>1. CASE \E goal : FlushUnseen(w, goal)
    BY <1>2, <1>4, <2>1 DEF FlushUnseen
  <2>2. CASE \E goal : CommitUnseen(w, goal)
    BY <1>2, <2>2 DEF CommitUnseen, CommitTurn
  <2>3. CASE TaskFails(w) \/ Crash(w) \/ \E goal : CancelTask(w, goal)
    BY <1>1, <2>3 DEF TaskFails, Crash, CancelTask
  <2>4. QED
    BY <1>8, <2>1, <2>2, <2>3 DEF OutsideStep
<1>9. CASE TimePasses
  BY <1>0, <1>9 DEF TimePasses, Tick, LeaseType
<1>10. ASSUME NEW r \in Runs, ClientCancels(r)
       PROVE  Stays
  BY <1>10 DEF ClientCancels, RequestCancel, leaseVars
<1>11. QED
  BY <1>1, <1>3, <1>5, <1>6, <1>7, <1>8, <1>9, <1>10 DEF CoordinatorNext, coordinatorVars

\* A worker's token and run are what they were, unless it begins.
NamesStay ==
  \A u \in Workers :
    /\ worker'[u].token = worker[u].token /\ worker'[u].run = worker[u].run
    /\ worker'[u].pc \in {"idle", "ready"} => worker[u].pc \in {"idle", "ready"}

LEMMA MostKeepNames ==
  ASSUME WorkersOK, TallyInv, [CoordinatorNext]_coordinatorVars, \A w \in Workers : ~Begin(w)
  PROVE  NamesStay
<1>0. WorkerTypeOK
  BY DEF WorkersOK
<1>1. CASE \A w \in Workers : ~Counts(w)
  BY <1>1, MostAreTame DEF AllTame, Tame, NamesStay
<1>2. ASSUME NEW w \in Workers, Emit(w)
      PROVE  NamesStay
  BY <1>0, <1>2 DEF Emit, NamesStay, WorkerTypeOK, WorkerRecord
<1>3. ASSUME NEW w \in Workers, Flush(w)
      PROVE  NamesStay
  BY <1>0, <1>3 DEF Flush, NamesStay, WorkerTypeOK, WorkerRecord
<1>4. ASSUME NEW w \in Workers, NEW goal, CommitUnseen(w, goal)
      PROVE  NamesStay
  BY <1>0, <1>4 DEF CommitUnseen, NamesStay, WorkerTypeOK, WorkerRecord
<1>5. ASSUME NEW w \in Workers, Take(w)
      PROVE  NamesStay
  <2> DEFINE n == IF worker[w].queue < Batch THEN worker[w].queue ELSE Batch
             new(p) == {[seq |-> s, body |-> p] :
                          s \in worker[w].next .. worker[w].next + n - 1}
  <2>1. PICK p \in Payloads :
          worker' = [worker EXCEPT ![w].buffer = new(p), ![w].next = worker[w].next + n,
                                   ![w].queue = @ - n]
    BY <1>5 DEF Take
  <2> HIDE DEF n, new
  <2>2. QED
    BY <1>0, <2>1 DEF NamesStay, WorkerTypeOK, WorkerRecord
<1>6. QED
  BY <1>1, <1>2, <1>3, <1>4, <1>5 DEF Counts

LEMMA TokensStay ==
  ASSUME WorkInv, TokensAreOwn, TallyInv, [CoordinatorNext]_coordinatorVars,
         \A w \in Workers : ~Begin(w)
  PROVE  TokensAreOwn'
<1>0. /\ TypeOK /\ WorkersOK /\ LeaseIsNewest /\ [Next]_vars /\ leaseCounter \in Nat
      /\ events' \in [Runs -> SUBSET Event]
  <2>1. TypeOK /\ WorkersOK /\ LeaseIsNewest
    BY DEF WorkInv, CoordinatorInv
  <2>2. [Next]_vars
    BY <2>1, StepIsStore
  <2>3. TypeOK'
    BY <2>1, <2>2, NextType
  <2>4. QED
    BY <2>1, <2>2, <2>3, NatBounds DEF TypeOK
<1>1. NamesStay
  BY <1>0, MostKeepNames
<1>2. lease'.holder \in {lease.holder, NoHolder} /\ leaseCounter' = leaseCounter
  BY <1>0, HolderStays
<1>3. ASSUME NEW u \in Workers, worker'[u].pc \in {"idle", "ready"}
      PROVE  Token(u)' = 0 /\ lease'.holder # u
  <2>1. u # NoHolder
    BY WorkerNames, Distinct
  <2>2. QED
    BY <1>1, <1>2, <1>3, <2>1 DEF NamesStay, TokensAreOwn, Token
<1>4. \A u \in Workers : Token(u)' = Token(u)
  BY <1>1 DEF NamesStay, Token
<1>5. ASSUME NEW r \in Runs, NEW e \in events'[r]
      PROVE  e.token \in 1..leaseCounter
  <2>1. CASE e \in events[r]
    BY <2>1 DEF TokensAreOwn
  <2>2. CASE e \notin events[r]
    <3>1. events' # events
      BY <2>2
    <3>2. e.token = leaseCounter
      BY <1>0, <2>2, <3>1, FencedStep DEF Inv, vars
    <3>3. e.token \in 1..MaxToken
      BY <1>0 DEF Event, Tokens
    <3>4. QED
      BY <1>0, <3>2, <3>3, NatBounds
  <2>3. QED
    BY <2>1, <2>2
<1>6. QED
  BY <1>2, <1>3, <1>4, <1>5 DEF TokensAreOwn

\* A token that is granted to w is a new one.
LEMMA TokensBegin ==
  ASSUME WorkInv, WorkInv', TokensAreOwn, NEW w \in Workers, Begin(w)
  PROVE  /\ TokensAreOwn'
         /\ lease'.token = leaseCounter + 1 /\ Token(w)' = leaseCounter + 1
         /\ leaseCounter \in Nat
         /\ \A u \in Workers \ {w} : worker'[u] = worker[u]
<1>0. TypeOK /\ WorkerTypeOK /\ leaseCounter \in Nat /\ leaseCounter' \in Nat
  BY NatBounds DEF WorkInv, CoordinatorInv, WorkersOK, TypeOK
<1>1. worker[w].pc = "ready" /\ GrantLease(w) /\ events' = events
  BY DEF Begin, BeginRunWithLease
<1>2. ~Live
  BY <1>1 DEF TokensAreOwn, GrantLease
<1>3. /\ lease'.holder = w /\ lease'.token = leaseCounter + 1
      /\ leaseCounter' = leaseCounter + 1
  BY <1>0, <1>1, <1>2 DEF GrantLease
<1>4. /\ \A u \in Workers \ {w} : worker'[u] = worker[u]
      /\ worker'[w].pc = "begun" /\ worker'[w].token = lease'.token
  BY <1>0 DEF Begin, WorkerTypeOK, WorkerRecord
<1>5. \A u \in Workers \ {w} : Token(u)' = Token(u) /\ Token(u) \in 0..leaseCounter
  BY <1>4 DEF Token, TokensAreOwn
<1>6. Token(w)' = leaseCounter + 1
  BY <1>3, <1>4 DEF Token
<1>7. \A u \in Workers : worker'[u].pc \in {"idle", "ready"} => Token(u)' = 0 /\ lease'.holder # u
  BY <1>3, <1>4, <1>5 DEF TokensAreOwn
<1>8. \A u \in Workers : Token(u)' \in 0..leaseCounter'
  BY <1>0, <1>3, <1>5, <1>6
<1>9. ASSUME NEW u \in Workers, NEW v \in Workers, u # v, Token(u)' = Token(v)'
      PROVE  Token(u)' = 0
  <2>1. u # w /\ v # w
    BY <1>0, <1>5, <1>6, <1>9
  <2>2. QED
    BY <1>5, <1>9, <2>1 DEF TokensAreOwn
<1>10. \A r \in Runs : \A e \in events'[r] : e.token \in 1..leaseCounter'
  BY <1>0, <1>1, <1>3 DEF TokensAreOwn
<1>11. QED
  BY <1>0, <1>3, <1>4, <1>6, <1>7, <1>8, <1>9, <1>10 DEF TokensAreOwn

-----------------------------------------------------------------------------
(* The counts. *)

LEMMA StoredCount ==
  ASSUME NEW buffer \in SUBSET [seq: 1..MaxSeq, body: Payloads], IsFiniteSet(buffer), NEW token
  PROVE  /\ IsFiniteSet(Stored(buffer, token))
         /\ Cardinality(Stored(buffer, token)) = Cardinality(buffer)
<1> DEFINE stored(b) == [seq |-> b.seq, body |-> b.body, token |-> token]
           f == [b \in buffer |-> stored(b)]
<1>1. Stored(buffer, token) = {stored(b) : b \in buffer}
  BY DEF Stored
<1>2. f \in Injection(buffer, Stored(buffer, token))
  <2>1. \A b, c \in buffer : stored(b) = stored(c) => b = c
    <3>1. SUFFICES ASSUME NEW b \in buffer, NEW c \in buffer, stored(b) = stored(c)
                   PROVE  b = c
      OBVIOUS
    <3>2. b.seq = c.seq /\ b.body = c.body
      BY <3>1
    <3>3. QED
      BY <3>2
  <2> HIDE DEF stored
  <2>2. QED
    BY <1>1, <2>1 DEF Injection, IsInjective
<1>3. f \in Surjection(buffer, Stored(buffer, token))
  <2> HIDE DEF stored
  <2>1. f \in [buffer -> Stored(buffer, token)]
    BY <1>1
  <2>2. \A e \in Stored(buffer, token) : \E b \in buffer : f[b] = e
    BY <1>1
  <2>3. QED
    BY <2>1, <2>2 DEF Surjection
<1>4. ExistsBijection(buffer, Stored(buffer, token))
  BY <1>2, <1>3 DEF ExistsBijection, Bijection
<1>5. QED
  BY <1>4, FS_Bijection

LEMMA TakenCount ==
  ASSUME NEW first \in Nat, NEW n \in Nat, NEW p, NEW taken,
         \A s \in first .. first + n - 1 : [seq |-> s, body |-> p] \in taken,
         \A b \in taken : \E s \in first .. first + n - 1 : b = [seq |-> s, body |-> p]
  PROVE  IsFiniteSet(taken) /\ Cardinality(taken) = n
<1> DEFINE I == first .. first + n - 1
           event(s) == [seq |-> s, body |-> p]
           f == [s \in I |-> event(s)]
<1>1. IsFiniteSet(I) /\ Cardinality(I) = n
  BY FS_Interval
<1>2. \A s, t \in I : event(s) = event(t) => s = t
  <2>1. SUFFICES ASSUME NEW s \in I, NEW t \in I, event(s) = event(t)
                 PROVE  s = t
    OBVIOUS
  <2>2. event(s).seq = event(t).seq
    BY <2>1
  <2>3. QED
    BY <2>2
<1>3. /\ \A s \in I : event(s) \in taken
      /\ \A b \in taken : \E s \in I : b = event(s)
  OBVIOUS
<1> HIDE DEF event, I
<1>4. f \in Injection(I, taken)
  BY <1>2, <1>3 DEF Injection, IsInjective
<1>5. f \in Surjection(I, taken)
  BY <1>3 DEF Surjection
<1>6. ExistsBijection(I, taken)
  BY <1>4, <1>5 DEF ExistsBijection, Bijection
<1>7. QED
  BY <1>1, <1>6, FS_Bijection

\* w writes new events: the others' are what they were.
LEMMA OwnWritten ==
  ASSUME TypeOK, WorkerTypeOK, TokensAreOwn, NEW w \in Workers, Token(w) # 0, NEW new,
         events' = [events EXCEPT ![Run(w)] = @ \cup new],
         \A e \in new : e.token = Token(w),
         \A u \in Workers : worker'[u].token = worker[u].token /\ worker'[u].run = worker[u].run
  PROVE  /\ Written(w)' = Written(w) \cup new
         /\ \A u \in Workers \ {w} : Written(u)' = Written(u)
<1>0. /\ events \in [Runs -> SUBSET Event]
      /\ \A u \in Workers : Run(u) \in Runs /\ Run(u)' = Run(u) /\ Token(u)' = Token(u)
  BY DEF TypeOK, WorkerTypeOK, WorkerRecord, Run, Token
<1>1. /\ events'[Run(w)] = events[Run(w)] \cup new
      /\ \A r \in Runs \ {Run(w)} : events'[r] = events[r]
  BY <1>0
<1>2. Written(w)' = Written(w) \cup new
  BY <1>0, <1>1 DEF Written
<1>3. ASSUME NEW u \in Workers \ {w}
      PROVE  Written(u)' = Written(u)
  <2>1. Token(u) # Token(w)
    BY DEF TokensAreOwn
  <2>2. CASE Run(u) = Run(w)
    BY <1>0, <1>1, <2>1, <2>2 DEF Written
  <2>3. CASE Run(u) # Run(w)
    BY <1>0, <1>1, <2>3 DEF Written
  <2>4. QED
    BY <2>2, <2>3
<1>4. QED
  BY <1>2, <1>3

\* No log is written.
LEMMA SameWritten ==
  ASSUME NamesStay, events' = events
  PROVE  \A u \in Workers : Written(u)' = Written(u)
BY DEF NamesStay, Written, Run, Token

\* A worker that stays as it is keeps its count.
LEMMA OthersTally ==
  ASSUME TallyInv, NEW w \in Workers,
         \A u \in Workers \ {w} :
           /\ Tame(worker[u], worker'[u], lease.token) /\ Written(u)' = Written(u)
           /\ worker'[u].pc \in AtWork /\ lease'.token = worker'[u].token =>
                lease.token = worker[u].token,
         Tally(worker'[w], Written(w)', lease'.token)
  PROVE  TallyInv'
<1>1. ASSUME NEW u \in Workers, u # w
      PROVE  Tally(worker'[u], Written(u)', lease'.token)
  <2>1. /\ Tally(worker[u], Written(u), lease.token)
        /\ Tame(worker[u], worker'[u], lease.token) /\ Written(u)' = Written(u)
        /\ worker'[u].pc \in AtWork /\ lease'.token = worker'[u].token =>
             lease.token = worker[u].token
    BY <1>1 DEF TallyInv
  <2>2. Tally(worker'[u], Written(u), lease'.token)
    BY <2>1, TameTallies
  <2>3. QED
    BY <2>1, <2>2
<1>2. QED
  BY <1>1 DEF TallyInv

\* While a worker's token is the lease's, none of its events ends its run.
LEMMA NoneDone ==
  ASSUME EventInv, NEW w \in Workers, worker[w].pc \in AtWork, lease.token = Token(w),
         Run(w) \in Runs
  PROVE  \A e \in Written(w) : e.body \notin {"done", "error"}
<1>1. runs[Run(w)].status \in Active
  BY DEF EventInv, WorkersSee, Sees, Token
<1>2. EndEvents(events[Run(w)]) = {}
  BY <1>1 DEF EventInv, LogsAreGood, LastIsTerminal, Active, Ended
<1>3. QED
  BY <1>2 DEF EndEvents, Written

-----------------------------------------------------------------------------
(* The steps that count. *)

LEMMA BeginTallies ==
  ASSUME WorkInv, WorkInv', TokensAreOwn, TallyInv, NEW w \in Workers, Begin(w)
  PROVE  TallyInv'
<1> DEFINE v == worker[w]
           y == worker'[w]
<1>0. /\ WorkerTypeOK /\ v \in WorkerRecord /\ Sound(v, leaseCounter) /\ y \in WorkerRecord
      /\ events' = events /\ \A u \in Workers : Run(u) \in Runs
  BY DEF WorkInv, CoordinatorInv, WorkersOK, WorkerTypeOK, WorkerRecord, Run, Begin,
         BeginRunWithLease
<1>1. /\ lease'.token = leaseCounter + 1 /\ Token(w)' = leaseCounter + 1 /\ leaseCounter \in Nat
      /\ \A u \in Workers \ {w} : worker'[u] = worker[u]
  BY TokensBegin
<1>2. /\ v.pc = "ready" /\ y.pc = "begun" /\ y.emitted = v.emitted /\ y.queue = v.queue
      /\ y.buffer = v.buffer /\ y.shield = v.shield /\ y.goal = v.goal /\ y.run = v.run
  BY <1>0 DEF Begin, WorkerTypeOK, WorkerRecord
<1>3. Written(w)' = {}
  <2>1. Written(w)' = {e \in events[Run(w)] : e.token = leaseCounter + 1}
    BY <1>0, <1>1, <1>2 DEF Written, Run
  <2>2. \A e \in events[Run(w)] : e.token # leaseCounter + 1
    BY <1>0, <1>1 DEF TokensAreOwn
  <2>3. QED
    BY <2>1, <2>2
<1>4. Tally(y, {}, lease'.token)
  <2>1. v.emitted = 0 /\ (v.shield => v.goal # "commit")
    BY <1>2 DEF TallyInv, Tally
  <2>2. v.queue = 0 /\ v.buffer = {}
    BY <1>0, <1>2 DEF Sound, Writing, AtWork
  <2>3. IsFiniteSet({}) /\ Cardinality({}) = 0
    BY FS_EmptySet
  <2>4. QED
    BY <1>2, <2>1, <2>2, <2>3 DEF Tally
<1>5. ASSUME NEW u \in Workers \ {w}
      PROVE  /\ Tame(worker[u], worker'[u], lease.token) /\ Written(u)' = Written(u)
             /\ lease'.token # worker'[u].token
  <2>1. worker'[u] = worker[u] /\ Token(u) \in 0..leaseCounter
    BY <1>1 DEF TokensAreOwn
  <2>2. Written(u)' = Written(u)
    BY <1>0, <2>1 DEF Written, Run, Token
  <2>3. QED
    BY <1>1, <2>1, <2>2 DEF Tame, Token
<1> HIDE DEF v, y
<1>6. QED
  BY <1>3, <1>4, <1>5, OthersTally DEF y

\* w moves, and the store stays.
LEMMA MemoryTallies ==
  ASSUME TallyInv, NEW w \in Workers, UNCHANGED vars,
         \A u \in Workers \ {w} : worker'[u] = worker[u],
         worker'[w].run = worker[w].run, worker'[w].token = worker[w].token,
         Tally(worker'[w], Written(w), lease.token)
  PROVE  TallyInv'
<1>1. events' = events /\ lease' = lease
  BY DEF vars, leaseVars
<1>2. \A u \in Workers : Written(u)' = Written(u)
  BY <1>1 DEF Written, Run, Token
<1>3. \A u \in Workers \ {w} : Tame(worker[u], worker'[u], lease.token)
  BY DEF Tame
<1>4. Tally(worker'[w], Written(w)', lease'.token)
  BY <1>1, <1>2
<1>5. QED
  BY <1>1, <1>2, <1>3, <1>4, OthersTally

LEMMA EmitTallies ==
  ASSUME WorkInv, TallyInv, NEW w \in Workers, Emit(w)
  PROVE  TallyInv'
<1> DEFINE v == worker[w]
           y == worker'[w]
           mine == Written(w)
<1>1. WorkerTypeOK /\ v \in WorkerRecord
  BY DEF WorkInv, CoordinatorInv, WorkersOK, WorkerTypeOK
<1>2. /\ UNCHANGED vars /\ v.pc = "working" /\ y.pc = "working"
      /\ y.queue = v.queue + 1 /\ y.emitted = v.emitted + 1
      /\ y.run = v.run /\ y.token = v.token /\ y.buffer = v.buffer /\ y.writer = v.writer
      /\ y.shield = v.shield /\ y.goal = v.goal
      /\ \A u \in Workers \ {w} : worker'[u] = worker[u]
  BY <1>1 DEF Emit, WorkerTypeOK, WorkerRecord
<1>3. Tally(v, mine, lease.token)
  BY DEF TallyInv
<1>4. v.queue \in Nat /\ v.emitted \in Nat
  BY <1>1, WorkerBounds DEF WorkerRecord
<1> HIDE DEF v, y, mine
<1>5. ASSUME v.goal = "commit", lease.token = v.token
      PROVE  /\ v.writer /\ IsFiniteSet(mine) /\ IsFiniteSet(v.buffer)
             /\ \A e \in mine, b \in v.buffer : e.seq # b.seq
             /\ Cardinality(mine) + Cardinality(v.buffer) + y.queue = y.emitted
  <2>1. /\ v.writer /\ IsFiniteSet(mine) /\ IsFiniteSet(v.buffer)
        /\ \A e \in mine, b \in v.buffer : e.seq # b.seq
        /\ Cardinality(mine) + Cardinality(v.buffer) + v.queue = v.emitted
    BY <1>2, <1>3, <1>5 DEF Tally, AtWork
  <2>2. Cardinality(mine) \in Nat /\ Cardinality(v.buffer) \in Nat
    BY <2>1, FS_CardinalityType
  <2>3. QED
    BY <1>2, <1>4, <2>1, <2>2
<1>6. ~\E e \in mine : e.body = "done"
  BY <1>2, <1>3 DEF Tally, Over
<1>7. y.shield => y.goal # "commit"
  BY <1>2, <1>3 DEF Tally
<1>8. Tally(y, mine, lease.token)
  BY <1>2, <1>5, <1>6, <1>7 DEF Tally
<1>9. QED
  BY <1>2, <1>8, MemoryTallies DEF v, y, mine

LEMMA TakeTallies ==
  ASSUME WorkInv, TallyInv, NEW w \in Workers, Take(w)
  PROVE  TallyInv'
<1> DEFINE v == worker[w]
           y == worker'[w]
           mine == Written(w)
           n == IF worker[w].queue < Batch THEN worker[w].queue ELSE Batch
           taken(p) == {[seq |-> s, body |-> p] : s \in v.next .. v.next + n - 1}
<1>1. /\ WorkerTypeOK /\ v \in WorkerRecord /\ v.writer = TRUE /\ v.buffer = {}
      /\ Sound(v, leaseCounter) /\ UNCHANGED vars
      /\ events[Run(w)] \in SUBSET Event
      /\ Sees(v, events[Run(w)], runs[Run(w)].status, lease.token)
  BY WorkerData DEF Take, WorkInv, CoordinatorInv, WorkersOK, EventInv, WorkersSee, WorkerRecord
<1>2. n \in Nat /\ v.queue \in Nat /\ v.next \in Nat /\ v.emitted \in Nat
  BY <1>1, WorkerBounds, NatBounds DEF WorkerRecord
<1>3. PICK p \in Payloads :
        worker' = [worker EXCEPT ![w].buffer = taken(p), ![w].next = v.next + n, ![w].queue = @ - n]
  BY DEF Take
<1> HIDE DEF n
<1>4. /\ y.pc = v.pc /\ y.queue = v.queue - n /\ y.emitted = v.emitted /\ y.buffer = taken(p)
      /\ y.run = v.run /\ y.token = v.token /\ y.writer = v.writer
      /\ y.shield = v.shield /\ y.goal = v.goal
      /\ \A u \in Workers \ {w} : worker'[u] = worker[u]
  <2> HIDE DEF taken
  <2>1. QED
    BY <1>1, <1>3 DEF WorkerTypeOK, WorkerRecord
<1>5. /\ v.pc \in AtWork /\ v.pc # "begun" /\ v.pc # "ending"
      /\ v.pc \notin {"idle", "ready"} \cup Over
  BY <1>1 DEF Sound, Writing, AtWork, Sees, Over
<1>6. Tally(v, mine, lease.token)
  BY DEF TallyInv
<1>7. IsFiniteSet(taken(p)) /\ Cardinality(taken(p)) = n /\ \A b \in taken(p) : b.seq >= v.next
  <2>1. IsFiniteSet(taken(p)) /\ Cardinality(taken(p)) = n
    <3>1. /\ \A s \in v.next .. v.next + n - 1 : [seq |-> s, body |-> p] \in taken(p)
          /\ \A b \in taken(p) : \E s \in v.next .. v.next + n - 1 : b = [seq |-> s, body |-> p]
      OBVIOUS
    <3> HIDE DEF taken, v
    <3>2. QED
      BY <1>2, <3>1, TakenCount
  <2>2. \A b \in taken(p) : b.seq \in v.next .. v.next + n - 1
    OBVIOUS
  <2>3. QED
    BY <1>2, <2>1, <2>2
<1>8. ASSUME lease.token = v.token
      PROVE  \A e \in mine : e.seq < v.next /\ e.seq \in Nat
  BY <1>1, <1>5, <1>8, NatBounds DEF Sees, Stands, Written, Event
<1> HIDE DEF v, y, mine, taken
<1>9. ASSUME v.goal = "commit", lease.token = v.token
      PROVE  /\ IsFiniteSet(mine) /\ IsFiniteSet(y.buffer)
             /\ \A e \in mine, b \in y.buffer : e.seq # b.seq
             /\ Cardinality(mine) + Cardinality(y.buffer) + y.queue = y.emitted
  <2>1. IsFiniteSet(mine) /\ Cardinality(mine) + Cardinality({}) + v.queue = v.emitted
    BY <1>1, <1>5, <1>6, <1>9 DEF Tally
  <2>2. Cardinality(mine) \in Nat /\ Cardinality({}) = 0
    BY <2>1, FS_CardinalityType, FS_EmptySet
  <2>3. \A e \in mine, b \in y.buffer : e.seq # b.seq
    BY <1>2, <1>4, <1>7, <1>8, <1>9
  <2>4. QED
    BY <1>2, <1>4, <1>7, <2>1, <2>2, <2>3
<1>10. ~\E e \in mine : e.body = "done"
  BY <1>5, <1>6 DEF Tally
<1>11. y.shield => y.goal # "commit"
  BY <1>4, <1>6 DEF Tally
<1>12. Tally(y, mine, lease.token)
  BY <1>1, <1>4, <1>5, <1>9, <1>10, <1>11 DEF Tally
<1>13. QED
  BY <1>1, <1>4, <1>12, MemoryTallies DEF v, y, mine

\* A stop leaves no worker that may commit.
LEMMA StopForgoes ==
  ASSUME WorkerTypeOK, TallyInv, NEW w \in Workers, NEW goal, goal # "commit", StopOwner(w, goal)
  PROVE  /\ worker'[w].pc \in AtWork => worker'[w].goal # "commit"
         /\ worker'[w].shield => worker'[w].goal # "commit"
<1>0. worker[w].shield => worker[w].goal # "commit"
  BY DEF TallyInv, Tally
<1>1. CASE Leaves(w, "abandoned")
  BY <1>0, <1>1 DEF Leaves, WorkerTypeOK, WorkerRecord, AtWork
<1>2. CASE worker' = [worker EXCEPT ![w].pc = "ending", ![w].goal = goal, ![w].shield = TRUE,
                        ![w].writer = FALSE, ![w].beats = FALSE, ![w].queue = 0]
  BY <1>2 DEF WorkerTypeOK, WorkerRecord
<1>3. CASE /\ worker[w].shield
           /\ worker' = [worker EXCEPT ![w].writer = FALSE, ![w].beats = FALSE, ![w].queue = 0]
  BY <1>0, <1>3 DEF WorkerTypeOK, WorkerRecord
<1>4. QED
  BY <1>1, <1>2, <1>3 DEF StopOwner

\* Only w holds the lease: whatever becomes of it, the others keep their counts.
LEMMA HolderTallies ==
  ASSUME WorkInv, TokensAreOwn, TallyInv, NEW w \in Workers, worker[w].pc \in AtWork,
         lease.token = Token(w), lease'.token \in {lease.token, 0}, NEW new,
         events' = [events EXCEPT ![Run(w)] = @ \cup new],
         \A e \in new : e.token = Token(w),
         NamesStay, \A u \in Workers \ {w} : worker'[u] = worker[u],
         Tally(worker'[w], Written(w) \cup new, lease'.token)
  PROVE  TallyInv'
<1>0. TypeOK /\ WorkerTypeOK /\ Token(w) # 0
  <2>1. Token(w) \in 1..leaseCounter
    BY DEF WorkInv, CoordinatorInv, WorkersOK, Sound, Token
  <2>2. QED
    BY <2>1 DEF WorkInv, CoordinatorInv, WorkersOK
<1>1. /\ Written(w)' = Written(w) \cup new
      /\ \A u \in Workers \ {w} : Written(u)' = Written(u)
  BY <1>0, OwnWritten DEF NamesStay
<1>2. ASSUME NEW u \in Workers \ {w}
      PROVE  /\ Tame(worker[u], worker'[u], lease.token)
             /\ worker'[u].pc \in AtWork => lease'.token # worker'[u].token
  <2>1. worker'[u].pc \in AtWork => Token(u) \in 1..leaseCounter
    BY DEF WorkInv, CoordinatorInv, WorkersOK, Sound, Token
  <2>2. Token(u) # Token(w)
    BY <1>0 DEF TokensAreOwn
  <2>3. QED
    BY <2>1, <2>2 DEF Tame, Token
<1>3. QED
  BY <1>1, <1>2, OthersTally

LEMMA FlushTallies ==
  ASSUME WorkInv, TokensAreOwn, TallyInv, NamesStay, NEW w \in Workers,
         MayFlush(w), AppendEvents(Run(w), Token(w), worker[w].buffer),
         \A u \in Workers \ {w} : worker'[u] = worker[u],
         worker'[w].shield => worker'[w].goal # "commit",
         worker'[w].pc \in AtWork /\ worker'[w].goal = "commit" =>
           /\ worker'[w].pc = worker[w].pc /\ worker[w].goal = "commit"
           /\ worker'[w].queue = worker[w].queue /\ worker'[w].buffer = {}
           /\ worker'[w].writer = worker[w].writer /\ worker'[w].emitted = worker[w].emitted
  PROVE  TallyInv'
<1> DEFINE v == worker[w]
           y == worker'[w]
           mine == Written(w)
           new == Stored(worker[w].buffer, worker[w].token)
<1>1. /\ v \in WorkerRecord /\ Sound(v, leaseCounter) /\ Run(w) \in Runs
      /\ v.emitted \in Nat /\ v.buffer \in SUBSET [seq: 1..MaxSeq, body: Payloads]
  BY WorkerData DEF WorkInv, WorkerRecord
<1>2. v.pc \in AtWork /\ v.pc \notin {"idle", "ready"}
  BY <1>1 DEF MayFlush, Sound, Writing, AtWork
<1>3. /\ lease.token = v.token /\ events' = [events EXCEPT ![Run(w)] = @ \cup new]
      /\ lease'.token = lease.token
  BY FlushLease DEF AppendEvents, Stored, Token, WorkInv, CoordinatorInv
<1>4. \A e \in new : e.token = v.token /\ \E b \in v.buffer : e.seq = b.seq /\ e.body = b.body
  BY DEF Stored
<1>5. ~\E e \in mine \cup new : e.body = "done"
  <2>1. \A e \in mine : e.body # "done"
    BY <1>1, <1>2, <1>3, NoneDone DEF WorkInv, Token
  <2>2. \A e \in new : e.body # "done"
    BY <1>1, <1>4, EventBodies
  <2>3. QED
    BY <2>1, <2>2
<1>6. Tally(v, mine, lease.token)
  BY DEF TallyInv
<1>7. y.token = v.token /\ y.pc \notin {"idle", "ready"}
  BY <1>2 DEF NamesStay
<1>8. IsFiniteSet(v.buffer) => IsFiniteSet(new) /\ Cardinality(new) = Cardinality(v.buffer)
  BY <1>1, StoredCount
<1> HIDE DEF v, y, mine, new
<1>9. ASSUME y.pc \in AtWork, y.goal = "commit"
      PROVE  /\ y.pc \in {"starting", "working", "closing"} => y.writer
             /\ y.pc = "ending" => y.queue = 0
             /\ IsFiniteSet(mine \cup new) /\ IsFiniteSet(y.buffer)
             /\ \A e \in mine \cup new, b \in y.buffer : e.seq # b.seq
             /\ Cardinality(mine \cup new) + Cardinality(y.buffer) + y.queue = y.emitted
  <2>1. /\ y.pc = v.pc /\ v.goal = "commit" /\ y.queue = v.queue /\ y.buffer = {}
        /\ y.writer = v.writer /\ y.emitted = v.emitted
    BY <1>9 DEF v, y
  <2>2. /\ v.pc \in {"starting", "working", "closing"} => v.writer
        /\ v.pc = "ending" => v.queue = 0
        /\ IsFiniteSet(mine) /\ IsFiniteSet(v.buffer)
        /\ \A e \in mine, b \in v.buffer : e.seq # b.seq
        /\ Cardinality(mine) + Cardinality(v.buffer) + v.queue = v.emitted
    BY <1>2, <1>3, <1>6, <2>1 DEF Tally
  <2>3. mine \cap new = {}
    BY <1>4, <2>2
  <2>4. /\ IsFiniteSet(mine \cup new)
        /\ Cardinality(mine \cup new) = Cardinality(mine) + Cardinality(new) - Cardinality({})
    BY <1>8, <2>2, <2>3, FS_Union
  <2>5. IsFiniteSet({}) /\ Cardinality({}) = 0
    BY FS_EmptySet
  <2>6. Cardinality(mine) \in Nat /\ Cardinality(v.buffer) \in Nat /\ v.queue \in Int
    BY <1>1, <2>2, FS_CardinalityType, WorkerBounds DEF WorkerRecord, v
  <2>7. Cardinality(mine \cup new) + Cardinality(y.buffer) + y.queue = y.emitted
    BY <1>8, <2>1, <2>2, <2>4, <2>5, <2>6
  <2>8. QED
    BY <2>1, <2>2, <2>4, <2>5, <2>7
<1>10. Tally(y, mine \cup new, lease'.token)
  <2>1. y.shield => y.goal # "commit"
    BY DEF y
  <2>2. QED
    BY <1>5, <1>7, <1>9, <2>1 DEF Tally
<1>11. QED
  BY <1>2, <1>3, <1>4, <1>10, HolderTallies DEF v, y, mine, Token

\* What ends the run is numbered behind what w wrote.
LEMMA LastIsNew ==
  ASSUME WorkInv, NEW w \in Workers, NEW goals, Ending(w, goals), ValidLease(Token(w)), NEW body
  PROVE  /\ [seq |-> worker[w].next, body |-> body, token |-> Token(w)] \notin Written(w)
         /\ ~\E e \in events[Run(w)] : e.seq = worker[w].next
<1>1. \A e \in events[Run(w)] : e.seq < worker[w].next /\ e.seq \in Nat
  BY EndingStands, NatBounds DEF WorkInv, Event
<1>2. \A e \in events[Run(w)] : e.seq # worker[w].next
  BY <1>1
<1>3. QED
  BY <1>2 DEF Written

LEMMA CommitTallies ==
  ASSUME WorkInv, TokensAreOwn, TallyInv, NamesStay, NEW w \in Workers, Ending(w, {"commit"}),
         CommitTurn(Run(w), Token(w), Run(w), worker[w].turn, worker[w].next),
         \A u \in Workers \ {w} : worker'[u] = worker[u],
         worker'[w].pc \in {"ending"} \cup Over, worker'[w].emitted = worker[w].emitted,
         worker'[w].pc \in AtWork => worker'[w].goal # "commit",
         worker'[w].shield => worker'[w].goal # "commit"
  PROVE  TallyInv'
<1> DEFINE v == worker[w]
           y == worker'[w]
           mine == Written(w)
           done == [seq |-> worker[w].next, body |-> "done", token |-> Token(w)]
           new == {done}
<1>1. /\ v.pc = "ending" /\ v.goal = "commit" /\ v.buffer = {} /\ lease.token = v.token
      /\ ValidLease(Token(w)) /\ lease' = NoLease
      /\ events' = [events EXCEPT ![Run(w)] = @ \cup {done}]
  BY DEF Ending, CommitTurn, MayCommit, ValidLease, Token
<1>2. IsFiniteSet(mine) /\ Cardinality(mine) = v.emitted
  <2>1. /\ IsFiniteSet(mine) /\ v.queue = 0
        /\ Cardinality(mine) + Cardinality({}) + v.queue = v.emitted
    BY <1>1 DEF TallyInv, Tally, AtWork
  <2>2. Cardinality(mine) \in Nat /\ Cardinality({}) = 0
    BY <2>1, FS_CardinalityType, FS_EmptySet
  <2> HIDE DEF v, mine
  <2>3. QED
    BY <2>1, <2>2
<1>3. done \notin mine
  BY <1>1, LastIsNew
<1>4. \A e \in new : e.token = Token(w)
  OBVIOUS
<1> HIDE DEF done, mine
<1>5. Cardinality(mine \cup new) = y.emitted + 1
  BY <1>2, <1>3, FS_AddElement
<1> HIDE DEF new
<1>6. Tally(y, mine \cup new, lease'.token)
  BY <1>5 DEF Tally, Over
<1>7. lease'.token = 0 /\ v.pc \in AtWork
  BY <1>1 DEF NoLease, AtWork
<1>8. /\ events' = [events EXCEPT ![Run(w)] = @ \cup new]
      /\ lease.token = Token(w) /\ lease'.token \in {lease.token, 0}
  BY <1>1, <1>7 DEF new, Token
<1>9. QED
  BY <1>4, <1>6, <1>7, <1>8, HolderTallies DEF mine

LEMMA FinishTallies ==
  ASSUME WorkInv, TokensAreOwn, TallyInv, NamesStay, NEW w \in Workers, Finish(w)
  PROVE  TallyInv'
<1> DEFINE v == worker[w]
           y == worker'[w]
           mine == Written(w)
           error == [seq |-> worker[w].next, body |-> "error", token |-> Token(w)]
           new == {error}
<1>1. /\ Ending(w, {"fail", "cancel"}) /\ v.pc = "ending" /\ lease.token = v.token
      /\ ValidLease(Token(w)) /\ lease' = NoLease
  BY DEF Ending, Finish, FinishRun, MayFinish, ValidLease, Token
<1>2. events' = [events EXCEPT ![Run(w)] = @ \cup {error}]
  BY <1>1, LastIsNew DEF Finish, FinishRun
<1>3. /\ y.pc = "ended" /\ y.shield = v.shield /\ y.goal = v.goal
      /\ \A u \in Workers \ {w} : worker'[u] = worker[u]
  BY DEF Finish, Leaves, WorkInv, CoordinatorInv, WorkersOK, WorkerTypeOK, WorkerRecord
<1>4. \A e \in new : e.token = Token(w) /\ e.body = "error"
  OBVIOUS
<1>5. \A e \in mine : e.body # "done"
  BY <1>1, NoneDone, WorkerData DEF WorkInv, Token, AtWork
<1>6. v.shield => v.goal # "commit"
  BY DEF TallyInv, Tally
<1>7. events' = [events EXCEPT ![Run(w)] = @ \cup new]
  BY <1>2
<1> HIDE DEF error, mine, new
<1>8. Tally(y, mine \cup new, lease'.token)
  BY <1>3, <1>4, <1>5, <1>6 DEF Tally, AtWork
<1>9. lease.token = Token(w) /\ lease'.token = 0 /\ v.pc \in AtWork
  BY <1>1 DEF NoLease, AtWork, Token
<1>10. QED
  BY <1>3, <1>4, <1>7, <1>8, <1>9, HolderTallies DEF mine

\* A tame step that writes no log.
LEMMA TameStepTallies ==
  ASSUME WorkInv', TallyInv, NamesStay, AllTame, events' = events, lease'.token \in {lease.token, 0}
  PROVE  TallyInv'
<1>1. ASSUME NEW u \in Workers
      PROVE  Tally(worker'[u], Written(u)', lease'.token)
  <2>1. /\ Tally(worker[u], Written(u), lease.token)
        /\ Tame(worker[u], worker'[u], lease.token) /\ Written(u)' = Written(u)
    BY SameWritten DEF TallyInv, AllTame
  <2>2. worker'[u].pc \in AtWork => worker'[u].token # 0
    <3>1. Sound(worker'[u], leaseCounter')
      BY DEF WorkInv, CoordinatorInv, WorkersOK
    <3>2. QED
      BY <3>1 DEF Sound
  <2>3. worker'[u].token = worker[u].token
    BY DEF NamesStay
  <2>4. Tally(worker'[u], Written(u), lease'.token)
    BY <2>1, <2>2, <2>3, TameTallies
  <2>5. QED
    BY <2>1, <2>4
<1>2. QED
  BY <1>1 DEF TallyInv

LEMMA CountsNext ==
  ASSUME WorkInv, WorkInv', TokensAreOwn, TallyInv, [CoordinatorNext]_coordinatorVars
  PROVE  TokensAreOwn' /\ TallyInv'
<1>0. WorkersOK /\ WorkerTypeOK /\ TypeOK /\ CoordinatorInv
  BY DEF WorkInv, CoordinatorInv, WorkersOK
<1>1. CASE \E w \in Workers : Begin(w)
  BY <1>1, BeginTallies, TokensBegin
<1>2. CASE \A w \in Workers : ~Begin(w)
  <2>0. NamesStay /\ TokensAreOwn'
    BY <1>0, <1>2, MostKeepNames, TokensStay
  <2>1. CASE \E w \in Workers : Emit(w) \/ Take(w)
    BY <2>0, <2>1, EmitTallies, TakeTallies
  <2>2. ASSUME NEW w \in Workers, Flush(w)
        PROVE  TallyInv'
    <3>1. /\ \A u \in Workers \ {w} : worker'[u] = worker[u]
          /\ worker'[w].pc = worker[w].pc /\ worker'[w].goal = worker[w].goal
          /\ worker'[w].shield = worker[w].shield /\ worker'[w].queue = worker[w].queue
          /\ worker'[w].buffer = {} /\ worker'[w].writer = worker[w].writer
          /\ worker'[w].emitted = worker[w].emitted
      BY <1>0, <2>2 DEF Flush, WorkerTypeOK, WorkerRecord
    <3>2. worker'[w].shield => worker'[w].goal # "commit"
      BY <3>1 DEF TallyInv, Tally
    <3>3. MayFlush(w) /\ AppendEvents(Run(w), Token(w), worker[w].buffer)
      BY <2>2 DEF Flush
    <3>4. QED
      BY <2>0, <3>1, <3>2, <3>3, FlushTallies
  <2>3. ASSUME NEW w \in Workers, NEW goal \in {"cancel", "fail", "suspend"}, FlushUnseen(w, goal)
        PROVE  TallyInv'
    <3>1. /\ MayFlush(w) /\ AppendEvents(Run(w), Token(w), worker[w].buffer)
          /\ StopOwner(w, goal) /\ goal # "commit"
      BY <2>3 DEF FlushUnseen
    <3>2. \A u \in Workers \ {w} : worker'[u] = worker[u]
      BY <1>0, <3>1 DEF StopOwner, Leaves, WorkerTypeOK
    <3>3. /\ worker'[w].pc \in AtWork => worker'[w].goal # "commit"
          /\ worker'[w].shield => worker'[w].goal # "commit"
      BY <1>0, <3>1, StopForgoes
    <3>4. QED
      BY <2>0, <3>1, <3>2, <3>3, FlushTallies
  <2>4. ASSUME NEW w \in Workers, Commit(w)
        PROVE  TallyInv'
    <3>1. /\ Ending(w, {"commit"})
          /\ CommitTurn(Run(w), Token(w), Run(w), worker[w].turn, worker[w].next)
      BY <2>4 DEF Commit
    <3>2. /\ \A u \in Workers \ {w} : worker'[u] = worker[u]
          /\ worker'[w].pc = "ended" /\ worker'[w].emitted = worker[w].emitted
          /\ worker'[w].shield = worker[w].shield /\ worker'[w].goal = worker[w].goal
      BY <1>0, <2>4 DEF Commit, Leaves, WorkerTypeOK, WorkerRecord
    <3>3. /\ worker'[w].pc \in {"ending"} \cup Over /\ worker'[w].pc \notin AtWork
          /\ worker'[w].shield => worker'[w].goal # "commit"
      BY <3>2 DEF TallyInv, Tally, Over, AtWork
    <3>4. QED
      BY <2>0, <3>1, <3>2, <3>3, CommitTallies
  <2>5. ASSUME NEW w \in Workers, NEW goal \in {"cancel", "fail", "suspend"}, CommitUnseen(w, goal)
        PROVE  TallyInv'
    <3>1. /\ Ending(w, {"commit"})
          /\ CommitTurn(Run(w), Token(w), Run(w), worker[w].turn, worker[w].next)
      BY <2>5 DEF CommitUnseen
    <3>2. /\ \A u \in Workers \ {w} : worker'[u] = worker[u]
          /\ worker'[w].pc = worker[w].pc /\ worker'[w].emitted = worker[w].emitted
          /\ worker'[w].goal = goal
      BY <1>0, <2>5 DEF CommitUnseen, WorkerTypeOK, WorkerRecord
    <3>3. worker'[w].pc = "ending" /\ worker'[w].goal # "commit"
      BY <3>1, <3>2 DEF Ending
    <3>4. QED
      BY <2>0, <3>1, <3>2, <3>3, CommitTallies
  <2>6. ASSUME NEW w \in Workers, Finish(w)
        PROVE  TallyInv'
    BY <2>0, <2>6, FinishTallies
  <2>7. ASSUME NEW w \in Workers, Suspend(w)
        PROVE  TallyInv'
    <3>1. AllTame
      BY <1>0, <2>7, LeavingIsTame DEF Suspend, Over
    <3>2. events' = events /\ lease'.token = 0
      BY <2>7 DEF Suspend, ReleaseLease, NoLease
    <3>3. QED
      BY <2>0, <3>1, <3>2, TameStepTallies
  <2>8. CASE \A w \in Workers : ~Counts(w) /\ ~WritesStore(w)
    <3>1. AllTame /\ QuietStore
      BY <1>0, <2>8, MostAreTame, MostAreQuiet
    <3>2. events' = events /\ lease'.token \in {lease.token, 0}
      BY <3>1 DEF QuietStore
    <3>3. QED
      BY <2>0, <3>1, <3>2, TameStepTallies
  <2>9. QED
    BY <1>2, <2>0, <2>1, <2>2, <2>3, <2>4, <2>5, <2>6, <2>7, <2>8 DEF Counts, WritesStore
<1>3. QED
  BY <1>1, <1>2

LEMMA CountsInit == CoordinatorInit => TokensAreOwn /\ TallyInv
<1> SUFFICES ASSUME CoordinatorInit
             PROVE  TokensAreOwn /\ TallyInv
  OBVIOUS
<1>1. /\ lease = NoLease /\ leaseCounter = 0 /\ \A r \in Runs : events[r] = {}
  BY DEF CoordinatorInit, Init
<1>2. \A u \in Workers : /\ worker[u].pc = "idle" /\ worker[u].token = 0
                         /\ worker[u].emitted = 0 /\ worker[u].shield = FALSE
                         /\ worker[u].run \in Runs
  BY DEF CoordinatorInit
<1>3. TokensAreOwn
  BY <1>1, <1>2, WorkerNames, Distinct DEF TokensAreOwn, Token, NoLease
<1>4. ASSUME NEW u \in Workers
      PROVE  Tally(worker[u], Written(u), lease.token)
  BY <1>1, <1>2 DEF Tally, Written, Run, AtWork, Over
<1>5. QED
  BY <1>3, <1>4 DEF TallyInv

\* A run whose done event a worker wrote holds every event that worker emitted,
\* once each, through failed flushes, flushes that are sent twice and takeovers:
\* until it commits, what is stored under its token, what is in its buffer and
\* what is in its stream add up to what it emitted (event_writer, flush, commit).
THEOREM CommitsAreComplete == CoordinatorSpec => []CommittedEverything
<1>1. CoordinatorInit => TokensAreOwn /\ TallyInv
  BY CountsInit
<1>2. /\ WorkInv /\ WorkInv' /\ TokensAreOwn /\ TallyInv /\ [CoordinatorNext]_coordinatorVars
      => TokensAreOwn' /\ TallyInv'
  BY CountsNext
<1>3. TallyInv => CommittedEverything
  BY DEF TallyInv, Tally, CommittedEverything, Committed
<1>4. QED
  BY <1>1, <1>2, <1>3, WorkInvHolds, PTL DEF CoordinatorSpec

-----------------------------------------------------------------------------
(* How a log grows: behind what is there, and only while its run is active. *)

Behind(log, log2, status) ==
  /\ log \subseteq log2
  /\ \A n \in log2 \ log : status \in Active /\ \A e \in log : e.seq < n.seq

GrowsBehind == \A r \in Runs : Behind(events[r], events'[r], runs[r].status)

LEMMA OneGrowsBehind ==
  ASSUME TypeOK, NEW r \in Runs, NEW new, runs[r].status \in Active,
         events' = [events EXCEPT ![r] = @ \cup new],
         \A n \in new : n \in events[r] \/ \A e \in events[r] : e.seq < n.seq
  PROVE  GrowsBehind
<1>1. events \in [Runs -> SUBSET Event]
  BY DEF TypeOK
<1>2. ASSUME NEW s \in Runs
      PROVE  Behind(events[s], events'[s], runs[s].status)
  <2>1. CASE s = r
    BY <1>1, <2>1 DEF Behind
  <2>2. CASE s # r
    BY <1>1, <2>2 DEF Behind
  <2>3. QED
    BY <2>1, <2>2
<1>3. QED
  BY <1>2 DEF GrowsBehind

LEMMA FlushGrowsBehind ==
  ASSUME CoordinatorInv, EventInv, NEW w \in Workers, MayFlush(w), worker[w].buffer # {},
         AppendEvents(Run(w), Token(w), worker[w].buffer)
  PROVE  GrowsBehind
<1> DEFINE v == worker[w]
           log == events[Run(w)]
           new == Stored(v.buffer, v.token)
<1>0. /\ v \in WorkerRecord /\ Sound(v, leaseCounter) /\ Run(w) \in Runs /\ TypeOK
      /\ Sees(v, log, runs[Run(w)].status, lease.token)
  BY WorkerData DEF EventInv, WorkersSee, CoordinatorInv
<1>1. v.pc \in AtWork /\ v.pc # "begun"
  BY <1>0 DEF MayFlush, Sound, Writing, AtWork
<1>2. /\ lease.token = v.token
      /\ events' = [events EXCEPT ![Run(w)] = @ \cup new]
  BY DEF AppendEvents, Stored, Token
<1>3. runs[Run(w)].status \in Active /\ Stands(v, log)
  BY <1>0, <1>1, <1>2 DEF Sees
<1>4. ASSUME NEW n \in new
      PROVE  n \in log \/ \A e \in log : e.seq < n.seq
  <2>1. PICK b \in v.buffer : n.seq = b.seq
    BY DEF Stored
  <2>2. QED
    BY <1>3, <2>1 DEF Stands
<1> HIDE DEF new
<1>5. QED
  BY <1>0, <1>2, <1>3, <1>4, OneGrowsBehind

LEMMA EndGrowsBehind ==
  ASSUME CoordinatorInv, EventInv, NEW w \in Workers, NEW goals, Ending(w, goals),
         ValidLease(Token(w)), NEW body,
         events' = [events EXCEPT ![Run(w)] =
                      @ \cup {[seq |-> worker[w].next, body |-> body, token |-> Token(w)]}]
  PROVE  GrowsBehind
<1> DEFINE r == Run(w)
           new == {[seq |-> worker[w].next, body |-> body, token |-> Token(w)]}
<1>1. /\ r \in Runs /\ runs[r].status \in Active
      /\ \A e \in events[r] : e.seq < worker[w].next
  BY EndingStands
<1>2. \A n \in new : n.seq = worker[w].next
  OBVIOUS
<1>3. events' = [events EXCEPT ![r] = @ \cup new]
  OBVIOUS
<1> HIDE DEF r, new
<1>4. \A n \in new : n \in events[r] \/ \A e \in events[r] : e.seq < n.seq
  BY <1>1, <1>2
<1>5. TypeOK
  BY DEF CoordinatorInv
<1>6. QED
  BY <1>1, <1>3, <1>4, <1>5, OneGrowsBehind

LEMMA EventsGrowBehind ==
  ASSUME CoordinatorInv, EventInv, [CoordinatorNext]_coordinatorVars
  PROVE  GrowsBehind
<1>1. CASE events' = events
  BY <1>1 DEF GrowsBehind, Behind
<1>2. ASSUME NEW w \in Workers, Begin(w) \/ Suspend(w)
      PROVE  events' = events
  BY <1>2 DEF Begin, BeginRunWithLease, Suspend, ReleaseLease
<1>3. ASSUME NEW w \in Workers, Flush(w) \/ \E goal : FlushUnseen(w, goal)
      PROVE  GrowsBehind
  BY <1>3, FlushGrowsBehind DEF Flush, FlushUnseen
<1>4. ASSUME NEW w \in Workers, Commit(w) \/ \E goal : CommitUnseen(w, goal)
      PROVE  GrowsBehind
  <2>1. /\ Ending(w, {"commit"}) /\ ValidLease(Token(w))
        /\ events' = [events EXCEPT ![Run(w)] =
                        @ \cup {[seq |-> worker[w].next, body |-> "done", token |-> Token(w)]}]
    BY <1>4 DEF Commit, CommitUnseen, CommitTurn, MayCommit
  <2>2. QED
    BY <2>1, EndGrowsBehind
<1>5. ASSUME NEW w \in Workers, Finish(w)
      PROVE  GrowsBehind
  <2>1. Ending(w, {"fail", "cancel"}) /\ ValidLease(Token(w))
    BY <1>5 DEF Finish, FinishRun, MayFinish
  <2>2. CASE events' = [events EXCEPT ![Run(w)] =
                 @ \cup {[seq |-> worker[w].next, body |-> "error", token |-> Token(w)]}]
    BY <2>1, <2>2, EndGrowsBehind
  <2>3. CASE events' = events
    BY <1>1, <2>3
  <2>4. ~\E e \in events[Run(w)] : e.seq = worker[w].next
    <3>1. \A e \in events[Run(w)] : e.seq < worker[w].next /\ e.seq \in Nat
      BY <2>1, EndingStands DEF Event
    <3>2. QED
      BY <3>1
  <2>5. QED
    BY <1>5, <2>2, <2>3, <2>4 DEF Finish, FinishRun
<1>6. CASE \A w \in Workers : ~WritesStore(w)
  BY <1>1, <1>6, MostAreQuiet DEF QuietStore, CoordinatorInv
<1>7. QED
  BY <1>1, <1>2, <1>3, <1>4, <1>5, <1>6 DEF WritesStore

-----------------------------------------------------------------------------
(* Pages of a log. *)

UniqueIn(log) == \A e, f \in log : e.seq = f.seq => e = f

Page(log, n) ==
  LET later == {e \in log : e.seq > n}
  IN  {e \in later : Cardinality({f \in later : f.seq < e.seq}) < PageLimit}

LEMMA FiniteLog ==
  ASSUME NEW log \in SUBSET Event, UniqueIn(log)
  PROVE  IsFiniteSet(log)
<1> DEFINE number == [e \in log |-> e.seq]
<1>1. number \in Injection(log, 1..MaxSeq)
  BY DEF Injection, IsInjective, UniqueIn, Event
<1>2. IsFiniteSet(1..MaxSeq)
  BY NatBounds, FS_Interval
<1>3. QED
  BY <1>1, <1>2, FS_Injection

LEMMA HasLeast ==
  ASSUME NEW S \in SUBSET Nat, S # {}
  PROVE  \E n \in S : \A m \in S : n <= m
<1>1. PICK n \in S : \A m \in S : ~(<<m, n>> \in OpToRel(<, Nat))
  BY NatLessThanWellFounded, WFMin
<1>2. ASSUME NEW m \in S
      PROVE  n <= m
  <2>1. <<m, n>> \in Nat \X Nat /\ ~(m < n)
    BY <1>1 DEF OpToRel
  <2>2. QED
    BY <2>1
<1>3. QED
  BY <1>2

LEMMA HasGreatest ==
  ASSUME NEW M \in Nat, NEW S \in SUBSET (0 .. M), S # {}
  PROVE  \E n \in S : \A m \in S : m <= n
<1> DEFINE T == {M - s : s \in S}
<1>1. T \in SUBSET Nat /\ T # {}
  <2>1. PICK s \in S : TRUE
    OBVIOUS
  <2>2. M - s \in T
    OBVIOUS
  <2>3. \A n \in S : M - n \in Nat
    OBVIOUS
  <2>4. QED
    BY <2>2, <2>3
<1> HIDE DEF T
<1>2. PICK t \in T : \A m \in T : t <= m
  BY <1>1, HasLeast
<1>3. PICK n \in S : t = M - n
  BY <1>2 DEF T
<1>4. \A m \in S : M - n <= M - m
  BY <1>2, <1>3 DEF T
<1>5. QED
  BY <1>4

\* The last sequence number of a page or of what was received.
LEMMA LastIsGreatest ==
  ASSUME NEW page \in SUBSET Event, page # {}, NEW n
  PROVE  /\ \E e \in page : e.seq = Last(page, n)
         /\ \A e \in page : e.seq <= Last(page, n)
<1> DEFINE S == {e.seq : e \in page}
<1>1. S \in SUBSET (0 .. MaxSeq) /\ S # {} /\ MaxSeq \in Nat
  BY NatBounds DEF Event
<1>2. \E m \in S : \A e \in page : e.seq <= m
  <2> HIDE DEF S
  <2>1. PICK m \in S : \A k \in S : k <= m
    BY <1>1, HasGreatest
  <2>2. QED
    BY <2>1 DEF S
<1>3. Last(page, n) \in S /\ \A e \in page : e.seq <= Last(page, n)
  BY <1>2 DEF Last
<1>4. QED
  BY <1>3

\* A page holds the first of the later events, and is empty only when there are
\* none.
LEMMA PageIsFirst ==
  ASSUME NEW log \in SUBSET Event, UniqueIn(log), NEW n \in Nat
  PROVE  /\ \A e \in Page(log, n) : e \in log /\ e.seq > n
         /\ \A e \in log, g \in Page(log, n) :
              e.seq > n /\ e.seq <= g.seq => e \in Page(log, n)
         /\ Page(log, n) = {} => \A e \in log : e.seq <= n
<1> DEFINE later == {e \in log : e.seq > n}
           before(e) == {f \in later : f.seq < e.seq}
<1>0. /\ Page(log, n) = {e \in later : Cardinality(before(e)) < PageLimit}
      /\ \A e \in later : e \in log /\ e.seq > n /\ e.seq \in Nat
      /\ IsFiniteSet(log) /\ PageLimit \in Nat \ {0}
  BY FiniteLog, PageBound, NatBounds DEF Page, Event
<1>1. \A e \in later : IsFiniteSet(before(e)) /\ Cardinality(before(e)) \in Nat
  BY <1>0, FS_Subset, FS_CardinalityType
<1>2. ASSUME NEW e \in later, NEW g \in Page(log, n), e.seq <= g.seq
      PROVE  e \in Page(log, n)
  <2>1. g \in later /\ Cardinality(before(g)) < PageLimit
    BY <1>0
  <2>2. before(e) \in SUBSET before(g)
    BY <1>0, <1>2, <2>1
  <2>3. Cardinality(before(e)) <= Cardinality(before(g))
    BY <1>1, <2>1, <2>2, FS_Subset
  <2>4. Cardinality(before(e)) \in Nat /\ Cardinality(before(g)) \in Nat
    BY <1>1, <2>1
  <2> HIDE DEF before, later
  <2>5. Cardinality(before(e)) < PageLimit
    BY <1>0, <2>1, <2>3, <2>4
  <2>6. QED
    BY <1>0, <2>5
<1>3. ASSUME later # {}
      PROVE  Page(log, n) # {}
  <2> DEFINE S == {e.seq : e \in later}
  <2>1. S \in SUBSET Nat /\ S # {}
    BY <1>0, <1>3
  <2>2. PICK m \in S : \A k \in S : m <= k
    <3> HIDE DEF S
    <3>1. QED
      BY <2>1, HasLeast
  <2>3. PICK e \in later : e.seq = m
    BY <2>2
  <2>4. before(e) = {}
    BY <1>0, <2>2, <2>3
  <2>5. Cardinality(before(e)) < PageLimit
    BY <1>0, <2>4, FS_EmptySet
  <2>6. QED
    BY <1>0, <2>5
<1>4. \A e \in log : e \in later \/ e.seq <= n
  BY NatBounds DEF Event
<1>5. QED
  BY <1>0, <1>2, <1>3, <1>4

-----------------------------------------------------------------------------
(* A client and the log it follows. *)

StreamRecord ==
  [pc: {"new", "read", "send", "trailing", "closed"}, run: Runs, after: 0..MaxSeq,
   page: SUBSET Event, got: SUBSET Event]

\* The cursor parts the log: what was received or is in the page, and what is
\* still to be read.  Once a client has seen its run ended, the log is final.
Follows(s, log, status) ==
  /\ s.got \subseteq log /\ s.page \subseteq log
  /\ \A e \in log : e.seq <= s.after <=> e \in s.got \cup s.page
  /\ \A e \in s.got, f \in s.page : e.seq < f.seq
  /\ s.after = 0 \/ \E e \in log : e.seq = s.after
  /\ s.page # {} => s.pc = "send"
  /\ s.pc # "new" => status # "absent"
  /\ s.pc \in {"trailing", "closed"} => status \in Ended /\ s.page = {}
  /\ s.pc = "closed" => s.got = log

\* The log grows and the status moves.
LEMMA FollowsOn ==
  ASSUME NEW s \in StreamRecord, NEW log \in SUBSET Event, NEW log2 \in SUBSET Event,
         NEW status, NEW status2, Follows(s, log, status), Behind(log, log2, status),
         status # "absent" => status2 # "absent", status \in Ended => status2 \in Ended
  PROVE  Follows(s, log2, status2)
<1>0. /\ \A e \in log2 : e.seq \in 1..MaxSeq
      /\ s.after \in 0..MaxSeq /\ MaxSeq \in Nat
  BY NatBounds DEF StreamRecord, Event
<1>1. ASSUME NEW e \in log2 \ log
      PROVE  ~(e.seq <= s.after) /\ e \notin s.got \cup s.page
  <2>1. CASE s.after = 0
    BY <1>0, <1>1, <2>1 DEF Follows
  <2>2. CASE s.after # 0
    <3>1. PICK f \in log : f.seq = s.after
      BY <2>2 DEF Follows
    <3>2. f.seq < e.seq
      BY <1>1, <3>1 DEF Behind
    <3>3. QED
      BY <1>0, <1>1, <3>1, <3>2 DEF Follows
  <2>3. QED
    BY <2>1, <2>2
<1>2. \A e \in log2 : e.seq <= s.after <=> e \in s.got \cup s.page
  BY <1>1 DEF Follows
<1>3. status \in Ended => log2 = log
  BY DEF Behind, Active, Ended
<1>4. /\ s.got \subseteq log2 /\ s.page \subseteq log2
      /\ \A e \in s.got, f \in s.page : e.seq < f.seq
      /\ s.after = 0 \/ \E e \in log2 : e.seq = s.after
      /\ s.page # {} => s.pc = "send"
  BY DEF Follows, Behind
<1>5. /\ s.pc # "new" => status2 # "absent"
      /\ s.pc \in {"trailing", "closed"} => status2 \in Ended /\ s.page = {}
      /\ s.pc = "closed" => s.got = log2
  BY <1>3 DEF Follows
<1>6. QED
  BY <1>2, <1>4, <1>5 DEF Follows

\* What is received and sent so far is the beginning of the log.
LEMMA FollowsAPrefix ==
  ASSUME NEW s \in StreamRecord, NEW log \in SUBSET Event, NEW status, Follows(s, log, status),
         NEW e \in s.got, NEW f \in log, f.seq < e.seq
  PROVE  f \in s.got
<1>1. /\ e \in log /\ e.seq \in Nat /\ f.seq \in Nat /\ s.after \in Nat
      /\ e.seq <= s.after
  BY NatBounds DEF Follows, StreamRecord, Event
<1>2. f \in s.got \cup s.page
  BY <1>1 DEF Follows
<1>3. f \notin s.page
  BY <1>1 DEF Follows
<1>4. QED
  BY <1>2, <1>3

LEMMA ReadsPage ==
  ASSUME NEW s \in StreamRecord, NEW y, NEW log \in SUBSET Event, UniqueIn(log), NEW status,
         Follows(s, log, status), s.pc = "read",
         y.pc = "send", y.got = s.got, y.page = Page(log, s.after),
         y.after = Last(y.page, s.after)
  PROVE  Follows(y, log, status)
<1>0. /\ s.page = {} /\ status # "absent" /\ s.got \subseteq log
      /\ s.after \in Nat /\ \A e \in log : e.seq \in Nat
      /\ \A e \in log : e.seq <= s.after <=> e \in s.got
  BY NatBounds DEF Follows, StreamRecord, Event
<1>1. /\ \A e \in y.page : e \in log /\ e.seq > s.after
      /\ \A e \in log, g \in y.page : e.seq > s.after /\ e.seq <= g.seq => e \in y.page
  BY <1>0, PageIsFirst
<1>2. CASE y.page = {}
  BY <1>0, <1>2 DEF Follows, Last
<1>3. CASE y.page # {}
  <2>1. /\ y.page \in SUBSET Event
        /\ \E e \in y.page : e.seq = y.after
        /\ \A e \in y.page : e.seq <= y.after
    BY <1>1, <1>3, LastIsGreatest
  <2>2. PICK g \in y.page : g.seq = y.after
    BY <2>1
  <2>3. ASSUME NEW e \in log
        PROVE  e.seq <= y.after <=> e \in y.got \cup y.page
    <3>1. e.seq \in Nat /\ g.seq \in Nat /\ g.seq > s.after
      BY <1>0, <1>1
    <3>2. e \in y.got => e.seq <= y.after
      BY <1>0, <2>2, <3>1
    <3>3. e \in y.page => e.seq <= y.after
      BY <2>1
    <3>4. e.seq <= y.after /\ e.seq > s.after => e \in y.page
      BY <1>1, <2>2
    <3>5. e.seq <= s.after => e \in y.got
      BY <1>0
    <3>6. e.seq <= s.after \/ e.seq > s.after
      BY <1>0, <3>1
    <3>7. QED
      BY <3>2, <3>3, <3>4, <3>5, <3>6
  <2>4. \A e \in y.got, f \in y.page : e.seq < f.seq
    <3>1. ASSUME NEW e \in y.got, NEW f \in y.page
          PROVE  e.seq < f.seq
      <4>1. e \in log /\ f \in log /\ e.seq <= s.after /\ f.seq > s.after
        BY <1>0, <1>1, <3>1
      <4>2. e.seq \in Nat /\ f.seq \in Nat
        BY <1>0, <4>1
      <4>3. QED
        BY <1>0, <4>1, <4>2
    <3>2. QED
      BY <3>1
  <2>5. /\ y.got \subseteq log /\ y.page \subseteq log
        /\ \E e \in log : e.seq = y.after
    BY <1>0, <1>1, <2>2
  <2>6. QED
    BY <1>0, <2>3, <2>4, <2>5 DEF Follows
<1>4. QED
  BY <1>2, <1>3

LEMMA SendsNext ==
  ASSUME NEW s \in StreamRecord, NEW y, NEW log \in SUBSET Event, UniqueIn(log), NEW status,
         Follows(s, log, status), NEW e \in s.page, \A f \in s.page : e.seq <= f.seq,
         y.pc = s.pc, y.after = s.after, y.page = s.page \ {e}, y.got = s.got \cup {e}
  PROVE  Follows(y, log, status)
<1>1. s.pc = "send" /\ status # "absent" /\ e \in log
  BY DEF Follows
<1>2. y.got \cup y.page = s.got \cup s.page
  OBVIOUS
<1>3. ASSUME NEW f \in y.page
      PROVE  e.seq < f.seq
  <2>1. f \in log /\ f # e /\ e.seq <= f.seq
    BY DEF Follows
  <2>2. e.seq \in Nat /\ f.seq \in Nat /\ e.seq # f.seq
    BY <1>1, <2>1, NatBounds DEF Event, UniqueIn
  <2>3. QED
    BY <2>1, <2>2
<1>4. \A g \in y.got, f \in y.page : g.seq < f.seq
  BY <1>3 DEF Follows
<1>5. /\ y.got \subseteq log /\ y.page \subseteq log
      /\ \A g \in log : g.seq <= y.after <=> g \in y.got \cup y.page
      /\ y.after = 0 \/ \E g \in log : g.seq = y.after
  BY <1>1, <1>2 DEF Follows
<1>6. QED
  BY <1>1, <1>4, <1>5 DEF Follows

\* Only the place in the loop changes, with an empty page.
LEMMA TurnsTo ==
  ASSUME NEW s, NEW y, NEW log, NEW status, Follows(s, log, status), s.page = {},
         status # "absent", y.after = s.after, y.page = s.page, y.got = s.got,
         y.pc \in {"trailing", "closed"} => status \in Ended,
         y.pc = "closed" => s.got = log
  PROVE  Follows(y, log, status)
BY DEF Follows

\* Nothing follows the cursor of an ended run: its client has it all.
LEMMA TrailingIsAll ==
  ASSUME NEW s \in StreamRecord, NEW log \in SUBSET Event, UniqueIn(log), NEW status,
         Follows(s, log, status), s.page = {}, Page(log, s.after) = {}
  PROVE  s.got = log
<1>1. s.after \in Nat
  BY NatBounds DEF StreamRecord
<1>2. \A e \in log : e.seq <= s.after
  BY <1>1, PageIsFirst
<1>3. QED
  BY <1>2 DEF Follows

LEMMA ComesBack ==
  ASSUME NEW s \in StreamRecord, NEW y, NEW log \in SUBSET Event, NEW status,
         Follows(s, log, status), s.pc # "new",
         y.pc = "read", y.page = {}, y.got = s.got, y.after = Last(s.got, 0)
  PROVE  Follows(y, log, status)
<1>0. /\ status # "absent" /\ s.got \subseteq log /\ s.got \in SUBSET Event
      /\ \A e \in log : e.seq \in Nat /\ e.seq >= 1
  BY NatBounds DEF Follows, StreamRecord, Event
<1>1. CASE s.got = {}
  <2>1. y.after = 0
    BY <1>1 DEF Last
  <2>2. \A e \in log : ~(e.seq <= 0)
    BY <1>0
  <2>3. QED
    BY <1>0, <1>1, <2>1, <2>2 DEF Follows
<1>2. CASE s.got # {}
  <2>1. /\ \E e \in s.got : e.seq = y.after
        /\ \A e \in s.got : e.seq <= y.after
    BY <1>0, <1>2, LastIsGreatest
  <2>2. PICK g \in s.got : g.seq = y.after
    BY <2>1
  <2>3. ASSUME NEW e \in log, e.seq <= y.after
        PROVE  e \in s.got
    <3>1. CASE e.seq < g.seq
      BY <3>1, FollowsAPrefix
    <3>2. CASE ~(e.seq < g.seq)
      <4>1. e.seq = g.seq /\ g \in log
        BY <1>0, <2>2, <2>3, <3>2
      <4>2. g.seq <= s.after /\ g \notin s.page /\ s.after \in Nat
        <5>1. g.seq <= s.after /\ s.after \in Nat
          BY <4>1, NatBounds DEF Follows, StreamRecord
        <5>2. ~(g.seq < g.seq)
          BY <1>0, <4>1
        <5>3. QED
          BY <5>1, <5>2 DEF Follows
      <4>3. e \in s.got \cup s.page
        BY <4>1, <4>2 DEF Follows
      <4>4. e \notin s.page
        BY <1>0, <4>1 DEF Follows
      <4>5. QED
        BY <4>3, <4>4
    <3>3. QED
      BY <3>1, <3>2
  <2>4. QED
    BY <1>0, <2>1, <2>2, <2>3 DEF Follows
<1>3. QED
  BY <1>1, <1>2

ClientsFollow ==
  \A c \in Clients :
    Follows(stream[c], events[Followed(c)], runs[Followed(c)].status)

StreamInv == WorkInv /\ LogInv /\ StreamTypeOK /\ ClientsFollow

\* What a step finds of a client.
LEMMA ClientData ==
  ASSUME StreamInv, NEW c \in Clients
  PROVE  /\ stream[c] \in StreamRecord /\ Followed(c) \in Runs
         /\ events[Followed(c)] \in SUBSET Event /\ UniqueIn(events[Followed(c)])
         /\ runs[Followed(c)].status \in {"absent"} \cup Active \cup Ended
         /\ Follows(stream[c], events[Followed(c)], runs[Followed(c)].status)
<1>1. stream[c] \in StreamRecord /\ Followed(c) \in Runs
  BY DEF StreamInv, StreamTypeOK, StreamRecord, Followed
<1>2. events[Followed(c)] \in SUBSET Event /\ runs \in RunsType
  BY <1>1 DEF StreamInv, WorkInv, CoordinatorInv, TypeOK, RunsType
<1>3. runs[Followed(c)].status \in {"absent"} \cup Active \cup Ended
  BY <1>1, <1>2 DEF RunsType
<1>4. UniqueIn(events[Followed(c)])
  BY <1>1 DEF StreamInv, LogInv, UniqueSequences, UniqueIn
<1>5. QED
  BY <1>1, <1>2, <1>3, <1>4 DEF StreamInv, ClientsFollow

\* c becomes y, and the other clients and the store stay.
LEMMA ClientMoves ==
  ASSUME StreamInv, NEW c \in Clients, NEW y \in StreamRecord,
         UNCHANGED coordinatorVars, y.run = Followed(c),
         stream' = [stream EXCEPT ![c] = y],
         Follows(y, events[Followed(c)], runs[Followed(c)].status)
  PROVE  StreamInv'
<1>0. /\ stream \in [Clients -> StreamRecord]
      /\ UNCHANGED <<events, runs, turns>>
  BY DEF StreamInv, StreamTypeOK, StreamRecord, coordinatorVars, vars
<1>1. stream'[c] = y /\ \A d \in Clients \ {c} : stream'[d] = stream[d]
  BY <1>0
<1>2. stream' \in [Clients -> StreamRecord]
  BY <1>0
<1>3. StreamTypeOK'
  BY <1>2 DEF StreamTypeOK, StreamRecord
<1>4. ClientsFollow'
  BY <1>0, <1>1 DEF StreamInv, ClientsFollow, Followed
<1>5. WorkInv'
  BY WorkInvNext DEF StreamInv
<1>6. LogInv'
  BY <1>0 DEF StreamInv, LogInv, UniqueSequences, CompletedRunHasOneTurn
<1>7. QED
  BY <1>3, <1>4, <1>5, <1>6 DEF StreamInv

LEMMA ReaderKeeps ==
  ASSUME StreamInv, NEW c \in Clients, ReaderStep(c)
  PROVE  StreamInv'
<1> DEFINE s == stream[c]
           log == events[Followed(c)]
           status == runs[Followed(c)].status
<1>0. /\ s \in StreamRecord /\ s.run = Followed(c) /\ log \in SUBSET Event /\ UniqueIn(log)
      /\ status \in {"absent"} \cup Active \cup Ended /\ Follows(s, log, status)
      /\ s.after \in Nat /\ stream \in [Clients -> StreamRecord]
  BY ClientData, NatBounds DEF Followed, StreamRecord, StreamInv, StreamTypeOK
<1>1. CASE Connect(c)
  <2> DEFINE y == [s EXCEPT !.pc = "read"]
  <2>1. /\ y \in StreamRecord /\ stream' = [stream EXCEPT ![c] = y]
        /\ y.run = s.run /\ y.pc = "read" /\ y.after = s.after /\ y.page = s.page
        /\ y.got = s.got /\ UNCHANGED coordinatorVars
    BY <1>0, <1>1 DEF Connect, StreamRecord
  <2>2. s.page = {} /\ status # "absent"
    BY <1>0, <1>1 DEF Connect, Follows
  <2>3. Follows(y, log, status)
    <3> HIDE DEF s, y, log, status
    <3>1. QED
      BY <1>0, <2>1, <2>2, TurnsTo
  <2>4. QED
    BY <1>0, <2>1, <2>3, ClientMoves
<1>2. CASE ReadPage(c)
  <2> DEFINE page == Page(log, s.after)
             y == [s EXCEPT !.pc = "send", !.page = page, !.after = Last(page, s.after)]
  <2>1. page \in SUBSET Event /\ Last(page, s.after) \in 0..MaxSeq
    <3>1. page \in SUBSET Event
      BY <1>0, PageIsFirst
    <3>2. page = {} => Last(page, s.after) = s.after
      BY DEF Last
    <3>3. page # {} => \E e \in page : e.seq = Last(page, s.after)
      BY <3>1, LastIsGreatest
    <3>4. \A e \in page : e.seq \in 0..MaxSeq
      BY <3>1, NatBounds DEF Event
    <3>5. QED
      BY <1>0, <3>1, <3>2, <3>3, <3>4 DEF StreamRecord
  <2>2. /\ s.pc = "read" /\ UNCHANGED coordinatorVars
        /\ stream' = [stream EXCEPT ![c] = y]
    BY <1>2 DEF ReadPage, EventsAfter, Page
  <2> HIDE DEF page
  <2>3. /\ y \in StreamRecord /\ y.run = s.run /\ y.pc = "send" /\ y.page = page
        /\ y.after = Last(page, s.after) /\ y.got = s.got
    BY <1>0, <2>1 DEF StreamRecord
  <2>4. Follows(y, log, status)
    <3> HIDE DEF s, y, log, status
    <3>1. y.page = Page(log, s.after) /\ y.after = Last(y.page, s.after)
      BY <2>3 DEF page
    <3>2. QED
      BY <1>0, <2>2, <2>3, <3>1, ReadsPage
  <2>5. QED
    BY <1>0, <2>2, <2>3, <2>4, ClientMoves
<1>3. CASE Send(c)
  <2>1. PICK e \in s.page :
          /\ \A f \in s.page : e.seq <= f.seq
          /\ stream' = [stream EXCEPT ![c].page = @ \ {e}, ![c].got = @ \cup {e}]
    BY <1>3 DEF Send
  <2> DEFINE y == [s EXCEPT !.page = @ \ {e}, !.got = @ \cup {e}]
  <2>2. /\ y \in StreamRecord /\ stream' = [stream EXCEPT ![c] = y]
        /\ y.run = s.run /\ y.pc = s.pc /\ y.after = s.after
        /\ y.page = s.page \ {e} /\ y.got = s.got \cup {e}
    BY <1>0, <2>1 DEF StreamRecord
  <2>3. UNCHANGED coordinatorVars
    BY <1>3 DEF Send
  <2>4. Follows(y, log, status)
    <3> HIDE DEF s, y, log, status
    <3>1. QED
      BY <1>0, <2>1, <2>2, SendsNext
  <2>5. QED
    BY <1>0, <2>2, <2>3, <2>4, ClientMoves
<1>4. CASE ReadStatus(c)
  <2> DEFINE pc == IF status \in Active THEN "read" ELSE "trailing"
             y == [s EXCEPT !.pc = pc]
  <2>1. /\ y \in StreamRecord /\ stream' = [stream EXCEPT ![c] = y]
        /\ y.run = s.run /\ y.pc = pc /\ y.after = s.after /\ y.page = s.page
        /\ y.got = s.got /\ UNCHANGED coordinatorVars
    BY <1>0, <1>4 DEF ReadStatus, StreamRecord
  <2>2. s.pc = "send" /\ s.page = {} /\ status # "absent"
    BY <1>0, <1>4 DEF ReadStatus, Follows
  <2>3. y.pc \in {"read", "trailing"} /\ (y.pc = "trailing" => status \in Ended)
    BY <1>0, <2>1, <2>2
  <2>4. Follows(y, log, status)
    <3> HIDE DEF s, y, log, status, pc
    <3>1. QED
      BY <1>0, <2>1, <2>2, <2>3, TurnsTo
  <2>5. QED
    BY <1>0, <2>1, <2>4, ClientMoves
<1>5. CASE ReadTrailing(c)
  <2> DEFINE pc == IF Page(log, s.after) = {} THEN "closed" ELSE "read"
             y == [s EXCEPT !.pc = pc]
  <2>1. stream' = [stream EXCEPT ![c] = y] /\ s.pc = "trailing" /\ UNCHANGED coordinatorVars
    BY <1>0, <1>5 DEF ReadTrailing, StreamRecord, EventsAfter, Page
  <2>2. /\ y \in StreamRecord
        /\ y.run = s.run /\ y.pc = pc /\ y.after = s.after /\ y.page = s.page
        /\ y.got = s.got
    BY <1>0 DEF StreamRecord
  <2>3. s.page = {} /\ status \in Ended /\ status # "absent"
    BY <1>0, <2>1 DEF Follows
  <2>4. y.pc \in {"read", "closed"} /\ (y.pc = "closed" => s.got = log)
    <3>1. Page(log, s.after) = {} => s.got = log
      <4> HIDE DEF s, log, status
      <4>1. QED
        BY <1>0, <2>3, TrailingIsAll
    <3>2. QED
      BY <2>2, <3>1
  <2>5. Follows(y, log, status)
    <3> HIDE DEF s, y, log, status, pc
    <3>1. QED
      BY <1>0, <2>2, <2>3, <2>4, TurnsTo
  <2>6. QED
    BY <1>0, <2>1, <2>2, <2>5, ClientMoves
<1>6. CASE Reconnect(c)
  <2> DEFINE y == [s EXCEPT !.pc = "read", !.page = {}, !.after = Last(s.got, 0)]
  <2>1. /\ stream' = [stream EXCEPT ![c] = y] /\ s.pc # "new" /\ UNCHANGED coordinatorVars
    BY <1>6 DEF Reconnect
  <2>2. Last(s.got, 0) \in 0..MaxSeq
    <3>1. s.got \in SUBSET Event /\ \A e \in s.got : e.seq \in 0..MaxSeq
      BY <1>0, NatBounds DEF StreamRecord, Event
    <3>2. s.got = {} => Last(s.got, 0) = 0
      BY DEF Last
    <3>3. s.got # {} => \E e \in s.got : e.seq = Last(s.got, 0)
      BY <3>1, LastIsGreatest
    <3>4. QED
      BY <3>1, <3>2, <3>3, NatBounds
  <2>3. /\ y \in StreamRecord /\ y.run = s.run /\ y.pc = "read" /\ y.page = {}
        /\ y.after = Last(s.got, 0) /\ y.got = s.got
    BY <1>0, <2>2 DEF StreamRecord
  <2>4. Follows(y, log, status)
    <3> HIDE DEF s, y, log, status
    <3>1. QED
      BY <1>0, <2>1, <2>3, ComesBack
  <2>5. QED
    BY <1>0, <2>1, <2>3, <2>4, ClientMoves
<1>7. QED
  BY <1>1, <1>2, <1>3, <1>4, <1>5, <1>6 DEF ReaderStep

LEMMA WorkersKeepClients ==
  ASSUME StreamInv, [CoordinatorNext]_coordinatorVars, UNCHANGED stream
  PROVE  StreamInv'
<1>1. [Next]_vars /\ GrowsBehind /\ WorkInv'
  BY StepIsStore, EventsGrowBehind, WorkInvNext DEF StreamInv, WorkInv, CoordinatorInv
<1>2. LogInv'
  BY <1>1, LogNext DEF StreamInv, WorkInv, CoordinatorInv
<1>3. StreamTypeOK'
  BY DEF StreamInv, StreamTypeOK
<1>4. \A r \in Runs : Moves(r)
  BY <1>1, StatusStep DEF StreamInv, WorkInv, CoordinatorInv
<1>5. ASSUME NEW c \in Clients
      PROVE  Follows(stream[c], events'[Followed(c)], runs'[Followed(c)].status)
  <2> DEFINE r == Followed(c)
  <2>1. /\ stream[c] \in StreamRecord /\ r \in Runs /\ events[r] \in SUBSET Event
        /\ Follows(stream[c], events[r], runs[r].status)
    BY ClientData
  <2>2. Behind(events[r], events'[r], runs[r].status) /\ Moves(r)
    BY <1>1, <1>4, <2>1 DEF GrowsBehind
  <2>3. events'[r] \in SUBSET Event
    BY <1>1, <2>1 DEF WorkInv, CoordinatorInv, TypeOK
  <2>4. /\ runs[r].status # "absent" => runs'[r].status # "absent"
        /\ runs[r].status \in Ended => runs'[r].status \in Ended
    BY <2>2 DEF Moves, Active, Ended
  <2> HIDE DEF r
  <2>5. Follows(stream[c], events'[r], runs'[r].status)
    BY <2>1, <2>2, <2>3, <2>4, FollowsOn
  <2>6. QED
    BY <2>5 DEF r
<1>6. ClientsFollow'
  BY <1>5 DEF ClientsFollow, Followed
<1>7. QED
  BY <1>1, <1>2, <1>3, <1>6 DEF StreamInv

LEMMA StreamInvHolds == StreamSpec => []StreamInv
<1>1. StreamInit => StreamInv
  <2> SUFFICES ASSUME StreamInit
               PROVE  StreamInv
    OBVIOUS
  <2>1. /\ CoordinatorInit /\ Init
        /\ \A r \in Runs : events[r] = {} /\ runs[r].status = "absent"
    BY DEF StreamInit, CoordinatorInit, Init, NoRun
  <2>2. WorkInv
    <3>1. CoordinatorInv
      BY <2>1, InitType, LeaseInit, WorkersInit DEF CoordinatorInv
    <3>2. \A u \in Workers : worker[u].pc \notin AtWork
      BY <2>1 DEF CoordinatorInit, AtWork
    <3>3. LeaseViews
      BY <3>2 DEF LeaseViews, LocalViewIsSafe, HoldsOwn
    <3>4. QED
      BY <2>1, <3>1, <3>3, EventInit DEF WorkInv
  <2>3. StreamTypeOK
    BY NatBounds DEF StreamInit, StreamTypeOK
  <2>4. \A c \in Clients :
          /\ stream[c].pc = "new" /\ stream[c].page = {} /\ stream[c].got = {}
          /\ stream[c].after = 0 /\ Followed(c) \in Runs
    BY DEF StreamInit, Followed
  <2>5. ClientsFollow
    BY <2>1, <2>4 DEF ClientsFollow, Follows
  <2>6. QED
    BY <2>1, <2>2, <2>3, <2>5, LogInit DEF StreamInv
<1>2. StreamInv /\ [StreamNext]_streamVars => StreamInv'
  <2> SUFFICES ASSUME StreamInv, [StreamNext]_streamVars
               PROVE  StreamInv'
    OBVIOUS
  <2>1. CASE [CoordinatorNext]_coordinatorVars /\ UNCHANGED stream
    BY <2>1, WorkersKeepClients
  <2>2. CASE \E c \in Clients : ReaderStep(c)
    BY <2>2, ReaderKeeps
  <2>3. QED
    BY <2>1, <2>2 DEF StreamNext, streamVars
<1>3. QED
  BY <1>1, <1>2, PTL DEF StreamSpec

\* A client holds the events 1..n of the run as they are stored, whatever the
\* workers, the flushes and the connections do (stream_persisted_run_events).
THEOREM ClientsReceiveAPrefix == StreamSpec => []ReceivedLogIsAPrefix
<1>1. StreamInv => ReceivedLogIsAPrefix
  <2> SUFFICES ASSUME StreamInv, NEW c \in Clients
               PROVE  /\ stream[c].got \subseteq events[Followed(c)]
                      /\ \A e \in stream[c].got, f \in events[Followed(c)] :
                           f.seq < e.seq => f \in stream[c].got
    BY DEF ReceivedLogIsAPrefix
  <2>1. /\ stream[c] \in StreamRecord /\ events[Followed(c)] \in SUBSET Event
        /\ Follows(stream[c], events[Followed(c)], runs[Followed(c)].status)
    BY ClientData
  <2>2. stream[c].got \subseteq events[Followed(c)]
    BY <2>1 DEF Follows
  <2>3. QED
    BY <2>1, <2>2, FollowsAPrefix
<1>2. QED
  BY <1>1, StreamInvHolds, PTL

\* A stream that ends has given its client every event of an ended run.
THEOREM StreamsEndComplete == StreamSpec => []ClosedStreamIsComplete
<1>1. StreamInv => ClosedStreamIsComplete
  BY DEF StreamInv, ClientsFollow, Follows, ClosedStreamIsComplete
<1>2. QED
  BY <1>1, StreamInvHolds, PTL

-----------------------------------------------------------------------------
(* From the worker that emits an event to the client that receives it. *)

\* Clients read and do not disturb: beside them the workers behave as their own
\* specification says, so all that is proved of workers holds while clients
\* follow their runs (stream_persisted_run_events has no call that writes).
THEOREM ClientsOnlyRead == StreamSpec => CoordinatorSpec
<1>1. StreamInit => CoordinatorInit
  BY DEF StreamInit
<1>2. [StreamNext]_streamVars => [CoordinatorNext]_coordinatorVars
  <2>1. ASSUME NEW c \in Clients, ReaderStep(c) PROVE UNCHANGED coordinatorVars
    BY <2>1 DEF ReaderStep, Connect, ReadPage, Send, ReadStatus, ReadTrailing, Reconnect
  <2>2. QED
    BY <2>1 DEF StreamNext, streamVars
<1>3. QED
  BY <1>1, <1>2, PTL DEF StreamSpec, CoordinatorSpec

\* The store under workers and clients is a fenced log: each of its runs is
\* written under one token at a time and closed once, whatever the workers, the
\* faults and the readers do (SessionStore, RunCoordinator, the SSE producer).
THEOREM WholeIsAFencedLog == StreamSpec => ImplementsFencedLog
BY ClientsOnlyRead, WorkersUseTheStore, Refinement, PTL DEF ImplementsStore

\* A client whose stream of a committed run has closed received as many events
\* under the committing worker's token as that worker emitted, and its done event.
ClientsHaveWhatWasCommitted ==
  \A c \in Clients, w \in Workers :
    stream[c].pc = "closed" /\ Followed(c) = Run(w) /\ Committed(w) =>
      Cardinality({e \in stream[c].got : e.token = Token(w)}) = worker[w].emitted + 1

\* What a worker emitted reaches every client that follows its run to the end,
\* through the stream, the buffer, the store and the pages: with a commit,
\* nothing is lost or doubled on the way (_DurableEventWriter, flush, commit,
\* stream_persisted_run_events).
THEOREM CommittedReachesClients == StreamSpec => []ClientsHaveWhatWasCommitted
<1>1. CommittedEverything /\ ClosedStreamIsComplete => ClientsHaveWhatWasCommitted
  <2> SUFFICES ASSUME CommittedEverything, ClosedStreamIsComplete,
                      NEW c \in Clients, NEW w \in Workers,
                      stream[c].pc = "closed", Followed(c) = Run(w), Committed(w)
               PROVE  Cardinality({e \in stream[c].got : e.token = Token(w)})
                      = worker[w].emitted + 1
    BY DEF ClientsHaveWhatWasCommitted
  <2>1. {e \in stream[c].got : e.token = Token(w)} = Written(w)
    BY DEF ClosedStreamIsComplete, Written
  <2>2. QED
    BY <2>1 DEF CommittedEverything
<1>2. QED
  BY <1>1, ClientsOnlyRead, CommitsAreComplete, StreamsEndComplete, PTL

-----------------------------------------------------------------------------
(* Renewing in time is enough. *)

\* A lease was granted for some time.
TermIsPositive == lease.token # 0 => lease.term > 0

LEMMA TermNext ==
  ASSUME TypeOK, TermIsPositive, [Next]_vars
  PROVE  TermIsPositive'
<1>0. lease \in LeaseType /\ lease.term \in Nat
  BY DEF TypeOK, LeaseType
<1>1. CASE lease'.term = LeaseSeconds
  BY <1>1, NatBounds DEF TermIsPositive
<1>2. ASSUME NEW h, GrantLease(h)
      PROVE  TermIsPositive'
  <2>1. CASE lease' = [lease EXCEPT !.left = LeaseSeconds, !.term = LeaseSeconds]
    BY <1>0, <1>1, <2>1 DEF LeaseType
  <2>2. CASE lease'.term = LeaseSeconds
    BY <1>1, <2>2
  <2>3. QED
    BY <1>2, <2>1, <2>2 DEF GrantLease
<1>3. CASE lease' = Extended(lease)
  <2>1. /\ lease'.token = lease.token
        /\ lease'.term = IF lease.term >= MinExtension THEN lease.term ELSE MinExtension
    BY <1>0, <1>3 DEF Extended, LeaseType
  <2>2. QED
    BY <1>0, <2>1, NatBounds DEF TermIsPositive
<1>4. CASE lease' = NoLease
  BY <1>4 DEF NoLease, TermIsPositive
<1>5. CASE Tick
  BY <1>0, <1>5 DEF Tick, TermIsPositive, LeaseType
<1>6. CASE lease' = lease
  BY <1>6 DEF TermIsPositive
<1>7. CASE LeaseStep
  BY <1>2, <1>3, <1>4, <1>5, <1>7
     DEF LeaseStep, AcquireLease, RenewLease, ReleaseLease, MatchedLease
<1>8. CASE BeginStep
  BY <1>2, <1>6, <1>8 DEF BeginStep, BeginRun, BeginRunWithLease, leaseVars
<1>9. CASE EventStep
  BY <1>3, <1>6, <1>9 DEF EventStep, AppendEvents, leaseVars
<1>10. CASE EndStep
  <2>1. ASSUME NEW r, NEW t, NEW id, NEW n, NEW q, CommitTurn(r, t, id, n, q)
        PROVE  lease' = NoLease
    BY <2>1 DEF CommitTurn
  <2>2. ASSUME NEW r, NEW t, NEW status, NEW q, FinishRun(r, t, status, q)
        PROVE  lease' = NoLease
    BY <2>2 DEF FinishRun
  <2>3. ASSUME NEW r, NEW n, NEW state, Torn(r, n, state)
        PROVE  lease' = lease
    BY <2>3, TornFrame
  <2>4. lease' = NoLease \/ lease' = lease
    BY <1>10, <2>1, <2>2, <2>3 DEF EndStep, TornCommit, TornFinish
  <2>5. QED
    BY <1>4, <1>6, <2>4
<1>11. QED
  BY <1>6, <1>7, <1>8, <1>9, <1>10, MessageFrame, ToolFrame DEF Next, RequestCancel, vars, leaseVars

\* No worker at work has let its lease run out.
Renewed == \A u \in Workers : worker[u].pc \in AtWork => worker[u].view > 0

LEMMA RenewedNext ==
  ASSUME Timely, CoordinatorInv, TermIsPositive, Renewed, [CoordinatorNext]_coordinatorVars
  PROVE  Renewed'
<1>0. WorkerTypeOK /\ TypeOK /\ lease \in LeaseType
  BY DEF CoordinatorInv, WorkersOK, TypeOK, LeaseType
<1>1. CASE Remembers
  BY <1>1 DEF Remembers, Renewed
<1>2. ASSUME NEW w \in Workers, lease'.left > 0,
             \A u \in Workers \ {w} : worker'[u] = worker[u],
             worker'[w].view = lease'.left
      PROVE  Renewed'
  BY <1>2 DEF Renewed
<1>3. ASSUME NEW w \in Workers, Begin(w)
      PROVE  Renewed'
  <2>1. lease'.left > 0
    <3>1. lease'.left = LeaseSeconds
      BY <1>0, <1>3, GrantGives DEF Begin, BeginRunWithLease
    <3>2. QED
      BY <3>1, NatBounds
  <2>2. /\ \A u \in Workers \ {w} : worker'[u] = worker[u]
        /\ worker'[w].view = lease'.left
    BY <1>0, <1>3 DEF Begin, WorkerTypeOK, WorkerRecord
  <2>3. QED
    BY <1>2, <2>1, <2>2
<1>4. ASSUME NEW w \in Workers, Renew(w)
      PROVE  Renewed'
  <2>1. lease.token # 0
    <3>1. worker[w].beats /\ Sound(worker[w], leaseCounter) /\ lease.token = Token(w)
      BY <1>4, WorkerData DEF Renew, RenewLease, MatchedLease
    <3>2. worker[w].pc \in AtWork
      BY <3>1 DEF Sound, Writing
    <3>3. QED
      BY <3>1, <3>2 DEF Sound, Token
  <2>2. lease'.left = IF lease.term >= MinExtension THEN lease.term ELSE MinExtension
    BY <1>0, <1>4 DEF Renew, RenewLease, Extended, LeaseType
  <2>3. lease'.left > 0
    BY <1>0, <2>1, <2>2, NatBounds DEF TermIsPositive, LeaseType
  <2>4. /\ \A u \in Workers \ {w} : worker'[u] = worker[u]
        /\ worker'[w].view = lease'.left
    BY <1>0, <1>4 DEF Renew, WorkerTypeOK, WorkerRecord
  <2>5. QED
    BY <1>2, <2>3, <2>4
<1>5. CASE TimePasses
  <2>1. ASSUME NEW u \in Workers, worker'[u].pc \in AtWork
        PROVE  worker'[u].view > 0
    <3>1. worker[u] \in WorkerRecord
      BY <1>0 DEF WorkerTypeOK
    <3>2. worker'[u] = [worker[u] EXCEPT !.view = IF @ > 0 THEN @ - 1 ELSE 0]
      BY <1>5 DEF TimePasses
    <3>3. /\ worker[u].view \in Nat /\ worker'[u].pc = worker[u].pc
          /\ worker'[u].view = IF worker[u].view > 0 THEN worker[u].view - 1 ELSE 0
      BY <3>1, <3>2 DEF WorkerRecord
    <3>4. worker[u].view > 1
      BY <1>5, <2>1, <3>3 DEF TimePasses
    <3>5. QED
      BY <3>3, <3>4
  <2>2. QED
    BY <2>1 DEF Renewed
<1>6. CASE UNCHANGED worker
  BY <1>6 DEF Renewed
<1>7. QED
  BY <1>0, <1>1, <1>3, <1>4, <1>5, <1>6, QuietRemembers
     DEF CoordinatorNext, BeginningStep, HeartbeatStep, ClientCancels, coordinatorVars

\* A worker that was told its lease is gone: it has left for that, or its
\* writer has stopped while the core is at work.
Told(v) == v.pc = "lost" \/ (v.pc \in {"starting", "working"} /\ ~v.writer)

NoneIsFenced == \A u \in Workers : Told(worker[u]) => Committed(u)

LEMMA FencedIsCommitted ==
  ASSUME CoordinatorInv, LeaseViews, Renewed, NEW w \in Workers, worker[w].pc \in AtWork,
         ~ValidLease(Token(w))
  PROVE  Committed(w)
<1>1. SUFFICES ASSUME ~Committed(w)
               PROVE  FALSE
  OBVIOUS
<1>2. /\ worker[w].view > 0 /\ worker[w].view \in Nat /\ lease.left \in Nat
  BY WorkerData DEF Renewed, WorkerRecord, CoordinatorInv, TypeOK
<1>3. lease.token = Token(w) /\ worker[w].view <= lease.left
  BY <1>1, <1>2 DEF LeaseViews, LocalViewIsSafe
<1>4. QED
  BY <1>2, <1>3 DEF ValidLease

\* The steps of a worker that finds its lease gone.
FindsLeaseGone(w) ==
  \/ CoreLosesLease(w) \/ FlushLost(w)
  \/ CommitRefused(w) \/ FinishRefused(w) \/ SuspendRefused(w)

LEMMA GoneIsCommitted ==
  ASSUME CoordinatorInv, LeaseViews, EventInv, Renewed, NoneIsFenced,
         NEW w \in Workers, FindsLeaseGone(w), Told(worker'[w])
  PROVE  Committed(w)
<1>0. worker[w] \in WorkerRecord /\ Sound(worker[w], leaseCounter) /\ WorkerTypeOK
  BY WorkerData DEF CoordinatorInv, WorkersOK
<1>1. ASSUME worker[w].pc \in AtWork, ~ValidLease(Token(w))
      PROVE  Committed(w)
  BY <1>1, FencedIsCommitted
<1>2. ASSUME NEW pc \in {"ended", "suspended"}, Leaves(w, pc)
      PROVE  FALSE
  <2>1. worker'[w].pc = pc
    BY <1>0, <1>2 DEF Leaves, WorkerTypeOK, WorkerRecord
  <2>2. QED
    BY <1>2, <2>1 DEF Told
<1>3. CASE CoreLosesLease(w)
  <2>1. worker[w].pc = "working" /\ (~ValidLease(Token(w)) \/ ~worker[w].writer)
    BY <1>3 DEF CoreLosesLease
  <2>2. QED
    BY <1>1, <2>1 DEF NoneIsFenced, Told, AtWork
<1>4. CASE FlushLost(w)
  <2>1. lease.token # Token(w) /\ MayFlush(w)
    BY <1>4 DEF FlushLost
  <2>2. worker[w].pc \in AtWork
    BY <1>0, <2>1 DEF MayFlush, Sound, Writing, AtWork
  <2>3. QED
    BY <1>1, <2>1, <2>2 DEF ValidLease
<1>5. CASE CommitRefused(w)
  <2>1. worker[w].pc = "ending"
    BY <1>5 DEF CommitRefused, Ending
  <2>2. CASE ~ValidLease(Token(w))
    BY <1>1, <2>1, <2>2 DEF AtWork
  <2>3. CASE worker' = [worker EXCEPT ![w].goal = "fail", ![w].next = @ + 1]
    <3>1. worker'[w].pc = "ending"
      BY <1>0, <2>1, <2>3 DEF WorkerTypeOK, WorkerRecord
    <3>2. QED
      BY <3>1 DEF Told
  <2>4. QED
    BY <1>5, <2>2, <2>3 DEF CommitRefused
<1>6. CASE FinishRefused(w)
  <2>1. /\ worker[w].pc = "ending"
        /\ Leaves(w, "ended") \/ ~MayFinish(Run(w), Token(w))
    BY <1>6 DEF FinishRefused, Ending
  <2>2. ~MayFinish(Run(w), Token(w))
    BY <1>2, <2>1
  <2>3. CASE ValidLease(Token(w))
    <3>1. Sees(worker[w], events[Run(w)], runs[Run(w)].status, lease.token)
      BY DEF EventInv, WorkersSee
    <3>2. runs[Run(w)].status \in Active
      BY <2>1, <2>3, <3>1 DEF Sees, ValidLease, Token, AtWork
    <3>3. QED
      BY <2>2, <2>3, <3>2 DEF MayFinish
  <2>4. QED
    BY <1>1, <2>1, <2>3 DEF AtWork
<1>7. CASE SuspendRefused(w)
  BY <1>1, <1>7 DEF SuspendRefused, Ending, AtWork
<1>8. QED
  BY <1>3, <1>4, <1>5, <1>6, <1>7 DEF FindsLeaseGone

\* All other steps tell no worker so.
TellsNone ==
  \A u \in Workers :
    Told(worker'[u]) =>
      Told(worker[u]) /\ worker'[u].run = worker[u].run /\ worker'[u].token = worker[u].token

LEMMA LeavingTellsNone ==
  ASSUME WorkerTypeOK, NEW w \in Workers, NEW pc, pc # "lost", pc \notin AtWork, Leaves(w, pc)
  PROVE  TellsNone
BY DEF Leaves, TellsNone, Told, WorkerTypeOK, WorkerRecord, AtWork

LEMMA StoppingTellsNone ==
  ASSUME WorkerTypeOK, NEW w \in Workers, NEW goal, StopOwner(w, goal)
  PROVE  TellsNone
<1>1. CASE Leaves(w, "abandoned")
  BY <1>1, LeavingTellsNone DEF AtWork
<1>2. CASE worker' = [worker EXCEPT ![w].pc = "ending", ![w].goal = goal, ![w].shield = TRUE,
                        ![w].writer = FALSE, ![w].beats = FALSE, ![w].queue = 0]
  BY <1>2 DEF TellsNone, Told, WorkerTypeOK, WorkerRecord
<1>3. CASE /\ worker[w].pc = "closing"
           /\ worker' = [worker EXCEPT ![w].writer = FALSE, ![w].beats = FALSE, ![w].queue = 0]
  BY <1>3 DEF TellsNone, Told, WorkerTypeOK, WorkerRecord
<1>4. QED
  BY <1>1, <1>2, <1>3 DEF StopOwner

LEMMA MostTellNone ==
  ASSUME WorkerTypeOK, [CoordinatorNext]_coordinatorVars,
         \A w \in Workers : ~FindsLeaseGone(w)
  PROVE  TellsNone
<1>1. ASSUME NEW w \in Workers, BeginningStep(w)
      PROVE  TellsNone
  <2>1. CASE ReadTurns(w)
    <3>1. PICK n \in 1..MaxTurn : worker' = [worker EXCEPT ![w].pc = "ready", ![w].turn = n]
      BY <2>1 DEF ReadTurns
    <3>2. QED
      BY <3>1 DEF TellsNone, Told, WorkerTypeOK, WorkerRecord
  <2>2. CASE Begin(w)
    BY <2>2 DEF Begin, TellsNone, Told, WorkerTypeOK, WorkerRecord
  <2>3. CASE BeginRefused(w) \/ StartFails(w)
    BY <2>3, LeavingTellsNone DEF BeginRefused, StartFails, AtWork
  <2>4. CASE ReadEvents(w)
    <3>1. ASSUME NEW n, StartWriting(w, n)
          PROVE  TellsNone
      BY <3>1 DEF StartWriting, TellsNone, Told, WorkerTypeOK, WorkerRecord
    <3>2. QED
      BY <2>4, <3>1 DEF ReadEvents
  <2>5. CASE StartCore(w)
    BY <2>5 DEF StartCore, TellsNone, Told, WorkerTypeOK, WorkerRecord
  <2>6. QED
    BY <1>1, <2>1, <2>2, <2>3, <2>4, <2>5 DEF BeginningStep
<1>2. ASSUME NEW w \in Workers, CoreStep(w)
      PROVE  TellsNone
  <2>1. CASE Emit(w)
    BY <2>1 DEF Emit, TellsNone, Told, WorkerTypeOK, WorkerRecord
  <2>2. ASSUME NEW goal, FinishCore(w, goal)
        PROVE  TellsNone
    BY <2>2 DEF FinishCore, TellsNone, Told, WorkerTypeOK, WorkerRecord
  <2>3. QED
    BY <1>2, <2>1, <2>2 DEF CoreStep, FindsLeaseGone
<1>3. ASSUME NEW w \in Workers, WriterStep(w)
      PROVE  TellsNone
  <2>1. CASE Take(w)
    <3> DEFINE n == IF worker[w].queue < Batch THEN worker[w].queue ELSE Batch
               new(p) == {[seq |-> s, body |-> p] :
                            s \in worker[w].next .. worker[w].next + n - 1}
    <3>1. PICK p \in Payloads :
            worker' = [worker EXCEPT ![w].buffer = new(p), ![w].next = worker[w].next + n,
                                     ![w].queue = @ - n]
      BY <2>1 DEF Take
    <3> HIDE DEF n, new
    <3>2. QED
      BY <3>1 DEF TellsNone, Told, WorkerTypeOK, WorkerRecord
  <2>2. CASE Flush(w)
    BY <2>2 DEF Flush, TellsNone, Told, WorkerTypeOK, WorkerRecord
  <2>3. QED
    BY <1>3, <2>1, <2>2 DEF WriterStep, FindsLeaseGone
<1>4. ASSUME NEW w \in Workers, HeartbeatStep(w)
      PROVE  TellsNone
  <2>1. CASE Renew(w)
    BY <2>1 DEF Renew, TellsNone, Told, WorkerTypeOK, WorkerRecord
  <2>2. CASE RenewLost(w) \/ SeeCancel(w)
    BY <2>2, StoppingTellsNone DEF RenewLost, SeeCancel
  <2>3. QED
    BY <1>4, <2>1, <2>2 DEF HeartbeatStep
<1>5. ASSUME NEW w \in Workers, CloseStep(w)
      PROVE  TellsNone
  <2>1. CASE CloseHeartbeat(w)
    BY <2>1 DEF CloseHeartbeat, TellsNone, Told, WorkerTypeOK, WorkerRecord
  <2>2. CASE CloseWriter(w)
    BY <2>2 DEF CloseWriter, TellsNone, Told, WorkerTypeOK, WorkerRecord
  <2>3. QED
    BY <1>5, <2>1, <2>2 DEF CloseStep
<1>6. ASSUME NEW w \in Workers, EndingStep(w)
      PROVE  TellsNone
  <2>1. \E pc \in {"ended", "suspended"} : Leaves(w, pc)
    BY <1>6 DEF EndingStep, FindsLeaseGone, Commit, Finish, Suspend
  <2>2. QED
    BY <2>1, LeavingTellsNone DEF AtWork
<1>7. ASSUME NEW w \in Workers, OutsideStep(w)
      PROVE  TellsNone
  <2>1. CASE TaskFails(w) \/ \E goal : FlushUnseen(w, goal)
    BY <2>1, StoppingTellsNone DEF TaskFails, FlushUnseen
  <2>2. CASE Crash(w)
    BY <2>2, LeavingTellsNone DEF Crash, AtWork
  <2>3. ASSUME NEW goal, CancelTask(w, goal)
        PROVE  TellsNone
    <3>1. CASE StopOwner(w, goal)
      BY <3>1, StoppingTellsNone
    <3>2. CASE worker' = [worker EXCEPT ![w].pc = "closing", ![w].goal = goal, ![w].shield = TRUE]
      BY <3>2 DEF TellsNone, Told, WorkerTypeOK, WorkerRecord
    <3>3. QED
      BY <2>3, <3>1, <3>2 DEF CancelTask
  <2>4. ASSUME NEW goal, CommitUnseen(w, goal)
        PROVE  TellsNone
    <3>1. worker[w].pc = "ending"
      BY <2>4 DEF CommitUnseen, Ending
    <3>2. QED
      BY <2>4, <3>1 DEF CommitUnseen, TellsNone, Told, WorkerTypeOK, WorkerRecord
  <2>5. QED
    BY <1>7, <2>1, <2>2, <2>3, <2>4 DEF OutsideStep
<1>8. CASE TimePasses
  <2>1. ASSUME NEW u \in Workers
        PROVE  /\ worker'[u].pc = worker[u].pc /\ worker'[u].run = worker[u].run
               /\ worker'[u].token = worker[u].token /\ worker'[u].writer = worker[u].writer
    <3>1. worker[u] \in WorkerRecord
      BY DEF WorkerTypeOK
    <3>2. worker'[u] = [worker[u] EXCEPT !.view = IF @ > 0 THEN @ - 1 ELSE 0]
      BY <1>8 DEF TimePasses
    <3>3. QED
      BY <3>1, <3>2 DEF WorkerRecord
  <2>2. QED
    BY <2>1 DEF TellsNone, Told
<1>9. CASE UNCHANGED worker
  BY <1>9 DEF TellsNone
<1>10. QED
  BY <1>1, <1>2, <1>3, <1>4, <1>5, <1>6, <1>7, <1>8, <1>9
     DEF CoordinatorNext, ClientCancels, coordinatorVars

LEMMA NoneFencedNext ==
  ASSUME WorkInv, Renewed, NoneIsFenced, [CoordinatorNext]_coordinatorVars
  PROVE  NoneIsFenced'
<1>0. /\ WorkerTypeOK /\ TypeOK /\ CoordinatorInv /\ LeaseViews /\ EventInv /\ [Next]_vars
  BY StepIsStore DEF WorkInv, CoordinatorInv, WorkersOK
<1>1. ASSUME NEW u \in Workers, Committed(u),
             worker'[u].run = worker[u].run, worker'[u].token = worker[u].token
      PROVE  Committed(u)'
  <2>1. Run(u) \in Runs /\ Run(u)' = Run(u) /\ Token(u)' = Token(u)
    BY <1>0, <1>1 DEF Run, Token, WorkerTypeOK, WorkerRecord
  <2>2. Written(u) \subseteq Written(u)'
    BY <1>0, <2>1, EventsGrow DEF Written
  <2>3. QED
    BY <1>1, <2>2 DEF Committed
<1>2. CASE TellsNone
  BY <1>1, <1>2 DEF TellsNone, NoneIsFenced
<1>3. ASSUME NEW w \in Workers, FindsLeaseGone(w)
      PROVE  NoneIsFenced'
  <2>1. /\ worker'[w].run = worker[w].run /\ worker'[w].token = worker[w].token
        /\ \A u \in Workers \ {w} : worker'[u] = worker[u]
    BY <1>0, <1>3 DEF FindsLeaseGone, CoreLosesLease, FlushLost, CommitRefused, FinishRefused,
                      SuspendRefused, Leaves, WorkerTypeOK, WorkerRecord
  <2>2. Told(worker'[w]) => Committed(w)
    BY <1>0, <1>3, GoneIsCommitted
  <2>3. ASSUME NEW u \in Workers, Told(worker'[u])
        PROVE  Committed(u)'
    <3>1. Committed(u) /\ worker'[u].run = worker[u].run /\ worker'[u].token = worker[u].token
      BY <2>1, <2>2, <2>3 DEF NoneIsFenced
    <3>2. QED
      BY <1>1, <3>1
  <2>4. QED
    BY <2>3 DEF NoneIsFenced
<1>4. QED
  BY <1>0, <1>2, <1>3, MostTellNone

\* As long as no worker lets its lease run out, a worker finds it gone only
\* when its own commit gave it back (heartbeat, _renew_lease).
THEOREM RenewingIsEnough ==
  ASSUME Timely
  PROVE  CoordinatorSpec => []RenewedWorkerIsNotFenced
<1> DEFINE Fence == WorkInv /\ TermIsPositive /\ Renewed /\ NoneIsFenced
<1>1. CoordinatorInit => TermIsPositive /\ Renewed /\ NoneIsFenced
  <2> SUFFICES ASSUME CoordinatorInit
               PROVE  TermIsPositive /\ Renewed /\ NoneIsFenced
    OBVIOUS
  <2>1. lease.token = 0 /\ \A u \in Workers : worker[u].pc = "idle"
    BY DEF CoordinatorInit, Init, NoLease
  <2>2. QED
    BY <2>1 DEF TermIsPositive, Renewed, NoneIsFenced, Told, AtWork
<1>2. Fence /\ [CoordinatorNext]_coordinatorVars =>
        TermIsPositive' /\ Renewed' /\ NoneIsFenced'
  BY StepIsStore, TermNext, RenewedNext, NoneFencedNext DEF WorkInv, CoordinatorInv
<1>3. Fence => RenewedWorkerIsNotFenced
  BY DEF NoneIsFenced, Told, RenewedWorkerIsNotFenced
<1>4. QED
  BY <1>1, <1>2, <1>3, WorkInvHolds, PTL DEF CoordinatorSpec
=============================================================================
