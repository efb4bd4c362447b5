-------------------------- MODULE RunCoordinatorSafety --------------------------
(***************************************************************************)
(* What holds of workers for every value of the constants: a worker's own  *)
(* copy of its lease is never too optimistic, turns are numbered without a *)
(* gap, and a worker that ends without an error has seen its run end.      *)
(***************************************************************************)
EXTENDS RunCoordinatorProofs, FiniteSetTheorems

-----------------------------------------------------------------------------
(* What a step leaves in a worker's memory. *)

\* Whoever is at work after the step was so before it, with the same run, turn
\* and lease.
Remembers ==
  \A u \in Workers :
    worker'[u].pc \in AtWork =>
      /\ worker[u].pc \in AtWork
      /\ worker'[u].run = worker[u].run
      /\ worker'[u].turn = worker[u].turn
      /\ worker'[u].token = worker[u].token
      /\ worker'[u].view = worker[u].view

LEMMA LeaveRemembers ==
  ASSUME WorkerTypeOK, NEW w \in Workers, NEW pc \in Over, Leaves(w, pc)
  PROVE  Remembers
BY DEF Leaves, Remembers, WorkerTypeOK, WorkerRecord, Over, AtWork

LEMMA StopRemembers ==
  ASSUME WorkerTypeOK, NEW w \in Workers, NEW goal, StopOwner(w, goal)
  PROVE  Remembers
<1>1. CASE Leaves(w, "abandoned")
  BY <1>1, LeaveRemembers DEF Over
<1>2. CASE /\ worker[w].pc \in AtWork
           /\ worker' = [worker EXCEPT ![w].pc = "ending", ![w].goal = goal, ![w].shield = TRUE,
                           ![w].writer = FALSE, ![w].beats = FALSE, ![w].queue = 0]
  BY <1>2 DEF Remembers, WorkerTypeOK, WorkerRecord, AtWork
<1>3. CASE worker' = [worker EXCEPT ![w].writer = FALSE, ![w].beats = FALSE, ![w].queue = 0]
  BY <1>3 DEF Remembers, WorkerTypeOK, WorkerRecord, AtWork
<1>4. QED
  BY <1>1, <1>2, <1>3 DEF StopOwner, AtWork

LEMMA QuietRemembers ==
  ASSUME WorkerTypeOK, NEW w \in Workers,
         \/ ReadTurns(w) \/ BeginRefused(w) \/ ReadEvents(w) \/ StartCore(w) \/ StartFails(w)
         \/ CoreStep(w) \/ WriterStep(w) \/ CloseStep(w) \/ EndingStep(w) \/ OutsideStep(w)
         \/ RenewLost(w) \/ SeeCancel(w)
  PROVE  Remembers
<1>1. CASE ReadTurns(w)
  <2>1. PICK n \in 1..MaxTurn : worker' = [worker EXCEPT ![w].pc = "ready", ![w].turn = n]
    BY <1>1 DEF ReadTurns
  <2>2. QED
    BY <2>1 DEF Remembers, WorkerTypeOK, WorkerRecord, AtWork
<1>2. CASE BeginRefused(w) \/ StartFails(w)
  BY <1>2, LeaveRemembers DEF BeginRefused, StartFails, Over
<1>3. CASE ReadEvents(w)
  <2>1. ASSUME NEW n, StartWriting(w, n), worker[w].pc = "begun"
        PROVE  Remembers
    BY <2>1 DEF StartWriting, Remembers, WorkerTypeOK, WorkerRecord, AtWork
  <2>2. QED
    BY <1>3, <2>1 DEF ReadEvents
<1>4. CASE StartCore(w)
  BY <1>4 DEF StartCore, Remembers, WorkerTypeOK, WorkerRecord, AtWork
<1>5. CASE CoreStep(w)
  <2>1. CASE Emit(w)
    BY <2>1 DEF Emit, Remembers, WorkerTypeOK, WorkerRecord, AtWork
  <2>2. CASE CoreLosesLease(w)
    BY <2>2, LeaveRemembers DEF CoreLosesLease, Over
  <2>3. ASSUME NEW goal, FinishCore(w, goal)
        PROVE  Remembers
    BY <2>3 DEF FinishCore, Remembers, WorkerTypeOK, WorkerRecord, AtWork
  <2>4. QED
    BY <1>5, <2>1, <2>2, <2>3 DEF CoreStep
<1>6. CASE WriterStep(w)
  <2>1. CASE Take(w)
    <3> DEFINE n == IF worker[w].queue < Batch THEN worker[w].queue ELSE Batch
               new(p) == {[seq |-> s, body |-> p] :
                            s \in worker[w].next .. worker[w].next + n - 1}
    <3>1. PICK p \in Payloads :
            worker' = [worker EXCEPT ![w].buffer = new(p), ![w].next = worker[w].next + n,
                                     ![w].queue = @ - n]
      BY <2>1 DEF Take
    <3> HIDE DEF n, new
    <3>2. QED
      BY <3>1 DEF Remembers, WorkerTypeOK, WorkerRecord, AtWork
  <2>2. CASE Flush(w)
    BY <2>2 DEF Flush, Remembers, WorkerTypeOK, WorkerRecord, AtWork
  <2>3. CASE FlushLost(w)
    <3>1. CASE Leaves(w, "lost")
      BY <3>1, LeaveRemembers DEF Over
    <3>2. CASE worker' = [worker EXCEPT ![w].writer = FALSE]
      BY <3>2 DEF Remembers, WorkerTypeOK, WorkerRecord, AtWork
    <3>3. QED
      BY <2>3, <3>1, <3>2 DEF FlushLost
  <2>4. QED
    BY <1>6, <2>1, <2>2, <2>3 DEF WriterStep
<1>7. CASE CloseStep(w)
  <2>1. CASE CloseHeartbeat(w)
    BY <2>1 DEF CloseHeartbeat, Remembers, WorkerTypeOK, WorkerRecord, AtWork
  <2>2. CASE CloseWriter(w)
    BY <2>2 DEF CloseWriter, Remembers, WorkerTypeOK, WorkerRecord, AtWork
  <2>3. QED
    BY <1>7, <2>1, <2>2 DEF CloseStep
<1>8. CASE EndingStep(w)
  <2>1. CASE \E pc \in Over : Leaves(w, pc)
    BY <2>1, LeaveRemembers
  <2>2. CASE worker' = [worker EXCEPT ![w].goal = "fail", ![w].next = @ + 1]
    BY <2>2 DEF Remembers, WorkerTypeOK, WorkerRecord, AtWork
  <2>3. QED
    BY <1>8, <2>1, <2>2
       DEF EndingStep, Commit, CommitRefused, Finish, FinishRefused, Suspend, SuspendRefused, Over
<1>9. CASE OutsideStep(w)
  <2>1. CASE TaskFails(w) \/ \E goal : FlushUnseen(w, goal)
    BY <2>1, StopRemembers DEF TaskFails, FlushUnseen
  <2>2. CASE Crash(w)
    BY <2>2, LeaveRemembers DEF Crash, Over
  <2>3. ASSUME NEW goal, CancelTask(w, goal)
        PROVE  Remembers
    <3>1. CASE StopOwner(w, goal)
      BY <3>1, StopRemembers
    <3>2. CASE /\ worker[w].pc \in AtWork
               /\ worker' = [worker EXCEPT ![w].pc = "closing", ![w].goal = goal,
                                           ![w].shield = TRUE]
      BY <3>2 DEF Remembers, WorkerTypeOK, WorkerRecord, AtWork
    <3>3. QED
      BY <2>3, <3>1, <3>2 DEF CancelTask, AtWork
  <2>4. ASSUME NEW goal, CommitUnseen(w, goal)
        PROVE  Remembers
    BY <2>4 DEF CommitUnseen, Remembers, WorkerTypeOK, WorkerRecord, AtWork
  <2>5. QED
    BY <1>9, <2>1, <2>2, <2>3, <2>4 DEF OutsideStep
<1>10. CASE RenewLost(w) \/ SeeCancel(w)
  BY <1>10, StopRemembers DEF RenewLost, SeeCancel
<1>11. QED
  BY <1>1, <1>2, <1>3, <1>4, <1>5, <1>6, <1>7, <1>8, <1>9, <1>10

-----------------------------------------------------------------------------
(* The worker's copy of its lease. *)

\* The events of a run are never taken back.
LEMMA EventsGrow ==
  ASSUME TypeOK, [Next]_vars
  PROVE  \A r \in Runs : events[r] \subseteq events'[r]
<1>0. events \in [Runs -> SUBSET Event]
  BY DEF TypeOK
<1>1. CASE UNCHANGED events
  BY <1>1
<1>2. ASSUME NEW r \in Runs, NEW new, events' = [events EXCEPT ![r] = @ \cup new]
      PROVE  \A s \in Runs : events[s] \subseteq events'[s]
  BY <1>0, <1>2
<1>3. CASE EventStep
  BY <1>2, <1>3 DEF EventStep, AppendEvents
<1>4. ASSUME NEW r \in Runs, NEW t, NEW id, NEW n, NEW q, CommitTurn(r, t, id, n, q)
      PROVE  \A s \in Runs : events[s] \subseteq events'[s]
  BY <1>2, <1>4 DEF CommitTurn
<1>5. ASSUME NEW r \in Runs, NEW t, NEW status, NEW q, FinishRun(r, t, status, q)
      PROVE  \A s \in Runs : events[s] \subseteq events'[s]
  BY <1>1, <1>2, <1>5 DEF FinishRun
<1>6. CASE EndStep
  BY <1>1, <1>4, <1>5, <1>6, TornFrame DEF EndStep, TornCommit, TornFinish
<1>7. CASE BeginStep
  BY <1>1, <1>7 DEF BeginStep, BeginRun, BeginRunWithLease
<1>8. QED
  BY <1>1, <1>3, <1>6, <1>7, LeaseFrame, MessageFrame, ToolFrame DEF Next, RequestCancel, vars

\* A lease that bears a worker's token is that worker's.
HoldsOwn(u) == worker[u].pc \in AtWork /\ lease.token = Token(u) => lease.holder = u

LeaseViews ==
  /\ LocalViewIsSafe
  /\ \A u \in Workers : HoldsOwn(u)

LEMMA CommittedStays ==
  ASSUME TypeOK, WorkerTypeOK, [Next]_vars, Remembers, NEW u \in Workers,
         worker'[u].pc \in AtWork, Committed(u)
  PROVE  Committed(u)'
<1>1. Run(u) \in Runs /\ Run(u)' = Run(u) /\ Token(u)' = Token(u)
  BY DEF Run, Token, Remembers, WorkerTypeOK, WorkerRecord
<1>2. Written(u) \subseteq Written(u)'
  BY <1>1, EventsGrow DEF Written
<1>3. QED
  BY <1>2 DEF Committed

\* The lease stays as it is, or an expired one is prolonged.
LEMMA ViewsRemembered ==
  ASSUME TypeOK, WorkerTypeOK, LeaseViews, [Next]_vars, Remembers,
         \/ lease' = lease
         \/ lease.left = 0 /\ lease'.token = lease.token /\ lease'.holder = lease.holder
  PROVE  LeaseViews'
<1>1. ASSUME NEW u \in Workers, worker'[u].pc \in AtWork
      PROVE  /\ worker[u].pc \in AtWork /\ Token(u)' = Token(u)
             /\ worker'[u].view = worker[u].view /\ worker[u].view \in Nat
             /\ ~Committed(u)' => ~Committed(u)
  BY <1>1, CommittedStays DEF Remembers, Token, WorkerTypeOK, WorkerRecord
<1>2. lease.left \in Nat
  BY DEF TypeOK
<1>3. ASSUME NEW u \in Workers, worker'[u].pc \in AtWork, worker'[u].view > 0, ~Committed(u)'
      PROVE  lease'.token = Token(u)' /\ worker'[u].view <= lease'.left
  <2>1. lease.token = Token(u) /\ worker[u].view <= lease.left /\ worker[u].view > 0
    BY <1>1, <1>3 DEF LeaseViews, LocalViewIsSafe
  <2>2. lease' = lease
    BY <1>1, <1>2, <1>3, <2>1
  <2>3. QED
    BY <1>1, <1>3, <2>1, <2>2
<1>4. ASSUME NEW u \in Workers
      PROVE  HoldsOwn(u)'
  BY <1>1 DEF LeaseViews, HoldsOwn
<1>5. QED
  BY <1>3, <1>4 DEF LeaseViews, LocalViewIsSafe

\* Two workers at work do not share a lease.
LEMMA OneHolder ==
  ASSUME LeaseViews, NEW u \in Workers, NEW w \in Workers,
         worker[u].pc \in AtWork, worker[w].pc \in AtWork,
         lease.token = Token(u), lease.token = Token(w)
  PROVE  u = w
BY DEF LeaseViews, HoldsOwn

\* A worker gives its lease back and ends, or has committed.
LEMMA ViewsGivenBack ==
  ASSUME TypeOK, WorkersOK, LeaseViews, [Next]_vars, Remembers, NEW w \in Workers,
         worker[w].pc \in AtWork, lease.token = Token(w), lease' = NoLease,
         worker'[w].pc \notin AtWork \/ Committed(w)'
  PROVE  LeaseViews'
<1>0. WorkerTypeOK
  BY DEF WorkersOK
<1>1. ASSUME NEW u \in Workers, worker'[u].pc \in AtWork
      PROVE  /\ worker[u].pc \in AtWork /\ Token(u)' = Token(u) /\ Token(u) # 0
             /\ worker'[u].view = worker[u].view
             /\ ~Committed(u)' => ~Committed(u)
  <2>1. worker[u].pc \in AtWork
    BY <1>1 DEF Remembers
  <2>2. Token(u) \in 1..leaseCounter
    BY <2>1 DEF WorkersOK, Sound, Token
  <2>3. QED
    BY <1>0, <1>1, <2>2, CommittedStays DEF Remembers, Token
<1>2. ASSUME NEW u \in Workers, worker'[u].pc \in AtWork, worker'[u].view > 0, ~Committed(u)'
      PROVE  FALSE
  <2>1. lease.token = Token(u)
    BY <1>1, <1>2 DEF LeaseViews, LocalViewIsSafe
  <2>2. u = w
    BY <1>1, <1>2, <2>1, OneHolder
  <2>3. QED
    BY <1>2, <2>2
<1>3. ASSUME NEW u \in Workers
      PROVE  HoldsOwn(u)'
  BY <1>1 DEF HoldsOwn, NoLease
<1>4. QED
  BY <1>2, <1>3 DEF LeaseViews, LocalViewIsSafe

\* Only w's memory changes, and the lease w has or takes is no other worker's.
LEMMA ViewsMine ==
  ASSUME TypeOK, WorkersOK, WorkersOK', LeaseViews, [Next]_vars, NEW w \in Workers,
         \A u \in Workers \ {w} : worker'[u] = worker[u],
         \A u \in Workers \ {w} :
           worker[u].pc \in AtWork /\ lease.token = Token(u) =>
             lease.left = 0 /\ lease'.token # Token(u),
         \A u \in Workers \ {w} :
           worker[u].pc \in AtWork /\ lease.token # Token(u) => lease'.token # Token(u),
         lease.left \in Nat,
         lease'.token = Token(w)', lease'.holder = w, worker'[w].view <= lease'.left
  PROVE  LeaseViews'
<1>0. WorkerTypeOK
  BY DEF WorkersOK
<1>1. ASSUME NEW u \in Workers, u # w, worker'[u].pc \in AtWork
      PROVE  /\ Token(u)' = Token(u) /\ worker'[u] = worker[u] /\ lease'.token # Token(u)
             /\ Committed(u) => Committed(u)'
  <2>1. worker'[u] = worker[u] /\ Run(u) \in Runs
    BY <1>0, <1>1 DEF Run, WorkerTypeOK, WorkerRecord
  <2>2. Committed(u) => Committed(u)'
    BY <2>1, EventsGrow DEF Committed, Written, Run, Token
  <2>3. QED
    BY <1>1, <2>1, <2>2 DEF Token
<1>2. ASSUME NEW u \in Workers, worker'[u].pc \in AtWork, worker'[u].view > 0, ~Committed(u)'
      PROVE  lease'.token = Token(u)' /\ worker'[u].view <= lease'.left
  <2>1. CASE u = w
    BY <2>1
  <2>2. CASE u # w
    <3>1. /\ worker[u].pc \in AtWork /\ worker[u].view > 0 /\ ~Committed(u)
      BY <1>1, <1>2, <2>2
    <3>2. lease.token = Token(u) /\ worker[u].view <= lease.left
      BY <3>1 DEF LeaseViews, LocalViewIsSafe
    <3>3. lease.left = 0 /\ worker[u].view \in Nat
      BY <1>0, <2>2, <3>1, <3>2 DEF WorkerTypeOK, WorkerRecord
    <3>4. QED
      BY <3>1, <3>2, <3>3
  <2>3. QED
    BY <2>1, <2>2
<1>3. ASSUME NEW u \in Workers
      PROVE  HoldsOwn(u)'
  BY <1>1 DEF HoldsOwn
<1>4. QED
  BY <1>2, <1>3 DEF LeaseViews, LocalViewIsSafe

\* What a grant gives: the holder's own lease again, or the next token.
LEMMA GrantGives ==
  ASSUME TypeOK, NEW h, GrantLease(h)
  PROVE  /\ lease'.holder = h /\ lease'.left = LeaseSeconds
         /\ \/ Live /\ lease.holder = h /\ lease'.token = lease.token
            \/ ~Live /\ lease'.token = leaseCounter + 1
<1>0. lease \in LeaseType
  BY DEF TypeOK, LeaseType
<1>1. CASE /\ Live /\ lease.holder = h
           /\ lease' = [lease EXCEPT !.left = LeaseSeconds, !.term = LeaseSeconds]
  <2>1. lease'.holder = lease.holder /\ lease'.left = LeaseSeconds /\ lease'.token = lease.token
    BY <1>0, <1>1 DEF LeaseType
  <2>2. QED
    BY <1>1, <2>1
<1>2. CASE /\ ~Live
           /\ lease' = [token |-> leaseCounter + 1, holder |-> h,
                        left |-> LeaseSeconds, term |-> LeaseSeconds]
  BY <1>2
<1>3. QED
  BY <1>1, <1>2 DEF GrantLease

LEMMA ViewsBegin ==
  ASSUME TypeOK, LeaseIsNewest, WorkersOK, WorkersOK', LeaseViews, NEW w \in Workers, Begin(w)
  PROVE  LeaseViews'
<1>0. [Next]_vars /\ leaseCounter \in Nat /\ GrantLease(w)
  <2>1. Next
    BY BeginIsStore
  <2>2. GrantLease(w)
    BY DEF Begin, BeginRunWithLease
  <2>3. leaseCounter \in Nat
    BY NatBounds DEF TypeOK
  <2>4. QED
    BY <2>1, <2>2, <2>3
<1>1. /\ \A u \in Workers \ {w} : worker'[u] = worker[u]
      /\ Token(w)' = lease'.token /\ worker'[w].view = lease'.left
  BY DEF Begin, Token, WorkersOK, WorkerTypeOK, WorkerRecord
<1>2. lease'.left \in Nat /\ lease'.holder = w
  BY <1>0, GrantGives, NatBounds
<1>3. lease.left \in Nat
  BY DEF TypeOK
<1>4. ASSUME NEW u \in Workers \ {w}, worker[u].pc \in AtWork
      PROVE  /\ lease.token = Token(u) => lease.left = 0
             /\ lease'.token # Token(u)
  <2>1. Token(u) \in 1..leaseCounter
    BY <1>4 DEF WorkersOK, Sound, Token
  <2>2. CASE Live /\ lease.holder = w /\ lease'.token = lease.token
    BY <1>4, <2>2 DEF LeaseViews, HoldsOwn
  <2>3. CASE ~Live /\ lease'.token = leaseCounter + 1
    BY <1>0, <1>3, <2>1, <2>3 DEF Live
  <2>4. QED
    BY <1>0, <2>2, <2>3, GrantGives
<1>5. QED
  BY <1>0, <1>1, <1>2, <1>3, <1>4, ViewsMine

LEMMA ViewsRenew ==
  ASSUME TypeOK, WorkersOK, WorkersOK', LeaseViews, NEW w \in Workers, Renew(w)
  PROVE  LeaseViews'
<1>1. worker[w].pc \in AtWork /\ lease.token = Token(w) /\ lease.holder = w
  <2>1. worker[w].pc \in AtWork
    BY DEF WorkersOK, WorkerTypeOK, WorkerRecord, Sound, Writing, Renew
  <2>2. QED
    BY <2>1 DEF Renew, RenewLease, MatchedLease, LeaseViews, HoldsOwn
<1>2. lease'.token = lease.token /\ lease'.holder = lease.holder
  BY DEF Renew, RenewLease, Extended, TypeOK
<1>3. /\ \A u \in Workers \ {w} : worker'[u] = worker[u]
      /\ Token(w)' = Token(w) /\ worker'[w].view = lease'.left
  BY DEF Renew, Token, WorkersOK, WorkerTypeOK, WorkerRecord
<1>4. lease'.left \in Nat
  BY ExtendedType DEF Renew, RenewLease, LeaseType
<1>5. [Next]_vars /\ lease.left \in Nat
  BY RenewIsStore DEF TypeOK
<1>6. \A u \in Workers \ {w} : worker[u].pc \in AtWork => lease.token # Token(u)
  BY <1>1, OneHolder
<1>7. QED
  BY <1>1, <1>2, <1>3, <1>4, <1>5, <1>6, ViewsMine

LEMMA ViewsTime ==
  ASSUME TypeOK, WorkerTypeOK, LeaseViews, TimePasses
  PROVE  LeaseViews'
<1>1. /\ lease.left \in Nat /\ lease.left > 0 /\ lease'.left = lease.left - 1
      /\ lease'.token = lease.token /\ lease'.holder = lease.holder /\ events' = events
  BY DEF TimePasses, Tick, TypeOK
<1>2. ASSUME NEW u \in Workers
      PROVE  /\ worker'[u].pc = worker[u].pc /\ worker'[u].run = worker[u].run
             /\ worker'[u].token = worker[u].token
             /\ worker'[u].view = IF worker[u].view > 0 THEN worker[u].view - 1 ELSE 0
             /\ worker[u].view \in Nat
  <2>1. worker[u] \in WorkerRecord
    BY DEF WorkerTypeOK
  <2>2. worker'[u] = [worker[u] EXCEPT !.view = IF @ > 0 THEN @ - 1 ELSE 0]
    BY DEF TimePasses
  <2>3. QED
    BY <2>1, <2>2 DEF WorkerRecord
<1>3. ASSUME NEW u \in Workers, worker'[u].pc \in AtWork, worker'[u].view > 0, ~Committed(u)'
      PROVE  lease'.token = Token(u)' /\ worker'[u].view <= lease'.left
  <2>1. worker[u].pc \in AtWork /\ worker[u].view > 0 /\ ~Committed(u)
    BY <1>1, <1>2, <1>3 DEF Committed, Written, Run, Token
  <2>2. lease.token = Token(u) /\ worker[u].view <= lease.left
    BY <2>1 DEF LeaseViews, LocalViewIsSafe
  <2>3. QED
    BY <1>1, <1>2, <2>1, <2>2 DEF Token
<1>4. ASSUME NEW u \in Workers
      PROVE  HoldsOwn(u)'
  BY <1>1, <1>2 DEF LeaseViews, HoldsOwn, Token
<1>5. QED
  BY <1>3, <1>4 DEF LeaseViews, LocalViewIsSafe

\* A flush leaves the lease, or prolongs an expired one.
LEMMA FlushLease ==
  ASSUME TypeOK, NEW r, NEW t, NEW batch, AppendEvents(r, t, batch)
  PROVE  \/ lease' = lease
         \/ lease.left = 0 /\ lease'.token = lease.token /\ lease'.holder = lease.holder
<1>1. CASE lease.left > 0
  BY <1>1 DEF AppendEvents
<1>2. CASE ~(lease.left > 0)
  <2>1. lease.left = 0 /\ lease \in LeaseType
    BY <1>2 DEF TypeOK, LeaseType
  <2>2. lease' = Extended(lease)
    BY <1>2 DEF AppendEvents
  <2>3. QED
    BY <2>1, <2>2 DEF Extended, LeaseType
<1>3. QED
  BY <1>1, <1>2

LEMMA CommitIsCommitted ==
  ASSUME TypeOK, WorkersOK, NEW w \in Workers, NEW goal, CommitUnseen(w, goal)
  PROVE  Committed(w)'
<1> DEFINE done == [seq |-> worker[w].next, body |-> "done", token |-> Token(w)]
<1>1. Run(w) \in Runs
  BY DEF Run, WorkersOK, WorkerTypeOK, WorkerRecord
<1>2. Run(w)' = Run(w) /\ Token(w)' = Token(w)
  BY DEF CommitUnseen, Run, Token, WorkersOK, WorkerTypeOK, WorkerRecord
<1>3. events' = [events EXCEPT ![Run(w)] = @ \cup {done}]
  BY DEF CommitUnseen, CommitTurn
<1>4. events'[Run(w)] = events[Run(w)] \cup {done}
  BY <1>1, <1>3 DEF TypeOK
<1>5. done.body = "done" /\ done.token = Token(w)
  OBVIOUS
<1> HIDE DEF done
<1>6. QED
  BY <1>2, <1>4, <1>5 DEF Committed, Written

LEMMA GivenBack ==
  ASSUME TypeOK, WorkersOK, NEW w \in Workers,
         Commit(w) \/ Finish(w) \/ Suspend(w) \/ \E goal : CommitUnseen(w, goal)
  PROVE  worker[w].pc \in AtWork /\ lease.token = Token(w) /\ lease' = NoLease
<1>1. worker[w].pc \in AtWork
  BY DEF Commit, Finish, Suspend, CommitUnseen, Ending, AtWork
<1>2. CASE Commit(w) \/ \E goal : CommitUnseen(w, goal)
  BY <1>1, <1>2 DEF Commit, CommitUnseen, CommitTurn, MayCommit, ValidLease
<1>3. CASE Finish(w)
  BY <1>1, <1>3 DEF Finish, FinishRun, MayFinish, ValidLease
<1>4. CASE Suspend(w)
  BY <1>1, <1>4 DEF Suspend, ReleaseLease, ValidLease
<1>5. QED
  BY <1>2, <1>3, <1>4

LEMMA ViewsNext ==
  ASSUME CoordinatorInv, CoordinatorInv', LeaseViews, [CoordinatorNext]_coordinatorVars
  PROVE  LeaseViews'
<1>0. TypeOK /\ LeaseIsNewest /\ WorkersOK /\ WorkersOK' /\ WorkerTypeOK /\ [Next]_vars
  BY StepIsStore DEF CoordinatorInv, WorkersOK
<1>1. CASE lease' = lease /\ Remembers
  BY <1>0, <1>1, ViewsRemembered
<1>2. ASSUME NEW w \in Workers, BeginningStep(w)
      PROVE  LeaseViews'
  <2>1. CASE Begin(w)
    BY <1>0, <2>1, ViewsBegin
  <2>2. CASE ReadTurns(w) \/ BeginRefused(w) \/ ReadEvents(w) \/ StartCore(w) \/ StartFails(w)
    <3>1. lease' = lease
      BY <2>2 DEF ReadTurns, BeginRefused, ReadEvents, StartCore, StartFails, vars, leaseVars
    <3>2. QED
      BY <1>0, <1>1, <2>2, <3>1, QuietRemembers
  <2>3. QED
    BY <1>2, <2>1, <2>2 DEF BeginningStep
<1>3. ASSUME NEW w \in Workers, CoreStep(w) \/ CloseStep(w)
      PROVE  LeaseViews'
  <2>1. lease' = lease
    BY <1>3 DEF CoreStep, Emit, CoreLosesLease, FinishCore, CloseStep, CloseHeartbeat,
                CloseWriter, vars, leaseVars
  <2>2. QED
    BY <1>0, <1>1, <1>3, <2>1, QuietRemembers
<1>4. ASSUME NEW w \in Workers, WriterStep(w)
      PROVE  LeaseViews'
  <2>1. \/ lease' = lease
        \/ lease.left = 0 /\ lease'.token = lease.token /\ lease'.holder = lease.holder
    <3>1. CASE Take(w) \/ FlushLost(w)
      BY <3>1 DEF Take, FlushLost, vars, leaseVars
    <3>2. CASE Flush(w)
      BY <1>0, <3>2, FlushLease DEF Flush
    <3>3. QED
      BY <1>4, <3>1, <3>2 DEF WriterStep
  <2>2. QED
    BY <1>0, <1>4, <2>1, QuietRemembers, ViewsRemembered
<1>5. ASSUME NEW w \in Workers, HeartbeatStep(w)
      PROVE  LeaseViews'
  <2>1. CASE Renew(w)
    BY <1>0, <2>1, ViewsRenew
  <2>2. CASE RenewLost(w) \/ SeeCancel(w)
    <3>1. lease' = lease
      BY <2>2 DEF RenewLost, SeeCancel, vars, leaseVars
    <3>2. QED
      BY <1>0, <1>1, <2>2, <3>1, QuietRemembers
  <2>3. QED
    BY <1>5, <2>1, <2>2 DEF HeartbeatStep
<1>6. ASSUME NEW w \in Workers, EndingStep(w)
      PROVE  LeaseViews'
  <2>1. Remembers
    BY <1>0, <1>6, QuietRemembers
  <2>2. CASE Commit(w) \/ Finish(w) \/ Suspend(w)
    <3>1. worker'[w].pc \notin AtWork
      BY <1>0, <2>2 DEF Commit, Finish, Suspend, Leaves, WorkerTypeOK, WorkerRecord, AtWork
    <3>2. worker[w].pc \in AtWork /\ lease.token = Token(w) /\ lease' = NoLease
      BY <1>0, <2>2, GivenBack
    <3>3. QED
      BY <1>0, <2>1, <3>1, <3>2, ViewsGivenBack
  <2>3. CASE CommitRefused(w) \/ FinishRefused(w) \/ SuspendRefused(w)
    <3>1. lease' = lease
      BY <2>3 DEF CommitRefused, FinishRefused, SuspendRefused, vars, leaseVars
    <3>2. QED
      BY <1>1, <2>1, <3>1
  <2>4. QED
    BY <1>6, <2>2, <2>3 DEF EndingStep
<1>7. ASSUME NEW w \in Workers, OutsideStep(w)
      PROVE  LeaseViews'
  <2>1. Remembers
    BY <1>0, <1>7, QuietRemembers
  <2>2. CASE TaskFails(w) \/ Crash(w) \/ \E goal : CancelTask(w, goal)
    <3>1. lease' = lease
      BY <2>2 DEF TaskFails, Crash, CancelTask, vars, leaseVars
    <3>2. QED
      BY <1>1, <2>1, <3>1
  <2>3. ASSUME NEW goal, FlushUnseen(w, goal)
        PROVE  LeaseViews'
    <3>1. \/ lease' = lease
          \/ lease.left = 0 /\ lease'.token = lease.token /\ lease'.holder = lease.holder
      BY <1>0, <2>3, FlushLease DEF FlushUnseen
    <3>2. QED
      BY <1>0, <2>1, <3>1, ViewsRemembered
  <2>4. ASSUME NEW goal, CommitUnseen(w, goal)
        PROVE  LeaseViews'
    <3>1. Committed(w)'
      BY <1>0, <2>4, CommitIsCommitted
    <3>2. worker[w].pc \in AtWork /\ lease.token = Token(w) /\ lease' = NoLease
      BY <1>0, <2>4, GivenBack
    <3>3. QED
      BY <1>0, <2>1, <3>1, <3>2, ViewsGivenBack
  <2>5. QED
    BY <1>7, <2>2, <2>3, <2>4 DEF OutsideStep
<1>8. CASE TimePasses
  BY <1>0, <1>8, ViewsTime
<1>9. CASE UNCHANGED worker /\ lease' = lease
  BY <1>1, <1>9 DEF Remembers
<1>10. ASSUME NEW r \in Runs, ClientCancels(r)
       PROVE  LeaseViews'
  BY <1>9, <1>10 DEF ClientCancels, RequestCancel, leaseVars
<1>11. CASE UNCHANGED coordinatorVars
  BY <1>9, <1>11 DEF coordinatorVars, vars, leaseVars
<1>12. QED
  BY <1>2, <1>3, <1>4, <1>5, <1>6, <1>7, <1>8, <1>10, <1>11 DEF CoordinatorNext

\* A worker at work never thinks its lease lasts longer than it does: its copy is
\* what the last grant or renewal returned, and only its own commit ends the
\* lease before that copy does (heartbeat, renew_lease, commit_turn).
THEOREM ViewsAreSafe == CoordinatorSpec => []LocalViewIsSafe
<1>1. CoordinatorInit => LeaseViews
  <2>1. CoordinatorInit => \A u \in Workers : worker[u].pc \notin AtWork
    BY DEF CoordinatorInit, AtWork
  <2>2. QED
    BY <2>1 DEF LeaseViews, LocalViewIsSafe, HoldsOwn
<1>2. CoordinatorInv /\ CoordinatorInv' /\ LeaseViews /\ [CoordinatorNext]_coordinatorVars
        => LeaseViews'
  BY ViewsNext
<1>3. LeaseViews => LocalViewIsSafe
  BY DEF LeaseViews
<1>4. QED
  BY <1>1, <1>2, <1>3, CoordinatorInvHolds, PTL DEF CoordinatorSpec

-----------------------------------------------------------------------------
(* Turn numbers, and runs that have ended. *)

\* A worker's run is its own for good, and once it has read its turn number it
\* keeps it until it is over.
KeepsTurn ==
  \A u \in Workers :
    /\ worker'[u].run = worker[u].run
    /\ worker'[u].pc \in {"ready"} \cup AtWork =>
         worker[u].pc \in {"ready"} \cup AtWork /\ worker'[u].turn = worker[u].turn

EndsNone == \A u \in Workers : worker'[u].pc = "ended" => worker[u].pc = "ended"

LEMMA LeaveKeepsTurn ==
  ASSUME WorkerTypeOK, NEW w \in Workers, NEW pc \in Over, Leaves(w, pc)
  PROVE  KeepsTurn /\ (pc # "ended" => EndsNone)
BY DEF Leaves, KeepsTurn, EndsNone, WorkerTypeOK, WorkerRecord, Over, AtWork

LEMMA StopKeepsTurn ==
  ASSUME WorkerTypeOK, NEW w \in Workers, NEW goal, StopOwner(w, goal)
  PROVE  KeepsTurn /\ EndsNone
<1>1. CASE Leaves(w, "abandoned")
  BY <1>1, LeaveKeepsTurn DEF Over
<1>2. CASE /\ worker[w].pc \in AtWork
           /\ worker' = [worker EXCEPT ![w].pc = "ending", ![w].goal = goal, ![w].shield = TRUE,
                           ![w].writer = FALSE, ![w].beats = FALSE, ![w].queue = 0]
  BY <1>2 DEF KeepsTurn, EndsNone, WorkerTypeOK, WorkerRecord, AtWork
<1>3. CASE worker' = [worker EXCEPT ![w].writer = FALSE, ![w].beats = FALSE, ![w].queue = 0]
  BY <1>3 DEF KeepsTurn, EndsNone, WorkerTypeOK, WorkerRecord
<1>4. QED
  BY <1>1, <1>2, <1>3 DEF StopOwner, AtWork

LEMMA MostKeepTurn ==
  ASSUME WorkerTypeOK, [CoordinatorNext]_coordinatorVars,
         \A w \in Workers : ~(ReadTurns(w) \/ Commit(w) \/ Finish(w) \/ FinishRefused(w))
  PROVE  KeepsTurn /\ EndsNone
<1> DEFINE Kept == KeepsTurn /\ EndsNone
<1>1. ASSUME NEW w \in Workers, BeginningStep(w)
      PROVE  Kept
  <2>1. CASE Begin(w)
    BY <2>1 DEF Begin, KeepsTurn, EndsNone, WorkerTypeOK, WorkerRecord, AtWork
  <2>2. CASE BeginRefused(w) \/ StartFails(w)
    BY <2>2, LeaveKeepsTurn DEF BeginRefused, StartFails, Over
  <2>3. CASE ReadEvents(w)
    <3>1. ASSUME NEW n, StartWriting(w, n), worker[w].pc = "begun"
          PROVE  Kept
      BY <3>1 DEF StartWriting, KeepsTurn, EndsNone, WorkerTypeOK, WorkerRecord, AtWork
    <3>2. QED
      BY <2>3, <3>1 DEF ReadEvents
  <2>4. CASE StartCore(w)
    BY <2>4 DEF StartCore, KeepsTurn, EndsNone, WorkerTypeOK, WorkerRecord, AtWork
  <2>5. QED
    BY <1>1, <2>1, <2>2, <2>3, <2>4 DEF BeginningStep
<1>2. ASSUME NEW w \in Workers, CoreStep(w)
      PROVE  Kept
  <2>1. CASE Emit(w)
    BY <2>1 DEF Emit, KeepsTurn, EndsNone, WorkerTypeOK, WorkerRecord
  <2>2. CASE CoreLosesLease(w)
    BY <2>2, LeaveKeepsTurn DEF CoreLosesLease, Over
  <2>3. ASSUME NEW goal, FinishCore(w, goal)
        PROVE  Kept
    BY <2>3 DEF FinishCore, KeepsTurn, EndsNone, WorkerTypeOK, WorkerRecord, AtWork
  <2>4. QED
    BY <1>2, <2>1, <2>2, <2>3 DEF CoreStep
<1>3. ASSUME NEW w \in Workers, WriterStep(w)
      PROVE  Kept
  <2>1. CASE Take(w)
    <3> DEFINE n == IF worker[w].queue < Batch THEN worker[w].queue ELSE Batch
               new(p) == {[seq |-> s, body |-> p] :
                            s \in worker[w].next .. worker[w].next + n - 1}
    <3>1. PICK p \in Payloads :
            worker' = [worker EXCEPT ![w].buffer = new(p), ![w].next = worker[w].next + n,
                                     ![w].queue = @ - n]
      BY <2>1 DEF Take
    <3> HIDE DEF n, new
    <3>2. QED
      BY <3>1 DEF KeepsTurn, EndsNone, WorkerTypeOK, WorkerRecord
  <2>2. CASE Flush(w)
    BY <2>2 DEF Flush, KeepsTurn, EndsNone, WorkerTypeOK, WorkerRecord
  <2>3. CASE FlushLost(w)
    <3>1. CASE Leaves(w, "lost")
      BY <3>1, LeaveKeepsTurn DEF Over
    <3>2. CASE worker' = [worker EXCEPT ![w].writer = FALSE]
      BY <3>2 DEF KeepsTurn, EndsNone, WorkerTypeOK, WorkerRecord
    <3>3. QED
      BY <2>3, <3>1, <3>2 DEF FlushLost
  <2>4. QED
    BY <1>3, <2>1, <2>2, <2>3 DEF WriterStep
<1>4. ASSUME NEW w \in Workers, HeartbeatStep(w)
      PROVE  Kept
  <2>1. CASE Renew(w)
    BY <2>1 DEF Renew, KeepsTurn, EndsNone, WorkerTypeOK, WorkerRecord
  <2>2. CASE RenewLost(w) \/ SeeCancel(w)
    BY <2>2, StopKeepsTurn DEF RenewLost, SeeCancel
  <2>3. QED
    BY <1>4, <2>1, <2>2 DEF HeartbeatStep
<1>5. ASSUME NEW w \in Workers, CloseStep(w)
      PROVE  Kept
  <2>1. CASE CloseHeartbeat(w)
    BY <2>1 DEF CloseHeartbeat, KeepsTurn, EndsNone, WorkerTypeOK, WorkerRecord
  <2>2. CASE CloseWriter(w)
    BY <2>2 DEF CloseWriter, KeepsTurn, EndsNone, WorkerTypeOK, WorkerRecord, AtWork
  <2>3. QED
    BY <1>5, <2>1, <2>2 DEF CloseStep
<1>6. ASSUME NEW w \in Workers, EndingStep(w)
      PROVE  Kept
  <2>1. CASE \E pc \in Over \ {"ended"} : Leaves(w, pc)
    BY <2>1, LeaveKeepsTurn
  <2>2. CASE worker' = [worker EXCEPT ![w].goal = "fail", ![w].next = @ + 1]
    BY <2>2 DEF KeepsTurn, EndsNone, WorkerTypeOK, WorkerRecord
  <2>3. QED
    BY <1>6, <2>1, <2>2 DEF EndingStep, CommitRefused, Suspend, SuspendRefused, Over
<1>7. ASSUME NEW w \in Workers, OutsideStep(w)
      PROVE  Kept
  <2>1. CASE TaskFails(w) \/ \E goal : FlushUnseen(w, goal)
    BY <2>1, StopKeepsTurn DEF TaskFails, FlushUnseen
  <2>2. CASE Crash(w)
    BY <2>2, LeaveKeepsTurn DEF Crash, Over
  <2>3. ASSUME NEW goal, CancelTask(w, goal)
        PROVE  Kept
    <3>1. CASE StopOwner(w, goal)
      BY <3>1, StopKeepsTurn
    <3>2. CASE /\ worker[w].pc \in AtWork
               /\ worker' = [worker EXCEPT ![w].pc = "closing", ![w].goal = goal,
                                           ![w].shield = TRUE]
      BY <3>2 DEF KeepsTurn, EndsNone, WorkerTypeOK, WorkerRecord, AtWork
    <3>3. QED
      BY <2>3, <3>1, <3>2 DEF CancelTask, AtWork
  <2>4. ASSUME NEW goal, CommitUnseen(w, goal)
        PROVE  Kept
    BY <2>4 DEF CommitUnseen, KeepsTurn, EndsNone, WorkerTypeOK, WorkerRecord
  <2>5. QED
    BY <1>7, <2>1, <2>2, <2>3, <2>4 DEF OutsideStep
<1>8. CASE TimePasses
  <2>1. ASSUME NEW u \in Workers
        PROVE  /\ worker'[u].pc = worker[u].pc /\ worker'[u].run = worker[u].run
               /\ worker'[u].turn = worker[u].turn
    <3>1. worker[u] \in WorkerRecord
      BY DEF WorkerTypeOK
    <3>2. worker'[u] = [worker[u] EXCEPT !.view = IF @ > 0 THEN @ - 1 ELSE 0]
      BY <1>8 DEF TimePasses
    <3>3. QED
      BY <3>1, <3>2 DEF WorkerRecord
  <2>2. QED
    BY <2>1 DEF KeepsTurn, EndsNone
<1>9. CASE UNCHANGED worker
  BY <1>9 DEF KeepsTurn, EndsNone
<1>10. QED
  BY <1>1, <1>2, <1>3, <1>4, <1>5, <1>6, <1>7, <1>8, <1>9
     DEF CoordinatorNext, ClientCancels, coordinatorVars

\* What has ended stays ended.
LEMMA EndedRunsStay ==
  ASSUME TypeOK, [Next]_vars
  PROVE  \A r \in Runs : runs[r].status \in Ended => runs'[r].status \in Ended
BY StatusStep DEF Moves, Ended

LEMMA EndedStays ==
  ASSUME TypeOK, WorkerTypeOK, [Next]_vars, KeepsTurn, EndedWorkerEndedRun,
         NEW u \in Workers, worker[u].pc = "ended"
  PROVE  runs'[Run(u)'].status \in Ended
<1>1. Run(u) \in Runs /\ Run(u)' = Run(u)
  BY DEF KeepsTurn, Run, WorkerTypeOK, WorkerRecord
<1>2. QED
  BY <1>1, EndedRunsStay DEF EndedWorkerEndedRun

\* Only w ends, and its run has ended.
LEMMA EndsWithRun ==
  ASSUME TypeOK, WorkerTypeOK, [Next]_vars, EndedWorkerEndedRun, NEW w \in Workers,
         \E pc \in Over : Leaves(w, pc),
         worker'[w].pc = "ended" => runs'[Run(w)].status \in Ended
  PROVE  EndedWorkerEndedRun'
<1>1. KeepsTurn /\ \A u \in Workers \ {w} : worker'[u] = worker[u]
  BY LeaveKeepsTurn DEF Leaves, WorkerTypeOK
<1>2. ASSUME NEW u \in Workers, worker'[u].pc = "ended"
      PROVE  runs'[Run(u)'].status \in Ended
  <2>1. CASE u = w
    BY <1>1, <1>2, <2>1 DEF KeepsTurn, Run
  <2>2. CASE u # w
    BY <1>1, <1>2, <2>2, EndedStays
  <2>3. QED
    BY <2>1, <2>2
<1>3. QED
  BY <1>2 DEF EndedWorkerEndedRun

LEMMA EndedNext ==
  ASSUME CoordinatorInv, EndedWorkerEndedRun, [CoordinatorNext]_coordinatorVars
  PROVE  EndedWorkerEndedRun'
<1>0. /\ TypeOK /\ WorkerTypeOK /\ [Next]_vars
      /\ runs \in RunsType /\ \A u \in Workers : Run(u) \in Runs
  BY StepIsStore DEF CoordinatorInv, WorkersOK, WorkerTypeOK, WorkerRecord, Run, TypeOK, RunsType
<1>1. ASSUME NEW w \in Workers, Commit(w)
      PROVE  EndedWorkerEndedRun'
  <2>1. runs'[Run(w)].status = "completed"
    BY <1>0, <1>1 DEF Commit, CommitTurn, RunsType
  <2>2. QED
    BY <1>0, <1>1, <2>1, EndsWithRun DEF Commit, Over, Ended
<1>2. ASSUME NEW w \in Workers, Finish(w)
      PROVE  EndedWorkerEndedRun'
  <2>1. runs'[Run(w)].status = StatusOf(worker[w].goal)
    BY <1>0, <1>2 DEF Finish, FinishRun, RunsType
  <2>2. QED
    BY <1>0, <1>2, <2>1, EndsWithRun DEF Finish, StatusOf, Over, Ended
<1>3. ASSUME NEW w \in Workers, FinishRefused(w)
      PROVE  EndedWorkerEndedRun'
  <2>1. runs' = runs
    BY <1>3 DEF FinishRefused, vars
  <2>2. CASE runs[Run(w)].status = StatusOf(worker[w].goal)
    BY <1>0, <1>3, <2>1, <2>2, EndsWithRun DEF FinishRefused, StatusOf, Over, Ended
  <2>3. CASE runs[Run(w)].status # StatusOf(worker[w].goal)
    <3>1. Leaves(w, "lost")
      BY <1>3, <2>3 DEF FinishRefused
    <3>2. worker'[w].pc = "lost"
      BY <1>0, <3>1 DEF Leaves, WorkerTypeOK, WorkerRecord
    <3>3. QED
      BY <1>0, <3>1, <3>2, EndsWithRun DEF Over
  <2>4. QED
    BY <2>2, <2>3
<1>4. ASSUME NEW w \in Workers, ReadTurns(w)
      PROVE  EndedWorkerEndedRun'
  <2>1. runs' = runs
    BY <1>4 DEF ReadTurns, vars
  <2>2. \A u \in Workers : worker'[u].run = worker[u].run
                           /\ (worker'[u].pc = "ended" => worker[u].pc = "ended")
    BY <1>0, <1>4 DEF ReadTurns, WorkerTypeOK, WorkerRecord
  <2>3. QED
    BY <2>1, <2>2 DEF EndedWorkerEndedRun, Run
<1>5. CASE \A w \in Workers : ~(ReadTurns(w) \/ Commit(w) \/ Finish(w) \/ FinishRefused(w))
  <2>1. KeepsTurn /\ EndsNone
    BY <1>0, <1>5, MostKeepTurn
  <2>2. QED
    BY <1>0, <2>1, EndedStays DEF EndsNone, EndedWorkerEndedRun
<1>6. QED
  BY <1>1, <1>2, <1>3, <1>4, <1>5

\* A worker that ends without an error has seen its run end: committed, failed
\* or cancelled by itself, or found with the status it was to give it
\* (RunCoordinator.commit, fail, cancel).
THEOREM EndedWorkers == CoordinatorSpec => []EndedWorkerEndedRun
<1>1. CoordinatorInit => EndedWorkerEndedRun
  BY DEF CoordinatorInit, EndedWorkerEndedRun
<1>2. CoordinatorInv /\ EndedWorkerEndedRun /\ [CoordinatorNext]_coordinatorVars
        => EndedWorkerEndedRun'
  BY EndedNext
<1>3. QED
  BY <1>1, <1>2, CoordinatorInvHolds, PTL DEF CoordinatorSpec

-----------------------------------------------------------------------------
(* Turn numbers. *)

NumbersInv ==
  /\ IsFiniteSet(turns)
  /\ TurnsAreNumbered
  /\ \A u \in Workers :
       worker[u].pc \in {"ready"} \cup AtWork => worker[u].turn <= Cardinality(turns) + 1

\* The turn stored is the next one.
LEMMA TurnIsNext ==
  ASSUME WorkersOK, NumbersInv, NEW w \in Workers, Ending(w, {"commit"}),
         CommitTurn(Run(w), Token(w), Run(w), worker[w].turn, worker[w].next)
  PROVE  /\ IsFiniteSet(turns') /\ TurnsAreNumbered'
         /\ Cardinality(turns') = Cardinality(turns) + 1
<1> DEFINE n == worker[w].turn
           k == Cardinality(turns)
           new == [id |-> Run(w), seq |-> n, run |-> Run(w)]
<1>1. k \in Nat /\ n \in Nat /\ n >= 1 /\ n <= k + 1
  <2>1. k \in Nat
    BY FS_CardinalityType DEF NumbersInv
  <2>2. n \in 1..MaxTurn
    BY EndingArguments
  <2>3. worker[w].pc \in AtWork
    BY DEF Ending, AtWork
  <2>4. n <= k + 1
    BY <2>3 DEF NumbersInv
  <2>5. QED
    BY <2>1, <2>2, <2>4
<1>2. turns' = turns \cup {new} /\ \A u \in turns : u.seq # n
  BY DEF CommitTurn, MayCommit
<1>3. new.seq = n
  OBVIOUS
<1>4. {u.seq : u \in turns} = 1..k
  BY DEF NumbersInv, TurnsAreNumbered
<1>5. n \notin 1..k
  BY <1>2, <1>4
<1>6. n = k + 1
  BY <1>1, <1>5
<1>7. new \notin turns
  BY <1>2, <1>3
<1>8. IsFiniteSet(turns') /\ Cardinality(turns') = k + 1
  BY <1>2, <1>7, FS_AddElement DEF NumbersInv
<1> HIDE DEF new
<1>9. {u.seq : u \in turns'} = {u.seq : u \in turns} \cup {n}
  BY <1>2, <1>3
<1>10. 1..(k + 1) = 1..k \cup {k + 1}
  BY <1>1
<1>11. {u.seq : u \in turns'} = 1..(k + 1)
  BY <1>4, <1>6, <1>9, <1>10
<1>12. QED
  BY <1>8, <1>11 DEF TurnsAreNumbered

\* Nothing else touches the turns.
LEMMA TurnsFrame ==
  ASSUME [CoordinatorNext]_coordinatorVars,
         \A w \in Workers : ~(Commit(w) \/ \E goal : CommitUnseen(w, goal))
  PROVE  turns' = turns
<1>1. ASSUME NEW w \in Workers, BeginningStep(w) \/ CoreStep(w) \/ CloseStep(w)
      PROVE  turns' = turns
  BY <1>1 DEF BeginningStep, ReadTurns, Begin, BeginRunWithLease, BeginRefused, ReadEvents,
              StartCore, StartFails, CoreStep, Emit, CoreLosesLease, FinishCore, CloseStep,
              CloseHeartbeat, CloseWriter, vars
<1>2. ASSUME NEW w \in Workers, WriterStep(w) \/ HeartbeatStep(w)
      PROVE  turns' = turns
  BY <1>2 DEF WriterStep, Take, Flush, AppendEvents, FlushLost, HeartbeatStep, Renew, RenewLease,
              RenewLost, SeeCancel, vars
<1>3. ASSUME NEW w \in Workers, EndingStep(w)
      PROVE  turns' = turns
  BY <1>3 DEF EndingStep, CommitRefused, Finish, FinishRun, FinishRefused, Suspend, ReleaseLease,
              SuspendRefused, vars
<1>4. ASSUME NEW w \in Workers, OutsideStep(w)
      PROVE  turns' = turns
  BY <1>4 DEF OutsideStep, TaskFails, Crash, CancelTask, FlushUnseen, AppendEvents, vars
<1>5. CASE TimePasses \/ \E r \in Runs : ClientCancels(r)
  BY <1>5 DEF TimePasses, Tick, ClientCancels, RequestCancel
<1>6. QED
  BY <1>1, <1>2, <1>3, <1>4, <1>5 DEF CoordinatorNext, coordinatorVars, vars

\* A worker keeps its number; the turns stay or one is added.
LEMMA NumbersKept ==
  ASSUME WorkerTypeOK, NumbersInv, KeepsTurn, IsFiniteSet(turns'), TurnsAreNumbered',
         Cardinality(turns') \in {Cardinality(turns), Cardinality(turns) + 1}
  PROVE  NumbersInv'
<1>1. ASSUME NEW u \in Workers, worker'[u].pc \in {"ready"} \cup AtWork
      PROVE  worker'[u].turn <= Cardinality(turns') + 1
  <2>1. worker[u].turn <= Cardinality(turns) + 1 /\ worker'[u].turn = worker[u].turn
    BY <1>1 DEF KeepsTurn, NumbersInv
  <2>2. Cardinality(turns) \in Nat /\ worker[u].turn \in Int
    BY FS_CardinalityType, NatBounds DEF NumbersInv, WorkerTypeOK, WorkerRecord
  <2>3. QED
    BY <2>1, <2>2
<1>2. QED
  BY <1>1 DEF NumbersInv

LEMMA NumbersRead ==
  ASSUME WorkerTypeOK, NumbersInv, NEW w \in Workers, ReadTurns(w)
  PROVE  NumbersInv'
<1> DEFINE k == Cardinality(turns)
<1>1. turns' = turns /\ k \in Nat /\ {u.seq : u \in turns} = 1..k
  BY FS_CardinalityType DEF ReadTurns, vars, NumbersInv, TurnsAreNumbered
<1>2. PICK n \in 1..MaxTurn : /\ n = 1 \/ \E u \in turns : u.seq = n - 1
                              /\ worker' = [worker EXCEPT ![w].pc = "ready", ![w].turn = n]
  BY DEF ReadTurns
<1>3. n = 1 \/ n - 1 \in 1..k
  BY <1>1, <1>2
<1>4. n <= k + 1
  BY <1>1, <1>3
<1>5. ASSUME NEW u \in Workers, worker'[u].pc \in {"ready"} \cup AtWork
      PROVE  worker'[u].turn <= k + 1
  <2>1. CASE u = w
    BY <1>2, <1>4, <2>1 DEF WorkerTypeOK, WorkerRecord
  <2>2. CASE u # w
    BY <1>2, <1>5, <2>2 DEF NumbersInv, WorkerTypeOK
  <2>3. QED
    BY <2>1, <2>2
<1>6. QED
  BY <1>1, <1>5 DEF NumbersInv, TurnsAreNumbered

LEMMA NumbersNext ==
  ASSUME CoordinatorInv, NumbersInv, [CoordinatorNext]_coordinatorVars
  PROVE  NumbersInv'
<1>0. WorkersOK /\ WorkerTypeOK
  BY DEF CoordinatorInv, WorkersOK
<1>1. ASSUME NEW w \in Workers, ReadTurns(w)
      PROVE  NumbersInv'
  BY <1>0, <1>1, NumbersRead
<1>2. ASSUME NEW w \in Workers, Commit(w)
      PROVE  NumbersInv'
  <2>1. KeepsTurn
    BY <1>0, <1>2, LeaveKeepsTurn DEF Commit, Over
  <2>2. QED
    BY <1>0, <1>2, <2>1, TurnIsNext, NumbersKept DEF Commit
<1>3. ASSUME NEW w \in Workers, NEW goal, CommitUnseen(w, goal)
      PROVE  NumbersInv'
  <2>1. KeepsTurn
    BY <1>0, <1>3 DEF CommitUnseen, KeepsTurn, WorkerTypeOK, WorkerRecord
  <2>2. QED
    BY <1>0, <1>3, <2>1, TurnIsNext, NumbersKept DEF CommitUnseen
<1>4. CASE \A w \in Workers : ~(ReadTurns(w) \/ Commit(w) \/ \E goal : CommitUnseen(w, goal))
  <2>1. turns' = turns
    BY <1>4, TurnsFrame
  <2>2. KeepsTurn
    <3>1. ASSUME NEW w \in Workers, Finish(w) \/ FinishRefused(w)
          PROVE  KeepsTurn
      BY <1>0, <3>1, LeaveKeepsTurn DEF Finish, FinishRefused, Over
    <3>2. QED
      BY <1>0, <1>4, <3>1, MostKeepTurn
  <2>3. QED
    BY <1>0, <2>1, <2>2, NumbersKept DEF NumbersInv, TurnsAreNumbered
<1>5. QED
  BY <1>1, <1>2, <1>3, <1>4

\* The turns of a session are numbered from 1 without a gap, though workers read
\* the next number before they have the lease and may all have read the same
\* one (CanonicalAgentRun.begin, commit_turn).
THEOREM TurnNumbers == CoordinatorSpec => []TurnsAreNumbered
<1>1. CoordinatorInit => NumbersInv
  <2>1. SUFFICES ASSUME CoordinatorInit
                 PROVE  NumbersInv
    OBVIOUS
  <2>2. turns = {} /\ \A u \in Workers : worker[u].pc = "idle"
    BY <2>1 DEF CoordinatorInit, Init
  <2>3. IsFiniteSet(turns) /\ Cardinality(turns) = 0
    BY <2>2, FS_EmptySet
  <2>4. {u.seq : u \in turns} = 1..0
    <3>1. {u.seq : u \in turns} = {}
      BY <2>2
    <3>2. 1..0 = {}
      OBVIOUS
    <3>3. QED
      BY <3>1, <3>2
  <2>5. QED
    BY <2>2, <2>3, <2>4 DEF NumbersInv, TurnsAreNumbered, AtWork
<1>2. CoordinatorInv /\ NumbersInv /\ [CoordinatorNext]_coordinatorVars => NumbersInv'
  BY NumbersNext
<1>3. NumbersInv => TurnsAreNumbered
  BY DEF NumbersInv
<1>4. QED
  BY <1>1, <1>2, <1>3, CoordinatorInvHolds, PTL DEF CoordinatorSpec
=============================================================================
