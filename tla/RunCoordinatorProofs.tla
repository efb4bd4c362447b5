-------------------------- MODULE RunCoordinatorProofs --------------------------
(***************************************************************************)
(* Workers use the store as its callers may, for every value of the        *)
(* constants: each step of CoordinatorSpec is a step of SessionStore or    *)
(* leaves the store as it is.  What a worker shows the store (its token,   *)
(* its turn number and its next event number) is kept in range by WorkersOK *)
(***************************************************************************)
EXTENDS RunCoordinator, SessionStoreSafety

\* Where a worker may have events to write.
Writing == AtWork \ {"begun"}

\* The event numbers a worker has yet to use: one is kept for the error event,
\* and one more for the done event while it means to commit.
Room(v) == v.next + v.queue <= IF v.goal = "commit" THEN MaxSeq - 1 ELSE MaxSeq

\* What a worker remembers fits what it is doing; c is the last token granted.
Sound(v, c) ==
  /\ v.pc \in {"ready"} \cup AtWork => v.turn \in 1..MaxTurn
  /\ v.pc \in AtWork => v.token \in 1..c
  /\ v.pc \in {"idle", "ready", "begun"} => v.queue = 0
  /\ v.pc \in {"idle", "ready", "begun", "starting", "working"} => v.goal = "commit"
  /\ v.pc \notin Writing => v.buffer = {} /\ v.writer = FALSE /\ v.beats = FALSE
  /\ v.pc \in Writing => Room(v)

WorkersOK ==
  /\ WorkerTypeOK
  /\ \A u \in Workers : Sound(worker[u], leaseCounter)

-----------------------------------------------------------------------------
(* One worker moves. *)

\* It becomes v, and the others stay as they are.
Becomes(w, v) ==
  /\ worker'[w] = v
  /\ \A u \in Workers \ {w} : worker'[u] = worker[u]
  /\ worker' = [u \in Workers |-> worker'[u]]

LEMMA MoveKeeps ==
  ASSUME WorkersOK, NEW w \in Workers, NEW v \in WorkerRecord, Becomes(w, v),
         leaseCounter \in Nat, leaseCounter' \in Nat, leaseCounter <= leaseCounter',
         Sound(v, leaseCounter')
  PROVE  WorkersOK'
<1>1. \A u \in Workers : worker'[u] \in WorkerRecord
  BY DEF Becomes, WorkersOK, WorkerTypeOK
<1>2. ASSUME NEW u \in Workers
      PROVE  Sound(worker'[u], leaseCounter')
  <2>1. CASE u = w
    BY <2>1 DEF Becomes
  <2>2. CASE u # w
    <3>1. Sound(worker[u], leaseCounter) /\ worker'[u] = worker[u]
      BY <2>2 DEF Becomes, WorkersOK
    <3>2. 1..leaseCounter \subseteq 1..leaseCounter'
      OBVIOUS
    <3>3. QED
      BY <3>1, <3>2 DEF Sound
  <2>3. QED
    BY <2>1, <2>2
<1>3. QED
  BY <1>1, <1>2 DEF Becomes, WorkersOK, WorkerTypeOK

LEMMA LeaveKeeps ==
  ASSUME WorkersOK, NEW w \in Workers, NEW pc \in Over, Leaves(w, pc),
         leaseCounter \in Nat, leaseCounter' = leaseCounter
  PROVE  WorkersOK'
<1> DEFINE v == [worker[w] EXCEPT !.pc = pc, !.view = 0, !.queue = 0, !.buffer = {},
                                  !.writer = FALSE, !.beats = FALSE]
<1>1. worker[w] \in WorkerRecord
  BY DEF WorkersOK, WorkerTypeOK
<1>2. Becomes(w, v)
  BY DEF Leaves, Becomes, WorkersOK, WorkerTypeOK, WorkerRecord, Over
<1>3. v \in WorkerRecord
  <2>1. 0 \in Nat /\ 0 \in 0..Capacity /\ {} \in SUBSET [seq: 1..MaxSeq, body: Payloads]
    BY WorkerBounds
  <2>2. QED
    BY <1>1, <2>1 DEF WorkerRecord
<1>4. Sound(v, leaseCounter)
  BY <1>1 DEF Sound, Writing, AtWork, Over, WorkerRecord
<1>5. QED
  BY <1>2, <1>3, <1>4, MoveKeeps

-----------------------------------------------------------------------------
(* The store calls of a worker are calls the store has. *)

LEMMA BeginIsStore ==
  ASSUME WorkersOK, NEW w \in Workers, Begin(w)
  PROVE  Next
<1>1. Run(w) \in Runs
  BY DEF Run, WorkersOK, WorkerTypeOK, WorkerRecord
<1>2. BeginRunWithLease(Run(w), Run(w), w, {})
  BY DEF Begin
<1>3. QED
  BY <1>1, <1>2, WorkerNames DEF Next, BeginStep

LEMMA BeginningKeeps ==
  ASSUME TypeOK, LeaseIsNewest, WorkersOK, NEW w \in Workers, BeginningStep(w)
  PROVE  WorkersOK'
<1>0. worker[w] \in WorkerRecord /\ Sound(worker[w], leaseCounter) /\ leaseCounter \in Nat
  BY NatBounds DEF WorkersOK, WorkerTypeOK, TypeOK
<1>1. CASE ReadTurns(w)
  <2>1. PICK n \in 1..MaxTurn :
          worker' = [worker EXCEPT ![w].pc = "ready", ![w].turn = n] /\ UNCHANGED vars
    BY <1>1 DEF ReadTurns
  <2> DEFINE v == [worker[w] EXCEPT !.pc = "ready", !.turn = n]
  <2>2. Becomes(w, v)
    BY <2>1 DEF Becomes, WorkersOK, WorkerTypeOK, WorkerRecord
  <2>3. v \in WorkerRecord
    <3>1. n \in 0..MaxTurn + 1
      BY NatBounds
    <3>2. QED
      BY <1>0, <3>1 DEF WorkerRecord
  <2>4. Sound(v, leaseCounter)
    BY <1>0, <1>1 DEF Sound, Writing, AtWork, WorkerRecord, ReadTurns
  <2> HIDE DEF v
  <2>5. QED
    BY <1>0, <2>1, <2>2, <2>3, <2>4, MoveKeeps DEF vars, leaseVars
<1>2. CASE Begin(w)
  <2> DEFINE v == [worker[w] EXCEPT !.pc = "begun", !.token = lease'.token, !.view = lease'.left]
  <2>1. GrantLease(w)
    BY <1>2 DEF Begin, BeginRunWithLease
  <2>2. TypeOK' /\ LeaseIsNewest'
    BY <1>2, BeginIsStore, NextType, LeaseNext
  <2>3. lease'.left \in Nat /\ lease'.token \in 1..leaseCounter' /\ lease'.token \in 0..MaxToken
    <3>1. lease'.token # 0
      <4>1. CASE Live /\ lease' = [lease EXCEPT !.left = LeaseSeconds, !.term = LeaseSeconds]
        BY <4>1 DEF Live, TypeOK
      <4>2. CASE lease'.token = leaseCounter + 1
        BY <1>0, <4>2
      <4>3. QED
        BY <2>1, <4>1, <4>2 DEF GrantLease
    <3>2. QED
      BY <2>2, <3>1, NatBounds DEF TypeOK, LeaseIsNewest
  <2>4. leaseCounter' \in Nat /\ leaseCounter <= leaseCounter'
    BY <1>0, <2>1 DEF GrantLease
  <2>5. Becomes(w, v)
    BY <1>2 DEF Begin, Becomes, WorkersOK, WorkerTypeOK, WorkerRecord
  <2>6. v \in WorkerRecord
    BY <1>0, <2>3 DEF WorkerRecord, AtWork
  <2>7. Sound(v, leaseCounter')
    BY <1>0, <1>2, <2>3 DEF Sound, Writing, AtWork, WorkerRecord, Begin
  <2> HIDE DEF v
  <2>8. QED
    BY <1>0, <2>4, <2>5, <2>6, <2>7, MoveKeeps
<1>3. CASE BeginRefused(w)
  BY <1>0, <1>3, LeaveKeeps DEF BeginRefused, Over, vars, leaseVars
<1>4. CASE ReadEvents(w)
  <2>1. PICK n \in 1 .. MaxSeq - 1 : StartWriting(w, n) /\ UNCHANGED vars
    BY <1>4 DEF ReadEvents
  <2> DEFINE v == [worker[w] EXCEPT !.pc = "starting", !.next = n,
                                    !.writer = TRUE, !.beats = TRUE]
  <2>2. Becomes(w, v)
    BY <2>1 DEF StartWriting, Becomes, WorkersOK, WorkerTypeOK, WorkerRecord
  <2>3. v \in WorkerRecord
    <3>1. n \in 1..MaxSeq + 1
      BY NatBounds
    <3>2. QED
      BY <1>0, <3>1 DEF WorkerRecord, AtWork
  <2>4. Sound(v, leaseCounter)
    <3>1. Room(v)
      BY <1>0, <1>4, NatBounds DEF Room, Sound, WorkerRecord, ReadEvents
    <3>2. QED
      BY <1>0, <1>4, <3>1 DEF Sound, Writing, AtWork, WorkerRecord, ReadEvents
  <2> HIDE DEF v
  <2>5. QED
    BY <1>0, <2>1, <2>2, <2>3, <2>4, MoveKeeps DEF vars, leaseVars
<1>5. CASE StartCore(w)
  <2> DEFINE v == [worker[w] EXCEPT !.pc = "working"]
  <2>1. Becomes(w, v)
    BY <1>5 DEF StartCore, Becomes, WorkersOK, WorkerTypeOK, WorkerRecord
  <2>2. v \in WorkerRecord
    BY <1>0 DEF WorkerRecord, AtWork
  <2>3. Sound(v, leaseCounter)
    BY <1>0, <1>5 DEF Sound, Room, Writing, AtWork, WorkerRecord, StartCore
  <2> HIDE DEF v
  <2>4. QED
    BY <1>0, <1>5, <2>1, <2>2, <2>3, MoveKeeps DEF StartCore, vars, leaseVars
<1>6. CASE StartFails(w)
  BY <1>0, <1>6, LeaveKeeps DEF StartFails, Over, vars, leaseVars
<1>7. QED
  BY <1>1, <1>2, <1>3, <1>4, <1>5, <1>6 DEF BeginningStep

LEMMA CoreKeeps ==
  ASSUME TypeOK, WorkersOK, NEW w \in Workers, CoreStep(w)
  PROVE  WorkersOK'
<1>0. worker[w] \in WorkerRecord /\ Sound(worker[w], leaseCounter) /\ leaseCounter \in Nat
  BY NatBounds DEF WorkersOK, WorkerTypeOK, TypeOK
<1>1. CASE Emit(w)
  <2> DEFINE v == [worker[w] EXCEPT !.queue = @ + 1, !.emitted = @ + 1]
  <2>1. Becomes(w, v)
    BY <1>1 DEF Emit, Becomes, WorkersOK, WorkerTypeOK, WorkerRecord
  <2>2. v \in WorkerRecord
    <3>1. worker[w].queue + 1 \in 0..Capacity /\ worker[w].emitted + 1 \in Nat
      BY <1>0, <1>1, WorkerBounds DEF WorkerRecord, Emit
    <3>2. QED
      BY <1>0, <3>1 DEF WorkerRecord
  <2>3. Sound(v, leaseCounter)
    <3>1. Room(v)
      BY <1>0, <1>1, NatBounds, WorkerBounds DEF Room, WorkerRecord, Emit
    <3>2. QED
      BY <1>0, <1>1, <3>1 DEF Sound, Writing, AtWork, WorkerRecord, Emit
  <2> HIDE DEF v
  <2>4. QED
    BY <1>0, <1>1, <2>1, <2>2, <2>3, MoveKeeps DEF Emit, vars, leaseVars
<1>2. CASE CoreLosesLease(w)
  BY <1>0, <1>2, LeaveKeeps DEF CoreLosesLease, Over, vars, leaseVars
<1>3. ASSUME NEW goal \in {"commit", "fail"}, FinishCore(w, goal)
      PROVE  WorkersOK'
  <2> DEFINE v == [worker[w] EXCEPT !.pc = "closing", !.goal = goal]
  <2>1. Becomes(w, v)
    BY <1>3 DEF FinishCore, Becomes, WorkersOK, WorkerTypeOK, WorkerRecord
  <2>2. v \in WorkerRecord
    BY <1>0 DEF WorkerRecord, AtWork, Goals
  <2>3. Sound(v, leaseCounter)
    <3>1. Room(v)
      BY <1>0, <1>3, NatBounds, WorkerBounds
         DEF Room, Sound, Writing, AtWork, WorkerRecord, FinishCore
    <3>2. QED
      BY <1>0, <1>3, <3>1 DEF Sound, Writing, AtWork, WorkerRecord, FinishCore
  <2> HIDE DEF v
  <2>4. QED
    BY <1>0, <1>3, <2>1, <2>2, <2>3, MoveKeeps DEF FinishCore, vars, leaseVars
<1>4. QED
  BY <1>1, <1>2, <1>3 DEF CoreStep

LEMMA CloseKeeps ==
  ASSUME TypeOK, WorkersOK, NEW w \in Workers, CloseStep(w)
  PROVE  WorkersOK'
<1>0. worker[w] \in WorkerRecord /\ Sound(worker[w], leaseCounter) /\ leaseCounter \in Nat
  BY NatBounds DEF WorkersOK, WorkerTypeOK, TypeOK
<1>1. CASE CloseHeartbeat(w)
  <2> DEFINE v == [worker[w] EXCEPT !.beats = FALSE]
  <2>1. Becomes(w, v)
    BY <1>1 DEF CloseHeartbeat, Becomes, WorkersOK, WorkerTypeOK, WorkerRecord
  <2>2. v \in WorkerRecord
    BY <1>0 DEF WorkerRecord
  <2>3. Sound(v, leaseCounter)
    BY <1>0, <1>1 DEF Sound, Room, Writing, AtWork, WorkerRecord, CloseHeartbeat
  <2> HIDE DEF v
  <2>4. QED
    BY <1>0, <1>1, <2>1, <2>2, <2>3, MoveKeeps DEF CloseHeartbeat, vars, leaseVars
<1>2. CASE CloseWriter(w)
  <2> DEFINE v == [worker[w] EXCEPT !.pc = "ending", !.writer = FALSE, !.queue = 0]
  <2>1. Becomes(w, v)
    BY <1>2 DEF CloseWriter, Becomes, WorkersOK, WorkerTypeOK, WorkerRecord
  <2>2. v \in WorkerRecord
    <3>1. 0 \in 0..Capacity
      BY WorkerBounds
    <3>2. QED
      BY <1>0, <3>1 DEF WorkerRecord, AtWork
  <2>3. Sound(v, leaseCounter)
    <3>1. Room(v)
      BY <1>0, <1>2, NatBounds, WorkerBounds
         DEF Room, Sound, Writing, AtWork, WorkerRecord, CloseWriter
    <3>2. QED
      BY <1>0, <1>2, <3>1 DEF Sound, Writing, AtWork, WorkerRecord, CloseWriter
  <2> HIDE DEF v
  <2>4. QED
    BY <1>0, <1>2, <2>1, <2>2, <2>3, MoveKeeps DEF CloseWriter, vars, leaseVars
<1>3. QED
  BY <1>1, <1>2 DEF CloseStep

LEMMA StopKeeps ==
  ASSUME WorkersOK, NEW w \in Workers, NEW goal \in {"cancel", "fail", "suspend"},
         StopOwner(w, goal), leaseCounter \in Nat, leaseCounter' = leaseCounter
  PROVE  WorkersOK'
<1>0. /\ worker[w] \in WorkerRecord /\ Sound(worker[w], leaseCounter)
      /\ 0 \in 0..Capacity
  BY WorkerBounds DEF WorkersOK, WorkerTypeOK
<1>1. CASE Leaves(w, "abandoned")
  BY <1>1, LeaveKeeps DEF Over
<1>2. CASE /\ worker[w].pc \in {"working", "closing", "ending"}
           /\ worker' = [worker EXCEPT ![w].pc = "ending", ![w].goal = goal, ![w].shield = TRUE,
                           ![w].writer = FALSE, ![w].beats = FALSE, ![w].queue = 0]
  <2> DEFINE v == [worker[w] EXCEPT !.pc = "ending", !.goal = goal, !.shield = TRUE,
                                    !.writer = FALSE, !.beats = FALSE, !.queue = 0]
  <2>1. Becomes(w, v)
    BY <1>2 DEF Becomes, WorkersOK, WorkerTypeOK, WorkerRecord
  <2>2. v \in WorkerRecord
    BY <1>0 DEF WorkerRecord, AtWork, Goals
  <2>3. Sound(v, leaseCounter)
    <3>1. Room(v)
      BY <1>0, <1>2, NatBounds, WorkerBounds DEF Room, Sound, Writing, AtWork, WorkerRecord
    <3>2. QED
      BY <1>0, <1>2, <3>1 DEF Sound, Writing, AtWork, WorkerRecord
  <2> HIDE DEF v
  <2>4. QED
    BY <2>1, <2>2, <2>3, MoveKeeps
<1>3. CASE /\ worker[w].pc = "closing"
           /\ worker' = [worker EXCEPT ![w].writer = FALSE, ![w].beats = FALSE, ![w].queue = 0]
  <2> DEFINE v == [worker[w] EXCEPT !.writer = FALSE, !.beats = FALSE, !.queue = 0]
  <2>1. Becomes(w, v)
    BY <1>3 DEF Becomes, WorkersOK, WorkerTypeOK, WorkerRecord
  <2>2. v \in WorkerRecord
    BY <1>0 DEF WorkerRecord
  <2>3. Sound(v, leaseCounter)
    <3>1. Room(v)
      BY <1>0, <1>3, NatBounds, WorkerBounds DEF Room, Sound, Writing, AtWork, WorkerRecord
    <3>2. QED
      BY <1>0, <1>3, <3>1 DEF Sound, Writing, AtWork, WorkerRecord
  <2> HIDE DEF v
  <2>4. QED
    BY <2>1, <2>2, <2>3, MoveKeeps
<1>4. QED
  BY <1>1, <1>2, <1>3 DEF StopOwner

\* Flushing leaves nothing in the buffer.
LEMMA FlushKeeps ==
  ASSUME WorkersOK, NEW w \in Workers, MayFlush(w), leaseCounter \in Nat,
         leaseCounter' = leaseCounter, worker' = [worker EXCEPT ![w].buffer = {}]
  PROVE  WorkersOK'
<1>0. worker[w] \in WorkerRecord /\ Sound(worker[w], leaseCounter)
  BY DEF WorkersOK, WorkerTypeOK
<1> DEFINE v == [worker[w] EXCEPT !.buffer = {}]
<1>1. Becomes(w, v)
  BY DEF Becomes, WorkersOK, WorkerTypeOK, WorkerRecord
<1>2. v \in WorkerRecord
  BY <1>0 DEF WorkerRecord
<1>3. Sound(v, leaseCounter)
  BY <1>0 DEF Sound, Room, Writing, AtWork, WorkerRecord
<1> HIDE DEF v
<1>4. QED
  BY <1>1, <1>2, <1>3, MoveKeeps

LEMMA WriterKeeps ==
  ASSUME TypeOK, WorkersOK, NEW w \in Workers, WriterStep(w)
  PROVE  WorkersOK'
<1>0. worker[w] \in WorkerRecord /\ Sound(worker[w], leaseCounter) /\ leaseCounter \in Nat
  BY NatBounds DEF WorkersOK, WorkerTypeOK, TypeOK
<1>1. CASE Take(w)
  <2> DEFINE n == IF worker[w].queue < Batch THEN worker[w].queue ELSE Batch
             new(p) == {[seq |-> s, body |-> p] :
                          s \in worker[w].next .. worker[w].next + n - 1}
  <2>0. PICK p \in Payloads :
          worker' = [worker EXCEPT ![w].buffer = new(p), ![w].next = worker[w].next + n,
                                   ![w].queue = @ - n]
    BY <1>1 DEF Take
  <2>1. worker[w].writer /\ worker[w].pc \in Writing /\ Room(worker[w])
    BY <1>0, <1>1 DEF Take, Sound, WorkerRecord
  <2>2. /\ n \in Nat /\ n <= worker[w].queue
        /\ worker[w].queue - n \in 0..Capacity
        /\ worker[w].next + n \in 1..MaxSeq
    BY <1>0, <2>1, WorkerBounds, NatBounds DEF WorkerRecord, Room
  <2>3. new(p) \in SUBSET [seq: 1..MaxSeq, body: Payloads]
    <3>1. \A s \in worker[w].next .. worker[w].next + n - 1 : s \in 1..MaxSeq
      BY <1>0, <2>2, NatBounds DEF WorkerRecord
    <3>2. QED
      BY <3>1
  <2> HIDE DEF n, new
  <2> DEFINE v == [worker[w] EXCEPT !.buffer = new(p), !.next = worker[w].next + n,
                                    !.queue = @ - n]
  <2>4. Becomes(w, v)
    BY <2>0 DEF Becomes, WorkersOK, WorkerTypeOK, WorkerRecord
  <2>5. v \in WorkerRecord
    <3>1. worker[w].next + n \in 1..MaxSeq + 1
      BY <2>2, NatBounds
    <3>2. QED
      BY <1>0, <2>2, <2>3, <3>1 DEF WorkerRecord
  <2>6. Sound(v, leaseCounter)
    <3>1. Room(v)
      BY <1>0, <2>1, <2>2, WorkerBounds, NatBounds DEF Room, WorkerRecord
    <3>2. QED
      BY <1>0, <2>1, <3>1 DEF Sound, Writing, AtWork, WorkerRecord
  <2>7. leaseCounter' = leaseCounter
    BY <1>1 DEF Take, vars, leaseVars
  <2> HIDE DEF v
  <2>8. QED
    BY <1>0, <2>4, <2>5, <2>6, <2>7, MoveKeeps
<1>2. CASE Flush(w)
  BY <1>0, <1>2, FlushKeeps DEF Flush, AppendEvents
<1>3. CASE FlushLost(w)
  <2>1. CASE Leaves(w, "lost")
    BY <1>0, <1>3, <2>1, LeaveKeeps DEF FlushLost, Over, vars, leaseVars
  <2>2. CASE worker' = [worker EXCEPT ![w].writer = FALSE]
    <3> DEFINE v == [worker[w] EXCEPT !.writer = FALSE]
    <3>1. Becomes(w, v)
      BY <2>2 DEF Becomes, WorkersOK, WorkerTypeOK, WorkerRecord
    <3>2. v \in WorkerRecord
      BY <1>0 DEF WorkerRecord
    <3>3. Sound(v, leaseCounter)
      BY <1>0 DEF Sound, Room, Writing, AtWork, WorkerRecord
    <3>4. leaseCounter' = leaseCounter
      BY <1>3 DEF FlushLost, vars, leaseVars
    <3> HIDE DEF v
    <3>5. QED
      BY <1>0, <3>1, <3>2, <3>3, <3>4, MoveKeeps
  <2>3. QED
    BY <1>3, <2>1, <2>2 DEF FlushLost
<1>4. QED
  BY <1>1, <1>2, <1>3 DEF WriterStep

LEMMA HeartbeatKeeps ==
  ASSUME TypeOK, WorkersOK, NEW w \in Workers, HeartbeatStep(w)
  PROVE  WorkersOK'
<1>0. worker[w] \in WorkerRecord /\ Sound(worker[w], leaseCounter) /\ leaseCounter \in Nat
  BY NatBounds DEF WorkersOK, WorkerTypeOK, TypeOK
<1>1. CASE Renew(w)
  <2> DEFINE v == [worker[w] EXCEPT !.view = lease'.left]
  <2>1. lease'.left \in Nat
    BY <1>1, ExtendedType DEF Renew, RenewLease, LeaseType
  <2>2. Becomes(w, v)
    BY <1>1 DEF Renew, Becomes, WorkersOK, WorkerTypeOK, WorkerRecord
  <2>3. v \in WorkerRecord
    BY <1>0, <2>1 DEF WorkerRecord
  <2>4. Sound(v, leaseCounter)
    BY <1>0 DEF Sound, Room, Writing, AtWork, WorkerRecord
  <2>5. leaseCounter' = leaseCounter
    BY <1>1 DEF Renew, RenewLease
  <2> HIDE DEF v
  <2>6. QED
    BY <1>0, <2>2, <2>3, <2>4, <2>5, MoveKeeps
<1>2. CASE RenewLost(w)
  BY <1>0, <1>2, StopKeeps DEF RenewLost, vars, leaseVars
<1>3. CASE SeeCancel(w)
  BY <1>0, <1>3, StopKeeps DEF SeeCancel, vars, leaseVars
<1>4. QED
  BY <1>1, <1>2, <1>3 DEF HeartbeatStep

\* A refused or unseen commit uses up the done event's number and goes on to
\* another ending.
LEMMA RefusalKeeps ==
  ASSUME WorkersOK, NEW w \in Workers, NEW goal \in Goals \ {"commit"}, NEW shield \in BOOLEAN,
         Ending(w, {"commit"}), leaseCounter \in Nat, leaseCounter' = leaseCounter,
         Becomes(w, [worker[w] EXCEPT !.goal = goal, !.shield = shield, !.next = @ + 1])
  PROVE  WorkersOK'
<1>0. worker[w] \in WorkerRecord /\ Sound(worker[w], leaseCounter)
  BY DEF WorkersOK, WorkerTypeOK
<1>1. worker[w].pc = "ending" /\ worker[w].goal = "commit" /\ Room(worker[w])
  BY <1>0 DEF Ending, Sound, Writing, AtWork
<1>2. worker[w].next + 1 \in 1..MaxSeq + 1
  BY <1>0, <1>1, WorkerBounds, NatBounds DEF Room, WorkerRecord
<1> DEFINE v == [worker[w] EXCEPT !.goal = goal, !.shield = shield, !.next = @ + 1]
<1>3. Becomes(w, v)
  OBVIOUS
<1>4. v \in WorkerRecord
  BY <1>0, <1>2 DEF WorkerRecord
<1>5. Sound(v, leaseCounter)
  <2>1. Room(v)
    BY <1>0, <1>1, WorkerBounds, NatBounds DEF Room, WorkerRecord, Goals
  <2>2. QED
    BY <1>0, <1>1, <2>1 DEF Sound, Writing, AtWork, WorkerRecord
<1> HIDE DEF v
<1>6. QED
  BY <1>3, <1>4, <1>5, MoveKeeps

LEMMA EndingKeeps ==
  ASSUME TypeOK, WorkersOK, NEW w \in Workers, EndingStep(w)
  PROVE  WorkersOK'
<1>0. worker[w] \in WorkerRecord /\ leaseCounter \in Nat
  BY NatBounds DEF WorkersOK, WorkerTypeOK, TypeOK
<1>1. CASE Commit(w)
  BY <1>0, <1>1, LeaveKeeps DEF Commit, CommitTurn, Over
<1>2. CASE CommitRefused(w)
  <2>1. leaseCounter' = leaseCounter
    BY <1>2 DEF CommitRefused, vars, leaseVars
  <2>2. CASE Leaves(w, "lost")
    BY <1>0, <2>1, <2>2, LeaveKeeps DEF Over
  <2>3. CASE worker' = [worker EXCEPT ![w].goal = "fail", ![w].next = @ + 1]
    <3>1. Becomes(w, [worker[w] EXCEPT !.goal = "fail", !.shield = worker[w].shield,
                                     !.next = @ + 1])
      <4>1. Becomes(w, [worker[w] EXCEPT !.goal = "fail", !.next = @ + 1])
        BY <2>3 DEF Becomes, WorkersOK, WorkerTypeOK, WorkerRecord
      <4>2. [worker[w] EXCEPT !.goal = "fail", !.next = @ + 1] =
            [worker[w] EXCEPT !.goal = "fail", !.shield = worker[w].shield, !.next = @ + 1]
        BY <1>0 DEF WorkerRecord
      <4>3. QED
        BY <4>1, <4>2
    <3>2. worker[w].shield \in BOOLEAN
      BY <1>0 DEF WorkerRecord
    <3>3. QED
      BY <1>0, <1>2, <2>1, <3>1, <3>2, RefusalKeeps DEF CommitRefused, Goals
  <2>4. QED
    BY <1>2, <2>2, <2>3 DEF CommitRefused
<1>3. CASE Finish(w)
  BY <1>0, <1>3, LeaveKeeps DEF Finish, FinishRun, Over
<1>4. CASE FinishRefused(w)
  BY <1>0, <1>4, LeaveKeeps DEF FinishRefused, Over, vars, leaseVars
<1>5. CASE Suspend(w)
  BY <1>0, <1>5, LeaveKeeps DEF Suspend, ReleaseLease, Over
<1>6. CASE SuspendRefused(w)
  BY <1>0, <1>6, LeaveKeeps DEF SuspendRefused, Over, vars, leaseVars
<1>7. QED
  BY <1>1, <1>2, <1>3, <1>4, <1>5, <1>6 DEF EndingStep

LEMMA OutsideKeeps ==
  ASSUME TypeOK, WorkersOK, NEW w \in Workers, OutsideStep(w)
  PROVE  WorkersOK'
<1>0. worker[w] \in WorkerRecord /\ Sound(worker[w], leaseCounter) /\ leaseCounter \in Nat
  BY NatBounds DEF WorkersOK, WorkerTypeOK, TypeOK
<1>1. CASE TaskFails(w)
  BY <1>0, <1>1, StopKeeps DEF TaskFails, vars, leaseVars
<1>2. CASE Crash(w)
  BY <1>0, <1>2, LeaveKeeps DEF Crash, Over, vars, leaseVars
<1>3. ASSUME NEW goal \in {"cancel", "fail", "suspend"}, CancelTask(w, goal)
      PROVE  WorkersOK'
  <2>1. leaseCounter' = leaseCounter
    BY <1>3 DEF CancelTask, vars, leaseVars
  <2>2. CASE StopOwner(w, goal)
    BY <1>0, <2>1, <2>2, StopKeeps
  <2>3. CASE /\ worker[w].pc \in {"working", "closing"}
             /\ worker' = [worker EXCEPT ![w].pc = "closing", ![w].goal = goal,
                                         ![w].shield = TRUE]
    <3> DEFINE v == [worker[w] EXCEPT !.pc = "closing", !.goal = goal, !.shield = TRUE]
    <3>1. Becomes(w, v)
      BY <2>3 DEF Becomes, WorkersOK, WorkerTypeOK, WorkerRecord
    <3>2. v \in WorkerRecord
      BY <1>0 DEF WorkerRecord, AtWork, Goals
    <3>3. Sound(v, leaseCounter)
      <4>1. Room(v)
        BY <1>0, <2>3, WorkerBounds, NatBounds DEF Room, Sound, Writing, AtWork, WorkerRecord
      <4>2. QED
        BY <1>0, <2>3, <4>1 DEF Sound, Writing, AtWork, WorkerRecord
    <3> HIDE DEF v
    <3>4. QED
      BY <1>0, <2>1, <3>1, <3>2, <3>3, MoveKeeps
  <2>4. QED
    BY <1>3, <2>2, <2>3 DEF CancelTask
<1>4. ASSUME NEW goal \in {"cancel", "fail", "suspend"}, FlushUnseen(w, goal)
      PROVE  WorkersOK'
  BY <1>0, <1>4, StopKeeps DEF FlushUnseen, AppendEvents
<1>5. ASSUME NEW goal \in {"cancel", "fail", "suspend"}, CommitUnseen(w, goal)
      PROVE  WorkersOK'
  <2>1. Becomes(w, [worker[w] EXCEPT !.goal = goal, !.shield = TRUE, !.next = @ + 1])
    BY <1>5 DEF CommitUnseen, Becomes, WorkersOK, WorkerTypeOK, WorkerRecord
  <2>2. leaseCounter' = leaseCounter
    BY <1>5 DEF CommitUnseen, CommitTurn
  <2>3. QED
    BY <1>0, <1>5, <2>1, <2>2, RefusalKeeps DEF CommitUnseen, Goals
<1>6. QED
  BY <1>1, <1>2, <1>3, <1>4, <1>5 DEF OutsideStep

LEMMA TimeKeeps ==
  ASSUME TypeOK, WorkersOK, TimePasses
  PROVE  WorkersOK'
<1> DEFINE aged(u) == [worker[u] EXCEPT !.view = IF @ > 0 THEN @ - 1 ELSE 0]
<1>1. leaseCounter' = leaseCounter /\ worker' = [u \in Workers |-> aged(u)]
  BY DEF TimePasses, Tick
<1>2. ASSUME NEW u \in Workers
      PROVE  aged(u) \in WorkerRecord /\ Sound(aged(u), leaseCounter)
  <2>1. worker[u] \in WorkerRecord /\ Sound(worker[u], leaseCounter)
    BY DEF WorkersOK, WorkerTypeOK
  <2>2. (IF worker[u].view > 0 THEN worker[u].view - 1 ELSE 0) \in Nat
    BY <2>1 DEF WorkerRecord
  <2>3. aged(u) \in WorkerRecord
    BY <2>1, <2>2 DEF WorkerRecord
  <2>4. Sound(aged(u), leaseCounter)
    BY <2>1 DEF Sound, Room, Writing, AtWork, WorkerRecord
  <2>5. QED
    BY <2>3, <2>4
<1> HIDE DEF aged
<1>3. QED
  BY <1>1, <1>2 DEF WorkersOK, WorkerTypeOK

-----------------------------------------------------------------------------
(* Every step, and the theorems. *)

LEMMA FlushIsStore ==
  ASSUME WorkersOK, NEW w \in Workers, MayFlush(w), worker[w].buffer # {},
         AppendEvents(Run(w), Token(w), worker[w].buffer)
  PROVE  Next
<1>1. worker[w] \in WorkerRecord /\ Sound(worker[w], leaseCounter)
  BY DEF WorkersOK, WorkerTypeOK
<1>2. worker[w].pc \in AtWork
  BY <1>1 DEF MayFlush, Sound, Writing, AtWork
<1>3. /\ Run(w) \in Runs
      /\ Token(w) \in 1..leaseCounter
      /\ worker[w].buffer \in SUBSET [seq: 1..MaxSeq, body: Payloads]
  BY <1>1, <1>2 DEF Run, Token, Sound, WorkerRecord
<1>4. QED
  BY <1>3 DEF Next, EventStep

LEMMA RenewIsStore ==
  ASSUME WorkersOK, NEW w \in Workers, Renew(w)
  PROVE  Next
<1>1. worker[w] \in WorkerRecord /\ Sound(worker[w], leaseCounter)
  BY DEF WorkersOK, WorkerTypeOK
<1>2. Token(w) \in 1..leaseCounter /\ RenewLease(Token(w))
  BY <1>1 DEF Renew, Token, Sound, Writing, AtWork
<1>3. QED
  BY <1>2 DEF Next, LeaseStep

\* What a worker passes to the call that ends its run.
LEMMA EndingArguments ==
  ASSUME WorkersOK, NEW w \in Workers, NEW goals, Ending(w, goals)
  PROVE  /\ Run(w) \in Runs /\ Run(w) \in TurnIds
         /\ Token(w) \in 1..leaseCounter
         /\ worker[w].turn \in 1..MaxTurn
         /\ worker[w].next \in 1..MaxSeq
<1>1. worker[w] \in WorkerRecord /\ Sound(worker[w], leaseCounter)
  BY DEF WorkersOK, WorkerTypeOK
<1>2. worker[w].pc = "ending"
  BY DEF Ending
<1>3. worker[w].next \in 1..MaxSeq
  BY <1>1, <1>2, WorkerBounds, NatBounds DEF Sound, Room, Writing, AtWork, WorkerRecord
<1>4. QED
  BY <1>1, <1>2, <1>3, WorkerNames DEF Run, Token, Sound, AtWork, WorkerRecord

LEMMA CommitIsStore ==
  ASSUME WorkersOK, NEW w \in Workers, Ending(w, {"commit"}),
         CommitTurn(Run(w), Token(w), Run(w), worker[w].turn, worker[w].next)
  PROVE  Next
<1>1. EndStep
  BY EndingArguments DEF EndStep
<1>2. QED
  BY <1>1 DEF Next

LEMMA FinishIsStore ==
  ASSUME WorkersOK, NEW w \in Workers, Finish(w)
  PROVE  Next
<1>1. Ending(w, {"fail", "cancel"})
  BY DEF Finish
<1>2. StatusOf(worker[w].goal) \in {"failed", "cancelled"}
  BY DEF StatusOf
<1>3. FinishRun(Run(w), Token(w), StatusOf(worker[w].goal), worker[w].next)
  BY DEF Finish
<1>4. EndStep
  BY <1>1, <1>2, <1>3, EndingArguments DEF EndStep
<1>5. QED
  BY <1>4 DEF Next

LEMMA SuspendIsStore ==
  ASSUME WorkersOK, NEW w \in Workers, Suspend(w)
  PROVE  Next
<1>1. Ending(w, {"suspend"}) /\ ReleaseLease(Token(w))
  BY DEF Suspend
<1>2. QED
  BY <1>1, EndingArguments DEF Next, LeaseStep

LEMMA StepIsStore ==
  ASSUME WorkersOK, [CoordinatorNext]_coordinatorVars
  PROVE  [Next]_vars
<1>1. ASSUME NEW w \in Workers, BeginningStep(w)
      PROVE  [Next]_vars
  BY <1>1, BeginIsStore DEF BeginningStep, ReadTurns, BeginRefused, ReadEvents, StartCore,
                            StartFails
<1>2. ASSUME NEW w \in Workers, CoreStep(w)
      PROVE  UNCHANGED vars
  BY <1>2 DEF CoreStep, Emit, CoreLosesLease, FinishCore
<1>3. ASSUME NEW w \in Workers, WriterStep(w)
      PROVE  [Next]_vars
  BY <1>3, FlushIsStore DEF WriterStep, Take, Flush, FlushLost
<1>4. ASSUME NEW w \in Workers, HeartbeatStep(w)
      PROVE  [Next]_vars
  BY <1>4, RenewIsStore DEF HeartbeatStep, RenewLost, SeeCancel
<1>5. ASSUME NEW w \in Workers, CloseStep(w)
      PROVE  UNCHANGED vars
  BY <1>5 DEF CloseStep, CloseHeartbeat, CloseWriter
<1>6. ASSUME NEW w \in Workers, EndingStep(w)
      PROVE  [Next]_vars
  BY <1>6, CommitIsStore, FinishIsStore, SuspendIsStore
     DEF EndingStep, Commit, CommitRefused, FinishRefused, SuspendRefused
<1>7. ASSUME NEW w \in Workers, OutsideStep(w)
      PROVE  [Next]_vars
  BY <1>7, FlushIsStore, CommitIsStore
     DEF OutsideStep, TaskFails, Crash, CancelTask, FlushUnseen, CommitUnseen
<1>8. CASE TimePasses
  BY <1>8 DEF TimePasses, Next, LeaseStep
<1>9. ASSUME NEW r \in Runs, ClientCancels(r)
      PROVE  Next
  BY <1>9 DEF ClientCancels, Next
<1>10. CASE UNCHANGED coordinatorVars
  BY <1>10 DEF coordinatorVars
<1>11. QED
  BY <1>1, <1>2, <1>3, <1>4, <1>5, <1>6, <1>7, <1>8, <1>9, <1>10 DEF CoordinatorNext

LEMMA WorkersInit == CoordinatorInit => WorkersOK
<1> SUFFICES ASSUME CoordinatorInit
             PROVE  WorkersOK
  OBVIOUS
<1>1. 0 \in 0..Capacity /\ 0 \in 0..MaxToken /\ 0 \in 0..MaxTurn + 1 /\ 1 \in 1..MaxSeq + 1
  BY WorkerBounds, NatBounds
<1>2. ASSUME NEW u \in Workers
      PROVE  worker[u] \in WorkerRecord /\ Sound(worker[u], leaseCounter)
  <2>1. worker[u] \in
          [pc: {"idle"}, run: Runs, turn: {0}, token: {0}, view: {0}, next: {1},
           queue: {0}, buffer: {{}}, writer: {FALSE}, beats: {FALSE},
           goal: {"commit"}, shield: {FALSE}, emitted: {0}]
    BY DEF CoordinatorInit
  <2>2. worker[u] \in WorkerRecord
    <3>1. /\ worker[u].buffer \in SUBSET [seq: 1..MaxSeq, body: Payloads]
          /\ worker[u].token \in 0..MaxToken /\ worker[u].turn \in 0..MaxTurn + 1
          /\ worker[u].next \in 1..MaxSeq + 1 /\ worker[u].queue \in 0..Capacity
          /\ worker[u].view \in Nat /\ worker[u].emitted \in Nat
      <4>1. /\ worker[u].buffer = {} /\ worker[u].token = 0 /\ worker[u].turn = 0
            /\ worker[u].next = 1 /\ worker[u].queue = 0
            /\ worker[u].view = 0 /\ worker[u].emitted = 0
        BY <2>1
      <4>2. QED
        BY <1>1, <4>1
    <3>2. /\ worker[u].pc \in {"idle", "ready"} \cup AtWork \cup Over /\ worker[u].run \in Runs
          /\ worker[u].writer \in BOOLEAN /\ worker[u].beats \in BOOLEAN
          /\ worker[u].shield \in BOOLEAN /\ worker[u].goal \in Goals
      BY <2>1 DEF Goals
    <3>3. worker[u] = [pc |-> worker[u].pc, run |-> worker[u].run, turn |-> worker[u].turn,
                       token |-> worker[u].token, view |-> worker[u].view,
                       next |-> worker[u].next, queue |-> worker[u].queue,
                       buffer |-> worker[u].buffer, writer |-> worker[u].writer,
                       beats |-> worker[u].beats, goal |-> worker[u].goal,
                       shield |-> worker[u].shield, emitted |-> worker[u].emitted]
      BY <2>1
    <3>4. QED
      BY <3>1, <3>2, <3>3 DEF WorkerRecord
  <2>3. Sound(worker[u], leaseCounter)
    BY <2>1 DEF Sound, Writing, AtWork
  <2>4. QED
    BY <2>2, <2>3
<1>3. worker = [u \in Workers |-> worker[u]]
  BY DEF CoordinatorInit
<1>4. QED
  BY <1>2, <1>3 DEF WorkersOK, WorkerTypeOK

LEMMA WorkersNext ==
  ASSUME TypeOK, LeaseIsNewest, WorkersOK, [CoordinatorNext]_coordinatorVars
  PROVE  WorkersOK'
<1>1. ASSUME NEW r \in Runs, ClientCancels(r)
      PROVE  UNCHANGED <<leaseCounter, worker>>
  BY <1>1 DEF ClientCancels, RequestCancel, leaseVars
<1>2. CASE UNCHANGED <<leaseCounter, worker>>
  BY <1>2 DEF WorkersOK, WorkerTypeOK
<1>3. UNCHANGED coordinatorVars => UNCHANGED <<leaseCounter, worker>>
  BY DEF coordinatorVars, vars, leaseVars
<1>4. QED
  BY <1>1, <1>2, <1>3, BeginningKeeps, CoreKeeps, WriterKeeps, HeartbeatKeeps, CloseKeeps,
     EndingKeeps, OutsideKeeps, TimeKeeps DEF CoordinatorNext

CoordinatorInv == TypeOK /\ LeaseIsNewest /\ WorkersOK

LEMMA CoordinatorInvHolds == CoordinatorSpec => []CoordinatorInv
<1>1. CoordinatorInit => CoordinatorInv
  BY InitType, LeaseInit, WorkersInit DEF CoordinatorInit, CoordinatorInv
<1>2. CoordinatorInv /\ [CoordinatorNext]_coordinatorVars => CoordinatorInv'
  BY StepIsStore, NextType, LeaseNext, WorkersNext DEF CoordinatorInv
<1>3. QED
  BY <1>1, <1>2, PTL DEF CoordinatorSpec

\* What a worker remembers keeps its type: its event numbers stay in bounds and
\* its stream within capacity (CanonicalAgentRun, RunCoordinator).
THEOREM WorkersTyped == CoordinatorSpec => []WorkerTypeOK
<1>1. CoordinatorInv => WorkerTypeOK
  BY DEF CoordinatorInv, WorkersOK
<1>2. QED
  BY <1>1, CoordinatorInvHolds, PTL

\* Workers, cancelled or interrupted anywhere, do nothing to the store but what
\* its callers may do, so everything proved of SessionStore holds of a store that
\* workers use (RunCoordinator's calls of FileSessionStore).
THEOREM WorkersUseTheStore == CoordinatorSpec => ImplementsStore
<1>1. CoordinatorInit => Init
  BY DEF CoordinatorInit
<1>2. CoordinatorInv /\ [CoordinatorNext]_coordinatorVars => [Next]_vars
  BY StepIsStore DEF CoordinatorInv
<1>3. QED
  BY <1>1, <1>2, CoordinatorInvHolds, PTL DEF CoordinatorSpec, ImplementsStore, Spec
=============================================================================
