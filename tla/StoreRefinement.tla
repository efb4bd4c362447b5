---------------------------- MODULE StoreRefinement ----------------------------
(* SessionStore implements FencedLog, for every value of the constants. *)
EXTENDS SessionStoreSafety

USE DEF Tokens, Slots, Active, Ended, Event, Turn, Body,
        leaseVars, messageVars, toolVars, LeaseType, RunsType

LEMMA RefinesInit == Init => Log!Init
BY DEF Init, Log!Init, NoLease, NoRun, Outcome

\* Nothing the abstract log sees has changed.
LEMMA RefinesStutter ==
  ASSUME UNCHANGED <<leaseCounter, runs, events>>, lease'.token = lease.token
  PROVE  UNCHANGED Log!logVars
BY DEF Log!logVars

LEMMA RefinesGrant ==
  ASSUME Inv, NEW h \in Holders, GrantLease(h)
  PROVE  \/ leaseCounter' = leaseCounter /\ lease'.token = lease.token
         \/ Log!Grant
<1>1. lease \in LeaseType
  BY DEF Inv, TypeOK
<1>2. CASE leaseCounter' = leaseCounter + 1 /\ lease'.token = leaseCounter + 1
  BY <1>2 DEF Log!Grant
<1>3. CASE /\ lease' = [lease EXCEPT !.left = LeaseSeconds, !.term = LeaseSeconds]
           /\ UNCHANGED leaseCounter
  BY <1>1, <1>3
<1>4. QED
  BY <1>2, <1>3 DEF GrantLease

LEMMA RefinesStart ==
  ASSUME Inv, NEW r \in Runs, NEW k \in Keys, runs[r].status = "absent",
         runs' = [runs EXCEPT ![r] = [status |-> "running", key |-> k]]
  PROVE  Log!Start(r)
<1>1. runs \in RunsType
  BY DEF Inv, TypeOK
<1>2. QED
  BY <1>1 DEF Log!Start, Outcome

LEMMA RefinesAppend ==
  ASSUME Inv, NEW r \in Runs, NEW t \in 1..leaseCounter,
         NEW batch \in SUBSET [seq: 1..MaxSeq, body: Payloads],
         AppendEvents(r, t, batch)
  PROVE  Log!Append(r)
<1> DEFINE new == {[seq |-> b.seq, body |-> b.body, token |-> t] : b \in batch}
<1>0. /\ lease \in LeaseType
      /\ runs \in RunsType
      /\ t = leaseCounter /\ t \in Tokens /\ t # 0
  BY NatBounds, CurrentIsNewest DEF Inv, TypeOK, AppendEvents
<1>1. new \subseteq Event
  BY <1>0
<1>2. \A e \in new : e.token = leaseCounter /\ e.body \in Payloads
  BY <1>0
<1>3. /\ NoClash(new, events[r])
      /\ events' = [events EXCEPT ![r] = @ \cup new]
      /\ lease.token = t
      /\ runs[r].status # "absent"
      /\ UNCHANGED <<leaseCounter, runs>>
  BY DEF AppendEvents
<1>4. lease'.token = lease.token
  BY <1>0 DEF AppendEvents, Extended
<1> HIDE DEF new
<1>5. new \in SUBSET Log!Writable(Log!Ordinary)
  BY <1>1, <1>2, EventBodies DEF Log!Writable, Log!Ordinary
<1>6. Log!Write(r, new)
  BY <1>0, <1>3 DEF Log!Write, NoClash, Outcome
<1>7. QED
  BY <1>3, <1>4, <1>5, <1>6 DEF Log!Append

\* commit_turn and _finish_run: the run is closed and the lease dropped.
LEMMA RefinesClose ==
  ASSUME Inv, NEW r \in Runs, NEW t \in 1..leaseCounter, NEW q \in 1..MaxSeq,
         NEW status \in Ended, NEW body,
         body = (IF status = "completed" THEN "done" ELSE "error"),
         ValidLease(t), runs[r].status \in Active,
         runs' = [runs EXCEPT ![r].status = status],
         lease' = NoLease, UNCHANGED leaseCounter,
         \/ /\ NoClash({[seq |-> q, body |-> body, token |-> t]}, events[r])
            /\ events' = [events EXCEPT ![r] =
                            @ \cup {[seq |-> q, body |-> body, token |-> t]}]
         \/ status # "completed" /\ UNCHANGED events
  PROVE  Log!Close(r, status)
<1> DEFINE e == [seq |-> q, body |-> body, token |-> t]
<1>0. /\ runs \in RunsType
      /\ lease.token = t /\ t = leaseCounter /\ t \in Tokens /\ t # 0
  BY NatBounds, CurrentIsNewest DEF Inv, TypeOK, ValidLease
<1>1. e \in Log!Writable({body})
  BY <1>0 DEF Log!Writable
<1>2. [s \in Runs |-> Outcome(runs[s].status)]' =
        [[s \in Runs |-> Outcome(runs[s].status)] EXCEPT ![r] = status]
  BY <1>0 DEF Outcome
<1>3. lease'.token = 0
  BY DEF NoLease
<1>4. Outcome(runs[r].status) = "open"
  BY <1>0 DEF Outcome
<1>5. CASE /\ NoClash({e}, events[r])
           /\ events' = [events EXCEPT ![r] = @ \cup {e}]
  <2>1. Log!Write(r, {e})
    BY <1>0, <1>4, <1>5 DEF Log!Write, NoClash
  <2>2. QED
    BY <1>0, <1>1, <1>2, <1>3, <1>4, <2>1 DEF Log!Close
<1>6. CASE status # "completed" /\ UNCHANGED events
  BY <1>0, <1>2, <1>3, <1>4, <1>6 DEF Log!Close
<1>7. QED
  BY <1>5, <1>6

LEMMA RefinesNext ==
  ASSUME Inv, [Next]_vars
  PROVE  Log!Next \/ UNCHANGED Log!logVars
<1>0. lease \in LeaseType /\ runs \in RunsType
  BY DEF Inv, TypeOK
<1>1. CASE UNCHANGED <<lease, leaseCounter, runs, events>>
  BY <1>1, RefinesStutter
<1>2. CASE LeaseStep
  <2>1. ASSUME NEW h \in Holders, AcquireLease(h)
        PROVE  Log!Next \/ UNCHANGED Log!logVars
    BY <1>2, <2>1, LeaseFrame, RefinesGrant, RefinesStutter
       DEF AcquireLease, Log!Next, Log!Begin
  <2>2. ASSUME NEW t, RenewLease(t)
        PROVE  UNCHANGED Log!logVars
    BY <1>0, <2>2, RefinesStutter DEF RenewLease, Extended
  <2>3. ASSUME NEW t, ReleaseLease(t)
        PROVE  Log!Next
    BY <2>3 DEF ReleaseLease, NoLease, Log!Next, Log!Drop
  <2>4. CASE Tick
    BY <1>0, <2>4, RefinesStutter DEF Tick
  <2>5. QED
    BY <1>2, <2>1, <2>2, <2>3, <2>4 DEF LeaseStep
<1>3. CASE BeginStep
  <2>1. ASSUME NEW r \in Runs, NEW k \in Keys, BeginRun(r, k)
        PROVE  Log!Next
    BY <2>1, RefinesStart DEF BeginRun, KeyIsFree, Log!Next, Log!Begin
  <2>2. ASSUME NEW r \in Runs, NEW k \in Keys, NEW h \in Holders, NEW initial,
               BeginRunWithLease(r, k, h, initial)
        PROVE  Log!Next \/ UNCHANGED Log!logVars
    <3>1. UNCHANGED events
      BY <2>2 DEF BeginRunWithLease
    <3>2. UNCHANGED runs \/ Log!Start(r)
      BY <2>2, RefinesStart DEF BeginRunWithLease
    <3>3. \/ leaseCounter' = leaseCounter /\ lease'.token = lease.token
          \/ Log!Grant
      BY <2>2, RefinesGrant DEF BeginRunWithLease
    <3>4. QED
      BY <3>1, <3>2, <3>3 DEF Log!Next, Log!Begin
  <2>3. QED
    BY <1>3, <2>1, <2>2 DEF BeginStep
<1>4. ASSUME NEW r \in Runs, RequestCancel(r)
      PROVE  UNCHANGED Log!logVars
  <2>1. [s \in Runs |-> Outcome(runs[s].status)]' = [s \in Runs |-> Outcome(runs[s].status)]
    BY <1>0, <1>4 DEF RequestCancel, Outcome
  <2>2. QED
    BY <1>4, <2>1 DEF RequestCancel, Log!logVars
<1>5. CASE EventStep
  BY <1>5, RefinesAppend DEF EventStep, Log!Next
<1>6. CASE EndStep
  <2>1. ASSUME NEW r \in Runs, NEW t \in 1..leaseCounter, NEW id, NEW n,
               NEW q \in 1..MaxSeq, CommitTurn(r, t, id, n, q)
        PROVE  Log!Next
    <3>1. Log!Close(r, "completed")
      BY <2>1, RefinesClose DEF CommitTurn, MayCommit
    <3>2. QED
      BY <3>1 DEF Log!Next
  <2>2. ASSUME NEW r \in Runs, NEW t \in 1..leaseCounter,
               NEW status \in {"failed", "cancelled"}, NEW q \in 1..MaxSeq,
               FinishRun(r, t, status, q)
        PROVE  Log!Next
    <3> DEFINE e == [seq |-> q, body |-> "error", token |-> t]
    <3>1. \/ NoClash({e}, events[r]) /\ events' = [events EXCEPT ![r] = @ \cup {e}]
          \/ UNCHANGED events
      BY <2>2 DEF FinishRun, NoClash
    <3>2. Log!Close(r, status)
      BY <2>2, <3>1, RefinesClose DEF FinishRun, MayFinish
    <3>3. QED
      BY <3>2 DEF Log!Next
  <2>3. QED
    BY <1>1, <1>6, <2>1, <2>2, TornFrame DEF EndStep, TornCommit, TornFinish
<1>7. QED
  BY <1>1, <1>2, <1>3, <1>4, <1>5, <1>6, MessageFrame, ToolFrame DEF Next, vars

\* Whatever its callers do, the store is a log that one fencing token at a time
\* can write and that closes together with its run.
THEOREM Refinement == Spec => ImplementsFencedLog
<1>1. Inv /\ [Next]_vars => [Log!Next]_(Log!logVars)
  BY RefinesNext
<1>2. QED
  BY <1>1, RefinesInit, InvHolds, PTL DEF Spec, ImplementsFencedLog, Log!Spec
=============================================================================
