--------------------------- MODULE SessionStoreSafety ---------------------------
(***************************************************************************)
(* Type correctness and the safety properties of SessionStore, for every   *)
(* value of its constants: leases and fencing, the status graph of runs,   *)
(* the event log and the turns, messages, and mutations.                   *)
(***************************************************************************)
EXTENDS SessionStore, TLAPS

\* lease and runs, as TypeOK types them.
LeaseType == [token: 0..MaxToken, holder: Holders \cup {NoHolder}, left: Nat, term: Nat]
RunsType == [Runs -> [status: {"absent"} \cup Active \cup Ended, key: Keys \cup {NoKey}]]

USE DEF Tokens, Slots, Active, Ended, Event, Turn, Body,
        leaseVars, messageVars, toolVars, LeaseType, RunsType

LEMMA InitType == Init => TypeOK
BY NatBounds DEF Init, TypeOK, NoLease, NoRun, NoBody, NoCall

LEMMA GrantType ==
  ASSUME TypeOK, NEW h \in Holders, GrantLease(h)
  PROVE  /\ lease' \in LeaseType
         /\ leaseCounter' \in 0..MaxToken
         /\ granted' \in [Tokens -> Holders \cup {NoHolder}]
<1>1. CASE lease' = [lease EXCEPT !.left = LeaseSeconds, !.term = LeaseSeconds]
           /\ UNCHANGED <<leaseCounter, granted>>
  BY <1>1, NatBounds DEF TypeOK
<1>2. CASE /\ leaseCounter < MaxToken
           /\ leaseCounter' = leaseCounter + 1
           /\ lease' = [token |-> leaseCounter + 1, holder |-> h,
                        left |-> LeaseSeconds, term |-> LeaseSeconds]
           /\ granted' = [granted EXCEPT ![leaseCounter + 1] = h]
  BY <1>2, NatBounds DEF TypeOK
<1>3. QED
  BY <1>1, <1>2 DEF GrantLease

LEMMA ExtendedType ==
  ASSUME TypeOK
  PROVE  Extended(lease) \in LeaseType
BY NatBounds DEF TypeOK, Extended

LEMMA WriteType ==
  ASSUME TypeOK, NEW r \in Runs, NEW ids \in SUBSET MessageIds, WritePending(r, ids)
  PROVE  /\ index' \in SUBSET Slots
         /\ bodies' \in [Slots -> Body \cup {NoBody}]
<1>1. PICK pos \in Injection(ids, Slots) :
        /\ index' = index \cup Range(pos)
        /\ bodies' = [n \in Slots |->
                        IF \E m \in ids : pos[m] = n
                        THEN [id |-> CHOOSE m \in ids : pos[m] = n,
                              run |-> r, state |-> "pending"]
                        ELSE bodies[n]]
  BY DEF WritePending
<1>2. Range(pos) \subseteq Slots
  BY DEF Injection, Range
<1>3. \A n \in Slots : (\E m \in ids : pos[m] = n) =>
         [id |-> CHOOSE m \in ids : pos[m] = n, run |-> r, state |-> "pending"] \in Body
  OBVIOUS
<1>4. QED
  BY <1>1, <1>2, <1>3 DEF TypeOK

LEMMA SettledType ==
  ASSUME TypeOK, NEW r \in Runs, NEW places,
         NEW state \in {"pending", "committed", "abandoned"}
  PROVE  Settled(r, places, state) \in [Slots -> Body \cup {NoBody}]
<1>1. ASSUME NEW n \in Pending(r)
      PROVE  bodies[n] \in Body
  <2>1. n \in Slots /\ bodies[n].state = "pending"
    BY DEF TypeOK, Pending
  <2>2. bodies[n] # NoBody
    BY <2>1 DEF NoBody
  <2>3. bodies[n] \in Body \cup {NoBody}
    BY <2>1 DEF TypeOK
  <2>4. QED
    BY <2>2, <2>3
<1>2. \A n \in Pending(r) : [bodies[n] EXCEPT !.state = state] \in Body
  BY <1>1
<1>3. \A n \in Slots : (IF n \in places \cap Pending(r)
                        THEN [bodies[n] EXCEPT !.state = state]
                        ELSE bodies[n]) \in Body \cup {NoBody}
  BY <1>2 DEF TypeOK
<1>4. QED
  BY <1>3 DEF Settled

LEMMA StatusType ==
  ASSUME TypeOK, NEW r \in Runs, NEW status \in Active \cup Ended
  PROVE  [runs EXCEPT ![r].status = status] \in RunsType
<1>1. [runs[r] EXCEPT !.status = status] \in
        [status: {"absent"} \cup Active \cup Ended, key: Keys \cup {NoKey}]
  <2>1. runs[r] \in [status: {"absent"} \cup Active \cup Ended, key: Keys \cup {NoKey}]
    BY DEF TypeOK
  <2>2. QED
    BY <2>1
<1>2. QED
  BY <1>1 DEF TypeOK

LEMMA NextType == TypeOK /\ [Next]_vars => TypeOK'
<1> SUFFICES ASSUME TypeOK, [Next]_vars
             PROVE  TypeOK'
  OBVIOUS
<1> USE NatBounds
<1>1. ASSUME NEW h \in Holders, AcquireLease(h)
      PROVE  TypeOK'
  BY <1>1, GrantType DEF AcquireLease, TypeOK
<1>2. ASSUME NEW t \in 1..leaseCounter, RenewLease(t)
      PROVE  TypeOK'
  BY <1>2, ExtendedType DEF RenewLease, TypeOK
<1>3. ASSUME NEW t \in 1..leaseCounter, ReleaseLease(t)
      PROVE  TypeOK'
  BY <1>3 DEF ReleaseLease, TypeOK, NoLease
<1>4. CASE Tick
  <2>1. lease' \in LeaseType
    <3>1. lease.left - 1 \in Nat
      BY <1>4 DEF Tick, TypeOK
    <3>2. QED
      BY <1>4, <3>1 DEF Tick, TypeOK
  <2>2. QED
    BY <1>4, <2>1 DEF Tick, TypeOK
<1>5. ASSUME NEW r \in Runs, NEW k \in Keys, BeginRun(r, k)
      PROVE  TypeOK'
  BY <1>5 DEF BeginRun, TypeOK
<1>6. ASSUME NEW r \in Runs, NEW k \in Keys, NEW h \in Holders,
             NEW initial \in SUBSET InitialIds, BeginRunWithLease(r, k, h, initial)
      PROVE  TypeOK'
  <2>1. initial \in SUBSET MessageIds
    BY Subsets
  <2>2. runs' \in RunsType
    BY <1>6 DEF BeginRunWithLease, TypeOK
  <2>3. QED
    BY <1>6, <2>1, <2>2, GrantType, WriteType DEF BeginRunWithLease, TypeOK
<1>7. ASSUME NEW r \in Runs, RequestCancel(r)
      PROVE  TypeOK'
  BY <1>7, StatusType DEF RequestCancel, TypeOK
<1>8. ASSUME NEW r \in Runs, NEW t \in 1..leaseCounter,
             NEW batch \in SUBSET [seq: 1..MaxSeq, body: Payloads],
             AppendEvents(r, t, batch)
      PROVE  TypeOK'
  <2>1. {[seq |-> b.seq, body |-> b.body, token |-> t] : b \in batch} \subseteq Event
    BY DEF TypeOK
  <2>2. events' \in [Runs -> SUBSET Event]
    BY <1>8, <2>1 DEF AppendEvents, TypeOK
  <2>3. QED
    BY <1>8, <2>2, ExtendedType DEF AppendEvents, TypeOK
<1>9. ASSUME NEW r \in Runs, NEW t \in 1..leaseCounter, NEW ids \in SUBSET MessageIds,
             AppendRunMessages(r, t, ids)
      PROVE  TypeOK'
  <2>1. ids \ StoredIds \in SUBSET MessageIds
    OBVIOUS
  <2>2. QED
    BY <1>9, <2>1, WriteType DEF AppendRunMessages, TypeOK
<1>10. ASSUME NEW r \in Runs, NEW t \in 1..leaseCounter, NEW id \in TurnIds,
              NEW n \in 1..MaxTurn, NEW q \in 1..MaxSeq, CommitTurn(r, t, id, n, q)
       PROVE  TypeOK'
  <2>1. [seq |-> q, body |-> "done", token |-> t] \in Event
    BY DEF TypeOK
  <2>2. events' \in [Runs -> SUBSET Event]
    BY <1>10, <2>1 DEF CommitTurn, TypeOK
  <2>3. bodies' \in [Slots -> Body \cup {NoBody}]
    BY <1>10, SettledType DEF CommitTurn
  <2>4. turns' \in SUBSET Turn
    BY <1>10 DEF CommitTurn, TypeOK
  <2>5. QED
    <3>1. runs' \in RunsType
      BY <1>10, StatusType DEF CommitTurn
    <3>2. lease' \in LeaseType
      BY <1>10 DEF CommitTurn, NoLease
    <3>3. QED
      BY <1>10, <2>2, <2>3, <2>4, <3>1, <3>2 DEF CommitTurn, TypeOK
<1>11. ASSUME NEW r \in Runs, NEW t \in 1..leaseCounter,
              NEW status \in {"failed", "cancelled"}, NEW q \in 1..MaxSeq,
              FinishRun(r, t, status, q)
       PROVE  TypeOK'
  <2>1. [seq |-> q, body |-> "error", token |-> t] \in Event
    BY DEF TypeOK
  <2>2. events' \in [Runs -> SUBSET Event]
    BY <1>11, <2>1 DEF FinishRun, TypeOK
  <2>3. bodies' \in [Slots -> Body \cup {NoBody}]
    BY <1>11, SettledType DEF FinishRun
  <2>4. QED
    <3>1. runs' \in RunsType
      BY <1>11, StatusType DEF FinishRun
    <3>2. lease' \in LeaseType
      BY <1>11 DEF FinishRun, NoLease
    <3>3. QED
      BY <1>11, <2>2, <2>3, <3>1, <3>2 DEF FinishRun, TypeOK
<1>12. ASSUME NEW r \in Runs, NEW n \in Slots, NEW state \in {"committed", "abandoned"},
              Torn(r, n, state)
       PROVE  TypeOK'
  BY <1>12, SettledType DEF Torn, TypeOK
<1>13. ASSUME NEW r \in Runs, NEW t \in 1..leaseCounter, NEW c \in Calls,
              StartRunTool(r, t, c)
       PROVE  TypeOK'
  <2>1. \A state \in {"running", "unknown"} :
          [tools EXCEPT ![<<r, c>>] = [state |-> state, token |-> t]] \in
            [Runs \X Calls ->
              [state: {"absent", "running", "succeeded", "failed", "unknown"},
               token: 0..MaxToken]]
    BY DEF TypeOK
  <2>2. [dispatched EXCEPT ![<<r, c>>] = @ \cup {t}] \in [Runs \X Calls -> SUBSET Tokens]
    BY DEF TypeOK
  <2>3. QED
    BY <1>13, <2>1, <2>2 DEF StartRunTool, TypeOK
<1>14. ASSUME NEW r \in Runs, NEW t \in 1..leaseCounter, NEW c \in Calls,
              NEW state \in {"succeeded", "failed"}, FinishRunTool(r, t, c, state)
       PROVE  TypeOK'
  <2>1. [tools[<<r, c>>] EXCEPT !.state = state] \in
          [state: {"absent", "running", "succeeded", "failed", "unknown"},
           token: 0..MaxToken]
    <3>1. tools[<<r, c>>] \in
            [state: {"absent", "running", "succeeded", "failed", "unknown"},
             token: 0..MaxToken]
      BY DEF TypeOK
    <3>2. QED
      BY <3>1
  <2>2. tools' \in [Runs \X Calls ->
          [state: {"absent", "running", "succeeded", "failed", "unknown"},
           token: 0..MaxToken]]
    BY <1>14, <2>1 DEF FinishRunTool, TypeOK
  <2>3. QED
    BY <1>14, <2>2 DEF FinishRunTool, TypeOK
<1>15. CASE UNCHANGED vars
  BY <1>15 DEF vars, TypeOK
<1>16. QED
  BY <1>1, <1>2, <1>3, <1>4, <1>5, <1>6, <1>7, <1>8, <1>9, <1>10, <1>11, <1>12,
     <1>13, <1>14, <1>15
     DEF Next, LeaseStep, BeginStep, EventStep, MessageStep, EndStep, ToolStep,
         TornCommit, TornFinish

\* Every variable keeps its type: the store's tables hold only what its
\* operations can write.
THEOREM TypeCorrect == Spec => []TypeOK
<1>1. QED
  BY InitType, NextType, PTL DEF Spec

-----------------------------------------------------------------------------
\* What the groups of actions leave alone.
LEMMA LeaseFrame ==
  LeaseStep => UNCHANGED <<runs, events, turns, index, bodies, tools, dispatched>>
BY DEF LeaseStep, AcquireLease, RenewLease, ReleaseLease, Tick

LEMMA MessageFrame ==
  MessageStep => UNCHANGED <<lease, leaseCounter, runs, events, turns, tools, dispatched>>
BY DEF MessageStep, AppendRunMessages

LEMMA TornFrame ==
  ASSUME NEW r, NEW n, NEW state, Torn(r, n, state)
  PROVE  UNCHANGED <<lease, leaseCounter, runs, events, turns, index, tools, dispatched>>
BY DEF Torn

LEMMA ToolFrame ==
  ToolStep => UNCHANGED <<lease, leaseCounter, runs, events, turns, index, bodies>>
<1>1. ASSUME NEW r, NEW t, NEW c, StartRunTool(r, t, c)
      PROVE  UNCHANGED <<lease, leaseCounter, runs, events, turns, index, bodies>>
  BY <1>1 DEF StartRunTool
<1>2. ASSUME NEW r, NEW t, NEW c, NEW state, FinishRunTool(r, t, c, state)
      PROVE  UNCHANGED <<lease, leaseCounter, runs, events, turns, index, bodies>>
  BY <1>2 DEF FinishRunTool
<1>3. QED
  BY <1>1, <1>2 DEF ToolStep

-----------------------------------------------------------------------------
(* Leases and fencing. *)

\* The lease there is bears the newest token; what is left of it belongs to one.
LeaseIsNewest ==
  /\ lease.token \in {0, leaseCounter}
  /\ lease.left > 0 => lease.token # 0

LEMMA LeaseInit == Init => LeaseIsNewest
BY DEF Init, LeaseIsNewest, NoLease

LEMMA LeaseNext ==
  ASSUME TypeOK, LeaseIsNewest, [Next]_vars
  PROVE  LeaseIsNewest'
<1>0. lease \in LeaseType /\ leaseCounter \in Nat
  BY NatBounds DEF TypeOK
<1>1. ASSUME NEW h \in Holders, GrantLease(h)
      PROVE  LeaseIsNewest'
  <2>1. CASE lease' = [lease EXCEPT !.left = LeaseSeconds, !.term = LeaseSeconds]
             /\ UNCHANGED leaseCounter /\ Live
    BY <1>0, <2>1 DEF LeaseIsNewest, Live
  <2>2. CASE leaseCounter' = leaseCounter + 1 /\ lease'.token = leaseCounter + 1
    BY <1>0, <2>2 DEF LeaseIsNewest
  <2>3. QED
    BY <1>1, <2>1, <2>2 DEF GrantLease
<1>2. CASE lease' = Extended(lease) /\ lease.token # 0 /\ UNCHANGED leaseCounter
  BY <1>0, <1>2 DEF Extended, LeaseIsNewest
<1>3. CASE lease' = NoLease /\ UNCHANGED leaseCounter
  BY <1>3 DEF NoLease, LeaseIsNewest
<1>4. CASE Tick
  BY <1>0, <1>4 DEF Tick, LeaseIsNewest
<1>5. CASE UNCHANGED <<lease, leaseCounter>>
  BY <1>5 DEF LeaseIsNewest
<1>6. CASE LeaseStep
  BY <1>1, <1>2, <1>3, <1>4, <1>6
     DEF LeaseStep, AcquireLease, RenewLease, ReleaseLease, MatchedLease
<1>7. CASE BeginStep
  BY <1>1, <1>5, <1>7 DEF BeginStep, BeginRun, BeginRunWithLease
<1>8. CASE EventStep
  BY <1>2, <1>5, <1>8 DEF EventStep, AppendEvents
<1>9. CASE EndStep
  BY ZenonT(40), <1>3, <1>5, <1>9, TornFrame DEF EndStep, CommitTurn, FinishRun, TornCommit, TornFinish
<1>10. QED
  BY <1>5, <1>6, <1>7, <1>8, <1>9, MessageFrame, ToolFrame DEF Next, RequestCancel, vars

\* The two facts the other invariants rest on.
Inv == TypeOK /\ LeaseIsNewest

LEMMA InvHolds == Spec => []Inv
<1>1. Init => Inv
  BY InitType, LeaseInit DEF Inv
<1>2. Inv /\ [Next]_vars => Inv'
  BY NextType, LeaseNext DEF Inv
<1>3. QED
  BY <1>1, <1>2, PTL DEF Spec

LEMMA CurrentIsNewest ==
  ASSUME Inv, NEW t \in 1..leaseCounter, lease.token = t
  PROVE  t = leaseCounter
BY DEF Inv, LeaseIsNewest, TypeOK

LEMMA FencedStep ==
  ASSUME Inv, [Next]_vars
  PROVE  \A r \in Runs : \A e \in events'[r] \ events[r] : e.token = leaseCounter
<1> SUFFICES ASSUME NEW s \in Runs, NEW e \in events'[s] \ events[s]
             PROVE  e.token = leaseCounter
  OBVIOUS
<1>0. events \in [Runs -> SUBSET Event]
  BY DEF Inv, TypeOK
<1>1. ASSUME NEW r \in Runs, NEW t \in 1..leaseCounter, NEW batch, AppendEvents(r, t, batch)
      PROVE  e.token = leaseCounter
  <2>1. t = leaseCounter
    BY <1>1, CurrentIsNewest DEF AppendEvents
  <2>2. e \in {[seq |-> b.seq, body |-> b.body, token |-> t] : b \in batch}
    BY <1>0, <1>1 DEF AppendEvents
  <2>3. QED
    BY <2>1, <2>2
<1>2. ASSUME NEW r \in Runs, NEW t \in 1..leaseCounter, NEW id, NEW n, NEW q,
             CommitTurn(r, t, id, n, q)
      PROVE  e.token = leaseCounter
  <2>1. t = leaseCounter
    BY <1>2, CurrentIsNewest DEF CommitTurn, MayCommit, ValidLease
  <2>2. e = [seq |-> q, body |-> "done", token |-> t]
    BY <1>0, <1>2 DEF CommitTurn
  <2>3. QED
    BY <2>1, <2>2
<1>3. ASSUME NEW r \in Runs, NEW t \in 1..leaseCounter, NEW status, NEW q,
             FinishRun(r, t, status, q)
      PROVE  e.token = leaseCounter
  <2>1. t = leaseCounter
    BY <1>3, CurrentIsNewest DEF FinishRun, MayFinish, ValidLease
  <2>2. e = [seq |-> q, body |-> "error", token |-> t]
    BY <1>0, <1>3 DEF FinishRun
  <2>3. QED
    BY <2>1, <2>2
<1>4. CASE UNCHANGED events
  BY <1>4
<1>5. CASE EventStep
  BY <1>1, <1>5 DEF EventStep
<1>6. CASE EndStep
  BY <1>2, <1>3, <1>4, <1>6, TornFrame DEF EndStep, TornCommit, TornFinish
<1>7. CASE BeginStep
  BY <1>4, <1>7 DEF BeginStep, BeginRun, BeginRunWithLease
<1>8. QED
  BY <1>4, <1>5, <1>6, <1>7, LeaseFrame, MessageFrame, ToolFrame
     DEF Next, RequestCancel, vars

\* A superseded worker writes no event and commits no turn (append_events,
\* commit_turn, _finish_run).
THEOREM Fencing == Spec => FencedWrites
<1>1. Inv /\ [Next]_vars =>
        [\A r \in Runs : \A e \in events'[r] \ events[r] : e.token = leaseCounter]_vars
  BY FencedStep
<1>2. QED
  BY <1>1, InvHolds, PTL DEF Spec, FencedWrites

LEMMA ExclusiveStep ==
  ASSUME Inv, [Next]_vars, Live, lease'.token # 0
  PROVE  lease'.token = lease.token
<1>0. lease \in LeaseType
  BY DEF Inv, TypeOK
<1>1. ASSUME NEW h \in Holders, GrantLease(h)
      PROVE  lease'.token = lease.token
  BY <1>0, <1>1 DEF GrantLease
<1>2. CASE lease' = Extended(lease)
  BY <1>0, <1>2 DEF Extended
<1>3. CASE lease' = NoLease
  BY <1>3 DEF NoLease
<1>4. CASE Tick
  BY <1>0, <1>4 DEF Tick
<1>5. CASE UNCHANGED lease
  BY <1>5
<1>6. CASE LeaseStep
  BY <1>1, <1>2, <1>3, <1>4, <1>6 DEF LeaseStep, AcquireLease, RenewLease, ReleaseLease
<1>7. CASE BeginStep
  BY <1>1, <1>5, <1>7 DEF BeginStep, BeginRun, BeginRunWithLease
<1>8. CASE EventStep
  BY <1>2, <1>5, <1>8 DEF EventStep, AppendEvents
<1>9. CASE EndStep
  BY ZenonT(40), <1>3, <1>5, <1>9, TornFrame DEF EndStep, CommitTurn, FinishRun, TornCommit, TornFinish
<1>10. QED
  BY <1>5, <1>6, <1>7, <1>8, <1>9, MessageFrame, ToolFrame DEF Next, RequestCancel, vars

\* Nobody is granted a lease while another is live (begin_run_with_lease,
\* acquire_lease).
THEOREM Exclusion == Spec => LeaseIsExclusive
<1>1. Inv /\ [Next]_vars => [Live /\ lease'.token # 0 => lease'.token = lease.token]_vars
  BY ExclusiveStep
<1>2. QED
  BY <1>1, InvHolds, PTL DEF Spec, LeaseIsExclusive

-----------------------------------------------------------------------------
(* Runs: their status and their keys. *)

\* One move along the status graph.
Moves(r) ==
  \/ runs'[r].status = runs[r].status
  \/ runs[r].status = "absent" /\ runs'[r].status = "running"
  \/ runs[r].status = "running" /\ runs'[r].status \in Ended \cup Active
  \/ /\ runs[r].status = "cancellation_requested"
     /\ runs'[r].status \in {"failed", "cancelled"}

LEMMA StatusStep ==
  ASSUME TypeOK, [Next]_vars
  PROVE  \A r \in Runs : Moves(r)
<1>0. runs \in RunsType
  BY DEF TypeOK
<1>1. CASE UNCHANGED runs
  BY <1>1 DEF Moves
<1>2. ASSUME NEW r \in Runs, NEW k \in Keys, KeyIsFree(r, k),
             runs' = [runs EXCEPT ![r] = [status |-> "running", key |-> k]]
      PROVE  \A s \in Runs : Moves(s)
  BY <1>0, <1>2 DEF Moves, KeyIsFree
<1>3. ASSUME NEW r \in Runs, RequestCancel(r)
      PROVE  \A s \in Runs : Moves(s)
  BY <1>0, <1>3 DEF Moves, RequestCancel
<1>4. ASSUME NEW r \in Runs, NEW t, NEW id, NEW n, NEW q, CommitTurn(r, t, id, n, q)
      PROVE  \A s \in Runs : Moves(s)
  BY <1>0, <1>4 DEF Moves, CommitTurn, MayCommit
<1>5. ASSUME NEW r \in Runs, NEW t, NEW status \in {"failed", "cancelled"}, NEW q,
             FinishRun(r, t, status, q)
      PROVE  \A s \in Runs : Moves(s)
  BY <1>0, <1>5 DEF Moves, FinishRun, MayFinish
<1>6. CASE BeginStep
  <2>1. ASSUME NEW r \in Runs, NEW k \in Keys, NEW h, NEW initial,
               BeginRunWithLease(r, k, h, initial)
        PROVE  \A s \in Runs : Moves(s)
    <3>1. CASE runs[r].status = "absent"
      BY <1>2, <2>1, <3>1 DEF BeginRunWithLease
    <3>2. CASE runs[r].status # "absent"
      BY <1>1, <2>1, <3>2 DEF BeginRunWithLease
    <3>3. QED
      BY <3>1, <3>2
  <2>2. QED
    BY <1>2, <1>6, <2>1 DEF BeginStep, BeginRun
<1>7. CASE EndStep
  BY <1>1, <1>4, <1>5, <1>7, TornFrame DEF EndStep, TornCommit, TornFinish
<1>8. QED
  BY <1>1, <1>3, <1>6, <1>7, LeaseFrame, MessageFrame, ToolFrame
     DEF Next, EventStep, AppendEvents, vars

\* An ended run never changes again, and a run asked to cancel is never
\* completed (commit_turn, _finish_run, request_cancel, begin_run_with_lease).
THEOREM StatusMoves == Spec => StatusGraph
<1>1. Inv /\ [Next]_vars => [\A r \in Runs : Moves(r)]_vars
  BY StatusStep DEF Inv
<1>2. QED
  BY <1>1, InvHolds, PTL DEF Spec, StatusGraph, Moves

LEMMA KeyNext ==
  ASSUME TypeOK, KeyNamesOneRun, [Next]_vars
  PROVE  KeyNamesOneRun'
<1>0. runs \in RunsType
  BY DEF TypeOK
<1>1. CASE \A r \in Runs : runs'[r].key = runs[r].key
  BY <1>1 DEF KeyNamesOneRun
<1>2. ASSUME NEW r \in Runs, NEW k \in Keys, KeyIsFree(r, k),
             runs' = [runs EXCEPT ![r] = [status |-> "running", key |-> k]]
      PROVE  KeyNamesOneRun'
  BY <1>0, <1>2 DEF KeyNamesOneRun, KeyIsFree
<1>3. ASSUME NEW r \in Runs, NEW status, runs' = [runs EXCEPT ![r].status = status]
      PROVE  KeyNamesOneRun'
  BY <1>0, <1>1, <1>3
<1>4. CASE BeginStep
  <2>1. ASSUME NEW r \in Runs, NEW k \in Keys, NEW h, NEW initial,
               BeginRunWithLease(r, k, h, initial)
        PROVE  KeyNamesOneRun'
    <3>1. CASE runs[r].status = "absent"
      BY <1>2, <2>1, <3>1 DEF BeginRunWithLease
    <3>2. CASE runs[r].status # "absent"
      BY <1>1, <2>1, <3>2 DEF BeginRunWithLease
    <3>3. QED
      BY <3>1, <3>2
  <2>2. QED
    BY <1>2, <1>4, <2>1 DEF BeginStep, BeginRun
<1>5. CASE EndStep
  BY ZenonT(40), <1>1, <1>3, <1>5, TornFrame DEF EndStep, TornCommit, TornFinish, CommitTurn, FinishRun
<1>6. QED
  BY <1>1, <1>3, <1>4, <1>5, LeaseFrame, MessageFrame, ToolFrame
     DEF Next, RequestCancel, EventStep, AppendEvents, vars

\* An idempotency key never names two runs, whatever retries race to begin
\* (begin_run, begin_run_with_lease).
THEOREM KeysAreUnique == Spec => []KeyNamesOneRun
<1>1. Init => KeyNamesOneRun
  BY DEF Init, KeyNamesOneRun, NoRun
<1>2. Inv /\ KeyNamesOneRun /\ [Next]_vars => KeyNamesOneRun'
  BY KeyNext DEF Inv
<1>3. QED
  BY <1>1, <1>2, InvHolds, PTL DEF Spec

-----------------------------------------------------------------------------
(* The event log and the turns. *)

\* A run that does not exist has no events; with this, UniqueSequences and
\* CompletedRunHasOneTurn are inductive.
LogInv ==
  /\ \A r \in Runs : runs[r].status = "absent" => events[r] = {}
  /\ UniqueSequences
  /\ CompletedRunHasOneTurn

LEMMA LogInit == Init => LogInv
BY DEF Init, LogInv, UniqueSequences, CompletedRunHasOneTurn, NoRun

\* Steps that neither write the log nor complete a run keep LogInv.
LEMMA LogKept ==
  ASSUME LogInv, UNCHANGED <<events, turns>>,
         \A r \in Runs : /\ runs'[r].status = "absent" => runs[r].status = "absent"
                         /\ runs'[r].status = "completed" <=> runs[r].status = "completed"
  PROVE  LogInv'
<1>1. UniqueSequences'
  BY DEF LogInv, UniqueSequences
<1>2. CompletedRunHasOneTurn'
  BY DEF LogInv, CompletedRunHasOneTurn
<1>3. QED
  BY <1>1, <1>2 DEF LogInv

\* So do steps that add ordinary or error events, each under a number of its own.
LEMMA LogGrows ==
  ASSUME TypeOK, LogInv, NEW r \in Runs, NEW new \in SUBSET Event,
         NoClash(new, events[r]), \A e \in new : e.body # "done",
         runs[r].status # "absent",
         events' = [events EXCEPT ![r] = @ \cup new], UNCHANGED turns,
         \A s \in Runs : /\ runs'[s].status = "absent" => runs[s].status = "absent"
                         /\ runs'[s].status = "completed" <=> runs[s].status = "completed"
  PROVE  LogInv'
<1>0. events \in [Runs -> SUBSET Event]
  BY DEF TypeOK
<1>1. UniqueSequences'
  BY <1>0 DEF LogInv, UniqueSequences, NoClash
<1>2. CompletedRunHasOneTurn'
  <2>1. \A s \in Runs : \A e : e \in events'[s] /\ e.body = "done" <=>
                               e \in events[s] /\ e.body = "done"
    BY <1>0
  <2>2. QED
    BY <2>1 DEF LogInv, CompletedRunHasOneTurn
<1>3. QED
  BY <1>0, <1>1, <1>2 DEF LogInv

LEMMA LogCommits ==
  ASSUME TypeOK, LogInv, NEW r \in Runs, NEW t \in 1..leaseCounter, NEW id \in TurnIds,
         NEW n \in 1..MaxTurn, NEW q \in 1..MaxSeq, CommitTurn(r, t, id, n, q)
  PROVE  LogInv'
<1> DEFINE done == [seq |-> q, body |-> "done", token |-> t]
           turn == [id |-> id, seq |-> n, run |-> r]
<1>0. /\ events \in [Runs -> SUBSET Event]
      /\ runs \in RunsType
  BY DEF TypeOK
<1>1. /\ events' = [events EXCEPT ![r] = @ \cup {done}]
      /\ turns' = turns \cup {turn}
      /\ runs' = [runs EXCEPT ![r].status = "completed"]
      /\ \A f \in events[r] : f.seq = q => f = done
      /\ \A u \in turns : u.id # id /\ u.seq # n
      /\ runs[r].status = "running"
  BY DEF CommitTurn, MayCommit, NoClash
<1> HIDE DEF done, turn
<1>2. done.seq = q /\ done.body = "done" /\ turn.id = id /\ turn.seq = n /\ turn.run = r
  BY DEF done, turn
<1>3. UniqueSequences'
  BY <1>0, <1>1, <1>2 DEF LogInv, UniqueSequences
<1>4. /\ \A u \in turns : u.run # r
      /\ \A e \in events[r] : e.body # "done"
  BY <1>1 DEF LogInv, CompletedRunHasOneTurn
<1>5. ASSUME NEW s \in Runs, s # r
      PROVE  /\ runs'[s] = runs[s]
             /\ events'[s] = events[s]
             /\ \A u \in turns' : u.run = s <=> u \in turns /\ u.run = s
  BY <1>0, <1>1, <1>2, <1>5
<1>6. CompletedRunHasOneTurn'
  <2>1. ASSUME NEW s \in Runs, s # r, runs'[s].status = "completed"
        PROVE  /\ \E u \in turns' : \A v \in turns' : v.run = s <=> v = u
               /\ \E e \in events'[s] : \A f \in events'[s] : f.body = "done" <=> f = e
    <3>1. PICK u \in turns : \A v \in turns : v.run = s <=> v = u
      BY <1>5, <2>1 DEF LogInv, CompletedRunHasOneTurn
    <3>2. u \in turns' /\ \A v \in turns' : v.run = s <=> v = u
      BY <1>1, <1>2, <2>1, <3>1
    <3>3. QED
      BY <1>5, <2>1, <3>2 DEF LogInv, CompletedRunHasOneTurn
  <2>2. ASSUME NEW s \in Runs, s # r, runs'[s].status # "completed"
        PROVE  /\ \A u \in turns' : u.run # s
               /\ \A e \in events'[s] : e.body # "done"
    BY <1>5, <2>2 DEF LogInv, CompletedRunHasOneTurn
  <2>3. /\ runs'[r].status = "completed"
        /\ turn \in turns' /\ \A v \in turns' : v.run = r <=> v = turn
        /\ done \in events'[r] /\ \A f \in events'[r] : f.body = "done" <=> f = done
    BY <1>0, <1>1, <1>2, <1>4
  <2>4. QED
    BY <2>1, <2>2, <2>3 DEF CompletedRunHasOneTurn
<1>7. \A s \in Runs : runs'[s].status = "absent" => events'[s] = {}
  BY <1>0, <1>1, <1>5 DEF LogInv
<1>8. QED
  BY <1>3, <1>6, <1>7 DEF LogInv

LEMMA LogFinishes ==
  ASSUME TypeOK, LogInv, NEW r \in Runs, NEW t \in 1..leaseCounter,
         NEW status \in {"failed", "cancelled"}, NEW q \in 1..MaxSeq,
         FinishRun(r, t, status, q)
  PROVE  LogInv'
<1> DEFINE error == [seq |-> q, body |-> "error", token |-> t]
<1>0. /\ runs \in RunsType
      /\ runs[r].status \in Active
      /\ runs' = [runs EXCEPT ![r].status = status]
      /\ UNCHANGED turns
  BY DEF TypeOK, FinishRun, MayFinish
<1>1. \A s \in Runs : /\ runs'[s].status = "absent" => runs[s].status = "absent"
                      /\ runs'[s].status = "completed" <=> runs[s].status = "completed"
  BY <1>0
<1>2. CASE UNCHANGED events
  BY <1>0, <1>1, <1>2, LogKept
<1>3. CASE /\ \A f \in events[r] : f.seq # q
           /\ events' = [events EXCEPT ![r] = @ \cup {error}]
  <2>1. t \in Tokens
    BY NatBounds DEF TypeOK
  <2>2. error \in Event /\ error.seq = q /\ error.body = "error"
    BY <2>1
  <2> HIDE DEF error
  <2>3. NoClash({error}, events[r])
    BY <1>3, <2>2 DEF NoClash
  <2>4. \A e \in {error} : e.body # "done"
    BY <2>2
  <2>5. runs[r].status # "absent" /\ {error} \in SUBSET Event
    BY <1>0, <2>2
  <2>6. QED
    BY <1>0, <1>1, <1>3, <2>3, <2>4, <2>5, LogGrows
<1>4. QED
  BY <1>2, <1>3 DEF FinishRun

LEMMA LogNext ==
  ASSUME TypeOK, LogInv, [Next]_vars
  PROVE  LogInv'
<1>0. runs \in RunsType
  BY DEF TypeOK
<1>1. CASE UNCHANGED <<runs, events, turns>>
  BY <1>1, LogKept
<1>2. ASSUME NEW r \in Runs, NEW t \in 1..leaseCounter,
             NEW batch \in SUBSET [seq: 1..MaxSeq, body: Payloads],
             AppendEvents(r, t, batch)
      PROVE  LogInv'
  <2> DEFINE new == {[seq |-> b.seq, body |-> b.body, token |-> t] : b \in batch}
  <2>1. new \in SUBSET Event
    BY NatBounds DEF TypeOK
  <2>2. \A e \in new : e.body # "done"
    BY EventBodies
  <2>3. /\ NoClash(new, events[r])
        /\ runs[r].status # "absent"
        /\ events' = [events EXCEPT ![r] = @ \cup new]
        /\ UNCHANGED <<turns, runs>>
    BY <1>2 DEF AppendEvents
  <2>4. QED
    BY <2>1, <2>2, <2>3, LogGrows
<1>3. ASSUME NEW r \in Runs, NEW k \in Keys, KeyIsFree(r, k), UNCHANGED <<events, turns>>,
             runs' = [runs EXCEPT ![r] = [status |-> "running", key |-> k]]
      PROVE  LogInv'
  BY <1>0, <1>3, LogKept DEF KeyIsFree
<1>4. CASE BeginStep
  <2>1. ASSUME NEW r \in Runs, NEW k \in Keys, NEW h, NEW initial,
               BeginRunWithLease(r, k, h, initial)
        PROVE  LogInv'
    <3>1. CASE runs[r].status = "absent"
      BY <1>3, <2>1, <3>1 DEF BeginRunWithLease
    <3>2. CASE runs[r].status # "absent"
      BY <1>1, <2>1, <3>2 DEF BeginRunWithLease
    <3>3. QED
      BY <3>1, <3>2
  <2>2. QED
    BY <1>3, <1>4, <2>1 DEF BeginStep, BeginRun
<1>5. ASSUME NEW r \in Runs, RequestCancel(r)
      PROVE  LogInv'
  BY <1>0, <1>5, LogKept DEF RequestCancel
<1>6. CASE EndStep
  BY <1>1, <1>6, LogCommits, LogFinishes, TornFrame DEF EndStep, TornCommit, TornFinish
<1>7. QED
  BY <1>1, <1>2, <1>4, <1>5, <1>6, LeaseFrame, MessageFrame, ToolFrame
     DEF Next, EventStep, vars

LEMMA LogHolds == Spec => []LogInv
<1>1. Inv /\ LogInv /\ [Next]_vars => LogInv'
  BY LogNext DEF Inv
<1>2. QED
  BY LogInit, <1>1, InvHolds, PTL DEF Spec

\* No two events of a run and no two turns of a session share a number
\* (append_events, commit_turn, _finish_run).
THEOREM SequencesAreUnique == Spec => []UniqueSequences
<1>1. LogInv => UniqueSequences
  BY DEF LogInv
<1>2. QED
  BY <1>1, LogHolds, PTL

\* Event numbers of a run, turn ids and numbers of the session and idempotency
\* keys each find one thing only (the uniqueness checks of FileSessionStore).
THEOREM StoreNamesAreUnique == Spec => []NamesAreUnique
BY KeysAreUnique, SequencesAreUnique, PTL DEF NamesAreUnique

\* A completed run has one turn and one done event, and no other run has any
\* (commit_turn).
THEOREM OneTurnPerRun == Spec => []CompletedRunHasOneTurn
<1>1. LogInv => CompletedRunHasOneTurn
  BY DEF LogInv
<1>2. QED
  BY <1>1, LogHolds, PTL

-----------------------------------------------------------------------------
(* Messages. *)

\* Writing new messages for an active run leaves the others as they were.
LEMMA WriteKeeps ==
  ASSUME TypeOK, NEW r \in Runs, NEW ids, WritePending(r, ids)
  PROVE  /\ index \subseteq index'
         /\ \A n \in index : bodies'[n] = bodies[n]
         /\ \A n \in index' \ index : bodies'[n].run = r
<1>0. index \in SUBSET Slots /\ MaxMessages \in Nat
  BY NatBounds DEF TypeOK
<1>1. PICK pos \in Injection(ids, Slots) :
        /\ Follow(Range(pos))
        /\ index' = index \cup Range(pos)
        /\ bodies' = [n \in Slots |->
                        IF \E m \in ids : pos[m] = n
                        THEN [id |-> CHOOSE m \in ids : pos[m] = n,
                              run |-> r, state |-> "pending"]
                        ELSE bodies[n]]
  BY DEF WritePending
<1>2. \A n : n \in Range(pos) <=> \E m \in ids : pos[m] = n
  BY DEF Range, Injection
<1>3. ASSUME NEW n \in index, n \in Range(pos)
      PROVE  FALSE
  <2>1. n < n
    BY <1>1, <1>3 DEF Follow
  <2>2. n \in Int
    BY <1>0
  <2>3. QED
    BY <2>1, <2>2
<1>4. ASSUME NEW n \in index
      PROVE  bodies'[n] = bodies[n]
  <2>1. n \in Slots /\ ~ \E m \in ids : pos[m] = n
    BY <1>0, <1>2, <1>3
  <2>2. QED
    BY <1>1, <2>1
<1>5. ASSUME NEW n \in index' \ index
      PROVE  bodies'[n].run = r
  <2>1. n \in Slots /\ \E m \in ids : pos[m] = n
    BY <1>1, <1>2 DEF Injection
  <2>2. QED
    BY <1>1, <2>1
<1>6. QED
  BY <1>1, <1>4, <1>5

LEMMA SettledKeeps ==
  ASSUME TypeOK, NEW r \in Runs, NEW places, NEW state,
         state # "pending", bodies' = Settled(r, places, state)
  PROVE  \A n \in index : /\ bodies'[n].run = bodies[n].run
                          /\ bodies'[n].state = "pending" => bodies[n].state = "pending"
                          /\ n \in places /\ bodies[n].run = r => bodies'[n].state # "pending"
<1>1. ASSUME NEW n \in index
      PROVE  /\ bodies'[n].run = bodies[n].run
             /\ bodies'[n].state = "pending" => bodies[n].state = "pending"
             /\ n \in places /\ bodies[n].run = r => bodies'[n].state # "pending"
  <2>0. n \in Slots /\ bodies[n] \in Body \cup {NoBody}
    BY DEF TypeOK
  <2>1. CASE n \in places \cap Pending(r)
    <3>1. bodies[n] \in Body
      BY <2>0, <2>1 DEF Pending, NoBody
    <3>2. bodies'[n] = [bodies[n] EXCEPT !.state = state]
      BY <2>0, <2>1 DEF Settled
    <3>3. bodies'[n].run = bodies[n].run /\ bodies'[n].state = state
      BY <3>1, <3>2
    <3>4. QED
      BY <3>3, <2>1 DEF Pending
  <2>2. CASE n \notin places \cap Pending(r)
    <3>1. bodies'[n] = bodies[n]
      BY <2>0, <2>2 DEF Settled
    <3>2. QED
      BY <2>2, <3>1 DEF Pending
  <2>3. QED
    BY <2>1, <2>2
<1>2. QED
  BY <1>1

\* Steps that change only the status of runs, and end none that has a pending
\* message, or that settle messages, keep NoPendingAfterEnd.
LEMMA PendingKept ==
  ASSUME NoPendingAfterEnd, UNCHANGED index,
         \A n \in index : /\ bodies'[n].run = bodies[n].run
                          /\ bodies'[n].state = "pending" => bodies[n].state = "pending",
         \A r \in Runs : runs'[r].status \in Ended =>
           \/ runs[r].status \in Ended
           \/ \A n \in index : bodies[n].run = r => bodies'[n].state # "pending"
  PROVE  NoPendingAfterEnd'
BY DEF NoPendingAfterEnd, Pending

LEMMA PendingWritten ==
  ASSUME TypeOK, NoPendingAfterEnd, NEW r \in Runs, NEW ids, WritePending(r, ids),
         runs'[r].status \notin Ended,
         \A s \in Runs : runs'[s].status \in Ended => runs[s].status \in Ended
  PROVE  NoPendingAfterEnd'
<1> SUFFICES ASSUME NEW s \in Runs, runs'[s].status \in Ended, NEW n \in index',
                    bodies'[n].run = s, bodies'[n].state = "pending"
             PROVE  FALSE
  BY DEF NoPendingAfterEnd, Pending
<1>1. n \in index
  BY WriteKeeps
<1>2. n \in Pending(s)
  BY <1>1, WriteKeeps DEF Pending
<1>3. QED
  BY <1>2 DEF NoPendingAfterEnd

LEMMA PendingNext ==
  ASSUME TypeOK, NoPendingAfterEnd, [Next]_vars
  PROVE  NoPendingAfterEnd'
<1>0. runs \in RunsType /\ index \in SUBSET Slots
  BY DEF TypeOK
<1>1. CASE UNCHANGED <<index, bodies>>
           /\ \A r \in Runs : runs'[r].status \in Ended => runs[r].status \in Ended
  BY <1>1, PendingKept
<1>2. ASSUME NEW r \in Runs, NEW t, NEW ids, AppendRunMessages(r, t, ids)
      PROVE  NoPendingAfterEnd'
  BY <1>2, PendingWritten DEF AppendRunMessages
<1>3. ASSUME NEW r \in Runs, NEW k \in Keys, NEW h, NEW initial,
             BeginRunWithLease(r, k, h, initial)
      PROVE  NoPendingAfterEnd'
  <2>1. runs'[r].status \notin Ended
    BY <1>0, <1>3 DEF BeginRunWithLease, KeyIsFree
  <2>2. \A s \in Runs : runs'[s].status \in Ended => runs[s].status \in Ended
    BY <1>0, <1>3 DEF BeginRunWithLease
  <2>3. QED
    BY <1>3, <2>1, <2>2, PendingWritten DEF BeginRunWithLease
<1>4. ASSUME NEW r \in Runs, NEW k \in Keys, BeginRun(r, k)
      PROVE  NoPendingAfterEnd'
  BY <1>0, <1>1, <1>4 DEF BeginRun
<1>5. ASSUME NEW r \in Runs, RequestCancel(r)
      PROVE  NoPendingAfterEnd'
  BY <1>0, <1>1, <1>5 DEF RequestCancel
<1>6. ASSUME NEW r \in Runs, NEW status, NEW state \in {"committed", "abandoned"},
             runs' = [runs EXCEPT ![r].status = status],
             bodies' = Settled(r, Slots, state), UNCHANGED index
      PROVE  NoPendingAfterEnd'
  <2>1. \A n \in index : n \in Slots
    BY <1>0
  <2>2. \A n \in index : /\ bodies'[n].run = bodies[n].run
                         /\ bodies'[n].state = "pending" => bodies[n].state = "pending"
                         /\ bodies[n].run = r => bodies'[n].state # "pending"
    BY <1>6, <2>1, SettledKeeps
  <2>3. \A s \in Runs : runs'[s].status \in Ended => runs[s].status \in Ended \/ s = r
    BY <1>0, <1>6
  <2>4. QED
    BY <1>6, <2>2, <2>3, PendingKept
<1>7. ASSUME NEW r \in Runs, NEW n, NEW state \in {"committed", "abandoned"},
             Torn(r, n, state)
      PROVE  NoPendingAfterEnd'
  BY <1>7, SettledKeeps, PendingKept DEF Torn
<1>8. CASE EndStep
  BY ZenonT(40), <1>6, <1>7, <1>8 DEF EndStep, CommitTurn, FinishRun, TornCommit, TornFinish
<1>9. QED
  BY <1>1, <1>2, <1>3, <1>4, <1>5, <1>8, LeaseFrame, ToolFrame
     DEF Next, BeginStep, EventStep, AppendEvents, MessageStep, vars

\* No message of an ended run is left pending, crashes inside commit_turn and
\* _finish_run included.
THEOREM NothingLeftPending == Spec => []NoPendingAfterEnd
<1>1. Init => NoPendingAfterEnd
  BY DEF Init, NoPendingAfterEnd, NoRun
<1>2. Inv /\ NoPendingAfterEnd /\ [Next]_vars => NoPendingAfterEnd'
  BY PendingNext DEF Inv
<1>3. QED
  BY <1>1, <1>2, InvHolds, PTL DEF Spec

\* What a write adds, and what it leaves.
LEMMA WriteGives ==
  ASSUME TypeOK, NEW r \in Runs, NEW ids, WritePending(r, ids)
  PROVE  /\ \A n \in index' \ index :
              bodies'[n].id \in ids /\ bodies'[n].run = r /\ bodies'[n].state = "pending"
         /\ \A m, n \in index' \ index : bodies'[m].id = bodies'[n].id => m = n
<1>1. PICK pos \in Injection(ids, Slots) :
        /\ index' = index \cup Range(pos)
        /\ bodies' = [n \in Slots |->
                        IF \E m \in ids : pos[m] = n
                        THEN [id |-> CHOOSE m \in ids : pos[m] = n,
                              run |-> r, state |-> "pending"]
                        ELSE bodies[n]]
  BY DEF WritePending
<1>2. ASSUME NEW n \in index' \ index
      PROVE  /\ bodies'[n].id \in ids /\ pos[bodies'[n].id] = n
             /\ bodies'[n].run = r /\ bodies'[n].state = "pending"
  <2>1. n \in Slots /\ \E m \in ids : pos[m] = n
    BY <1>1 DEF Range, Injection
  <2> DEFINE id == CHOOSE m \in ids : pos[m] = n
  <2>2. id \in ids /\ pos[id] = n
    BY <2>1
  <2>3. bodies'[n] = [id |-> id, run |-> r, state |-> "pending"]
    BY <1>1, <2>1
  <2> HIDE DEF id
  <2>4. QED
    BY <2>2, <2>3
<1>3. \A m, n \in index' \ index : bodies'[m].id = bodies'[n].id => m = n
  BY <1>2
<1>4. QED
  BY <1>2, <1>3

LEMMA SettledGives ==
  ASSUME TypeOK, NEW r \in Runs, NEW places, NEW state, bodies' = Settled(r, places, state)
  PROVE  \A n \in index :
           /\ bodies'[n].id = bodies[n].id /\ bodies'[n].run = bodies[n].run
           /\ bodies'[n].state = IF n \in places /\ bodies[n].run = r
                                    /\ bodies[n].state = "pending"
                                 THEN state ELSE bodies[n].state
<1>1. ASSUME NEW n \in index
      PROVE  /\ bodies'[n].id = bodies[n].id /\ bodies'[n].run = bodies[n].run
             /\ bodies'[n].state = IF n \in places /\ bodies[n].run = r
                                      /\ bodies[n].state = "pending"
                                   THEN state ELSE bodies[n].state
  <2>0. n \in Slots /\ bodies[n] \in Body \cup {NoBody}
    BY DEF TypeOK
  <2>1. CASE n \in places \cap Pending(r)
    <3>1. bodies[n] \in Body
      BY <2>0, <2>1 DEF Pending, NoBody
    <3>2. bodies'[n] = [bodies[n] EXCEPT !.state = state]
      BY <2>0, <2>1 DEF Settled
    <3>3. /\ bodies'[n].id = bodies[n].id /\ bodies'[n].run = bodies[n].run
          /\ bodies'[n].state = state
      BY <3>1, <3>2
    <3>4. QED
      BY <3>3, <2>1 DEF Pending
  <2>2. CASE n \notin places \cap Pending(r)
    <3>1. bodies'[n] = bodies[n]
      BY <2>0, <2>2 DEF Settled
    <3>2. QED
      BY <2>2, <3>1 DEF Pending
  <2>3. QED
    BY <2>1, <2>2
<1>2. QED
  BY <1>1

\* What a step may do to the messages: nothing, write new ones for a run that
\* is active afterwards, or settle those of a run.
MessagesStand == UNCHANGED <<index, bodies>>
MessagesWritten(r, ids) == WritePending(r, ids) /\ runs'[r].status \in Active
MessagesSettled(r, places, state) ==
  bodies' = Settled(r, places, state) /\ UNCHANGED index

\* What it may do to the runs meanwhile.
RunsStand(r) == \A s \in Runs \ {r} : runs'[s].status = runs[s].status
RunOpens(r) ==
  /\ RunsStand(r)
  /\ runs[r].status \in {"absent"} \cup Active
  /\ runs'[r].status \in Active

\* All that may happen.
MessagesMove ==
  \/ MessagesStand /\ UNCHANGED runs
  \/ \E r \in Runs : MessagesStand /\ RunOpens(r)
  \/ \E r \in Runs, initial \in SUBSET InitialIds :
       MessagesWritten(r, initial) /\ RunOpens(r)
  \/ \E r \in Runs, ids \in SUBSET MessageIds :
       MessagesWritten(r, ids \ StoredIds) /\ RunOpens(r)
  \/ \E r \in Runs : /\ MessagesSettled(r, Slots, "committed") /\ RunsStand(r)
                     /\ runs[r].status \in Active /\ runs'[r].status = "completed"
  \/ \E r \in Runs : /\ MessagesSettled(r, Slots, "abandoned") /\ RunsStand(r)
                     /\ runs[r].status \in Active
                     /\ runs'[r].status \in {"failed", "cancelled"}
  \/ \E r \in Runs, n \in Slots, state \in {"committed", "abandoned"} :
       CanTear /\ MessagesSettled(r, 1..n, state) /\ UNCHANGED runs

LEMMA MessageSteps ==
  ASSUME TypeOK, [Next]_vars
  PROVE  MessagesMove
<1>0. runs \in RunsType
  BY DEF TypeOK
<1>1. CASE UNCHANGED <<runs, index, bodies>>
  BY <1>1 DEF MessagesStand, MessagesMove
<1>2. ASSUME NEW r \in Runs, NEW k \in Keys, KeyIsFree(r, k),
             runs' = [runs EXCEPT ![r] = [status |-> "running", key |-> k]]
      PROVE  RunOpens(r)
  BY <1>0, <1>2 DEF RunOpens, RunsStand, KeyIsFree
<1>3. ASSUME NEW r \in Runs, NEW k \in Keys, BeginRun(r, k)
      PROVE  MessagesMove
  BY <1>2, <1>3 DEF BeginRun, MessagesStand, MessagesMove
<1>4. ASSUME NEW r \in Runs, NEW k \in Keys, NEW h, NEW initial \in SUBSET InitialIds,
             BeginRunWithLease(r, k, h, initial)
      PROVE  MessagesMove
  <2>1. RunOpens(r)
    <3>1. CASE runs[r].status = "absent"
      BY <1>2, <1>4, <3>1 DEF BeginRunWithLease
    <3>2. CASE runs[r].status # "absent"
      BY <1>4, <3>2 DEF BeginRunWithLease, KeyIsFree, RunOpens, RunsStand
    <3>3. QED
      BY <3>1, <3>2
  <2>2. MessagesWritten(r, initial)
    BY <1>4, <2>1 DEF BeginRunWithLease, RunOpens, MessagesWritten
  <2>3. QED
    BY <2>1, <2>2 DEF MessagesMove
<1>5. ASSUME NEW r \in Runs, RequestCancel(r)
      PROVE  MessagesMove
  <2>1. RunOpens(r) /\ MessagesStand
    BY <1>0, <1>5 DEF RequestCancel, RunOpens, RunsStand, MessagesStand
  <2>2. QED
    BY <2>1 DEF MessagesMove
<1>6. ASSUME NEW r \in Runs, NEW t, NEW ids \in SUBSET MessageIds, AppendRunMessages(r, t, ids)
      PROVE  MessagesMove
  <2>1. MessagesWritten(r, ids \ StoredIds) /\ RunOpens(r)
    BY <1>6 DEF AppendRunMessages, MessagesWritten, RunOpens, RunsStand
  <2>2. QED
    BY <2>1 DEF MessagesMove
<1>7. ASSUME NEW r \in Runs, NEW t, NEW id, NEW n, NEW q, CommitTurn(r, t, id, n, q)
      PROVE  MessagesMove
  <2>1. /\ MessagesSettled(r, Slots, "committed") /\ RunsStand(r)
        /\ runs[r].status \in Active /\ runs'[r].status = "completed"
    BY <1>0, <1>7 DEF CommitTurn, MayCommit, MessagesSettled, RunsStand
  <2>2. QED
    BY <2>1 DEF MessagesMove
<1>8. ASSUME NEW r \in Runs, NEW t, NEW status \in {"failed", "cancelled"}, NEW q,
             FinishRun(r, t, status, q)
      PROVE  MessagesMove
  <2>1. /\ MessagesSettled(r, Slots, "abandoned") /\ RunsStand(r)
        /\ runs[r].status \in Active /\ runs'[r].status \in {"failed", "cancelled"}
    BY <1>0, <1>8 DEF FinishRun, MayFinish, MessagesSettled, RunsStand
  <2>2. QED
    BY <2>1 DEF MessagesMove
<1>9. ASSUME NEW r \in Runs, NEW n \in Slots, NEW state \in {"committed", "abandoned"},
             Torn(r, n, state)
      PROVE  MessagesMove
  <2>1. CanTear /\ MessagesSettled(r, 1..n, state) /\ UNCHANGED runs
    BY <1>9 DEF Torn, MessagesSettled
  <2>2. QED
    BY <2>1 DEF MessagesMove
<1>10. LeaseStep \/ EventStep \/ ToolStep => UNCHANGED <<runs, index, bodies>>
  BY LeaseFrame, ToolFrame DEF EventStep, AppendEvents
<1>11. CASE EndStep
  BY <1>7, <1>8, <1>9, <1>11 DEF EndStep, TornCommit, TornFinish
<1>12. CASE BeginStep
  BY <1>3, <1>4, <1>12 DEF BeginStep
<1>13. CASE MessageStep
  BY <1>6, <1>13 DEF MessageStep
<1>14. QED
  BY <1>1, <1>5, <1>10, <1>11, <1>12, <1>13 DEF Next, vars

\* A stored message is never overwritten and changes its state once, tears
\* included (append_run_messages, commit_turn, _finish_run).
THEOREM MessagesStayStored == Spec => MessagesAreKept
<1> DEFINE Kept ==
      \A n \in index :
        /\ n \in index'
        /\ bodies'[n].id = bodies[n].id /\ bodies'[n].run = bodies[n].run
        /\ bodies'[n].state # bodies[n].state => bodies[n].state = "pending"
<1>1. ASSUME Inv, [Next]_vars
      PROVE  Kept
  <2>0. TypeOK
    BY <1>1 DEF Inv
  <2>1. ASSUME NEW r \in Runs, NEW ids, WritePending(r, ids)
        PROVE  Kept
    BY <2>0, <2>1, WriteKeeps
  <2>2. ASSUME NEW r \in Runs, NEW places, NEW state, MessagesSettled(r, places, state)
        PROVE  Kept
    BY <2>0, <2>2, SettledGives DEF MessagesSettled
  <2>3. MessagesStand => Kept
    BY DEF MessagesStand
  <2> HIDE DEF Kept
  <2>4. QED
    BY <1>1, <2>0, <2>1, <2>2, <2>3, MessageSteps DEF MessagesWritten, MessagesMove
<1>2. QED
  BY <1>1, InvHolds, PTL DEF Spec, MessagesAreKept

\* A message's state says what became of its run, as long as no crash comes
\* between the message files and state.json.
Fits(state, status) ==
  /\ status # "absent"
  /\ state = "pending" <=> status \in Active
  /\ state = "committed" <=> status = "completed"

MessagesFit ==
  \A n \in index :
    bodies[n].run \in Runs /\ Fits(bodies[n].state, runs[bodies[n].run].status)

LEMMA FitNext ==
  ASSUME ~CanTear, TypeOK, MessagesFit, [Next]_vars
  PROVE  MessagesFit'
<1>0. /\ \A n \in index : /\ bodies[n].run \in Runs
                          /\ Fits(bodies[n].state, runs[bodies[n].run].status)
      /\ index \in SUBSET Slots
  BY DEF MessagesFit, TypeOK
<1>1. CASE MessagesStand /\ UNCHANGED runs
  BY <1>1 DEF MessagesStand, MessagesFit
<1>2. ASSUME NEW r \in Runs, RunOpens(r), NEW n \in index, bodies'[n] = bodies[n]
      PROVE  bodies'[n].run \in Runs /\ Fits(bodies'[n].state, runs'[bodies'[n].run].status)
  BY <1>0, <1>2 DEF Fits, RunOpens, RunsStand
<1>3. ASSUME NEW r \in Runs, MessagesStand, RunOpens(r)
      PROVE  MessagesFit'
  <2>1. UNCHANGED index /\ \A n \in index : bodies'[n] = bodies[n]
    BY <1>3 DEF MessagesStand
  <2>2. QED
    BY <1>2, <1>3, <2>1 DEF MessagesFit
<1>4. ASSUME NEW r \in Runs, NEW ids, MessagesWritten(r, ids), RunOpens(r)
      PROVE  MessagesFit'
  <2>1. ASSUME NEW n \in index'
        PROVE  bodies'[n].run \in Runs /\ Fits(bodies'[n].state, runs'[bodies'[n].run].status)
    <3>1. CASE n \in index
      BY <1>2, <1>4, <3>1, WriteKeeps DEF MessagesWritten
    <3>2. CASE n \notin index
      <4>1. bodies'[n].run = r /\ bodies'[n].state = "pending" /\ runs'[r].status \in Active
        BY <1>4, <2>1, <3>2, WriteGives DEF MessagesWritten
      <4>2. QED
        BY <4>1 DEF Fits
    <3>3. QED
      BY <3>1, <3>2
  <2>2. QED
    BY <2>1 DEF MessagesFit
<1>5. ASSUME NEW r \in Runs, NEW state \in {"committed", "abandoned"},
             MessagesSettled(r, Slots, state), RunsStand(r), runs[r].status \in Active,
             IF state = "committed" THEN runs'[r].status = "completed"
                                    ELSE runs'[r].status \in {"failed", "cancelled"}
      PROVE  MessagesFit'
  <2>1. ASSUME NEW n \in index
        PROVE  bodies'[n].run \in Runs /\ Fits(bodies'[n].state, runs'[bodies'[n].run].status)
    <3>1. /\ bodies'[n].run = bodies[n].run
          /\ bodies'[n].state = IF bodies[n].run = r /\ bodies[n].state = "pending"
                                THEN state ELSE bodies[n].state
      <4>1. n \in Slots
        BY <1>0
      <4>2. /\ bodies'[n].run = bodies[n].run
            /\ bodies'[n].state = IF n \in Slots /\ bodies[n].run = r
                                     /\ bodies[n].state = "pending"
                                  THEN state ELSE bodies[n].state
        BY <1>5, SettledGives DEF MessagesSettled
      <4>3. QED
        BY <4>1, <4>2
    <3>2. CASE bodies[n].run = r
      <4>1. bodies[n].state = "pending"
        BY <1>0, <1>5, <3>2 DEF Fits
      <4>2. bodies'[n].run = r /\ bodies'[n].state = state
        BY <3>1, <3>2, <4>1
      <4>3. Fits(state, runs'[r].status)
        <5>1. CASE state = "committed"
          BY <1>5, <5>1 DEF Fits
        <5>2. CASE state = "abandoned"
          BY <1>5, <5>2 DEF Fits
        <5>3. QED
          BY <5>1, <5>2
      <4>4. QED
        BY <4>2, <4>3
    <3>3. CASE bodies[n].run # r
      BY <1>0, <1>5, <3>1, <3>3 DEF RunsStand
    <3>4. QED
      BY <3>2, <3>3
  <2>2. QED
    BY <1>5, <2>1 DEF MessagesFit, MessagesSettled
<1>6. QED
  BY <1>1, <1>3, <1>4, <1>5, MessageSteps DEF MessagesMove

\* The history is exactly what the completed runs wrote (load_history,
\* commit_turn).
THEOREM HistoryIsWhatCompleted ==
  ASSUME ~CanTear
  PROVE  Spec => []HistoryIsCompletedRuns
<1>1. Init => MessagesFit
  BY DEF Init, MessagesFit
<1>2. Inv /\ MessagesFit /\ [Next]_vars => MessagesFit'
  BY FitNext DEF Inv
<1>3. MessagesFit => HistoryIsCompletedRuns
  BY DEF MessagesFit, Fits, HistoryIsCompletedRuns
<1>4. QED
  BY <1>1, <1>2, <1>3, InvHolds, PTL DEF Spec

LEMMA OnceNext ==
  ASSUME InitialIds = {}, TypeOK, AppendedOnce, [Next]_vars
  PROVE  AppendedOnce'
<1>1. CASE MessagesStand
  BY <1>1 DEF MessagesStand, AppendedOnce
<1>2. ASSUME NEW r \in Runs, NEW places, NEW state, MessagesSettled(r, places, state)
      PROVE  AppendedOnce'
  BY <1>2, SettledGives DEF MessagesSettled, AppendedOnce
<1>3. ASSUME NEW r \in Runs, NEW ids, ids \cap StoredIds = {}, WritePending(r, ids)
      PROVE  AppendedOnce'
  <2>1. \A n \in index : bodies'[n].id = bodies[n].id /\ bodies[n].id \in StoredIds
    BY <1>3, WriteKeeps DEF StoredIds
  <2>2. /\ \A n \in index' \ index : bodies'[n].id \notin StoredIds
        /\ \A m, n \in index' \ index : bodies'[m].id = bodies'[n].id => m = n
    BY <1>3, WriteGives
  <2>3. QED
    BY <2>1, <2>2 DEF AppendedOnce
<1>4. ASSUME NEW r \in Runs, NEW initial \in SUBSET InitialIds, MessagesWritten(r, initial)
      PROVE  AppendedOnce'
  <2>1. initial \cap StoredIds = {}
    OBVIOUS
  <2>2. QED
    BY <1>3, <1>4, <2>1 DEF MessagesWritten
<1>5. ASSUME NEW r \in Runs, NEW ids, MessagesWritten(r, ids \ StoredIds)
      PROVE  AppendedOnce'
  <2>1. (ids \ StoredIds) \cap StoredIds = {}
    OBVIOUS
  <2>2. QED
    BY <1>3, <1>5, <2>1 DEF MessagesWritten
<1>6. QED
  BY <1>1, <1>2, <1>4, <1>5, MessageSteps DEF MessagesMove

\* A message appended twice is stored once, when no run begins with messages of
\* its own, which are written without a look at their ids (append_run_messages,
\* begin_run_with_lease).
THEOREM EachIsAppendedOnce ==
  ASSUME InitialIds = {}
  PROVE  Spec => []AppendedOnce
<1>1. Init => AppendedOnce
  BY DEF Init, AppendedOnce
<1>2. Inv /\ AppendedOnce /\ [Next]_vars => AppendedOnce'
  BY OnceNext DEF Inv
<1>3. QED
  BY <1>1, <1>2, InvHolds, PTL DEF Spec

-----------------------------------------------------------------------------
(* Tool calls. *)

\* A mutation nobody has started was handed to nobody; one that runs was handed
\* out under the token in its record and no other.
DispatchInv ==
  \A r \in Runs, c \in Mutations :
    /\ tools[<<r, c>>].state = "absent" => dispatched[<<r, c>>] = {}
    /\ tools[<<r, c>>].state = "running" => dispatched[<<r, c>>] = {tools[<<r, c>>].token}
    /\ \A t, u \in dispatched[<<r, c>>] : t = u

LEMMA DispatchNext ==
  ASSUME TypeOK, DispatchInv, [Next]_vars
  PROVE  DispatchInv'
<1>0. /\ dispatched \in [Runs \X Calls -> SUBSET Tokens]
      /\ tools \in [Runs \X Calls ->
                     [state: {"absent", "running", "succeeded", "failed", "unknown"},
                      token: 0..MaxToken]]
      /\ Mutations \subseteq Calls
  BY Subsets DEF TypeOK
<1>1. CASE UNCHANGED <<tools, dispatched>>
  BY <1>1 DEF DispatchInv
<1>2. ASSUME NEW r \in Runs, NEW t \in 1..leaseCounter, NEW c \in Calls,
             StartRunTool(r, t, c)
      PROVE  DispatchInv'
  <2> SUFFICES ASSUME NEW s \in Runs, NEW d \in Mutations
               PROVE  /\ tools'[<<s, d>>].state = "absent" => dispatched'[<<s, d>>] = {}
                      /\ tools'[<<s, d>>].state = "running" =>
                           dispatched'[<<s, d>>] = {tools'[<<s, d>>].token}
                      /\ \A v, u \in dispatched'[<<s, d>>] : v = u
    BY DEF DispatchInv
  <2>0. /\ <<s, d>> \in Runs \X Calls
        /\ tools[<<s, d>>].state = "absent" => dispatched[<<s, d>>] = {}
        /\ tools[<<s, d>>].state = "running" => dispatched[<<s, d>>] = {tools[<<s, d>>].token}
        /\ \A v, u \in dispatched[<<s, d>>] : v = u
    BY <1>0 DEF DispatchInv
  <2>1. CASE s # r \/ d # c
    <3>1. <<s, d>> # <<r, c>>
      BY <2>1
    <3>2. tools'[<<s, d>>] = tools[<<s, d>>] /\ dispatched'[<<s, d>>] = dispatched[<<s, d>>]
      BY <1>0, <1>2, <2>0, <3>1 DEF StartRunTool
    <3>3. QED
      BY <2>0, <3>2
  <2>2. CASE s = r /\ d = c
    <3>1. CASE tools[<<r, c>>].state = "running" /\ tools[<<r, c>>].token # t
      <4>1. tools'[<<s, d>>].state = "unknown" /\ dispatched'[<<s, d>>] = dispatched[<<s, d>>]
        BY <1>0, <1>2, <2>0, <2>2, <3>1 DEF StartRunTool
      <4>2. QED
        BY <2>0, <4>1
    <3>2. CASE ~(tools[<<r, c>>].state = "running" /\ tools[<<r, c>>].token # t)
      <4>1. /\ tools'[<<s, d>>] = [state |-> "running", token |-> t]
            /\ dispatched'[<<s, d>>] = dispatched[<<s, d>>] \cup {t}
        BY <1>0, <1>2, <2>0, <2>2, <3>2 DEF StartRunTool
      <4>2. dispatched[<<s, d>>] \subseteq {t}
        BY <1>2, <2>0, <2>2, <3>2 DEF StartRunTool
      <4>3. QED
        BY <4>1, <4>2
    <3>3. QED
      BY <3>1, <3>2
  <2>3. QED
    BY <2>1, <2>2
<1>3. ASSUME NEW r \in Runs, NEW t, NEW c \in Calls, NEW state \in {"succeeded", "failed"},
             FinishRunTool(r, t, c, state)
      PROVE  DispatchInv'
  BY ZenonT(40), <1>0, <1>3 DEF FinishRunTool, DispatchInv
<1>4. QED
  BY ZenonT(40), <1>1, <1>2, <1>3, LeaseFrame, MessageFrame, TornFrame
     DEF Next, BeginStep, BeginRun, BeginRunWithLease, RequestCancel, EventStep,
         AppendEvents, EndStep, CommitTurn, FinishRun, TornCommit, TornFinish,
         ToolStep, vars

\* After a takeover nobody is told to run a mutation again (start_run_tool).
THEOREM MutationsRunOnce == Spec => []MutationDispatchedOnce
<1>1. Init => DispatchInv
  BY Subsets DEF Init, DispatchInv, NoCall
<1>2. Inv /\ DispatchInv /\ [Next]_vars => DispatchInv'
  BY DispatchNext DEF Inv
<1>3. DispatchInv => MutationDispatchedOnce
  BY DEF DispatchInv, MutationDispatchedOnce
<1>4. QED
  BY <1>1, <1>2, <1>3, InvHolds, PTL DEF Spec
=============================================================================
