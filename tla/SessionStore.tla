------------------------------ MODULE SessionStore ------------------------------
(***************************************************************************)
(* The durable record of one agent session, as FileSessionStore keeps it   *)
(* in state.json and in the message files beside it                        *)
(* (src/dojoagents/sessions/stores/file.py).                               *)
(*                                                                         *)
(* Every store call is one transaction: it takes the file lock, reads      *)
(* state.json, runs its body and writes state.json back, unless the body   *)
(* raised, in which case state.json stays as it was.  So a call is one     *)
(* action, and a refused call is a step that does not happen.  Message     *)
(* bodies are the exception: they are files of their own, written before   *)
(* state.json, and a crash between the two writes keeps them (Torn...).    *)
(*                                                                         *)
(* The callers are as general as the API lets them be: any caller that was *)
(* ever granted a lease may come back with it at any time, for any run.    *)
(* What the agent's own caller does with the store is RunCoordinator.      *)
(*                                                                         *)
(* Abstractions: one session (every table is keyed by the session); wall   *)
(* clock instants become the time left (lease.left = expires_at - now,     *)
(* cut off at 0, Tick is the passing of one unit); a lease id is drawn     *)
(* afresh with every fencing token, so the token stands for both; contents *)
(* are model values.  Usage and context-usage rows, the session's          *)
(* metadata, checkpoints and objects are other tables and not here.        *)
(***************************************************************************)
EXTENDS Integers, Functions

CONSTANTS
  Runs,           \* run ids
  Keys,           \* idempotency keys of runs
  Holders,        \* holder ids of leases
  NoHolder,       \* the holder of no lease
  NoKey,          \* the key of a run that does not exist
  Payloads,       \* contents of ordinary events
  TurnIds,        \* turn ids
  MessageIds,     \* message ids, each standing for one role and content
  InitialIds,     \* the messages callers pass to begin_run_with_lease
  Calls,          \* tool call ids
  Mutations,      \* the calls that were declared mutations
  LeaseSeconds,   \* lease length a caller asks for
  MinExtension,   \* floor of an extension (60 s in _lease_duration_seconds)
  MaxToken,       \* bound: fencing tokens that can be granted
  MaxSeq,         \* bound: event sequence numbers
  MaxTurn,        \* bound: turn sequence numbers
  MaxMessages,    \* bound: message sequence numbers
  CanTear         \* whether a crash may hit between the message files and state.json

ASSUME NatBounds ==
  /\ LeaseSeconds \in Nat \ {0}
  /\ {MinExtension, MaxToken, MaxSeq, MaxTurn, MaxMessages} \subseteq Nat
ASSUME Subsets == Mutations \subseteq Calls /\ InitialIds \subseteq MessageIds
ASSUME Distinct == NoHolder \notin Holders /\ NoKey \notin Keys
ASSUME EventBodies == {"done", "error"} \cap Payloads = {}
ASSUME TearSwitch == CanTear \in BOOLEAN

VARIABLES
  lease,          \* leases[session]: the current lease, NoLease once popped
  leaseCounter,   \* lease_counters[session]: the last fencing token granted
  granted,        \* the holder each token was granted to (what callers keep)
  runs,           \* runs: status and idempotency key
  events,         \* events[run]
  turns,          \* turns[session]
  index,          \* message_index[session]: the sequence numbers that exist
  bodies,         \* message_<n>.json, for the indexed n
  tools,          \* run_tools: the record of each call
  dispatched      \* the tokens start_run_tool answered "running" to, per call

leaseVars == <<lease, leaseCounter, granted>>
messageVars == <<index, bodies>>
toolVars == <<tools, dispatched>>
vars == <<leaseVars, runs, events, turns, messageVars, toolVars>>

Tokens == 1..MaxToken
Slots == 1..MaxMessages
Active == {"running", "cancellation_requested"}
Ended == {"completed", "failed", "cancelled"}

NoLease == [token |-> 0, holder |-> NoHolder, left |-> 0, term |-> 0]
NoRun == [status |-> "absent", key |-> NoKey]
NoBody == [id |-> "none", run |-> "none", state |-> "none"]
NoCall == [state |-> "absent", token |-> 0]

Event == [seq: 1..MaxSeq, body: Payloads \cup {"done", "error"}, token: Tokens]
Turn == [id: TurnIds, seq: 1..MaxTurn, run: Runs]
Body == [id: MessageIds, run: Runs, state: {"pending", "committed", "abandoned"}]

TypeOK ==
  /\ lease \in [token: 0..MaxToken, holder: Holders \cup {NoHolder},
                left: Nat, term: Nat]
  /\ leaseCounter \in 0..MaxToken
  /\ granted \in [Tokens -> Holders \cup {NoHolder}]
  /\ runs \in [Runs -> [status: {"absent"} \cup Active \cup Ended,
                        key: Keys \cup {NoKey}]]
  /\ events \in [Runs -> SUBSET Event]
  /\ turns \in SUBSET Turn
  /\ index \in SUBSET Slots
  /\ bodies \in [Slots -> Body \cup {NoBody}]
  /\ tools \in [Runs \X Calls ->
                 [state: {"absent", "running", "succeeded", "failed", "unknown"},
                  token: 0..MaxToken]]
  /\ dispatched \in [Runs \X Calls -> SUBSET Tokens]

Init ==
  /\ lease = NoLease
  /\ leaseCounter = 0
  /\ granted = [t \in Tokens |-> NoHolder]
  /\ runs = [r \in Runs |-> NoRun]
  /\ events = [r \in Runs |-> {}]
  /\ turns = {}
  /\ index = {}
  /\ bodies = [n \in Slots |-> NoBody]
  /\ tools = [c \in Runs \X Calls |-> NoCall]
  /\ dispatched = [c \in Runs \X Calls |-> {}]

-----------------------------------------------------------------------------
(* Leases. *)

Live == lease.token # 0 /\ lease.left > 0

ValidLease_AnyToken(t) == lease.left > 0

\* _validate_lease: the caller's token is the current one and has not expired.
ValidLease(t) == lease.token = t /\ lease.left > 0

\* _matched_lease: the same, whether or not it has expired.
MatchedLease(t) == lease.token = t /\ lease.holder = granted[t]

\* _extend_lease: as long again as the last term, and at least MinExtension.
Extended(l) ==
  LET term == IF l.term >= MinExtension THEN l.term ELSE MinExtension
  IN  [l EXCEPT !.left = term, !.term = term]

GrantLease_AnyHolder(h) ==
  /\ leaseCounter < MaxToken
  /\ leaseCounter' = leaseCounter + 1
  /\ lease' = [token |-> leaseCounter + 1, holder |-> h,
               left |-> LeaseSeconds, term |-> LeaseSeconds]
  /\ granted' = [granted EXCEPT ![leaseCounter + 1] = h]

\* The lease part of begin_run_with_lease and acquire_lease: a live lease is
\* prolonged for its own holder and refused to others, a missing or expired
\* one is replaced under the next fencing token.
GrantLease(h) ==
  \/ /\ Live
     /\ lease.holder = h
     /\ lease' = [lease EXCEPT !.left = LeaseSeconds, !.term = LeaseSeconds]
     /\ UNCHANGED <<leaseCounter, granted>>
  \/ /\ ~Live
     /\ leaseCounter < MaxToken
     /\ leaseCounter' = leaseCounter + 1
     /\ lease' = [token |-> leaseCounter + 1, holder |-> h,
                  left |-> LeaseSeconds, term |-> LeaseSeconds]
     /\ granted' = [granted EXCEPT ![leaseCounter + 1] = h]

AcquireLease(h) ==
  /\ GrantLease(h)
  /\ UNCHANGED <<runs, events, turns, messageVars, toolVars>>

\* renew_lease checks identity and holder but not expiry.
RenewLease(t) ==
  /\ MatchedLease(t)
  /\ lease' = Extended(lease)
  /\ UNCHANGED <<leaseCounter, granted, runs, events, turns, messageVars, toolVars>>

ReleaseLease(t) ==
  /\ ValidLease(t)
  /\ lease' = NoLease
  /\ UNCHANGED <<leaseCounter, granted, runs, events, turns, messageVars, toolVars>>

Tick ==
  /\ lease.left > 0
  /\ lease' = [lease EXCEPT !.left = @ - 1]
  /\ UNCHANGED <<leaseCounter, granted, runs, events, turns, messageVars, toolVars>>

-----------------------------------------------------------------------------
(* Messages. *)

Pending(r) == {n \in index : bodies[n].run = r /\ bodies[n].state = "pending"}

\* places are the sequence numbers that follow the last one in the index.
Follow_FromLast(places) ==
  \A n \in places : /\ \A m \in index : m <= n
                    /\ \A m \in 1 .. n : m \in places \/ \E k \in index : m <= k

Follow(places) ==
  \A n \in places : /\ \A m \in index : m < n
                    /\ \A m \in 1 .. n : m \in places \/ \E k \in index : m <= k

\* The messages ids, in any order, written there as pending messages of run r.
WritePending(r, ids) ==
  \E pos \in Injection(ids, Slots) :
    /\ Follow(Range(pos))
    /\ index' = index \cup Range(pos)
    /\ bodies' = [n \in Slots |->
                    IF \E m \in ids : pos[m] = n
                    THEN [id |-> CHOOSE m \in ids : pos[m] = n,
                          run |-> r, state |-> "pending"]
                    ELSE bodies[n]]

Settled_EveryRun(r, places, state) ==
  [n \in Slots |-> IF n \in places \cap index /\ bodies[n].state = "pending"
                   THEN [bodies[n] EXCEPT !.state = state]
                   ELSE bodies[n]]

Settled_Nothing(r, places, state) == bodies

\* The pending messages of r among places change to state.
Settled(r, places, state) ==
  [n \in Slots |-> IF n \in places \cap Pending(r)
                   THEN [bodies[n] EXCEPT !.state = state]
                   ELSE bodies[n]]

StoredIds_None == {}

\* Messages already in the index, by id: append_run_messages skips them.
StoredIds == {bodies[n].id : n \in index}

AppendRunMessages(r, t, ids) ==
  /\ ValidLease(t)
  /\ runs[r].status = "running"
  /\ WritePending(r, ids \ StoredIds)
  /\ UNCHANGED <<leaseVars, runs, events, turns, toolVars>>

-----------------------------------------------------------------------------
(* Runs and events. *)

KeyIsFree_RunOnly(r, k) == runs[r].status = "absent"

\* Neither the run nor another run under the key exists.
KeyIsFree(r, k) ==
  /\ runs[r].status = "absent"
  /\ \A s \in Runs : runs[s].key # k

\* begin_run_with_lease: a new run under a key no run of the session has, or
\* the run that has the key, as long as it has not ended.  The initial
\* messages are written each time, without looking at their ids.
BeginRunWithLease(r, k, h, initial) ==
  /\ \/ KeyIsFree(r, k)
     \/ runs[r].key = k /\ runs[r].status \in Active
  /\ GrantLease(h)
  /\ runs' = IF runs[r].status = "absent"
             THEN [runs EXCEPT ![r] = [status |-> "running", key |-> k]]
             ELSE runs
  /\ WritePending(r, initial)
  /\ UNCHANGED <<events, turns, toolVars>>

\* begin_run: the run alone; a run that has the key is returned as it is.
BeginRun(r, k) ==
  /\ KeyIsFree(r, k)
  /\ runs' = [runs EXCEPT ![r] = [status |-> "running", key |-> k]]
  /\ UNCHANGED <<leaseVars, events, turns, messageVars, toolVars>>

RequestCancel_OtherName(r) ==
  /\ runs[r].status = "running"
  /\ runs' = [runs EXCEPT ![r].status = "cancelling"]
  /\ UNCHANGED <<leaseVars, events, turns, messageVars, toolVars>>

RequestCancel(r) ==
  /\ runs[r].status = "running"
  /\ runs' = [runs EXCEPT ![r].status = "cancellation_requested"]
  /\ UNCHANGED <<leaseVars, events, turns, messageVars, toolVars>>

\* A stored event under the same sequence number is the same event.
NoClash(new, stored) ==
  \A e \in new, f \in new \cup stored : e.seq = f.seq => e = f

\* append_events: the current token writes even after its lease has expired,
\* and revives the lease by doing so.  An event that is stored already is
\* skipped, a different one under the same sequence number refuses the batch.
AppendEvents(r, t, batch) ==
  LET new == {[seq |-> b.seq, body |-> b.body, token |-> t] : b \in batch}
  IN  /\ runs[r].status # "absent"
      /\ lease.token = t
      /\ NoClash(new, events[r])
      /\ events' = [events EXCEPT ![r] = @ \cup new]
      /\ lease' = IF lease.left > 0 THEN lease ELSE Extended(lease)
      /\ UNCHANGED <<leaseCounter, granted, runs, turns, messageVars, toolVars>>

MayCommit_AnyStatus(r, t, id, n) ==
  /\ ValidLease(t)
  /\ runs[r].status # "absent"
  /\ \A u \in turns : u.id # id /\ u.seq # n

MayCommit_WhileCancelling(r, t, id, n) ==
  /\ ValidLease(t)
  /\ runs[r].status \in Active
  /\ \A u \in turns : u.id # id /\ u.seq # n

MayCommit_AnyTurn(r, t, id, n) == ValidLease(t) /\ runs[r].status = "running"

\* What commit_turn asks for before it starts to write; a turn id that is
\* stored already returns the stored turn and writes nothing.
MayCommit(r, t, id, n) ==
  /\ ValidLease(t)
  /\ runs[r].status = "running"
  /\ \A u \in turns : u.id # id /\ u.seq # n

\* q is the sequence number of the terminal event: the caller's, or, when it
\* passes none, one more than the last, which is among the numbers q may be.
\* (Messages passed along, which only an import does, are left out.)
CommitTurn(r, t, id, n, q) ==
  LET done == [seq |-> q, body |-> "done", token |-> t]
  IN  /\ MayCommit(r, t, id, n)
      /\ NoClash({done}, events[r])
      /\ turns' = turns \cup {[id |-> id, seq |-> n, run |-> r]}
      /\ bodies' = Settled(r, Slots, "committed")
      /\ events' = [events EXCEPT ![r] = @ \cup {done}]
      /\ runs' = [runs EXCEPT ![r].status = "completed"]
      /\ lease' = NoLease
      /\ UNCHANGED <<leaseCounter, granted, index, toolVars>>

\* What _finish_run asks for; a run that has the status already is returned.
MayFinish(r, t) == ValidLease(t) /\ runs[r].status \in Active

\* _finish_run: fail_run and cancel_run.  The terminal event is left out when
\* another event has its sequence number.
FinishRun(r, t, status, q) ==
  /\ MayFinish(r, t)
  /\ runs' = [runs EXCEPT ![r].status = status]
  /\ events' = IF \E e \in events[r] : e.seq = q
               THEN events
               ELSE [events EXCEPT ![r] =
                       @ \cup {[seq |-> q, body |-> "error", token |-> t]}]
  /\ bodies' = Settled(r, Slots, "abandoned")
  /\ lease' = NoLease
  /\ UNCHANGED <<leaseCounter, granted, turns, index, toolVars>>

\* A crash, or an error raised late in the transaction, after commit_turn or
\* _finish_run has rewritten the message files up to n and before state.json
\* is replaced.
Torn(r, n, state) ==
  /\ CanTear
  /\ n \in Pending(r)
  /\ bodies' = Settled(r, 1..n, state)
  /\ UNCHANGED <<leaseVars, runs, events, turns, index, toolVars>>

TornCommit(r, t, id, k, n) == MayCommit(r, t, id, k) /\ Torn(r, n, "committed")

TornFinish(r, t, n) == MayFinish(r, t) /\ Torn(r, n, "abandoned")

-----------------------------------------------------------------------------
(* Tool calls. *)

StartRunTool_Again(r, t, c) ==
  /\ ValidLease(t)
  /\ runs[r].status # "absent"
  /\ tools[<<r, c>>].state \in {"absent", "running"}
  /\ tools' = [tools EXCEPT ![<<r, c>>] = [state |-> "running", token |-> t]]
  /\ dispatched' = [dispatched EXCEPT ![<<r, c>>] = @ \cup {t}]
  /\ UNCHANGED <<leaseVars, runs, events, turns, messageVars>>

\* start_run_tool: a call that ended, or whose outcome is unknown, is answered
\* from its record; a mutation found running under another token becomes
\* unknown; anything else is answered "running", and the caller executes it.
StartRunTool(r, t, c) ==
  LET old == tools[<<r, c>>]
      lost == old.state = "running" /\ c \in Mutations /\ old.token # t
  IN  /\ ValidLease(t)
      /\ runs[r].status # "absent"
      /\ old.state \in {"absent", "running"}
      /\ tools' = [tools EXCEPT ![<<r, c>>] =
                     [state |-> IF lost THEN "unknown" ELSE "running", token |-> t]]
      /\ dispatched' = IF lost THEN dispatched
                       ELSE [dispatched EXCEPT ![<<r, c>>] = @ \cup {t}]
      /\ UNCHANGED <<leaseVars, runs, events, turns, messageVars>>

FinishRunTool(r, t, c, state) ==
  /\ ValidLease(t)
  /\ runs[r].status # "absent"
  /\ tools[<<r, c>>].state = "running"
  /\ tools' = [tools EXCEPT ![<<r, c>>].state = state]
  /\ UNCHANGED <<leaseVars, runs, events, turns, messageVars, dispatched>>

-----------------------------------------------------------------------------
LeaseStep ==
  \/ \E h \in Holders : AcquireLease(h)
  \/ \E t \in 1..leaseCounter : RenewLease(t) \/ ReleaseLease(t)
  \/ Tick

BeginStep ==
  \E r \in Runs, k \in Keys :
    \/ BeginRun(r, k)
    \/ \E h \in Holders, initial \in SUBSET InitialIds :
         BeginRunWithLease(r, k, h, initial)

EventStep ==
  \E r \in Runs, t \in 1..leaseCounter :
    \E batch \in SUBSET [seq: 1..MaxSeq, body: Payloads] :
      batch # {} /\ AppendEvents(r, t, batch)

MessageStep ==
  \E r \in Runs, t \in 1..leaseCounter, ids \in SUBSET MessageIds :
    AppendRunMessages(r, t, ids)

EndStep ==
  \E r \in Runs, t \in 1..leaseCounter :
    \/ \E id \in TurnIds, n \in 1..MaxTurn, q \in 1..MaxSeq : CommitTurn(r, t, id, n, q)
    \/ \E status \in {"failed", "cancelled"}, q \in 1..MaxSeq : FinishRun(r, t, status, q)
    \/ \E id \in TurnIds, k \in 1..MaxTurn, n \in Slots : TornCommit(r, t, id, k, n)
    \/ \E n \in Slots : TornFinish(r, t, n)

ToolStep ==
  \E r \in Runs, t \in 1..leaseCounter, c \in Calls :
    \/ StartRunTool(r, t, c)
    \/ \E state \in {"succeeded", "failed"} : FinishRunTool(r, t, c, state)

Next ==
  \/ LeaseStep
  \/ BeginStep
  \/ \E r \in Runs : RequestCancel(r)
  \/ EventStep
  \/ MessageStep
  \/ EndStep
  \/ ToolStep

Spec == Init /\ [][Next]_vars

-----------------------------------------------------------------------------
(* Properties. *)

\* What a step adds to a session's events carries the newest token ever
\* granted: a worker whose lease was taken over writes no event and commits
\* no turn, however late it comes back (_validate_lease, append_events).
FencedWrites ==
  [][\A r \in Runs : \A e \in events'[r] \ events[r] : e.token = leaseCounter]_vars

\* While a lease is live nobody else is granted one: the next token is given
\* out only after expiry, release or the end of the run (begin_run_with_lease,
\* acquire_lease).
LeaseIsExclusive ==
  [][Live /\ lease'.token # 0 => lease'.token = lease.token]_vars

\* A run moves along its status graph only: an ended run never changes again,
\* and a run asked to cancel is never completed (commit_turn, _finish_run,
\* request_cancel, begin_run_with_lease).
StatusGraph ==
  [][\A r \in Runs :
       \/ runs'[r].status = runs[r].status
       \/ runs[r].status = "absent" /\ runs'[r].status = "running"
       \/ runs[r].status = "running" /\ runs'[r].status \in Ended \cup Active
       \/ /\ runs[r].status = "cancellation_requested"
          /\ runs'[r].status \in {"failed", "cancelled"}]_vars

\* A completed run, and no other, has a turn and a done event, one of each
\* (commit_turn writes status, turn and event together).
CompletedRunHasOneTurn ==
  \A r \in Runs :
    IF runs[r].status = "completed"
    THEN /\ \E u \in turns : \A v \in turns : v.run = r <=> v = u
         /\ \E e \in events[r] : \A f \in events[r] : f.body = "done" <=> f = e
    ELSE /\ \A u \in turns : u.run # r
         /\ \A e \in events[r] : e.body # "done"

\* The uniqueness constraints of the store: event sequence numbers in a run,
\* turn ids and sequence numbers in a session.
UniqueSequences ==
  /\ \A r \in Runs : \A e, f \in events[r] : e.seq = f.seq => e = f
  /\ \A u, v \in turns : u.seq = v.seq \/ u.id = v.id => u = v

\* An idempotency key names at most one run of the session.
KeyNamesOneRun ==
  \A r, s \in Runs : runs[r].key = runs[s].key /\ runs[r].key # NoKey => r = s

\* What callers may use to find a run, a turn or an event again finds only one.
NamesAreUnique == UniqueSequences /\ KeyNamesOneRun

\* When a run has ended none of its messages is left pending: none was
\* forgotten by the end of the run and none arrives after it.
NoPendingAfterEnd == \A r \in Runs : runs[r].status \in Ended => Pending(r) = {}

\* The conversation (load_history shows the committed messages) is exactly
\* what the completed runs wrote.
HistoryIsCompletedRuns ==
  \A n \in index : bodies[n].state = "committed" <=>
                      runs[bodies[n].run].status = "completed"

\* A stored message is never overwritten by another and changes its state once:
\* two callers that each compute the next sequence number write two messages.
MessagesAreKept ==
  [][\A n \in index :
       /\ n \in index'
       /\ bodies'[n].id = bodies[n].id /\ bodies'[n].run = bodies[n].run
       /\ bodies'[n].state # bodies[n].state => bodies[n].state = "pending"]_vars

\* A message appended twice, by a retry or by the worker that took over, is
\* stored once (append_run_messages deduplicates by id).
AppendedOnce == \A m, n \in index : bodies[m].id = bodies[n].id => m = n

\* What docs/site/en/architecture/harness-agent-session-integration.md says of
\* leases: an expired worker writes no event.  append_events lets it, as long
\* as nobody has taken the session over.
ExpiredWorkerWritesNothing == [][events' # events => Live]_vars

\* What tests/sessions/test_run_recovery.py asserts of a run that has not
\* ended: none of its messages is in the history yet.  A crash between the
\* message files and state.json in commit_turn puts them there.
RunningRunIsNotHistory ==
  \A n \in index : runs[bodies[n].run].status = "running" => bodies[n].state # "committed"

\* A mutation is handed out for execution under one token only: after a
\* takeover nobody is told to run it again (start_run_tool).
MutationDispatchedOnce ==
  \A r \in Runs, c \in Mutations :
    \A t, u \in dispatched[<<r, c>>] : t = u

-----------------------------------------------------------------------------
(* What the store promises, without time, messages and tools. *)

Outcome(status) ==
  IF status = "absent" THEN "none" ELSE IF status \in Active THEN "open" ELSE status

Log == INSTANCE FencedLog WITH
  Entries <- Event,
  fence <- leaseCounter,
  holding <- lease.token,
  outcome <- [r \in Runs |-> Outcome(runs[r].status)],
  log <- events

\* The store implements the fenced log: whatever its callers do, entries are
\* added under the newest token only, each under its own number, and a run and
\* its terminal entry are written together (file.py as a whole).
ImplementsFencedLog == Log!Spec
=============================================================================
