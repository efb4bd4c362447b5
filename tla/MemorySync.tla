------------------------------ MODULE MemorySync ------------------------------
(***************************************************************************)
(* Long-term memory: after each commit the worker gives the turns that     *)
(* memory has not seen to the memory providers and advances a watermark,   *)
(* a versioned checkpoint of the session (SessionMemorySyncWorker,         *)
(* src/dojoagents/sessions/memory_sync.py; MemoryManager.sync_turn,        *)
(* src/dojoagents/memory/manager.py).                                      *)
(*                                                                         *)
(* The lease is gone by then, so the syncs of several turns may overlap,   *)
(* in one process or in several.  Each process has a MemoryManager, which  *)
(* remembers in memory what it has given; the providers are shared.  A     *)
(* sync may raise anywhere (its caller logs that and goes on), and a       *)
(* process may stop.                                                       *)
(*                                                                         *)
(* Turns are numbered from 1 without a gap (TurnsAreNumbered of            *)
(* RunCoordinator), so a number stands for the session's turns.            *)
(***************************************************************************)
EXTENDS Integers

CONSTANTS
  Syncers,        \* one call of sync_pending each
  Processes,      \* where they run
  Providers,      \* memory providers, 1..Providers in the order they are called
  MaxTurns,       \* turns of the session
  TurnPage        \* turns one query returns (10,000)

ASSUME SyncBounds == Providers \in Nat \ {0} /\ MaxTurns \in Nat /\ TurnPage \in Nat

VARIABLES
  stored,         \* turns committed
  checkpoint,     \* the watermark; version 0 if there is none
  given,          \* the turns each provider has
  synced,         \* _synced_turn_ids of each process
  sync            \* the calls of sync_pending

syncVars == <<stored, checkpoint, given, synced, sync>>

Turns == 1..MaxTurns
Syncing == {"committed", "marked", "turn", "giving", "given"}

SyncRecord ==
  [pc: {"idle", "done", "failed"} \cup Syncing,
   home: Processes,
   version: 0..MaxTurns,          \* checkpoint_version
   next: 1..MaxTurns + 1,         \* the turn it has come to
   last: 0..MaxTurns,             \* the last of its page
   provider: 1..Providers]        \* the provider it has come to

MemoryTypeOK ==
  /\ stored \in 0..MaxTurns
  /\ checkpoint \in [version: 0..MaxTurns, mark: 0..MaxTurns]
  /\ given \in [1..Providers -> SUBSET Turns]
  /\ synced \in [Processes -> SUBSET Turns]
  /\ sync \in [Syncers -> SyncRecord]

MemoryInit ==
  /\ stored = 0
  /\ checkpoint = [version |-> 0, mark |-> 0]
  /\ given = [p \in 1..Providers |-> {}]
  /\ synced = [h \in Processes |-> {}]
  /\ sync \in [Syncers -> [pc: {"idle"}, home: Processes, version: {0}, next: {1},
                           last: {0}, provider: {1}]]

\* A worker's commit, which its sync follows.
CommitThenSync(s) ==
  /\ sync[s].pc = "idle"
  /\ stored < MaxTurns
  /\ stored' = stored + 1
  /\ sync' = [sync EXCEPT ![s].pc = "committed"]
  /\ UNCHANGED <<checkpoint, given, synced>>

ReadMark(s) ==
  /\ sync[s].pc = "committed"
  /\ sync' = [sync EXCEPT ![s].pc = "marked", ![s].version = checkpoint.version,
                          ![s].next = checkpoint.mark + 1]
  /\ UNCHANGED <<stored, checkpoint, given, synced>>

\* The first page of the session's turns, whatever the watermark is.
ListTurns(s) ==
  /\ sync[s].pc = "marked"
  /\ sync' = [sync EXCEPT ![s].pc = "turn",
                          ![s].last = IF stored < TurnPage THEN stored ELSE TurnPage]
  /\ UNCHANGED <<stored, checkpoint, given, synced>>

\* A turn this process has given before is not given again.
NextTurn(s) ==
  /\ sync[s].pc = "turn"
  /\ sync' = [sync EXCEPT
       ![s].pc = IF sync[s].next > sync[s].last THEN "done"
                 ELSE IF sync[s].next \in synced[sync[s].home] THEN "given" ELSE "giving",
       ![s].provider = 1]
  /\ UNCHANGED <<stored, checkpoint, given, synced>>

\* One provider at a time; the turn is remembered once the last one has it.
GiveTurn(s) ==
  LET p == sync[s].provider
      h == sync[s].home
  IN  /\ sync[s].pc = "giving"
      /\ given' = [given EXCEPT ![p] = @ \cup {sync[s].next}]
      /\ IF p < Providers
         THEN /\ sync' = [sync EXCEPT ![s].provider = p + 1]
              /\ UNCHANGED synced
         ELSE /\ sync' = [sync EXCEPT ![s].pc = "given"]
              /\ synced' = [synced EXCEPT ![h] = @ \cup {sync[s].next}]
      /\ UNCHANGED <<stored, checkpoint>>

PutMark_Unversioned(s) ==
  /\ sync[s].pc = "given"
  /\ checkpoint' = [version |-> sync[s].version + 1, mark |-> sync[s].next]
  /\ sync' = [sync EXCEPT ![s].pc = "turn", ![s].version = @ + 1, ![s].next = @ + 1]
  /\ UNCHANGED <<stored, given, synced>>

\* put_checkpoint, with the version read or written last.
PutMark(s) ==
  /\ sync[s].pc = "given"
  /\ sync[s].version = checkpoint.version
  /\ checkpoint' = [version |-> sync[s].version + 1, mark |-> sync[s].next]
  /\ sync' = [sync EXCEPT ![s].pc = "turn", ![s].version = @ + 1, ![s].next = @ + 1]
  /\ UNCHANGED <<stored, given, synced>>

SyncFails_SkipsTheTurn(s) ==
  /\ sync[s].pc \in Syncing
  /\ sync' = IF sync[s].pc = "giving"
             THEN [sync EXCEPT ![s].pc = "given"]
             ELSE [sync EXCEPT ![s].pc = "failed"]
  /\ UNCHANGED <<stored, checkpoint, given, synced>>

\* A provider or a store call raises, a version conflict among them.
SyncFails(s) ==
  /\ sync[s].pc \in Syncing
  /\ sync' = [sync EXCEPT ![s].pc = "failed"]
  /\ UNCHANGED <<stored, checkpoint, given, synced>>

ProcessStops(h) ==
  /\ synced' = [synced EXCEPT ![h] = {}]
  /\ sync' = [s \in Syncers |->
       IF sync[s].home = h /\ sync[s].pc \in Syncing
       THEN [sync[s] EXCEPT !.pc = "failed"] ELSE sync[s]]
  /\ UNCHANGED <<stored, checkpoint, given>>

SyncStep(s) ==
  \/ CommitThenSync(s) \/ ReadMark(s) \/ ListTurns(s) \/ NextTurn(s)
  \/ GiveTurn(s) \/ PutMark(s) \/ SyncFails(s)

MemoryNext ==
  \/ \E s \in Syncers : SyncStep(s)
  \/ \E h \in Processes : ProcessStops(h)

MemorySpec == MemoryInit /\ [][MemoryNext]_syncVars

-----------------------------------------------------------------------------
(* Properties. *)

\* Every provider has the turns of the session from the first on without a gap,
\* and all of those the watermark says are synced: overlapping syncs, failures
\* and restarts may give a turn twice but never lose one below the watermark.
MemoryIsAPrefix ==
  \A p \in 1..Providers :
    /\ 1..checkpoint.mark \subseteq given[p]
    /\ \A n \in given[p] : n <= stored /\ 1..n \subseteq given[p]

\* A slow sync never takes the watermark back behind a faster one.
WatermarkGrows == [][checkpoint'.mark >= checkpoint.mark]_syncVars
=============================================================================
