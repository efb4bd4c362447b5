----------------------------- MODULE GatewayRunner -----------------------------
(***************************************************************************)
(* One chat session of the gateway: GatewayRunner                          *)
(* (src/dojoagents/gateway/runner.py).  A message runs under the session's *)
(* lock; one that finds the lock taken is queued, and whoever has answered *)
(* a message takes the next one from the queue.  Webhooks, /queue and      *)
(* /reset come from the chat platform; the completion watcher turns the    *)
(* completion of a background process (ProcessRegistry) into a message.    *)
(*                                                                         *)
(* Everything runs on one event loop; an action is what a task does        *)
(* between two awaits.  The lock is anyio's (external): on release it goes *)
(* to the first that waits.  Starting and stopping the gateway and the     *)
(* other commands do not touch the queue, but for the platform's adapter,  *)
(* which may go and come back.                                             *)
(***************************************************************************)
EXTENDS ProcessRegistry

CONSTANTS
  Chats,          \* messages of the platform
  NoMessage

ASSUME ChatsAreNotJobs == Chats \cap Jobs = {} /\ NoMessage \notin Chats \cup Jobs

VARIABLES
  msg,            \* where each message stands
  pending,        \* _pending_events of the session
  holder,         \* the message that has the lock
  waiters,        \* those that wait for it, in line
  connected,      \* the platform has an adapter
  rank            \* history: the order in which messages were queued

gatewayVars == <<registryVars, msg, pending, holder, waiters, connected, rank>>

Messages == Chats \cup Jobs
InFlight == {"spawned", "waiting", "running", "replying"}
MessageStates == {"new", "queued", "handled", "broken", "dropped"} \cup InFlight

GatewayTypeOK ==
  /\ job \in [Jobs -> {"none", "running", "exited", "sending", "reaped"}]
  /\ completions \in Seq(Jobs) /\ Len(completions) <= StreamSize
  /\ senders \in Seq(Jobs)
  /\ wanted \cup processes \cup received \subseteq Jobs
  /\ msg \in [Messages -> MessageStates]
  /\ pending \in Seq(Messages)
  /\ holder \in Messages \cup {NoMessage}
  /\ waiters \in Seq(Messages)
  /\ connected \in BOOLEAN
  /\ rank \in [Messages -> Nat]

GatewayInit ==
  /\ RegistryInit
  /\ msg = [m \in Messages |-> "new"]
  /\ pending = <<>>
  /\ holder = NoMessage
  /\ waiters = <<>>
  /\ connected = TRUE
  /\ rank = [m \in Messages |-> 0]

Free == holder = NoMessage

Enqueue(m) ==
  /\ msg' = [msg EXCEPT ![m] = "queued"]
  /\ pending' = Append(pending, m)
  /\ rank' = [rank EXCEPT ![m] = 1 + CHOOSE n \in {rank[k] : k \in Messages} :
                                       \A k \in Messages : rank[k] <= n]
  /\ UNCHANGED <<holder, waiters>>

\* acquire, in a state where the other messages stand as given.
Acquire(m, others) ==
  IF Free
  THEN /\ msg' = [others EXCEPT ![m] = "running"]
       /\ holder' = m
       /\ UNCHANGED waiters
  ELSE /\ msg' = [others EXCEPT ![m] = "waiting"]
       /\ waiters' = Append(waiters, m)
       /\ UNCHANGED holder

Release(m, state) ==
  LET next == IF waiters = <<>> THEN NoMessage ELSE Head(waiters)
  IN  /\ holder' = next
      /\ waiters' = IF waiters = <<>> THEN waiters ELSE Tail(waiters)
      /\ msg' = [k \in Messages |-> IF k = m THEN state
                                    ELSE IF k = next THEN "running" ELSE msg[k]]

-----------------------------------------------------------------------------
(* Messages come in. *)

\* handle_webhook: no await between the look at the lock and what follows.
Webhook(m) ==
  /\ m \in Chats /\ msg[m] = "new" /\ connected
  /\ IF Free
     THEN Acquire(m, msg) /\ UNCHANGED <<pending, rank>>
     ELSE Enqueue(m)
  /\ UNCHANGED <<registryVars, connected>>

\* /queue, whether a message is being handled or not.
QueueCommand(m) ==
  /\ m \in Chats /\ msg[m] = "new" /\ connected
  /\ Enqueue(m)
  /\ UNCHANGED <<registryVars, connected>>

ResetCommand ==
  /\ connected /\ pending # <<>>
  /\ pending' = <<>>
  /\ msg' = [m \in Messages |-> IF msg[m] = "queued" THEN "dropped" ELSE msg[m]]
  /\ UNCHANGED <<registryVars, holder, waiters, connected, rank>>

\* _watch_completion_queue; without an adapter the completion is dropped.
WatcherTakes(p) ==
  /\ Receive(p)
  /\ IF ~connected
     THEN msg' = [msg EXCEPT ![p] = "dropped"] /\ UNCHANGED <<pending, holder, waiters, rank>>
     ELSE IF Free
     THEN msg' = [msg EXCEPT ![p] = "spawned"] /\ UNCHANGED <<pending, holder, waiters, rank>>
     ELSE Enqueue(p)
  /\ UNCHANGED connected

SpawnedRuns(m) ==
  /\ msg[m] = "spawned"
  /\ Acquire(m, msg)
  /\ UNCHANGED <<registryVars, pending, connected, rank>>

-----------------------------------------------------------------------------
(* _run_event. *)

Finish_KeepsTheLock(m) ==
  /\ msg[m] = "running"
  /\ msg' = [msg EXCEPT ![m] = "replying"]
  /\ UNCHANGED <<registryVars, pending, holder, waiters, connected, rank>>

\* The answer, or the apology for a failure, is sent; the lock is released.
Finish(m) ==
  /\ msg[m] = "running"
  /\ Release(m, "replying")
  /\ UNCHANGED <<registryVars, pending, connected, rank>>

\* A hook, the typing signal or the apology raises, or the task is cancelled.
RunBreaks(m) ==
  /\ msg[m] = "running"
  /\ Release(m, "broken")
  /\ UNCHANGED <<registryVars, pending, connected, rank>>

\* A hook of message:replied raises, or the task is cancelled.
ReplyBreaks(m) ==
  /\ msg[m] = "replying"
  /\ msg' = [msg EXCEPT ![m] = "broken"]
  /\ UNCHANGED <<registryVars, pending, holder, waiters, connected, rank>>

Drain_OfTheFirst(m) ==
  LET n == Head(pending)
      handled == [msg EXCEPT ![m] = "handled"]
  IN  /\ msg[m] = "replying"
      /\ IF pending = <<>> \/ rank[m] > 0
         THEN msg' = handled /\ UNCHANGED <<pending, holder, waiters>>
         ELSE /\ pending' = Tail(pending)
              /\ IF connected
                 THEN Acquire(n, handled)
                 ELSE msg' = [handled EXCEPT ![n] = "dropped"] /\ UNCHANGED <<holder, waiters>>
      /\ UNCHANGED <<registryVars, connected, rank>>

Drain_NewestFirst(m) ==
  LET n == pending[Len(pending)]
      handled == [msg EXCEPT ![m] = "handled"]
  IN  /\ msg[m] = "replying"
      /\ IF pending = <<>>
         THEN msg' = handled /\ UNCHANGED <<pending, holder, waiters>>
         ELSE /\ pending' = SubSeq(pending, 1, Len(pending) - 1)
              /\ IF connected
                 THEN Acquire(n, handled)
                 ELSE msg' = [handled EXCEPT ![n] = "dropped"] /\ UNCHANGED <<holder, waiters>>
      /\ UNCHANGED <<registryVars, connected, rank>>

\* _drain_pending, after the hooks of message:replied: the first of the queue is
\* run by the same task.  Without an adapter it is lost and the rest stays.
Drain(m) ==
  LET n == Head(pending)
      handled == [msg EXCEPT ![m] = "handled"]
  IN  /\ msg[m] = "replying"
      /\ IF pending = <<>>
         THEN msg' = handled /\ UNCHANGED <<pending, holder, waiters>>
         ELSE /\ pending' = Tail(pending)
              /\ IF connected
                 THEN Acquire(n, handled)
                 ELSE msg' = [handled EXCEPT ![n] = "dropped"] /\ UNCHANGED <<holder, waiters>>
      /\ UNCHANGED <<registryVars, connected, rank>>

AdapterComesOrGoes ==
  /\ connected' = ~connected
  /\ UNCHANGED <<registryVars, msg, pending, holder, waiters, rank>>

MessageComes ==
  \/ \E m \in Chats : Webhook(m) \/ QueueCommand(m)
  \/ \E p \in Jobs : WatcherTakes(p)
  \/ ResetCommand
EventStep(m) == SpawnedRuns(m) \/ Finish(m) \/ RunBreaks(m) \/ Drain(m) \/ ReplyBreaks(m)

GatewayNext ==
  \/ MessageComes
  \/ \E m \in Messages : EventStep(m)
  \/ AdapterComesOrGoes
  \/ RegistryStep /\ UNCHANGED <<msg, pending, holder, waiters, connected, rank>>

GatewaySpec == GatewayInit /\ [][GatewayNext]_gatewayVars

\* The event loop runs each task, and an agent's call returns or raises (its
\* tool calls time out, and it takes a limited number of steps).
GatewayFairness == \A m \in Messages : WF_gatewayVars(EventStep(m))

FairGatewaySpec == GatewaySpec /\ GatewayFairness

-----------------------------------------------------------------------------
(* Properties. *)

\* Queued messages that no task will come to.
Stranded == pending # <<>> /\ \A m \in Messages : msg[m] \notin InFlight

\* Messages are left in the queue of an idle session only by an error on the
\* way to the drain, by a drain without an adapter, or by /queue itself.
StrandedOnlyByFailure ==
  [][~Stranded /\ Stranded' =>
       \/ \E m \in Messages : msg[m] \in InFlight /\ msg'[m] = "broken"
       \/ ~connected
       \/ \A m \in Messages : msg[m] \notin InFlight]_gatewayVars

\* A queued message comes to its turn, or is reset, or is left as said above: no
\* message waits for a lock that its own task holds.
QueuedIsServed ==
  \A m \in Messages : msg[m] = "queued" ~> msg[m] # "queued" \/ Stranded

\* Queued messages start in the order in which they came, though several tasks
\* may be draining the queue at once.
QueuedStartInOrder ==
  \A m, n \in Messages :
    0 < rank[m] /\ rank[m] < rank[n] /\ msg[n] \in {"running", "replying", "handled"} =>
      msg[m] \notin {"queued", "waiting"}
=============================================================================
