---------------------------- MODULE ProcessRegistry ----------------------------
(***************************************************************************)
(* Background processes of the terminal tool: AsyncProcessRegistry         *)
(* (src/dojoagents/tools/process_registry.py).  Each process has a         *)
(* detached task, its reaper, that waits for its exit, announces it in a   *)
(* stream of limited size and takes it out of the registry.  Everything    *)
(* runs on one event loop; an action is what a task does between two       *)
(* awaits.  The stream is anyio's memory object stream (external): a       *)
(* sender that finds it full waits in line.                                *)
(***************************************************************************)
EXTENDS Naturals, Sequences

CONSTANTS
  Jobs,           \* one background process each
  StreamSize      \* completion events the stream holds (32)

ASSUME StreamBound == StreamSize \in Nat \ {0}

VARIABLES
  job,            \* where each process and its reaper stand
  wanted,         \* the processes with notify_on_complete
  processes,      \* the registry's table
  completions,    \* the stream's buffer
  senders,        \* reapers waiting for room in it
  received        \* history: the processes whose completion was received

registryVars == <<job, wanted, processes, completions, senders, received>>

RegistryInit ==
  /\ job = [p \in Jobs |-> "none"]
  /\ wanted = {}
  /\ processes = {}
  /\ completions = <<>>
  /\ senders = <<>>
  /\ received = {}

\* spawn; the tool sets notify_on_complete before its next await.
Spawn(p) ==
  /\ job[p] = "none"
  /\ job' = [job EXCEPT ![p] = "running"]
  /\ processes' = processes \cup {p}
  /\ wanted' \in {wanted, wanted \cup {p}}
  /\ UNCHANGED <<completions, senders, received>>

Exit(p) ==
  /\ job[p] = "running"
  /\ job' = [job EXCEPT ![p] = "exited"]
  /\ UNCHANGED <<wanted, processes, completions, senders, received>>

\* has_active_processes drops what has exited, ahead of its reaper.
PruneExited ==
  /\ processes' = {p \in processes : job[p] = "running"}
  /\ UNCHANGED <<job, wanted, completions, senders, received>>

Reap_LooksItUp(p) ==
  /\ job[p] = "exited"
  /\ IF p \in wanted \cap processes /\ Len(completions) = StreamSize
     THEN /\ job' = [job EXCEPT ![p] = "sending"]
          /\ senders' = Append(senders, p)
          /\ UNCHANGED <<processes, completions>>
     ELSE /\ job' = [job EXCEPT ![p] = "reaped"]
          /\ processes' = processes \ {p}
          /\ completions' = IF p \in wanted \cap processes THEN Append(completions, p) ELSE completions
          /\ UNCHANGED senders
  /\ UNCHANGED <<wanted, received>>

Reap_Overfull(p) ==
  /\ job[p] = "exited"
  /\ job' = [job EXCEPT ![p] = "reaped"]
  /\ processes' = processes \ {p}
  /\ completions' = IF p \in wanted THEN Append(completions, p) ELSE completions
  /\ UNCHANGED <<wanted, senders, received>>

\* The output is drained; the completion is announced or waits for room.
Reap(p) ==
  /\ job[p] = "exited"
  /\ IF p \in wanted /\ Len(completions) = StreamSize
     THEN /\ job' = [job EXCEPT ![p] = "sending"]
          /\ senders' = Append(senders, p)
          /\ UNCHANGED <<processes, completions>>
     ELSE /\ job' = [job EXCEPT ![p] = "reaped"]
          /\ processes' = processes \ {p}
          /\ completions' = IF p \in wanted THEN Append(completions, p) ELSE completions
          /\ UNCHANGED senders
  /\ UNCHANGED <<wanted, received>>

\* The reader of the stream takes the first event, and the first of the waiting
\* senders gets its place.
Receive(p) ==
  LET room == IF senders = <<>> THEN <<>> ELSE <<Head(senders)>>
  IN  /\ completions # <<>> /\ p = Head(completions)
      /\ received' = received \cup {p}
      /\ completions' = Tail(completions) \o room
      /\ senders' = IF senders = <<>> THEN senders ELSE Tail(senders)
      /\ job' = [q \in Jobs |-> IF <<q>> = room THEN "reaped" ELSE job[q]]
      /\ processes' = {q \in processes : <<q>> # room}
      /\ UNCHANGED wanted

RegistryStep == PruneExited \/ \E p \in Jobs : Spawn(p) \/ Exit(p) \/ Reap(p)

-----------------------------------------------------------------------------
(* Properties. *)

Announced == {completions[i] : i \in 1..Len(completions)}

\* A process that asked for it is announced once its reaper is done, though the
\* stream was full or a prune took it out of the table first, and only once.
ReapedMeansAnnounced ==
  /\ \A p \in wanted : job[p] = "reaped" => p \in Announced \cup received
  /\ \A p \in Announced : p \notin received /\ p \in wanted
  /\ \A i, j \in 1..Len(completions) : completions[i] = completions[j] => i = j
=============================================================================
