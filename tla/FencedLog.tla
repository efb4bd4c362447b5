-------------------------------- MODULE FencedLog --------------------------------
(***************************************************************************)
(* What a session store promises to the workers of one session, without    *)
(* saying how long a lease lasts, where messages are kept or what callers  *)
(* have to show: a log per run, written under one fencing token at a time, *)
(* and closed together with the run it records.                            *)
(* SessionStore implements it (src/dojoagents/sessions/stores/file.py).    *)
(***************************************************************************)
EXTENDS Integers

CONSTANTS
  Runs,           \* run ids
  Entries         \* log entries: records with a sequence number, body and token

VARIABLES
  fence,          \* the last fencing token handed out
  holding,        \* the token that may write now, 0 if none
  outcome,        \* of each run: none, open, completed, failed or cancelled
  log             \* the set of entries of each run

logVars == <<fence, holding, outcome, log>>

Init ==
  /\ fence = 0
  /\ holding = 0
  /\ outcome = [r \in Runs |-> "none"]
  /\ log = [r \in Runs |-> {}]

Start(r) == outcome[r] = "none" /\ outcome' = [outcome EXCEPT ![r] = "open"]

\* A token is handed out once, and each new one outranks those before it.
Grant == fence' = fence + 1 /\ holding' = fence + 1

\* A run opens, a worker is granted a token, or both.
Begin ==
  /\ UNCHANGED outcome \/ \E r \in Runs : Start(r)
  /\ UNCHANGED <<fence, holding>> \/ Grant
  /\ UNCHANGED log

Drop == holding' = 0 /\ UNCHANGED <<fence, outcome, log>>

\* What the one writer can write: bodies say which kind of entry.
Writable(bodies) == {e \in Entries : e.token = fence /\ e.body \in bodies}
Ordinary == {e.body : e \in Entries} \ {"done", "error"}

\* Each entry has a sequence number of its own; one that is there already is kept.
Write(r, new) ==
  /\ holding # 0
  /\ outcome[r] # "none"
  /\ \A e \in new, f \in new \cup log[r] : e.seq = f.seq => e = f
  /\ log' = [log EXCEPT ![r] = @ \cup new]

Append(r) ==
  /\ \E new \in SUBSET Writable(Ordinary) : Write(r, new)
  /\ UNCHANGED <<fence, holding, outcome>>

\* The run, its terminal entry and the writer's token go together.  The entry
\* of a run that did not complete may be missing.
Close(r, status) ==
  /\ holding # 0
  /\ outcome[r] = "open"
  /\ outcome' = [outcome EXCEPT ![r] = status]
  /\ holding' = 0
  /\ UNCHANGED fence
  /\ \/ \E e \in Writable({IF status = "completed" THEN "done" ELSE "error"}) :
          Write(r, {e})
     \/ status # "completed" /\ UNCHANGED log

Next ==
  \/ Begin
  \/ Drop
  \/ \E r \in Runs :
       \/ Append(r)
       \/ \E status \in {"completed", "failed", "cancelled"} : Close(r, status)

Spec == Init /\ [][Next]_logVars
=============================================================================
