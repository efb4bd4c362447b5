------------------------------- MODULE AgentTeam -------------------------------
(* The team of agents of one run, dojoagents/multi_agent/team.py: a root that   *)
(* spawns children, the waits of members for one another, and the root's        *)
(* mailbox.  Tool calls of one reply run concurrently (tools/executor.py), and  *)
(* every call of the message store is an await.  The store (status, inbox) is   *)
(* the host's, its operations are atomic.  Left out: suspending and resuming;   *)
(* the mailboxes of children, so that a child's wait may end at any time;       *)
(* agent.complete, which fixes the text of a result and forbids further         *)
(* messages; the difference between failed and completed.                       *)
EXTENDS Naturals, Sequences, FiniteSets

CONSTANTS
  Root,        \* ROOT_INSTANCE
  Children,    \* the instances that calls of agent.spawn name, one per call id
  ToolCalls,   \* slots for tool calls that are running
  MaxChildren, \* max_children
  MaxParallel, \* max_parallel
  ReceivePage, \* the limit of receive, 20
  MaxSends     \* bound on messages to the root other than results

ASSUME TeamAssumption ==
  /\ Root \notin Children
  /\ {MaxChildren, MaxParallel, ReceivePage} \subseteq Nat \ {0}
  /\ MaxSends \in Nat

VARIABLES
  status,   \* the store's status of each instance
  inbox,    \* the root's messages by recipient_sequence: a child's result or "talk"
  child,    \* how far _launch's task for an instance has come
  seen,     \* _seen of the root
  handed,   \* the messages handed to the root, for the properties only
  waiting,  \* _waiting, what each member said it waits for
  call,     \* the running tool calls
  closed    \* close() was called

teamVars == <<status, inbox, child, seen, handed, waiting, call, closed>>

Members == Children \cup {Root}
Off == [op |-> "off", by |-> Root]
Present == {c \in Children : status[c] # "absent"}
Final == {"ended", "cancelled"}

\* Tool calls come from the root until the team closes, and from running children.
Acts(m) == IF m = Root THEN ~closed ELSE child[m] = "running"

\* start to destination along declared waits: a group that has start and, with a
\* member, whomever it waits for, has destination.
Reaches(start, destination) ==
  \A group \in SUBSET Members :
     start \in group /\ (\A m \in group : waiting[m] \subseteq group) => destination \in group

TeamInit ==
  /\ status = [c \in Children |-> "absent"]
  /\ inbox = <<>>
  /\ child = [c \in Children |-> "off"]
  /\ seen = 0 /\ handed = {}
  /\ waiting = [m \in Members |-> {}]
  /\ call = [t \in ToolCalls |-> Off]
  /\ closed = FALSE

-----------------------------------------------------------------------------
(* agent.spawn, once per call id.  The limit is checked on a listing; the      *)
(* instance is created after an await, so concurrent spawns may pass it        *)
(* together.                                                                   *)
AgentSpawn(t, c) ==
  /\ call[t] = Off /\ ~closed
  /\ status[c] = "absent" /\ \A u \in ToolCalls : call[u].op = "spawn" => call[u].who # c
  /\ Cardinality(Present) < MaxChildren
  /\ call' = [call EXCEPT ![t] = [op |-> "spawn", by |-> Root, at |-> "create", who |-> c]]
  /\ UNCHANGED <<status, inbox, child, seen, handed, waiting, closed>>

SpawnCreate(t) ==
  /\ call[t].op = "spawn" /\ call[t].at = "create"
  /\ status' = [status EXCEPT ![call[t].who] = "active"]
  /\ call' = [call EXCEPT ![t].at = "send"]
  /\ UNCHANGED <<inbox, child, seen, handed, waiting, closed>>

\* The task is sent and _launch starts the child.
SpawnSend(t) ==
  /\ call[t].op = "spawn" /\ call[t].at = "send"
  /\ child' = [child EXCEPT ![call[t].who] = "slot"]
  /\ call' = [call EXCEPT ![t] = Off]
  /\ UNCHANGED <<status, inbox, seen, handed, waiting, closed>>

-----------------------------------------------------------------------------
(* _launch's run().                                                            *)
TakeSlot(c) ==
  /\ child[c] = "slot"
  /\ Cardinality({d \in Children : child[d] = "running"}) < MaxParallel
  /\ child' = [child EXCEPT ![c] = "running"]
  /\ UNCHANGED <<status, inbox, seen, handed, waiting, call, closed>>

\* run_child returns or raises, when no tool call of the child is left.
ChildEnds(c) ==
  /\ child[c] = "running"
  /\ \A t \in ToolCalls : call[t].by # c
  /\ child' = [child EXCEPT ![c] = "ending"]
  /\ UNCHANGED <<status, inbox, seen, handed, waiting, call, closed>>

\* The store's complete changes the status and tells the root in one operation.
Conclude(c) ==
  /\ child[c] = "ending"
  /\ status' = [status EXCEPT ![c] = "ended"]
  /\ inbox' = Append(inbox, c)
  /\ child' = [child EXCEPT ![c] = "off"]
  /\ UNCHANGED <<seen, handed, waiting, call, closed>>

-----------------------------------------------------------------------------
(* agent.send to the root, and the root's agent.receive.       *)
AgentSend(c) ==
  /\ Acts(c)
  /\ Cardinality({i \in DOMAIN inbox : inbox[i] = "talk"}) < MaxSends
  /\ inbox' = Append(inbox, "talk")
  /\ UNCHANGED <<status, child, seen, handed, waiting, call, closed>>

\* What the store returns after a cursor, one page at most.
Page(after) == {i \in DOMAIN inbox : after < i /\ i <= after + ReceivePage}

\* Mutant: everything in the box counts as seen.
Advance_ToTheEnd(after) == Len(inbox)

\* The cursor moves to the last message of the page, and never back.
Advance(after) ==
  LET last == after + Cardinality(Page(after)) IN IF last > seen THEN last ELSE seen

Hand(after) == seen' = Advance(after) /\ handed' = handed \cup Page(after)

\* The cursor is read before the await, and moved after it.
AgentReceive(t) ==
  /\ call[t] = Off /\ Acts(Root)
  /\ call' = [call EXCEPT ![t] = [op |-> "receive", by |-> Root, after |-> seen]]
  /\ UNCHANGED <<status, inbox, child, seen, handed, waiting, closed>>

ReceiveReturns(t) ==
  /\ call[t].op = "receive"
  /\ Hand(call[t].after)
  /\ call' = [call EXCEPT ![t] = Off]
  /\ UNCHANGED <<status, inbox, child, waiting, closed>>

-----------------------------------------------------------------------------
(* agent.wait, for the end of targets, or for a reply when there are none.     *)
\* Mutant: only itself is refused as a target.
AgentWait_Unchecked(t, m, targets) ==
  /\ call[t] = Off /\ Acts(m)
  /\ targets \subseteq (Present \cup {Root}) \ {m} /\ Cardinality(targets) <= MaxChildren
  /\ waiting' = [waiting EXCEPT ![m] = targets]
  /\ call' = [call EXCEPT ![t] = [op |-> "wait", by |-> m, at |-> "list",
                                  targets |-> IF m = Root THEN targets ELSE {}]]
  /\ UNCHANGED <<status, inbox, child, seen, handed, closed>>

\* The instances are listed; then the cycle check and the entry, without await.
AgentWait(t, m, targets) ==
  /\ call[t] = Off /\ Acts(m)
  /\ targets \subseteq (Present \cup {Root}) \ {m} /\ Cardinality(targets) <= MaxChildren
  /\ \A x \in targets : ~Reaches(x, m)
  /\ waiting' = [waiting EXCEPT ![m] = targets]
  /\ call' = [call EXCEPT ![t] = [op |-> "wait", by |-> m, at |-> "list",
                                  targets |-> IF m = Root THEN targets ELSE {}]]
  /\ UNCHANGED <<status, inbox, child, seen, handed, closed>>

\* finished: the targets that have ended, in the listing before the messages.
WaitList(t) ==
  /\ call[t].op = "wait" /\ call[t].by = Root /\ call[t].at = "list"
  /\ call' = [call EXCEPT ![t] = [op |-> "wait", by |-> Root, at |-> "receive",
       targets |-> @.targets, finished |-> {c \in @.targets : status[c] \in Final},
       after |-> seen]]
  /\ UNCHANGED <<status, inbox, child, seen, handed, waiting, closed>>

\* Ready: a message, or every target has ended; a wait for a reply may find it
\* in any page.  Otherwise the loop goes on, or the time is up.
WaitReceive(t) ==
  /\ call[t].op = "wait" /\ call[t].at = "receive"
  /\ LET w == call[t]
         page == Page(w.after)
         ready == w.targets # {} /\ (page # {} \/ w.finished = w.targets)
     IN  /\ Hand(w.after)
         /\ \/ /\ ~ready
               /\ call' = [call EXCEPT ![t] =
                    [op |-> "wait", by |-> Root, at |-> "list", targets |-> w.targets]]
               /\ UNCHANGED waiting
            \/ /\ call' = [call EXCEPT ![t] =
                    [op |-> "wait", by |-> Root, at |-> "leave", finished |-> w.finished,
                     full |-> Cardinality(page) = ReceivePage]]
               /\ waiting' = [waiting EXCEPT ![Root] = {}]
  /\ UNCHANGED <<status, inbox, child, closed>>

WaitLeave(t) ==
  /\ call[t].op = "wait" /\ call[t].at = "leave"
  /\ call' = [call EXCEPT ![t] = Off]
  /\ UNCHANGED <<status, inbox, child, seen, handed, waiting, closed>>

-----------------------------------------------------------------------------
\* The executor's timeout, or a cancellation, ends a tool call at an await; so
\* ends, in this model, the wait of a child.
CutOff(t) ==
  /\ call[t] # Off
  /\ waiting' = IF call[t].op = "wait" THEN [waiting EXCEPT ![call[t].by] = {}] ELSE waiting
  /\ call' = [call EXCEPT ![t] = Off]
  /\ UNCHANGED <<status, inbox, child, seen, handed, closed>>

\* The root's loop has ended: close() cancels the children, then their instances.
Close ==
  /\ ~closed /\ \A t \in ToolCalls : call[t].by = Root => call[t] = Off
  /\ closed' = TRUE
  /\ child' = [c \in Children |-> "off"]
  /\ call' = [t \in ToolCalls |-> Off]
  /\ waiting' = [m \in Members |-> {}]
  /\ status' = [c \in Children |-> IF status[c] = "active" THEN "cancelled" ELSE status[c]]
  /\ UNCHANGED <<inbox, seen, handed>>

TeamNext ==
  \/ \E t \in ToolCalls :
       \/ \E c \in Children : AgentSpawn(t, c)
       \/ SpawnCreate(t) \/ SpawnSend(t)
       \/ AgentReceive(t) \/ ReceiveReturns(t)
       \/ \E m \in Members : \E targets \in SUBSET Members : AgentWait(t, m, targets)
       \/ WaitList(t) \/ WaitReceive(t) \/ WaitLeave(t)
       \/ CutOff(t)
  \/ \E c \in Children : TakeSlot(c) \/ ChildEnds(c) \/ Conclude(c) \/ AgentSend(c)
  \/ Close

TeamSpec == TeamInit /\ [][TeamNext]_teamVars

-----------------------------------------------------------------------------
TeamTypeOK ==
  /\ status \in [Children -> Final \cup {"absent", "active"}]
  /\ inbox \in Seq(Children \cup {"talk"})
  /\ child \in [Children -> {"off", "slot", "running", "ending"}]
  /\ seen \in 0 .. Len(inbox) /\ handed \subseteq DOMAIN inbox
  /\ waiting \in [Members -> SUBSET Members]
  /\ \A t \in ToolCalls : call[t].op \in {"off", "spawn", "receive", "wait"}
  /\ closed \in BOOLEAN

\* A wait of the root that reports a child as ended has handed over the child's
\* result as well, or a full page before it: the listing is read before the
\* messages, though other calls move the same cursor meanwhile.
FinishedMeansReported ==
  \A t \in ToolCalls :
     call[t].op = "wait" /\ call[t].at = "leave" /\ ~call[t].full =>
       \A c \in call[t].finished : \E i \in handed : inbox[i] = c

\* Nobody waits, along what the members have declared, for itself: in every group
\* there is somebody who waits for nobody in it, whatever waits start in other
\* tasks while one is being checked.
DeclaredWaitsAreAcyclic ==
  \A group \in (SUBSET Members) \ {{}} : \E m \in group : waiting[m] \cap group = {}

=============================================================================
