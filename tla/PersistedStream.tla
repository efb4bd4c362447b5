------------------------------ MODULE PersistedStream ------------------------------
(***************************************************************************)
(* The event stream of a persisted run: stream_persisted_run_events        *)
(* (src/dojoagents/dashboard/sse.py) reads the run's events out of the     *)
(* session store page by page, looks at the run's status, and ends when an *)
(* ended run has nothing left; the server's producer passes the events on  *)
(* to the client one at a time (dashboard/server.py).                      *)
(*                                                                         *)
(* The store and the workers that write to it are RunCoordinator: a stream *)
(* runs in any process, beside the workers, and shares only the store with *)
(* them.  Its reads are transactions of the store; between two of them     *)
(* anything may happen.  A client that loses its connection comes back     *)
(* with the last sequence number it has.                                   *)
(***************************************************************************)
EXTENDS RunCoordinator

CONSTANTS
  Clients,        \* one stream each
  PageLimit       \* events per read (200)

ASSUME PageBound == PageLimit \in Nat \ {0}

VARIABLE stream   \* each stream, and what its client has received

streamVars == <<coordinatorVars, stream>>

StreamInit ==
  /\ CoordinatorInit
  /\ stream \in [Clients ->
       [pc: {"new"}, run: Runs, after: {0}, page: {{}}, got: {{}}]]

Followed(c) == stream[c].run

\* read_events: the first PageLimit events after a sequence number.
EventsAfter(r, n) ==
  LET later == {e \in events[r] : e.seq > n}
  IN  {e \in later : Cardinality({f \in later : f.seq < e.seq}) < PageLimit}

Last(page, otherwise) ==
  IF page = {} THEN otherwise
  ELSE CHOOSE n \in {e.seq : e \in page} : \A e \in page : e.seq <= n

\* The server answers 404 as long as the store does not know the run.
Connect(c) ==
  /\ stream[c].pc = "new"
  /\ runs[Followed(c)].status # "absent"
  /\ stream' = [stream EXCEPT ![c].pc = "read"]
  /\ UNCHANGED coordinatorVars

ReadPage(c) ==
  LET page == EventsAfter(Followed(c), stream[c].after)
  IN  /\ stream[c].pc = "read"
      /\ stream' = [stream EXCEPT ![c].pc = "send", ![c].page = page,
                                  ![c].after = Last(page, @)]
      /\ UNCHANGED coordinatorVars

Send_AnyOrder(c) ==
  /\ stream[c].pc = "send"
  /\ \E e \in stream[c].page :
       stream' = [stream EXCEPT ![c].page = @ \ {e}, ![c].got = @ \cup {e}]
  /\ UNCHANGED coordinatorVars

\* The events of the page, in the order of their sequence numbers.
Send(c) ==
  /\ stream[c].pc = "send"
  /\ \E e \in stream[c].page :
       /\ \A f \in stream[c].page : e.seq <= f.seq
       /\ stream' = [stream EXCEPT ![c].page = @ \ {e}, ![c].got = @ \cup {e}]
  /\ UNCHANGED coordinatorVars

ReadStatus_EndsTheStream(c) ==
  /\ stream[c].pc = "send" /\ stream[c].page = {}
  /\ stream' = [stream EXCEPT ![c].pc =
       IF runs[Followed(c)].status \in Active THEN "read" ELSE "closed"]
  /\ UNCHANGED coordinatorVars

\* An active run is read again after a pause.
ReadStatus(c) ==
  /\ stream[c].pc = "send" /\ stream[c].page = {}
  /\ stream' = [stream EXCEPT ![c].pc =
       IF runs[Followed(c)].status \in Active THEN "read" ELSE "trailing"]
  /\ UNCHANGED coordinatorVars

\* The trailing page is only looked at: what it holds is read again.
ReadTrailing(c) ==
  /\ stream[c].pc = "trailing"
  /\ stream' = [stream EXCEPT ![c].pc =
       IF EventsAfter(Followed(c), stream[c].after) = {} THEN "closed" ELSE "read"]
  /\ UNCHANGED coordinatorVars

\* The connection breaks: the rest of the page is gone, and the client asks
\* for what follows the last event it received.
Reconnect(c) ==
  /\ stream[c].pc \in {"read", "send", "trailing"}
  /\ stream' = [stream EXCEPT ![c].pc = "read", ![c].page = {},
                              ![c].after = Last(stream[c].got, 0)]
  /\ UNCHANGED coordinatorVars

ReaderStep(c) ==
  Connect(c) \/ ReadPage(c) \/ Send(c) \/ ReadStatus(c) \/ ReadTrailing(c) \/ Reconnect(c)

StreamNext ==
  \/ CoordinatorNext /\ UNCHANGED stream
  \/ \E c \in Clients : ReaderStep(c)

StreamSpec == StreamInit /\ [][StreamNext]_streamVars

-----------------------------------------------------------------------------
(* Properties. *)

StreamTypeOK ==
  stream \in [Clients ->
    [pc: {"new", "read", "send", "trailing", "closed"}, run: Runs, after: 0..MaxSeq,
     page: SUBSET Event, got: SUBSET Event]]

\* What a client has received is the beginning of the run's log: the events
\* 1..n as the store holds them, whatever takeovers, second flushes and broken
\* connections there were (the cursor passes a gap and never goes back).
ReceivedLogIsAPrefix ==
  \A c \in Clients :
    /\ stream[c].got \subseteq events[Followed(c)]
    /\ \A e \in stream[c].got, f \in events[Followed(c)] :
         f.seq < e.seq => f \in stream[c].got

\* A stream ends only when its run has, and then its client has every event
\* of the run, the terminal one included (the trailing read of the loop).
ClosedStreamIsComplete ==
  \A c \in Clients : stream[c].pc = "closed" =>
    /\ runs[Followed(c)].status \in Ended
    /\ stream[c].got = events[Followed(c)]
=============================================================================
