------------------------------ MODULE SessionObjects ------------------------------
(***************************************************************************)
(* The files and artifacts of a session: SessionObjectWriter.write         *)
(* (src/dojoagents/sessions/service.py) over two stores that share no      *)
(* transaction, the object records in FileSessionStore's state.json and    *)
(* the blobs of FileBlobStore (sessions/blobs/file.py).  A blob is itself  *)
(* three things: a metadata record, changed under the blob's lock, the     *)
(* data file, and the upload's temporary file, both changed outside it.    *)
(*                                                                         *)
(* Each write has an object and a blob of its own, and one name stands for *)
(* the three of them.  Any step of a write may raise, and the process may  *)
(* stop between two steps (Fail).  Nothing in src/ calls the collectors or *)
(* the deletions: they are the store's API for an operator, who may run    *)
(* any number of them at any time.                                         *)
(***************************************************************************)
EXTENDS Naturals

CONSTANTS
  Objects,        \* one per write: its object id, and its blob id
  Grace           \* TRUE: collectors run with a cutoff older than every upload at work

ASSUME GraceSwitch == Grace \in BOOLEAN

VARIABLES
  write,          \* where each write stands
  object,         \* the object records
  blob,           \* the blob metadata records
  data,           \* the data files
  temp,           \* the upload files
  sweeps          \* unlinks a collector or a deletion has yet to do

objectVars == <<write, object, blob, data, temp, sweeps>>

WriteOver == {"done", "failed"}
WriteSteps == {"new", "reserved", "declared", "uploading", "uploaded", "moved",
               "ready", "linked", "sealed"} \cup WriteOver
Files == {"none", "torn", "whole"}

NoObject == [status |-> "absent", ref |-> "none", version |-> 0]
NoBlob == [state |-> "absent", ready |-> FALSE]

ObjectsTypeOK ==
  /\ write \in [Objects -> WriteSteps]
  /\ object \in [Objects -> [status: {"absent", "reserved", "committed", "deleted"},
                             ref: {"none", "pending", "committed"},
                             version: 0..4]]
  /\ blob \in [Objects -> [state: {"absent", "pending", "committed", "deleted"},
                           ready: BOOLEAN]]
  /\ data \in [Objects -> Files]
  /\ temp \in [Objects -> Files]
  /\ sweeps \in SUBSET (Objects \X {"data", "temp"})

ObjectsInit ==
  /\ write = [o \in Objects |-> "new"]
  /\ object = [o \in Objects |-> NoObject]
  /\ blob = [o \in Objects |-> NoBlob]
  /\ data = [o \in Objects |-> "none"]
  /\ temp = [o \in Objects |-> "none"]
  /\ sweeps = {}

Goes(o, from, to) == write[o] = from /\ write' = [write EXCEPT ![o] = to]

-----------------------------------------------------------------------------
(* SessionObjectWriter.write, with FileBlobStore.put as its second step. *)

ReserveObject(o) ==
  /\ Goes(o, "new", "reserved")
  /\ object' = [object EXCEPT ![o] = [status |-> "reserved", ref |-> "none", version |-> 1]]
  /\ UNCHANGED <<blob, data, temp, sweeps>>

\* The metadata record comes before the files, or nothing would lead to them.
DeclareBlob(o) ==
  /\ Goes(o, "reserved", "declared")
  /\ blob' = [blob EXCEPT ![o] = [state |-> "pending", ready |-> FALSE]]
  /\ UNCHANGED <<object, data, temp, sweeps>>

StartUpload(o) ==
  /\ Goes(o, "declared", "uploading")
  /\ temp' = [temp EXCEPT ![o] = "torn"]
  /\ UNCHANGED <<object, blob, data, sweeps>>

\* The last chunk.  Files are opened for appending: one that was unlinked in
\* the meantime is created again, without the chunks before.
FinishUpload(o) ==
  /\ Goes(o, "uploading", "uploaded")
  /\ temp' = [temp EXCEPT ![o] = IF @ = "none" THEN "torn" ELSE "whole"]
  /\ UNCHANGED <<object, blob, data, sweeps>>

MoveData(o) ==
  /\ Goes(o, "uploaded", "moved")
  /\ data' = [data EXCEPT ![o] = IF temp[o] = "whole" THEN "whole" ELSE "torn"]
  /\ temp' = [temp EXCEPT ![o] = "none"]
  /\ UNCHANGED <<object, blob, sweeps>>

\* The record is overwritten, whatever state it has come to.
MarkReady(o) ==
  /\ Goes(o, "moved", "ready")
  /\ blob' = [blob EXCEPT ![o] = [state |-> "pending", ready |-> TRUE]]
  /\ UNCHANGED <<object, data, temp, sweeps>>

\* commit_object: the version the writer knows has to be the current one.
CommitObject(o, ref, expected) ==
  /\ object[o].version = expected
  /\ object' = [object EXCEPT ![o] = [status |-> "committed", ref |-> ref,
                                      version |-> expected + 1]]
  /\ UNCHANGED <<blob, data, temp, sweeps>>

LinkPending(o) == Goes(o, "ready", "linked") /\ CommitObject(o, "pending", 1)

CommitBlob_Tombstone(o) ==
  /\ Goes(o, "linked", "sealed")
  /\ blob[o].ready
  /\ blob' = [blob EXCEPT ![o].state = "committed"]
  /\ UNCHANGED <<object, data, temp, sweeps>>

\* FileBlobStore.commit: a tombstone, or a blob without its data, is refused.
CommitBlob(o) ==
  /\ Goes(o, "linked", "sealed")
  /\ blob[o].state # "deleted" /\ blob[o].ready
  /\ blob' = [blob EXCEPT ![o].state = "committed"]
  /\ UNCHANGED <<object, data, temp, sweeps>>

LinkCommitted_BeforeBlob(o) ==
  /\ write[o] \in {"linked", "sealed"}
  /\ CommitObject(o, "committed", 2)
  /\ write' = [write EXCEPT ![o] = IF @ = "sealed" THEN "done" ELSE @]

LinkCommitted(o) == Goes(o, "sealed", "done") /\ CommitObject(o, "committed", 2)

\* An error raised by any step, or the end of the process: nothing is undone.
Fail(o) ==
  /\ write[o] \notin WriteOver \cup {"new"}
  /\ write' = [write EXCEPT ![o] = "failed"]
  /\ UNCHANGED <<object, blob, data, temp, sweeps>>

-----------------------------------------------------------------------------
(* Deletion and collection. *)

\* mark_object_deleted, which leaves the blob alone.
MarkObjectDeleted(o) ==
  /\ object[o].status \in {"reserved", "committed"}
  /\ object' = [object EXCEPT ![o].status = "deleted", ![o].version = @ + 1]
  /\ UNCHANGED <<write, blob, data, temp, sweeps>>

\* FileBlobStore.delete, by a caller who found the reference in the record.
DeleteBlob(o) ==
  /\ object[o].ref # "none"
  /\ blob' = [blob EXCEPT ![o].state = "deleted"]
  /\ sweeps' = sweeps \cup {<<o, "data">>}
  /\ UNCHANGED <<write, object, data, temp>>

\* collect_expired_pending: the tombstone under the lock, the files after it.
CollectExpiredPending(o) ==
  /\ blob[o].state = "pending"
  /\ Grace => write[o] \in WriteOver
  /\ blob' = [blob EXCEPT ![o].state = "deleted"]
  /\ sweeps' = sweeps \cup {<<o, "data">>}
  /\ UNCHANGED <<write, object, data, temp>>

RetrySoftDeleted(o) ==
  /\ blob[o].state = "deleted"
  /\ sweeps' = sweeps \cup {<<o, "data">>}
  /\ UNCHANGED <<write, object, blob, data, temp>>

UnlinkData(o) ==
  /\ <<o, "data">> \in sweeps
  /\ data' = [data EXCEPT ![o] = "none"]
  /\ sweeps' = (sweeps \ {<<o, "data">>}) \cup {<<o, "temp">>}
  /\ UNCHANGED <<write, object, blob, temp>>

UnlinkTemp(o) ==
  /\ <<o, "temp">> \in sweeps
  /\ temp' = [temp EXCEPT ![o] = "none"]
  /\ sweeps' = sweeps \ {<<o, "temp">>}
  /\ UNCHANGED <<write, object, blob, data>>

\* An OSError, or the end of the process: the tombstone is there for a retry.
SweepFails(o) ==
  /\ \E file \in {"data", "temp"} :
       <<o, file>> \in sweeps /\ sweeps' = sweeps \ {<<o, file>>}
  /\ UNCHANGED <<write, object, blob, data, temp>>

WriteStep(o) ==
  \/ ReserveObject(o) \/ DeclareBlob(o) \/ StartUpload(o) \/ FinishUpload(o)
  \/ MoveData(o) \/ MarkReady(o) \/ LinkPending(o) \/ CommitBlob(o)
  \/ LinkCommitted(o) \/ Fail(o)
DeletionStep(o) ==
  \/ MarkObjectDeleted(o) \/ DeleteBlob(o) \/ CollectExpiredPending(o)
  \/ RetrySoftDeleted(o) \/ UnlinkData(o) \/ UnlinkTemp(o) \/ SweepFails(o)

ObjectsNext == \E o \in Objects : WriteStep(o) \/ DeletionStep(o)

ObjectsSpec == ObjectsInit /\ [][ObjectsNext]_objectVars

-----------------------------------------------------------------------------
(* Properties. *)

\* A reference never runs ahead of the two stores: an object refers to a blob
\* as committed only once the blob is, and a committed blob has all its data
\* (write's order; open serves whatever is in the data file).
WrittenObjectIsReadable ==
  \A o \in Objects :
    /\ object[o].ref = "committed" => blob[o].state \in {"committed", "deleted"}
    /\ blob[o].state = "committed" => data[o] = "whole"

\* However a write ends, its files are known to a record a collector or a
\* retry looks at: no upload leaks where nobody would find it.
LeftoversAreFound ==
  \A o \in Objects :
    /\ data[o] # "none" \/ temp[o] # "none" => blob[o].state # "absent"
    /\ write[o] \in WriteOver /\ temp[o] # "none" => blob[o].state \in {"pending", "deleted"}

\* Whatever step a crash, a failure or a collector comes between, the two stores
\* and the files can be brought together again.
NothingDangles == WrittenObjectIsReadable /\ LeftoversAreFound

\* A tombstone stands, and is what a later retry finds: nothing commits or
\* completes a blob that a collector or a caller has given up.
TombstonesStand ==
  [][\A o \in Objects : blob[o].state = "deleted" => blob'[o].state = "deleted"]_objectVars
=============================================================================
