--------------------------- MODULE SessionObjectsProofs ---------------------------
(* Proofs about SessionObjects, for any number of writes, collectors and        *)
(* deletions.  The type holds in any case; the rest needs a grace period, so    *)
(* that a collector does not take the blob of a write that is still at work.    *)
EXTENDS SessionObjects, TLAPS

\* Objects are counted: a version follows from the status and the steps before.
Record(o) ==
  /\ object[o].status = "absent" => object[o].version = 0
  /\ object[o].status = "reserved" => object[o].version = 1
  /\ object[o].status = "committed" => object[o].version \in {2, 3}

RecordInv == ObjectsTypeOK /\ \A o \in Objects : Record(o)

LEMMA RecordInit == ObjectsInit => RecordInv
BY DEF ObjectsInit, RecordInv, Record, ObjectsTypeOK, WriteSteps, WriteOver, Files, NoObject, NoBlob

\* A step that leaves the object records alone keeps them counted.
LEMMA RecordKept ==
  ASSUME RecordInv, ObjectsTypeOK', UNCHANGED object
  PROVE  RecordInv'
BY DEF RecordInv, Record

LEMMA RecordNext == RecordInv /\ [ObjectsNext]_objectVars => RecordInv'
<1> SUFFICES ASSUME RecordInv, [ObjectsNext]_objectVars PROVE RecordInv'
  OBVIOUS
<1> USE DEF WriteSteps, WriteOver, Files
<1>0. ObjectsTypeOK
  BY DEF RecordInv
<1>1. ASSUME NEW o \in Objects, ReserveObject(o) PROVE RecordInv'
  BY <1>0, <1>1 DEF ReserveObject, Goes, RecordInv, Record, ObjectsTypeOK
<1>2. ASSUME NEW o \in Objects, DeclareBlob(o) PROVE RecordInv'
  <2>1. ObjectsTypeOK'
    BY <1>0, <1>2 DEF DeclareBlob, Goes, ObjectsTypeOK
  <2>2. QED
    BY <1>2, <2>1, RecordKept DEF DeclareBlob
<1>3. ASSUME NEW o \in Objects, StartUpload(o) \/ FinishUpload(o) \/ MoveData(o) PROVE RecordInv'
  <2>1. ObjectsTypeOK'
    BY <1>0, <1>3 DEF StartUpload, FinishUpload, MoveData, Goes, ObjectsTypeOK
  <2>2. QED
    BY <1>3, <2>1, RecordKept DEF StartUpload, FinishUpload, MoveData
<1>4. ASSUME NEW o \in Objects, MarkReady(o) PROVE RecordInv'
  <2>1. ObjectsTypeOK'
    BY <1>0, <1>4 DEF MarkReady, Goes, ObjectsTypeOK
  <2>2. QED
    BY <1>4, <2>1, RecordKept DEF MarkReady
<1>5. ASSUME NEW o \in Objects, LinkPending(o) \/ LinkCommitted(o) PROVE RecordInv'
  <2>1. PICK ref \in {"pending", "committed"}, expected \in {1, 2} :
          CommitObject(o, ref, expected)
    BY <1>5 DEF LinkPending, LinkCommitted
  <2>2. PICK to \in WriteSteps : write' = [write EXCEPT ![o] = to]
    BY <1>5 DEF LinkPending, LinkCommitted, Goes
  <2>3. ObjectsTypeOK'
    BY <1>0, <2>1, <2>2 DEF CommitObject, ObjectsTypeOK
  <2>4. ASSUME NEW p \in Objects PROVE Record(p)'
    BY <1>0, <2>1 DEF CommitObject, RecordInv, Record, ObjectsTypeOK
  <2>5. QED
    BY <2>3, <2>4 DEF RecordInv
<1>6. ASSUME NEW o \in Objects, CommitBlob(o) PROVE RecordInv'
  <2>1. ObjectsTypeOK'
    BY <1>0, <1>6 DEF CommitBlob, Goes, ObjectsTypeOK
  <2>2. QED
    BY <1>6, <2>1, RecordKept DEF CommitBlob
<1>7. ASSUME NEW o \in Objects, Fail(o) PROVE RecordInv'
  <2>1. ObjectsTypeOK'
    BY <1>0, <1>7 DEF Fail, ObjectsTypeOK
  <2>2. QED
    BY <1>7, <2>1, RecordKept DEF Fail
<1>8. ASSUME NEW o \in Objects, MarkObjectDeleted(o) PROVE RecordInv'
  <2>1. object[o].version \in 1 .. 3
    BY <1>8, <1>0 DEF MarkObjectDeleted, RecordInv, Record
  <2>2. QED
    BY <1>0, <1>8, <2>1 DEF MarkObjectDeleted, RecordInv, Record, ObjectsTypeOK
<1>9. ASSUME NEW o \in Objects,
             DeleteBlob(o) \/ CollectExpiredPending(o) \/ RetrySoftDeleted(o)
      PROVE  RecordInv'
  <2>1. ObjectsTypeOK'
    <3>1. blob' \in {blob, [blob EXCEPT ![o].state = "deleted"]}
      BY <1>9 DEF DeleteBlob, CollectExpiredPending, RetrySoftDeleted
    <3>2. sweeps' = sweeps \cup {<<o, "data">>} /\ UNCHANGED <<write, object, data, temp>>
      BY <1>9 DEF DeleteBlob, CollectExpiredPending, RetrySoftDeleted
    <3>3. blob' \in [Objects -> [state: {"absent", "pending", "committed", "deleted"},
                               ready: BOOLEAN]]
      <4>1. CASE blob' = blob
        BY <1>0, <4>1 DEF ObjectsTypeOK
      <4>2. CASE blob' = [blob EXCEPT ![o].state = "deleted"]
        BY <1>0, <4>2 DEF ObjectsTypeOK
      <4>3. QED
        BY <3>1, <4>1, <4>2
    <3>4. sweeps' \in SUBSET (Objects \X {"data", "temp"})
      BY <1>0, <3>2 DEF ObjectsTypeOK
    <3>5. QED
      BY <1>0, <3>2, <3>3, <3>4 DEF ObjectsTypeOK
  <2>2. QED
    BY <1>9, <2>1, RecordKept DEF DeleteBlob, CollectExpiredPending, RetrySoftDeleted
<1>10. ASSUME NEW o \in Objects, UnlinkData(o) \/ UnlinkTemp(o) \/ SweepFails(o) PROVE RecordInv'
  <2>1. ObjectsTypeOK'
    BY <1>0, <1>10 DEF UnlinkData, UnlinkTemp, SweepFails, ObjectsTypeOK
  <2>2. QED
    BY <1>10, <2>1, RecordKept DEF UnlinkData, UnlinkTemp, SweepFails
<1>11. CASE UNCHANGED objectVars
  BY <1>0, <1>11 DEF objectVars, RecordInv, Record, ObjectsTypeOK
<1>12. QED
  BY <1>1, <1>2, <1>3, <1>4, <1>5, <1>6, <1>7, <1>8, <1>9, <1>10, <1>11
  DEF ObjectsNext, WriteStep, DeletionStep

\* Records, blobs, files and writes keep their types, and no object's version
\* ever exceeds four changes (FileSessionStore and FileBlobStore together).
THEOREM ObjectsTyped == ObjectsSpec => []ObjectsTypeOK
<1>1. RecordInv => ObjectsTypeOK
  BY DEF RecordInv
<1>2. QED
  BY <1>1, RecordInit, RecordNext, PTL DEF ObjectsSpec

-----------------------------------------------------------------------------
(* With a grace period.                                                        *)

\* What the steps of o's write, and of those who delete it, have left behind.
Stage(o) ==
  /\ write[o] \in {"new", "reserved"} => blob[o].state = "absent"
  /\ write[o] \in {"declared", "uploading", "uploaded", "moved", "ready"} =>
       blob[o].state = "pending"
  /\ write[o] \in {"declared", "uploading", "uploaded"} => data[o] = "none"
  /\ write[o] = "uploading" => temp[o] = "torn"
  /\ write[o] = "uploaded" => temp[o] = "whole"
  /\ write[o] \in {"declared", "moved", "ready", "linked", "sealed", "done"} => temp[o] = "none"
  /\ write[o] \in {"moved", "ready"} => data[o] = "whole"
  /\ write[o] = "linked" =>
       blob[o].state = "deleted" \/ (blob[o].state = "pending" /\ data[o] = "whole")
  /\ write[o] \in {"sealed", "done"} => blob[o].state \in {"committed", "deleted"}
  /\ blob[o].state = "committed" => data[o] = "whole" /\ temp[o] = "none"
  /\ blob[o].state = "absent" => data[o] = "none" /\ temp[o] = "none"
  /\ object[o].ref # "none" => write[o] \in {"linked", "sealed", "done", "failed"}
  /\ object[o].ref = "committed" => write[o] = "done"
  /\ \A file \in {"data", "temp"} : <<o, file>> \in sweeps => blob[o].state = "deleted"

StageInv == ObjectsTypeOK /\ \A o \in Objects : Stage(o)

LEMMA StageInit == ObjectsInit => StageInv
<1> SUFFICES ASSUME ObjectsInit PROVE StageInv
  OBVIOUS
<1>1. ObjectsTypeOK
  BY RecordInit DEF RecordInv
<1>2. ASSUME NEW o \in Objects PROVE Stage(o)
  BY DEF ObjectsInit, Stage, NoObject, NoBlob
<1>3. QED
  BY <1>1, <1>2 DEF StageInv

\* A step of another object's write leaves this one where it stood.
LEMMA StageKept ==
  ASSUME NEW p \in Objects, Stage(p),
         write'[p] = write[p], object'[p].ref = object[p].ref, blob'[p] = blob[p],
         data'[p] = data[p], temp'[p] = temp[p],
         \A file \in {"data", "temp"} : <<p, file>> \in sweeps' => <<p, file>> \in sweeps
  PROVE  Stage(p)'
BY DEF Stage

\* A step that names an object touches no other.
Elsewhere(o) ==
  \A p \in Objects \ {o} :
    /\ write'[p] = write[p] /\ object'[p] = object[p] /\ blob'[p] = blob[p]
    /\ data'[p] = data[p] /\ temp'[p] = temp[p]
    /\ \A file \in {"data", "temp"} : <<p, file>> \in sweeps' => <<p, file>> \in sweeps

LEMMA StageMoves ==
  ASSUME StageInv, ObjectsTypeOK', NEW o \in Objects, Elsewhere(o), Stage(o)'
  PROVE  StageInv'
<1>1. ASSUME NEW p \in Objects \ {o} PROVE Stage(p)'
  BY <1>1, StageKept DEF StageInv, Elsewhere
<1>2. QED
  BY <1>1 DEF StageInv

LEMMA WriteMovesStage ==
  ASSUME StageInv, ObjectsTypeOK', NEW o \in Objects, WriteStep(o)
  PROVE  StageInv'
<1>0. ObjectsTypeOK /\ Stage(o)
  BY DEF StageInv
<1>1. CASE ReserveObject(o)
  <2>1. Elsewhere(o)
    BY <1>0, <1>1 DEF ReserveObject, Goes, Elsewhere, ObjectsTypeOK
  <2>2. Stage(o)'
    BY <1>0, <1>1 DEF ReserveObject, Goes, Stage, ObjectsTypeOK
  <2>3. QED
    BY <2>1, <2>2, StageMoves
<1>2. CASE DeclareBlob(o)
  <2>1. Elsewhere(o)
    BY <1>0, <1>2 DEF DeclareBlob, Goes, Elsewhere, ObjectsTypeOK
  <2>2. Stage(o)'
    BY <1>0, <1>2 DEF DeclareBlob, Goes, Stage, ObjectsTypeOK
  <2>3. QED
    BY <2>1, <2>2, StageMoves
<1>3. CASE StartUpload(o)
  <2>1. Elsewhere(o)
    BY <1>0, <1>3 DEF StartUpload, Goes, Elsewhere, ObjectsTypeOK
  <2>2. Stage(o)'
    BY <1>0, <1>3 DEF StartUpload, Goes, Stage, ObjectsTypeOK
  <2>3. QED
    BY <2>1, <2>2, StageMoves
<1>4. CASE FinishUpload(o)
  <2>1. Elsewhere(o)
    BY <1>0, <1>4 DEF FinishUpload, Goes, Elsewhere, ObjectsTypeOK
  <2>2. Stage(o)'
    BY <1>0, <1>4 DEF FinishUpload, Goes, Stage, ObjectsTypeOK
  <2>3. QED
    BY <2>1, <2>2, StageMoves
<1>5. CASE MoveData(o)
  <2>1. Elsewhere(o)
    BY <1>0, <1>5 DEF MoveData, Goes, Elsewhere, ObjectsTypeOK
  <2>2. Stage(o)'
    BY <1>0, <1>5 DEF MoveData, Goes, Stage, ObjectsTypeOK
  <2>3. QED
    BY <2>1, <2>2, StageMoves
<1>6. CASE MarkReady(o)
  <2>1. Elsewhere(o)
    BY <1>0, <1>6 DEF MarkReady, Goes, Elsewhere, ObjectsTypeOK
  <2>2. Stage(o)'
    BY <1>0, <1>6 DEF MarkReady, Goes, Stage, ObjectsTypeOK
  <2>3. QED
    BY <2>1, <2>2, StageMoves
<1>7. CASE LinkPending(o)
  <2>1. Elsewhere(o)
    BY <1>0, <1>7 DEF LinkPending, CommitObject, Goes, Elsewhere, ObjectsTypeOK
  <2>2. Stage(o)'
    BY <1>0, <1>7 DEF LinkPending, CommitObject, Goes, Stage, ObjectsTypeOK
  <2>3. QED
    BY <2>1, <2>2, StageMoves
<1>8. CASE CommitBlob(o)
  <2>1. Elsewhere(o)
    BY <1>0, <1>8 DEF CommitBlob, Goes, Elsewhere, ObjectsTypeOK
  <2>2. Stage(o)'
    BY <1>0, <1>8 DEF CommitBlob, Goes, Stage, ObjectsTypeOK
  <2>3. QED
    BY <2>1, <2>2, StageMoves
<1>9. CASE LinkCommitted(o)
  <2>1. Elsewhere(o)
    BY <1>0, <1>9 DEF LinkCommitted, CommitObject, Goes, Elsewhere, ObjectsTypeOK
  <2>2. Stage(o)'
    BY <1>0, <1>9 DEF LinkCommitted, CommitObject, Goes, Stage, ObjectsTypeOK
  <2>3. QED
    BY <2>1, <2>2, StageMoves
<1>10. CASE Fail(o)
  <2>1. Elsewhere(o)
    BY <1>0, <1>10 DEF Fail, Elsewhere, ObjectsTypeOK
  <2>2. Stage(o)'
    BY <1>0, <1>10 DEF Fail, Stage, ObjectsTypeOK, WriteOver
  <2>3. QED
    BY <2>1, <2>2, StageMoves
<1>11. QED
  BY <1>1, <1>2, <1>3, <1>4, <1>5, <1>6, <1>7, <1>8, <1>9, <1>10 DEF WriteStep

LEMMA DeletionMovesStage ==
  ASSUME Grace, StageInv, ObjectsTypeOK', NEW o \in Objects, DeletionStep(o)
  PROVE  StageInv'
<1>0. ObjectsTypeOK /\ Stage(o)
  BY DEF StageInv
<1>1. CASE MarkObjectDeleted(o)
  <2>1. Elsewhere(o)
    BY <1>0, <1>1 DEF MarkObjectDeleted, Elsewhere, ObjectsTypeOK
  <2>2. object'[o].ref = object[o].ref
    BY <1>0, <1>1 DEF MarkObjectDeleted, ObjectsTypeOK
  <2>3. Stage(o)'
    BY <1>0, <1>1, <2>2, StageKept DEF MarkObjectDeleted
  <2>4. QED
    BY <2>1, <2>3, StageMoves
<1>2. CASE DeleteBlob(o)
  <2>1. Elsewhere(o)
    BY <1>0, <1>2 DEF DeleteBlob, Elsewhere, ObjectsTypeOK
  <2>2. Stage(o)'
    BY <1>0, <1>2 DEF DeleteBlob, Stage, ObjectsTypeOK
  <2>3. QED
    BY <2>1, <2>2, StageMoves
<1>3. CASE CollectExpiredPending(o)
  <2>1. Elsewhere(o)
    BY <1>0, <1>3 DEF CollectExpiredPending, Elsewhere, ObjectsTypeOK
  <2>2. Stage(o)'
    BY <1>0, <1>3 DEF CollectExpiredPending, Stage, ObjectsTypeOK, WriteOver
  <2>3. QED
    BY <2>1, <2>2, StageMoves
<1>4. CASE RetrySoftDeleted(o)
  <2>1. Elsewhere(o)
    BY <1>0, <1>4 DEF RetrySoftDeleted, Elsewhere, ObjectsTypeOK
  <2>2. Stage(o)'
    BY <1>0, <1>4 DEF RetrySoftDeleted, Stage, ObjectsTypeOK
  <2>3. QED
    BY <2>1, <2>2, StageMoves
<1>5. CASE UnlinkData(o)
  <2>1. Elsewhere(o)
    BY <1>0, <1>5 DEF UnlinkData, Elsewhere, ObjectsTypeOK
  <2>2. Stage(o)'
    BY <1>0, <1>5 DEF UnlinkData, Stage, ObjectsTypeOK
  <2>3. QED
    BY <2>1, <2>2, StageMoves
<1>6. CASE UnlinkTemp(o)
  <2>1. Elsewhere(o)
    BY <1>0, <1>6 DEF UnlinkTemp, Elsewhere, ObjectsTypeOK
  <2>2. Stage(o)'
    BY <1>0, <1>6 DEF UnlinkTemp, Stage, ObjectsTypeOK
  <2>3. QED
    BY <2>1, <2>2, StageMoves
<1>7. CASE SweepFails(o)
  <2>1. Elsewhere(o)
    BY <1>0, <1>7 DEF SweepFails, Elsewhere, ObjectsTypeOK
  <2>2. Stage(o)'
    BY <1>0, <1>7 DEF SweepFails, Stage, ObjectsTypeOK
  <2>3. QED
    BY <2>1, <2>2, StageMoves
<1>8. QED
  BY <1>1, <1>2, <1>3, <1>4, <1>5, <1>6, <1>7 DEF DeletionStep

LEMMA StageNext == Grace /\ RecordInv' /\ StageInv /\ [ObjectsNext]_objectVars => StageInv'
<1> SUFFICES ASSUME Grace, RecordInv', StageInv, [ObjectsNext]_objectVars PROVE StageInv'
  OBVIOUS
<1>1. ObjectsTypeOK'
  BY DEF RecordInv
<1>2. ASSUME NEW o \in Objects, WriteStep(o) PROVE StageInv'
  BY <1>1, <1>2, WriteMovesStage
<1>3. ASSUME NEW o \in Objects, DeletionStep(o) PROVE StageInv'
  BY <1>1, <1>3, DeletionMovesStage
<1>4. CASE UNCHANGED objectVars
  BY <1>4 DEF objectVars, StageInv, Stage, ObjectsTypeOK
<1>5. QED
  BY <1>2, <1>3, <1>4 DEF ObjectsNext

LEMMA StageHolds == ASSUME Grace PROVE ObjectsSpec => []StageInv
<1>1. RecordInv /\ RecordInv' /\ StageInv /\ [ObjectsNext]_objectVars => StageInv'
  BY StageNext
<1>2. QED
  BY <1>1, StageInit, RecordInit, RecordNext, PTL DEF ObjectsSpec

\* Wherever a write, a deletion or a collector stops or fails, a reference that
\* counts as committed has its bytes, and every file is known to a record that a
\* retry looks at (SessionObjectWriter.write over FileBlobStore).
THEOREM ObjectsDoNotDangle == ASSUME Grace PROVE ObjectsSpec => []NothingDangles
<1>1. StageInv => NothingDangles
  <2> SUFFICES ASSUME StageInv, NEW o \in Objects
               PROVE  /\ object[o].ref = "committed" => blob[o].state \in {"committed", "deleted"}
                      /\ blob[o].state = "committed" => data[o] = "whole"
                      /\ data[o] # "none" \/ temp[o] # "none" => blob[o].state # "absent"
                      /\ write[o] \in WriteOver /\ temp[o] # "none" =>
                           blob[o].state \in {"pending", "deleted"}
    BY DEF NothingDangles, WrittenObjectIsReadable, LeftoversAreFound
  <2>1. Stage(o) /\ blob[o].state \in {"absent", "pending", "committed", "deleted"}
    BY DEF StageInv, ObjectsTypeOK
  <2>2. QED
    BY <2>1 DEF Stage, WriteOver
<1>2. QED
  BY <1>1, StageHolds, PTL

\* No step of a write revives a blob that a deletion or a collector has marked
\* (FileBlobStore.commit's check, and put's order).
THEOREM TombstonesLast == ASSUME Grace PROVE ObjectsSpec => TombstonesStand
<1>1. StageInv /\ [ObjectsNext]_objectVars =>
        [\A o \in Objects : blob[o].state = "deleted" => blob'[o].state = "deleted"]_objectVars
  <2> SUFFICES ASSUME StageInv, NEW p \in Objects, blob[p].state = "deleted",
                      NEW o \in Objects, WriteStep(o) \/ DeletionStep(o)
               PROVE  blob'[p].state = "deleted"
    BY DEF ObjectsNext
  <2>0. ObjectsTypeOK /\ Stage(p)
    BY DEF StageInv
  <2>1. CASE DeclareBlob(o) \/ MarkReady(o)
    BY <2>0, <2>1 DEF DeclareBlob, MarkReady, Goes, Stage, ObjectsTypeOK
  <2>2. CASE CommitBlob(o)
    BY <2>0, <2>2 DEF CommitBlob, ObjectsTypeOK
  <2>3. CASE DeleteBlob(o) \/ CollectExpiredPending(o)
    BY <2>0, <2>3 DEF DeleteBlob, CollectExpiredPending, ObjectsTypeOK
  <2>4. CASE \/ ReserveObject(o) \/ StartUpload(o) \/ FinishUpload(o) \/ MoveData(o)
             \/ LinkPending(o) \/ LinkCommitted(o) \/ Fail(o) \/ MarkObjectDeleted(o)
             \/ RetrySoftDeleted(o) \/ UnlinkData(o) \/ UnlinkTemp(o) \/ SweepFails(o)
    BY <2>4 DEF ReserveObject, StartUpload, FinishUpload, MoveData, LinkPending, LinkCommitted,
                CommitObject, Fail, MarkObjectDeleted, RetrySoftDeleted, UnlinkData, UnlinkTemp,
                SweepFails
  <2>5. QED
    BY <2>1, <2>2, <2>3, <2>4 DEF WriteStep, DeletionStep
<1>2. QED
  BY <1>1, StageHolds, PTL DEF ObjectsSpec, TombstonesStand
=============================================================================
