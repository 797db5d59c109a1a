-------------------------- MODULE FrameStoreProofs --------------------------
(***************************************************************************)
(* Theorems about FrameStore, for any number of readers and of frames: the  *)
(* snapshots are consistent, and the worker implements LatestFrame for its  *)
(* callers and PollWorker for the poller.                                   *)
(***************************************************************************)
EXTENDS FrameStore, TLAPS

(* IsRunning is set exactly while there is a goroutine. *)
RunningMatches == isRunning <=> pc # "off"

(* The mutex excludes the writer and the readers from each other. *)
Exclusion ==
  /\ mutex = Writer <=> pc \in {"data", "time"}
  /\ \A r \in Readers : mutex = r <=> rpc[r] \in {"data", "time"}

(* The fields differ only while the writer is between its two writes, and a
   frame that waits to be stored is newer than the one that is stored. *)
FieldsAgree ==
  /\ pc # "time" => lastReadData = lastUpdated
  /\ pc = "time" => lastReadData = frame
  /\ pc \in {"lock", "data", "time"} => frame > lastUpdated
  /\ frame >= lastUpdated

(* A reader that has copied the image holds the lock it copied it under. *)
CopyCurrent == \A r \in Readers : rpc[r] = "time" => data[r] = lastReadData

IInv ==
  /\ TypeOK
  /\ RunningMatches
  /\ Exclusion
  /\ FieldsAgree
  /\ CopyCurrent
  /\ SnapshotConsistent
  /\ DeadlineSet
-----------------------------------------------------------------------------
(* Initially both fields are of no frame and nobody holds the mutex. *)
LEMMA InitIInv == Init => IInv
<1> SUFFICES ASSUME Init PROVE IInv
  OBVIOUS
<1> USE FrameStoreConstants DEF Init
<1>1. TypeOK
  <2>1. 0 \in Frames
    BY DEF Frames
  <2>2. rpc \in [Readers -> {"idle", "wait", "data", "time"}]
    OBVIOUS
  <2>3. data \in [Readers -> Frames]
    BY <2>1
  <2>4. snap \in [Readers -> [image : Frames, time : Frames]]
    BY <2>1
  <2>. QED
    BY <2>1, <2>2, <2>3, <2>4 DEF TypeOK, EmptyImage, PollPC
<1>2. RunningMatches /\ Exclusion /\ FieldsAgree /\ CopyCurrent
  BY DEF RunningMatches, Exclusion, FieldsAgree, CopyCurrent, EmptyImage
<1>3. SnapshotConsistent /\ DeadlineSet
  BY DEF SnapshotConsistent, DeadlineSet, Connected
<1>. QED
  BY <1>1, <1>2, <1>3 DEF IInv

(* Steps of the poller, the camera and the timers touch no frame. *)
LEMMA SurroundingsIInv ==
  ASSUME IInv, Surroundings \/ ClientTimeout \/ DeadlinePasses
  PROVE  IInv'
<1> USE DEF IInv, TypeOK, RunningMatches, Exclusion, FieldsAgree, CopyCurrent,
        SnapshotConsistent, DeadlineSet, Connected, PollPC, storeVars, pollVars,
        envVars, readerVars
<1>1. Start => IInv'
  BY DEF Start
<1>2. ASSUME Cancel \/ CancelRoot \/ GoSilent \/ Resume PROVE IInv'
  <2>1. cancelled' \in BOOLEAN /\ rootDone' \in BOOLEAN /\ silent' \in BOOLEAN
    BY <1>2 DEF Cancel, CancelRoot, GoSilent, Resume
  <2>2. UNCHANGED <<storeVars, mutex, pollVars, readerVars>>
    BY <1>2 DEF Cancel, CancelRoot, GoSilent, Resume
  <2>. QED
    BY <2>1, <2>2
<1>3. ClientTimeout => IInv'
  BY DEF ClientTimeout
<1>4. DeadlinePasses => IInv'
  BY DEF DeadlinePasses
<1>. QED
  BY <1>1, <1>2, <1>3, <1>4 DEF Surroundings

(* The writer stores a frame only while it holds the mutex. *)
LEMMA PollIInv == ASSUME IInv, Poll PROVE IInv'
<1> USE FrameStoreConstants DEF IInv, TypeOK, RunningMatches, Exclusion, FieldsAgree, CopyCurrent,
        SnapshotConsistent, DeadlineSet, Connected, PollPC, Frames, storeVars,
        envVars, readerVars
<1>1. DialFails \/ BreakLoop => IInv'
  BY DEF DialFails, BreakLoop, Return
<1>7. Connect => IInv'
  BY DEF Connect
<1>8. ReadNext \/ DecodeFails => IInv'
  BY DEF ReadNext, DecodeFails, Goto
<1>2. DecodeFrame => IInv'
  BY DEF DecodeFrame
<1>3. LockStore => IInv'
  BY DEF LockStore
<1>4. StoreData => IInv'
  BY DEF StoreData
<1>5. StoreTime => IInv'
  BY DEF StoreTime
<1>6. ResetTimer => IInv'
  BY DEF ResetTimer
<1>. QED
  BY <1>1, <1>2, <1>3, <1>4, <1>5, <1>6, <1>7, <1>8 DEF Poll

(* A caller copies both fields while it holds the mutex. *)
LEMMA GetSnapshotIInv == ASSUME IInv, NEW r \in Readers, GetSnapshot(r) PROVE IInv'
<1> USE FrameStoreConstants DEF IInv, TypeOK, RunningMatches, Exclusion, FieldsAgree, CopyCurrent,
        SnapshotConsistent, DeadlineSet, Connected, Frames, storeVars, pollVars,
        envVars
<1>1. Call(r) => IInv'
  BY DEF Call
<1>2. LockSnapshot(r) => IInv'
  BY DEF LockSnapshot
<1>3. CopyData(r) => IInv'
  BY DEF CopyData
<1>4. ReturnSnapshot(r) => IInv'
  BY DEF ReturnSnapshot
<1>. QED
  BY <1>1, <1>2, <1>3, <1>4 DEF GetSnapshot

(* The invariant is inductive. *)
LEMMA NextIInv == IInv /\ [Next]_vars => IInv'
<1> SUFFICES ASSUME IInv, [Next]_vars PROVE IInv'
  OBVIOUS
<1>1. CASE UNCHANGED vars
  BY <1>1 DEF vars, IInv, TypeOK, RunningMatches, Exclusion, FieldsAgree, CopyCurrent,
     SnapshotConsistent, DeadlineSet, Connected, storeVars, pollVars, envVars,
     readerVars
<1>. QED
  BY <1>1, SurroundingsIInv, PollIInv, GetSnapshotIInv DEF Next

(* The inductive invariant of the worker. *)
THEOREM Invariant == Spec => []IInv
  BY InitIInv, NextIInv, PTL DEF Spec

(* Type correctness of the worker and its callers. *)
THEOREM TypeCorrect == Spec => []TypeOK
<1>1. IInv => TypeOK
  BY DEF IInv
<1>. QED
  BY <1>1, Invariant, PTL

(* The image and the time of a snapshot are those of one frame. *)
THEOREM SnapshotsConsistent == Spec => []SnapshotConsistent
<1>1. IInv => SnapshotConsistent
  BY DEF IInv
<1>. QED
  BY <1>1, Invariant, PTL

(* A connected goroutine always has a deadline ahead of it or behind it. *)
THEOREM DeadlineAlwaysSet == Spec => []DeadlineSet
<1>1. IInv => DeadlineSet
  BY DEF IInv
<1>. QED
  BY <1>1, Invariant, PTL
-----------------------------------------------------------------------------
(* Refinement: StoreTime is the store, ReturnSnapshot the read, and every
   other step leaves the register alone. *)
LEMMA StoreStep ==
  ASSUME IInv, StoreTime PROVE Register!Store(frame) /\ frame \in 1..MaxFrames
BY DEF IInv, TypeOK, FieldsAgree, Frames, StoreTime, Register!Store, readerVars

(* A reader's return is the register's read: its copy is of the latest frame. *)
LEMMA ReadStep ==
  ASSUME IInv, NEW r \in Readers, ReturnSnapshot(r)
  PROVE  Register!GetSnapshot(r)
<1>1. data[r] = lastReadData /\ pc # "time"
  BY FrameStoreConstants DEF IInv, Exclusion, CopyCurrent, ReturnSnapshot
<1>2. data[r] = lastUpdated
  BY <1>1 DEF IInv, FieldsAgree
<1>. QED
  BY <1>2 DEF ReturnSnapshot, Register!GetSnapshot, Register!Snapshot, storeVars

(* No other step touches the register or a snapshot. *)
LEMMA OtherSteps ==
  ASSUME [Next]_vars, ~StoreTime, \A r \in Readers : ~ReturnSnapshot(r)
  PROVE  UNCHANGED <<lastUpdated, snap>>
BY DEF Next, Surroundings, Start, Cancel, CancelRoot, GoSilent, Resume, ClientTimeout,
   DeadlinePasses, Poll, DialFails, Connect, BreakLoop, ReadNext, DecodeFrame,
   DecodeFails, LockStore, StoreData, ResetTimer, Return, Goto, GetSnapshot, Call,
   LockSnapshot, CopyData, vars, storeVars, readerVars

(* The worker with its mutex implements an atomic register of the latest frame. *)
THEOREM ImplementsLatestFrame == Spec => IsLatestFrame
<1>1. Init => Register!Init
  BY DEF Init, Register!Init, Register!Snapshot
<1>2. IInv /\ [Next]_vars => [Register!Next]_<<lastUpdated, snap>>
  BY StoreStep, ReadStep, OtherSteps DEF Register!Next
<1>. QED
  BY <1>1, <1>2, Invariant, PTL DEF Spec, IsLatestFrame, Register!Spec
-----------------------------------------------------------------------------
(* Refinement: the surroundings do to the worker what the poller may do. *)
LEMMA SurroundingsLife ==
  ASSUME IInv, Surroundings \/ ClientTimeout \/ DeadlinePasses
  PROVE  [Life!Next]_<<isRunning, cancelled, Point>>
<1>1. Start => Life!Start
  BY DEF Start, Life!Start, Point, envVars
<1>2. Cancel => Life!Cancel
  BY DEF Cancel, Life!Cancel, Point, pollVars
<1>3. CancelRoot \/ GoSilent \/ Resume => UNCHANGED <<isRunning, cancelled, Point>>
  BY DEF CancelRoot, GoSilent, Resume, Point, pollVars
<1>4. ClientTimeout \/ DeadlinePasses => UNCHANGED <<isRunning, cancelled, Point>>
  BY DEF ClientTimeout, DeadlinePasses, Point, envVars
<1>. QED
  BY <1>1, <1>2, <1>3, <1>4 DEF Surroundings, Life!Next

(* Refinement: the goroutine moves on, reads only when it may, and clears IsRunning
   as it ends; locking and storing are within a decode. *)
LEMMA PollLife ==
  ASSUME IInv, Poll
  PROVE  [Life!Next]_<<isRunning, cancelled, Point>>
<1> USE DEF Point, envVars
<1>1. DialFails \/ BreakLoop => Life!End
  BY DEF DialFails, BreakLoop, Return, Life!End
<1>2. Connect => Life!Connect
  BY DEF Connect, Life!Connect
<1>3. ReadNext => Life!Read
  BY DEF ReadNext, Goto, Cancelled, Life!Read
<1>4. DecodeFails \/ ResetTimer => Life!Done
  BY DEF DecodeFails, ResetTimer, Goto, Life!Done
<1>5. DecodeFrame \/ LockStore \/ StoreData \/ StoreTime =>
        UNCHANGED <<isRunning, cancelled, Point>>
  BY DEF DecodeFrame, LockStore, StoreData, StoreTime
<1>. QED
  BY <1>1, <1>2, <1>3, <1>4, <1>5 DEF Poll, Life!Next

LEMMA NextLife == IInv /\ [Next]_vars => [Life!Next]_<<isRunning, cancelled, Point>>
<1>1. ASSUME NEW r \in Readers, GetSnapshot(r)
      PROVE  UNCHANGED <<isRunning, cancelled, Point>>
  BY <1>1 DEF GetSnapshot, Call, LockSnapshot, CopyData, ReturnSnapshot, pollVars, envVars,
     Point
<1>2. UNCHANGED vars => UNCHANGED <<isRunning, cancelled, Point>>
  BY DEF vars, pollVars, envVars, Point
<1>. QED
  BY <1>1, <1>2, SurroundingsLife, PollLife DEF Next

(* The worker lives the life that CameraPoller counts on. *)
THEOREM ImplementsPollWorker == Spec => IsPollWorker
<1>1. Init => Life!Init
  BY DEF Init, Life!Init, Point
<1>. QED
  BY <1>1, NextLife, Invariant, PTL DEF Spec, IsPollWorker, Life!Spec, Life!vars
=============================================================================
