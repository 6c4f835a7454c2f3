---------------------------- MODULE StorageManager ----------------------------
(***************************************************************************)
(* SvcKit/subsystems/storage: StorageManager and its Recorders             *)
(* (storage_manager.cpp), which write video packets to segment files and   *)
(* keep the finished ones in an index file, across crashes and restarts of *)
(* the process.                                                            *)
(*                                                                         *)
(* A recorder's own mutex makes its calls one at a time: it is idle or in  *)
(* one call, at[r].  lock is State::mutex.  What survives a crash, files   *)
(* and index, changes one file operation per step.  Data handed to the     *)
(* kernel survives; a power failure, which may lose it, is left out.  A    *)
(* segment is named by its sequence number, an id of its own in the code   *)
(* also after a restart; a packet is one byte.  query() and read() change  *)
(* nothing.                                                                *)
(***************************************************************************)
EXTENDS Integers, FiniteSetsExt

CONSTANTS
  Recorders,    \* threads that feed a recorder, one each
  Manager,      \* a thread that calls remove() and cleanup()
  MaxSegments,  \* bound on the segments ever opened
  SegmentMax,   \* StorageConfig::segmentMaxBytes
  MaxFile,      \* bound on the bytes of a segment
  MaxBytes,     \* StorageConfig::maxBytes
  MinimumFree,  \* minimumFreeBytes is set: the disk may be short of space
  Nobody

Segments == 1 .. MaxSegments
Actors == Recorders \cup {Manager}

ASSUME SizesAssumption ==
  /\ MaxSegments \in Nat /\ MaxBytes \in Nat /\ MinimumFree \in BOOLEAN
  /\ SegmentMax \in Nat \ {0} /\ MaxFile \in Nat \ {0} /\ SegmentMax <= MaxFile
ASSUME ActorsAssumption == Manager \notin Recorders /\ Nobody \notin Actors

Absent == -1    \* no such segment file
NoIndex == {0}    \* no such index file

VARIABLES
  running, writing, broken, rotate,  \* of each recorder: running_, the segment
                                     \* open in output_ (0: none), its stream has
                                     \* failed, rotatePending_
  closing,     \* the segment a recorder has closed and not listed yet, or 0
  recordings,  \* State::recordings, a set: their order only shows in query()
  lock,        \* owner of State::mutex
  at, call,    \* where each actor is, in which call
  changed,     \* remove() or cleanupLocked() has deleted something
  files,       \* bytes in each segment file
  index,       \* segments in recordings.index
  temporary,   \* segments in recordings.index.tmp, from the write to the rename
  nextSegment,
  saved, gone, leaked, refused  \* history: segments a save of the index has
                                \* covered, segments deleted, files left behind;
                                \* a rename was refused by the file system

recorderVars == <<running, writing, broken, rotate, closing>>
controlVars == <<lock, at, call, changed>>
diskVars == <<files, index, temporary>>
historyVars == <<saved, gone, leaked, refused>>
vars == <<running, writing, broken, rotate, closing, recordings, lock, at, call,
          changed, files, index, temporary, nextSegment, saved, gone, leaked, refused>>

Present == {s \in Segments : files[s] # Absent}

\* managedBytes()
Managed == MapThenSumSet(LAMBDA s : files[s], recordings)

\* Mutants of Loaded: a missing index is not noticed; entries without a file are
\* kept.
LoadedRaw(ix) == ix

LoadedUnchecked(ix) == IF ix = NoIndex THEN {} ELSE ix

\* loadIndex(): the entries of the index whose file exists.
Loaded(ix) ==
  IF ix = NoIndex THEN {} ELSE {s \in ix : files[s] # Absent}

Init ==
  /\ running = [r \in Recorders |-> FALSE] /\ writing = [r \in Recorders |-> 0]
  /\ broken = [r \in Recorders |-> FALSE] /\ rotate = [r \in Recorders |-> FALSE]
  /\ closing = [r \in Recorders |-> 0]
  /\ recordings = {} /\ lock = Nobody
  /\ at = [a \in Actors |-> "idle"] /\ call = [a \in Actors |-> "none"]
  /\ changed = FALSE
  /\ files = [s \in Segments |-> Absent] /\ nextSegment = 1
  /\ index = NoIndex /\ temporary = NoIndex
  /\ saved = {} /\ gone = {} /\ leaked = {} /\ refused = FALSE

\* A call goes on, or returns; the return drops the lock the call held.
Goto(a, label) == at' = [at EXCEPT ![a] = label]
Enter(a, name, label) == Goto(a, label) /\ call' = [call EXCEPT ![a] = name]
Return(a) ==
  /\ Enter(a, "none", "idle") /\ changed' = FALSE
  /\ lock' = IF lock = a THEN Nobody ELSE lock

-----------------------------------------------------------------------------
(* Recorder *)

StartRecorder(r) ==
  /\ at[r] = "idle" /\ ~running[r]
  /\ running' = [running EXCEPT ![r] = TRUE]
  /\ UNCHANGED <<writing, broken, rotate, closing, recordings, controlVars, diskVars,
                 nextSegment, historyVars>>

\* current_.bytes >= segmentMaxBytes.
Full(bytes) == bytes >= SegmentMax

(* consume() of a key frame with no segment open, or what is left of it    *)
(* after a rotation: openSegmentLocked() and the first write.              *)
OpenSegment(r) ==
  /\ (at[r] = "idle" /\ running[r] /\ writing[r] = 0) \/ at[r] = "reopen"
  /\ nextSegment <= MaxSegments
  /\ nextSegment' = nextSegment + 1
  /\ writing' = [writing EXCEPT ![r] = nextSegment]
  /\ \/ /\ files' = [files EXCEPT ![nextSegment] = 1]
        /\ broken' = [broken EXCEPT ![r] = FALSE]
        /\ rotate' = [rotate EXCEPT ![r] = Full(1)]
     \/ /\ files' = [files EXCEPT ![nextSegment] = 0]
        /\ broken' = [broken EXCEPT ![r] = TRUE]
        /\ UNCHANGED rotate
  /\ Enter(r, "none", "idle")
  /\ UNCHANGED <<running, closing, recordings, lock, changed, index, temporary,
                 historyVars>>

\* The file cannot be created (-EIO); also the bound on the segments.
OpenFails(r) ==
  /\ at[r] = "reopen"
  /\ Enter(r, "none", "idle")
  /\ UNCHANGED <<recorderVars, recordings, lock, changed, diskVars, nextSegment, historyVars>>

(* consume() with a segment open.  A stream that failed once refuses every *)
(* later write, until the segment is closed.                               *)
WritePacket(r) ==
  /\ at[r] = "idle" /\ running[r] /\ writing[r] # 0 /\ ~broken[r]
  /\ files[writing[r]] < MaxFile
  /\ \/ /\ files' = [files EXCEPT ![writing[r]] = @ + 1]
        /\ rotate' = [rotate EXCEPT ![r] = Full(files[writing[r]] + 1)]
        /\ UNCHANGED broken
     \/ broken' = [broken EXCEPT ![r] = TRUE] /\ UNCHANGED <<files, rotate>>
  /\ UNCHANGED <<running, writing, closing, recordings, controlVars, index, temporary,
                 nextSegment, historyVars>>

\* finishSegmentLocked() closes the stream; one that failed, before or in the
\* close, leaves its file unlisted (-EIO).
CloseSegment(r, name) ==
  /\ writing' = [writing EXCEPT ![r] = 0]
  /\ \/ /\ ~broken[r]
        /\ closing' = [closing EXCEPT ![r] = writing[r]] /\ Enter(r, name, "list")
        /\ UNCHANGED leaked
     \/ leaked' = leaked \cup {writing[r]} /\ UNCHANGED <<closing, at, call>>
  /\ UNCHANGED <<broken, rotate, recordings, lock, changed, diskVars, nextSegment,
                 saved, gone, refused>>

\* consume() of a key frame when the segment is full.
Rotate(r) ==
  /\ at[r] = "idle" /\ running[r] /\ writing[r] # 0 /\ rotate[r]
  /\ CloseSegment(r, "rotate") /\ UNCHANGED running

StopRecorder(r) ==
  /\ at[r] = "idle" /\ running[r]
  /\ running' = [running EXCEPT ![r] = FALSE]
  /\ IF writing[r] # 0 THEN CloseSegment(r, "stop")
     ELSE UNCHANGED <<writing, broken, rotate, closing, recordings, controlVars,
                      diskVars, nextSegment, historyVars>>

\* The closed segment joins recordings; what follows holds lock.
ListSegment(r) ==
  /\ at[r] = "list" /\ lock = Nobody
  /\ lock' = r /\ recordings' = recordings \cup {closing[r]}
  /\ closing' = [closing EXCEPT ![r] = 0]
  /\ Goto(r, "save")
  /\ UNCHANGED <<running, writing, broken, rotate, call, changed, diskVars, nextSegment,
                 historyVars>>

-----------------------------------------------------------------------------
(* persistIndexLocked() *)

\* Mutant of WriteTemporary: the index is written in place.
WriteInPlace(a) ==
  /\ at[a] = "save" /\ index' = {} /\ temporary' = recordings /\ Goto(a, "rename")
  /\ UNCHANGED <<recorderVars, recordings, lock, call, changed, files, nextSegment,
                 historyVars>>

\* The temporary file, which nothing reads, is written.
WriteTemporary(a) ==
  /\ at[a] = "save" /\ temporary' = recordings /\ Goto(a, "rename")
  /\ UNCHANGED <<recorderVars, recordings, lock, call, changed, files, index, nextSegment,
                 historyVars>>

\* -EIO, in the call that wanted the index saved.
SaveFails(a) ==
  /\ at[a] \in {"save", "renameAgain"} /\ Return(a) /\ temporary' = NoIndex
  /\ UNCHANGED <<recorderVars, recordings, files, index, nextSegment, historyVars>>

\* The temporary file becomes the index; a save that follows a deletion was the
\* call's last step, one that follows a new segment is followed by cleanupLocked().
Rename(a) ==
  /\ at[a] \in {"rename", "renameAgain"}
  /\ index' = temporary /\ temporary' = NoIndex /\ saved' = saved \cup temporary
  /\ Goto(a, IF changed THEN "done" ELSE "clean")
  /\ UNCHANGED <<recorderVars, recordings, lock, call, changed, files, nextSegment, gone,
                 leaked, refused>>

\* The file system refuses the rename: the old index is removed, if possible,
\* and the rename tried again.
RenameRefused(a) ==
  /\ at[a] = "rename" /\ Goto(a, "renameAgain")
  /\ refused' = TRUE /\ index' \in {index, NoIndex}
  /\ UNCHANGED <<recorderVars, recordings, lock, call, changed, files, temporary,
                 nextSegment, saved, gone, leaked>>

-----------------------------------------------------------------------------
(* cleanupLocked(), remove() *)

\* Too many bytes, or possibly too little space on the disk.
NeedsCleanup == (MaxBytes # 0 /\ Managed > MaxBytes) \/ MinimumFree

Delete(s) ==
  /\ files' = [files EXCEPT ![s] = Absent] /\ recordings' = recordings \ {s}
  /\ gone' = gone \cup {s} /\ changed' = TRUE

\* Mutant of Clean: an entry is dropped although its file stays.
CleanForgets(a) ==
  /\ at[a] = "clean" /\ NeedsCleanup
  /\ \E s \in recordings : recordings' = recordings \ {s}
  /\ changed' = TRUE
  /\ UNCHANGED <<recorderVars, lock, at, call, diskVars, nextSegment, historyVars>>

\* Over the limit, or short of space, the recording with the least start time
\* goes; that time is of a clock which restarts at boot, so it may be any.
Clean(a) ==
  /\ at[a] = "clean" /\ NeedsCleanup
  /\ \E s \in recordings : Delete(s)
  /\ UNCHANGED <<recorderVars, lock, at, call, index, temporary, nextSegment, saved,
                 leaked, refused>>

\* The file cannot be deleted: what was deleted before is not saved.
CleanFails(a) ==
  /\ at[a] = "clean" /\ recordings # {} /\ NeedsCleanup
  /\ Return(a)
  /\ UNCHANGED <<recorderVars, recordings, diskVars, nextSegment, historyVars>>

CleanDone(a) ==
  /\ at[a] = "clean" /\ (recordings = {} \/ Managed <= MaxBytes \/ MaxBytes = 0)
  /\ Goto(a, IF changed THEN "save" ELSE "done")
  /\ UNCHANGED <<recorderVars, recordings, lock, call, changed, diskVars, nextSegment,
                 historyVars>>

\* The call has succeeded; after a rotation consume() goes on.
Done(a) ==
  /\ at[a] = "done" /\ lock' = Nobody /\ changed' = FALSE
  /\ IF call[a] = "rotate" THEN Goto(a, "reopen") /\ UNCHANGED call
     ELSE Enter(a, "none", "idle")
  /\ rotate' = [r \in Recorders |-> rotate[r] /\ r # a]
  /\ UNCHANGED <<running, writing, broken, closing, recordings, diskVars, nextSegment,
                 historyVars>>

RemoveRecording(s) ==
  /\ at[Manager] = "idle" /\ lock = Nobody /\ s \in recordings
  /\ Delete(s) /\ lock' = Manager /\ Enter(Manager, "remove", "save")
  /\ UNCHANGED <<recorderVars, index, temporary, nextSegment, saved, leaked, refused>>

Cleanup ==
  /\ at[Manager] = "idle" /\ lock = Nobody
  /\ lock' = Manager /\ Enter(Manager, "cleanup", "clean")
  /\ UNCHANGED <<recorderVars, recordings, changed, diskVars, nextSegment, historyVars>>

-----------------------------------------------------------------------------
(* The process dies at any point; the next one loads the index, and knows  *)
(* nothing of the files that are not in it.                                *)
Crash ==
  /\ recordings' = Loaded(index)
  /\ running' = [r \in Recorders |-> FALSE] /\ writing' = [r \in Recorders |-> 0]
  /\ broken' = [r \in Recorders |-> FALSE] /\ rotate' = [r \in Recorders |-> FALSE]
  /\ closing' = [r \in Recorders |-> 0]
  /\ lock' = Nobody /\ changed' = FALSE
  /\ at' = [a \in Actors |-> "idle"] /\ call' = [a \in Actors |-> "none"]
  /\ leaked' = Present \ Loaded(index)
  /\ temporary' = NoIndex  \* left over, and truncated by the next save
  /\ UNCHANGED <<files, index, nextSegment, saved, gone, refused>>

Next ==
  \/ \E r \in Recorders :
       \/ StartRecorder(r) \/ OpenSegment(r) \/ OpenFails(r) \/ WritePacket(r)
       \/ Rotate(r) \/ StopRecorder(r) \/ ListSegment(r)
  \/ \E a \in Actors :
       \/ WriteTemporary(a) \/ SaveFails(a) \/ Rename(a) \/ RenameRefused(a)
       \/ Clean(a) \/ CleanFails(a) \/ CleanDone(a) \/ Done(a)
  \/ \E s \in Segments : RemoveRecording(s)
  \/ Cleanup \/ Crash

Spec == Init /\ [][Next]_vars

-----------------------------------------------------------------------------
(* Correctness. *)

TypeOK ==
  /\ running \in [Recorders -> BOOLEAN] /\ writing \in [Recorders -> 0 .. MaxSegments]
  /\ broken \in [Recorders -> BOOLEAN] /\ rotate \in [Recorders -> BOOLEAN]
  /\ closing \in [Recorders -> 0 .. MaxSegments]
  /\ recordings \subseteq Segments /\ lock \in Actors \cup {Nobody}
  /\ at \in [Actors -> {"idle", "list", "save", "rename", "renameAgain", "clean",
                        "done", "reopen"}]
  /\ call \in [Actors -> {"none", "rotate", "stop", "remove", "cleanup"}]
  /\ changed \in BOOLEAN /\ files \in [Segments -> Absent .. MaxFile]
  /\ \A ix \in {index, temporary} : ix = NoIndex \/ ix \subseteq Segments
  /\ nextSegment \in 1 .. MaxSegments + 1
  /\ saved \subseteq Segments /\ gone \subseteq Segments /\ leaked \subseteq Segments
  /\ refused \in BOOLEAN

(* A recording that a save of the index has covered is never lost, however *)
(* the process dies: the index on disk names it and its file is there,     *)
(* until it is deleted - as long as the file system refuses no rename.     *)
Durable ==
  ~refused => saved \ gone \subseteq Loaded(index)

(* A recording that remove() or a cleanup deleted does not come back after *)
(* a crash, although the index on disk still names it until the save.      *)
NoResurrection == gone \cap recordings = {}

(* Every segment file is listed once, or being written by one recorder, or *)
(* was left behind by a failed stream or a crash: remove() and cleanup     *)
(* never touch a file in use, and no other path loses track of one.        *)
InUse(r) == {writing[r], closing[r]} \ {0}
FilesAccounted ==
  /\ \A r \in Recorders : InUse(r) \cap (recordings \cup leaked) = {}
  /\ \A q, r \in Recorders : q # r => InUse(q) \cap InUse(r) = {}
  /\ recordings \cap leaked = {}
  /\ Present = recordings \cup leaked
                \cup {s \in Segments : \E r \in Recorders : s \in InUse(r)}
=============================================================================
