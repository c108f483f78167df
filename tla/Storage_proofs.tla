--------------------------- MODULE Storage_proofs ---------------------------
(***************************************************************************)
(* Theorems about Storage for every set of experiments, file types and     *)
(* sample ids, whatever the size of the file pool.                         *)
(***************************************************************************)
EXTENDS Storage, TLAPS

\* The type invariant in two parts: Zenon proves the first, which needs Boolean values
\* for the flags an action computes, SMT the second.
FlagsOK ==
  /\ fs_initialized \in BOOLEAN /\ fs_init_err \in BOOLEAN
  /\ experiment_initialized \in BOOLEAN
  /\ misc_op_active \in BOOLEAN /\ sampling_active \in BOOLEAN
  /\ dl_opened \in BOOLEAN /\ mounted \in BOOLEAN
  /\ sync_timer \in BOOLEAN /\ sync_work \in BOOLEAN

DataOK ==
  /\ active_experiment_dir \in Ids \cup {NoDir}
  /\ status \in [FileTypes -> {"INACTIVE", "ACTIVE", "ERR"}]
  /\ file \in [FileTypes -> SampleFiles \cup {NoFile, StaleFile}]
  /\ lost \in Nat
  /\ dl_file \in SampleFiles \cup {NoFile}
  /\ folders \subseteq Ids /\ samples \subseteq SampleFiles
  /\ pc \in PCs /\ target \in Ids \cup SampleFiles \cup {NoTarget}
  /\ fresh_dir \in Ids \cup {NoDir}

LEMMA TypeParts == /\ TypeOK <=> FlagsOK /\ DataOK
                   /\ TypeOK' <=> FlagsOK' /\ DataOK'
  BY DEF TypeOK, FlagsOK, DataOK

\* Every action keeps the variables in their types.
LEMMA TypeInductive == TypeOK /\ [Next]_vars => TypeOK'
<1> SUFFICES ASSUME TypeOK, [Next]_vars PROVE TypeOK'
  OBVIOUS
<1> USE NamesAssumption DEF TypeOK, PCs
<1>1. CASE BootMount
  <2>1. FlagsOK'
    BY <1>1, Zenon DEF FlagsOK, BootMount, InitFs, table, download, sync
  <2>2. DataOK'
    BY <1>1 DEF DataOK, BootMount, InitFs, table, download, sync
  <2> QED
    BY <2>1, <2>2, TypeParts
<1>2. CASE BootTimer
  BY <1>2 DEF BootTimer, StartSyncTimer, flags, table, download, card
<1>3. CASE DeinitCheck
  <2>1. FlagsOK'
    BY <1>3, Zenon DEF FlagsOK, DeinitCheck, table, download, card, sync
  <2>2. DataOK'
    BY <1>3 DEF DataOK, DeinitCheck, table, download, card, sync
  <2> QED
    BY <2>1, <2>2, TypeParts
<1>4. CASE DeinitStopTimer
  <2>1. FlagsOK'
    BY <1>4, Zenon DEF FlagsOK, DeinitStopTimer, flags, table, download, card
  <2>2. DataOK'
    BY <1>4 DEF DataOK, DeinitStopTimer, flags, table, download, card
  <2> QED
    BY <2>1, <2>2, TypeParts
<1>5. CASE DeinitCancelWork
  <2>1. FlagsOK'
    BY <1>5, Zenon DEF FlagsOK, DeinitCancelWork, flags, table, download, card
  <2>2. DataOK'
    BY <1>5 DEF DataOK, DeinitCancelWork, flags, table, download, card
  <2> QED
    BY <2>1, <2>2, TypeParts
<1>6. CASE DeinitFinish
  <2>1. FlagsOK'
    BY <1>6, Zenon DEF FlagsOK, DeinitFinish, SamplingAfter, table, download, sync
  <2>2. DataOK'
    BY <1>6 DEF DataOK, DeinitFinish, SamplingAfter, table, download, sync
  <2> QED
    BY <2>1, <2>2, TypeParts
<1>7. CASE Mkfs
  BY <1>7 DEF Mkfs, flags, table, download, sync
<1>8. CASE Remount
  <2>1. FlagsOK'
    BY <1>8, Zenon DEF FlagsOK, Remount, InitFs, table, download, sync
  <2>2. DataOK'
    BY <1>8 DEF DataOK, Remount, InitFs, table, download, sync
  <2> QED
    BY <2>1, <2>2, TypeParts
<1>9. CASE RemountTimer
  BY <1>9 DEF RemountTimer, StartSyncTimer, flags, table, download, card
<1>10. CASE EraseDone
  BY <1>10 DEF EraseDone, table, download, card, sync
<1>11. CASE ErasePathFinish
  <2>1. FlagsOK'
    BY <1>11, Zenon DEF FlagsOK, ErasePathFinish, SamplingAfter, table, download, sync
  <2>2. DataOK'
    BY <1>11 DEF DataOK, ErasePathFinish, SamplingAfter, table, download, sync
  <2> QED
    BY <2>1, <2>2, TypeParts
<1>12. CASE EraseWholeCard
  BY <1>12 DEF EraseWholeCard, flags, table, download, card, sync
<1>13. ASSUME NEW path \in Ids \cup SampleFiles, ErasePath(path) PROVE TypeOK'
  BY <1>13 DEF ErasePath, table, download, card, sync
<1>14. ASSUME NEW id \in Ids, InitExperiment(id) PROVE TypeOK'
  BY <1>14 DEF InitExperiment, table, download, sync, bt
<1>15. ASSUME NEW f \in SampleFiles, DownloadFirstChunk(f) PROVE TypeOK'
  <2>1. FlagsOK'
    BY <1>15, Zenon DEF FlagsOK, DownloadFirstChunk, flags, table, card, sync, bt
  <2>2. DataOK'
    BY <1>15 DEF DataOK, DownloadFirstChunk, flags, table, card, sync, bt
  <2> QED
    BY <2>1, <2>2, TypeParts
<1>16. CASE DownloadLastChunk
  <2>1. FlagsOK'
    BY <1>16, Zenon DEF FlagsOK, DownloadLastChunk, flags, table, card, sync, bt
  <2>2. DataOK'
    BY <1>16 DEF DataOK, DownloadLastChunk, flags, table, card, sync, bt
  <2> QED
    BY <2>1, <2>2, TypeParts
<1>17. ASSUME NEW t \in FileTypes, NEW iter \in Iters, InitSampleFile(t, iter)
       PROVE TypeOK'
  <2> DEFINE f == <<active_experiment_dir, t, iter>>
  <2>1. active_experiment_dir \in folders => f \in SampleFiles
    BY DEF SampleFiles
  <2>2. lost' \in Nat
    BY <1>17 DEF InitSampleFile
  <2>3. sampling_active' \in BOOLEAN
    BY <1>17 DEF InitSampleFile, SamplingAfter
  <2> QED
    BY <1>17, <2>1, <2>2, <2>3 DEF InitSampleFile, download, sync, bt
<1>18. ASSUME NEW t \in FileTypes, Write(t) PROVE TypeOK'
  BY <1>18 DEF Write, flags, download, card, sync, bt
<1>19. ASSUME NEW t \in FileTypes, Close(t) PROVE TypeOK'
  BY <1>19 DEF Close, SamplingAfter, download, card, sync, bt
<1>20. CASE SyncTimer
  BY <1>20 DEF SyncTimer, flags, table, download, card, bt
<1>21. CASE SyncFlush
  <2>1. FlagsOK'
    BY <1>21, Zenon DEF FlagsOK, SyncFlush, flags, download, card, bt
  <2>2. DataOK'
    BY <1>21 DEF DataOK, SyncFlush, flags, download, card, bt
  <2> QED
    BY <2>1, <2>2, TypeParts
<1>22. CASE Reboot
  <2>1. FlagsOK'
    BY <1>22, Zenon DEF FlagsOK, Reboot
  <2>2. DataOK'
    BY <1>22 DEF DataOK, Reboot
  <2> QED
    BY <2>1, <2>2, TypeParts
<1>23. CASE UNCHANGED vars
  BY <1>23 DEF vars, flags, table, download, card, sync, bt
<1> QED
  BY <1>1, <1>2, <1>3, <1>4, <1>5, <1>6, <1>7, <1>8, <1>9, <1>10, <1>11, <1>12, <1>13,
     <1>14, <1>15, <1>16, <1>17, <1>18, <1>19, <1>20, <1>21, <1>22, <1>23
     DEF Next, Boot, EraseStep, Deinit, Command, Sensor

\* Every variable keeps its type, whatever the environment of storage.c does.
THEOREM TypeCorrect == Spec => []TypeOK
<1>1. Init => TypeOK
  <2>1. Init => FlagsOK
    BY Zenon DEF Init, FlagsOK
  <2>2. Init => DataOK
    BY DEF Init, DataOK, PCs
  <2> QED
    BY <2>1, <2>2, TypeParts
<1> QED
  BY <1>1, TypeInductive, PTL DEF Spec

-----------------------------------------------------------------------------
\* Every action keeps the inductive invariant.
LEMMA InvInductive == TypeOK /\ StorageInv /\ [Next]_vars => StorageInv'
<1> SUFFICES ASSUME TypeOK, StorageInv, [Next]_vars PROVE StorageInv'
  OBVIOUS
<1> USE NamesAssumption
    DEF TypeOK, PCs, StorageInv, SamplingFlagExact, OpenFilesLive, MiscFlagExact, NothingRecorded,
        Erasing, flags, table, download, card, sync, bt
<1>1. CASE BootMount
  BY <1>1 DEF BootMount, InitFs
<1>2. CASE BootTimer
  BY <1>2 DEF BootTimer, StartSyncTimer
<1>3. CASE DeinitCheck
  BY <1>3 DEF DeinitCheck, CardIdle
<1>4. CASE DeinitStopTimer
  BY <1>4 DEF DeinitStopTimer
<1>5. CASE DeinitCancelWork
  BY <1>5 DEF DeinitCancelWork
<1>6. CASE DeinitFinish
  BY <1>6 DEF DeinitFinish, SamplingAfter
<1>7. CASE Mkfs
  BY <1>7 DEF Mkfs
<1>8. CASE Remount
  BY <1>8 DEF Remount, InitFs
<1>9. CASE RemountTimer
  BY <1>9 DEF RemountTimer, StartSyncTimer
<1>10. CASE EraseDone
  BY <1>10 DEF EraseDone
<1>11. CASE ErasePathFinish
  BY <1>11 DEF ErasePathFinish, SamplingAfter
<1>12. CASE EraseWholeCard
  BY <1>12 DEF EraseWholeCard, CardIdle
<1>13. ASSUME NEW path \in Ids \cup SampleFiles, ErasePath(path) PROVE StorageInv'
  BY <1>13 DEF ErasePath, CardIdle
<1>14. ASSUME NEW id \in Ids, InitExperiment(id) PROVE StorageInv'
  BY <1>14 DEF InitExperiment, CardIdle
<1>15. ASSUME NEW f \in SampleFiles, DownloadFirstChunk(f) PROVE StorageInv'
  BY <1>15 DEF DownloadFirstChunk
<1>16. CASE DownloadLastChunk
  BY <1>16 DEF DownloadLastChunk
<1>17. ASSUME NEW t \in FileTypes, NEW iter \in Iters, InitSampleFile(t, iter) PROVE StorageInv'
  <2> DEFINE f == <<active_experiment_dir, t, iter>>
  <2>1. experiment_initialized /\ fs_initialized /\ mounted /\ ~misc_op_active /\ ~Erasing
    BY <1>17 DEF InitSampleFile, MayInit, Running
  <2>2. /\ UNCHANGED <<fs_initialized, experiment_initialized, misc_op_active, mounted,
                        active_experiment_dir, folders, pc>>
        /\ ~Erasing'
    BY <1>17, <2>1 DEF InitSampleFile
  \* The path exists, or could not be looked up: only the struct is reset.
  <2>3. CASE /\ file' = [file EXCEPT ![t] = NoFile]
             /\ UNCHANGED <<status, samples, sampling_active>>
    BY <2>1, <2>2, <2>3
  <2>4. CASE /\ file' = [file EXCEPT ![t] = f]
             /\ f \in SampleFiles /\ active_experiment_dir \in folders
             /\ samples' = samples \cup {f}
             /\ status' = [status EXCEPT ![t] = "ACTIVE"]
             /\ sampling_active' = SamplingAfter(experiment_initialized, status')
    <3>1. status'[t] = "ACTIVE" /\ f[1] = active_experiment_dir
      BY <2>4
    <3>2. SamplingFlagExact'
      BY <2>1, <2>2, <2>4, <3>1 DEF SamplingAfter
    <3>3. OpenFilesLive'
      BY <2>1, <2>2, <2>4, <3>1
    <3> QED
      BY <2>1, <2>2, <2>4, <3>1, <3>2, <3>3
  <2>5. CASE /\ file' = [file EXCEPT ![t] = NoFile]
             /\ status' = [status EXCEPT ![t] = "ERR"]
             /\ UNCHANGED samples
             /\ sampling_active' = SamplingAfter(experiment_initialized, status')
    BY <2>1, <2>2, <2>5 DEF SamplingAfter
  <2> QED
    BY <1>17, <2>3, <2>4, <2>5 DEF InitSampleFile, SampleFiles
<1>18. ASSUME NEW t \in FileTypes, Write(t) PROVE StorageInv'
  BY <1>18 DEF Write, Running
<1>19. ASSUME NEW t \in FileTypes, Close(t) PROVE StorageInv'
  BY <1>19 DEF Close, Running, SamplingAfter
<1>20. CASE SyncTimer
  BY <1>20 DEF SyncTimer
<1>21. CASE SyncFlush
  BY <1>21 DEF SyncFlush
<1>22. CASE Reboot
  BY <1>22 DEF Reboot
<1>23. CASE UNCHANGED vars
  BY <1>23 DEF vars
<1> QED
  BY <1>1, <1>2, <1>3, <1>4, <1>5, <1>6, <1>7, <1>8, <1>9, <1>10, <1>11,
     <1>12, <1>13, <1>14, <1>15, <1>16, <1>17, <1>18, <1>19, <1>20, <1>21, <1>22, <1>23
     DEF Next, Boot, EraseStep, Deinit, Command, Sensor

LEMMA InvCorrect == Spec => []StorageInv
<1>1. Init => StorageInv
  BY NamesAssumption DEF Init, StorageInv, SamplingFlagExact, OpenFilesLive, MiscFlagExact,
     NothingRecorded, Erasing
<1> QED
  BY <1>1, TypeCorrect, InvInductive, PTL DEF Spec

\* storage.c's flag for maintenance to test is true exactly while a file is recorded.
THEOREM SamplingFlagCorrect == Spec => []SamplingFlagExact
<1>1. StorageInv => SamplingFlagExact
  BY DEF StorageInv
<1> QED
  BY <1>1, InvCorrect, PTL

\* No set-up, erase or format takes an open sample file away from its sensor.
THEOREM OpenFilesSafe == Spec => []OpenFilesLive
<1>1. StorageInv => OpenFilesLive
  BY DEF StorageInv
<1> QED
  BY <1>1, InvCorrect, PTL

\* misc_op_active is set exactly while an erase needs it.
THEOREM MiscFlagCorrect == Spec => []MiscFlagExact
<1>1. StorageInv => MiscFlagExact
  BY DEF StorageInv
<1> QED
  BY <1>1, InvCorrect, PTL
-----------------------------------------------------------------------------
\* Every step is a step of RecordingStore or leaves its variables alone.
LEMMA StepRefines ==
  TypeOK /\ StorageInv /\ [Next]_vars => [Abstract!Next]_Abstract!vars
<1> SUFFICES ASSUME TypeOK, StorageInv, [Next]_vars
             PROVE  [Abstract!Next]_Abstract!vars
  OBVIOUS
<1> USE NamesAssumption DEF Abstract!vars, Recording, Erasing
\* The actions that touch no sample file and do not move an erase into or out of its
\* exclusive part.
<1>1. CASE \/ BootMount \/ BootTimer \/ EraseWholeCard \/ DownloadLastChunk \/ SyncTimer
           \/ \E id \in Ids: InitExperiment(id)
           \/ \E f \in SampleFiles: DownloadFirstChunk(f)
           \/ \E t \in FileTypes: Write(t)
           \/ SyncFlush \/ UNCHANGED vars
  <2>1. UNCHANGED <<file, samples>> /\ Erasing' = Erasing
    BY <1>1 DEF BootMount, InitFs, BootTimer, StartSyncTimer, EraseWholeCard, DownloadLastChunk,
       SyncTimer, InitExperiment, DownloadFirstChunk, Write, SyncFlush, vars, table, card, bt
  <2> QED
    BY <2>1
\* The start of an erase.
<1>2. CASE DeinitCheck \/ \E path \in Ids \cup SampleFiles: ErasePath(path)
  <2>1. UNCHANGED <<file, samples>> /\ ~Erasing
    BY <1>2 DEF DeinitCheck, ErasePath, table, card
  <2>2. CASE Erasing'
    <3>1. NothingRecorded
      BY <1>2, <2>2 DEF DeinitCheck, ErasePath, CardIdle, StorageInv, SamplingFlagExact,
         NothingRecorded
    <3>2. Recording = Abstract!Nothing
      BY <3>1 DEF StorageInv, NothingRecorded, Abstract!Nothing
    <3>3. Abstract!Acquire
      BY <2>1, <2>2, <3>2 DEF Abstract!Acquire
    <3> QED
      BY <3>3 DEF Abstract!Next
  <2>3. CASE ~Erasing'
    BY <2>1, <2>3
  <2> QED
    BY <2>2, <2>3
\* The rest of it, which may remove files.
<1>3. CASE \/ DeinitStopTimer \/ DeinitCancelWork \/ DeinitFinish \/ Mkfs \/ Remount
           \/ RemountTimer \/ EraseDone \/ ErasePathFinish
  <2>1. Erasing /\ UNCHANGED file
    BY <1>3 DEF DeinitStopTimer, DeinitCancelWork, DeinitFinish, Mkfs, Remount, InitFs,
       RemountTimer, StartSyncTimer, EraseDone, ErasePathFinish, table
  <2>2. samples' \subseteq samples
    BY <1>3 DEF DeinitStopTimer, DeinitCancelWork, DeinitFinish, Mkfs, Remount, InitFs,
       RemountTimer, StartSyncTimer, EraseDone, ErasePathFinish, card
  <2> DEFINE gone == samples \ samples'
  <2>3. gone \in SUBSET SampleFiles /\ samples' = samples \ gone
    BY <2>2 DEF TypeOK
  <2>4. Abstract!Remove(gone)
    BY <2>1, <2>3 DEF Abstract!Remove
  <2> QED
    BY <2>3, <2>4 DEF Abstract!Next
\* The start of a recording.
<1>4. ASSUME NEW t \in FileTypes, NEW iter \in Iters, InitSampleFile(t, iter)
      PROVE  [Abstract!Next]_Abstract!vars
  <2> DEFINE f == <<active_experiment_dir, t, iter>>
  <2>1. ~Erasing /\ UNCHANGED pc
    BY <1>4 DEF InitSampleFile, MayInit, StorageInv, MiscFlagExact, bt
  <2>2. CASE file' = [file EXCEPT ![t] = NoFile] /\ UNCHANGED samples
    <3>1. Abstract!Finish(t)
      BY <2>1, <2>2 DEF Abstract!Finish, TypeOK
    <3> QED
      BY <3>1 DEF Abstract!Next
  <2>3. CASE /\ file' = [file EXCEPT ![t] = f]
             /\ f \in SampleFiles \ samples
             /\ samples' = samples \cup {f}
    <3>1. PICK g \in SampleFiles: g = f
      BY <2>3
    <3>2. Abstract!Record(t, g)
      BY <2>1, <2>3, <3>1 DEF Abstract!Record, TypeOK
    <3> QED
      BY <3>2, Zenon DEF Abstract!Next
  <2> QED
    BY <1>4, <2>2, <2>3 DEF InitSampleFile, SampleFiles, TypeOK
\* Its end.
<1>5. ASSUME NEW t \in FileTypes, Close(t) PROVE [Abstract!Next]_Abstract!vars
  <2>1. UNCHANGED <<samples, pc>>
    BY <1>5 DEF Close, card, bt
  <2>2. PICK h \in {NoFile, StaleFile}: file' = [file EXCEPT ![t] = h]
    BY <1>5 DEF Close
  <2>3. Recording' = [Recording EXCEPT ![t] = NoFile]
    BY <2>2 DEF TypeOK
  <2>4. Abstract!Finish(t)
    BY <2>1, <2>3 DEF Abstract!Finish
  <2> QED
    BY <2>4 DEF Abstract!Next
<1>6. CASE Reboot
  <2>1. Abstract!PowerLoss
    BY <1>6 DEF Reboot, Abstract!PowerLoss, Abstract!Nothing
  <2> QED
    BY <2>1 DEF Abstract!Next
<1> QED
  BY <1>1, <1>2, <1>3, <1>4, <1>5, <1>6 DEF Next, Boot, EraseStep, Deinit, Command, Sensor

\* storage.c implements the abstract store: recording and maintenance exclude each other,
\* no recording overwrites a file, only maintenance removes one.
THEOREM StorageRefines == Spec => ImplementsRecordingStore
<1>1. Init => Abstract!Init
  BY NamesAssumption DEF Init, Abstract!Init, Abstract!Nothing, Recording, Erasing
<1> QED
  BY <1>1, StepRefines, TypeCorrect, InvCorrect, PTL
     DEF Spec, Abstract!Spec, ImplementsRecordingStore
=============================================================================
