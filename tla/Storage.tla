------------------------------ MODULE Storage ------------------------------
(***************************************************************************)
(* storage.c: the SD card of a badge.                                      *)
(*                                                                         *)
(* Every function of storage.c does its work in critical sections of       *)
(* storage_mutex, and all its state is touched only inside one, so each    *)
(* critical section is one action.  A function with several sections (the  *)
(* erase path, through storage_deinit_fs and storage_init_fs) is a         *)
(* sequence of actions of the thread that runs commands: pc says where it  *)
(* is.  The functions sensors call have one section each and run on the    *)
(* system work queue between any two of those actions, as do the sync      *)
(* timer and its work item.                                                *)
(*                                                                         *)
(* The file system underneath (Zephyr's fs layer over FatFs) is external:  *)
(* every call may fail, and the outcome is a nondeterministic choice       *)
(* except where the state of the card decides it.                          *)
(***************************************************************************)
EXTENDS Integers, FiniteSets

CONSTANTS Ids,        \* experiment ids; experiment id's folder is "/SD:/<id>"
          PrefixOf,   \* <<a, b>>: the decimal digits of b start with those of a
          FileTypes,  \* enum mb_file_type
          Iters,      \* sample ids that start commands carry
          NumFiles,   \* CONFIG_FS_FATFS_NUM_FILES, FatFs' pool of open files
          NoDir,      \* active_experiment_dir before the first set-up
          NoFile,     \* a struct fs_file_t that is not bound to a file
          StaleFile,  \* one that a failed fs_close left bound
          NoTarget    \* no erase is under way

\* storage_init_sample_file builds "<dir>/<type prefix><iter>": the path of a
\* sample file is that triple.
SampleFiles == Ids \X FileTypes \X Iters

ASSUME PrefixAssumption == /\ PrefixOf \subseteq Ids \X Ids
                           /\ \A id \in Ids: <<id, id>> \in PrefixOf
ASSUME NamesAssumption == /\ NoDir \notin Ids
                          /\ NoFile \notin SampleFiles
                          /\ StaleFile \notin SampleFiles
                          /\ NoFile # StaleFile
ASSUME PoolAssumption == NumFiles \in Nat /\ IsFiniteSet(FileTypes)

VARIABLES
  fs_initialized, fs_init_err, experiment_initialized,  \* union
  misc_op_active, sampling_active,                      \* mb_storage_status
  active_experiment_dir,
  status,       \* file_info_table[type].status
  file,         \* file_info_table[type].file
  lost,         \* pool entries whose struct fs_file_t was overwritten
  dl_opened,    \* opened_file_for_download
  dl_file,      \* file_for_chunk_download
  mounted, folders, samples,  \* the card: volume, experiment folders, sample files
  sync_timer,   \* storage_sync_timer runs
  sync_work,    \* storage_sync_work is queued
  pc, target,   \* where the command thread is in an erase, and what it erases
  fresh_dir     \* history: the folder the last set-up that made one made

flags == <<fs_initialized, fs_init_err, experiment_initialized,
           misc_op_active, sampling_active>>
table == <<status, file, lost>>
download == <<dl_opened, dl_file>>
card == <<mounted, folders, samples>>
sync == <<sync_timer, sync_work>>
bt == <<pc, target>>
vars == <<flags, active_experiment_dir, table, download, card, sync, bt, fresh_dir>>

PCs == {"boot", "boot_timer", "off", "idle", "erase_path", "deinit", "deinit_timer",
        "deinit_cancel", "deinit_finish", "mkfs", "remount", "remount_timer",
        "erase_done"}

TypeOK ==
  /\ fs_initialized \in BOOLEAN /\ fs_init_err \in BOOLEAN
  /\ experiment_initialized \in BOOLEAN
  /\ misc_op_active \in BOOLEAN /\ sampling_active \in BOOLEAN
  /\ active_experiment_dir \in Ids \cup {NoDir}
  /\ status \in [FileTypes -> {"INACTIVE", "ACTIVE", "ERR"}]
  /\ file \in [FileTypes -> SampleFiles \cup {NoFile, StaleFile}]
  /\ lost \in Nat
  /\ dl_opened \in BOOLEAN /\ dl_file \in SampleFiles \cup {NoFile}
  /\ mounted \in BOOLEAN /\ folders \subseteq Ids /\ samples \subseteq SampleFiles
  /\ sync_timer \in BOOLEAN /\ sync_work \in BOOLEAN
  /\ pc \in PCs /\ target \in Ids \cup SampleFiles \cup {NoTarget}
  /\ fresh_dir \in Ids \cup {NoDir}

\* A badge powers on with whatever a card inserted before holds: here nothing.
Init ==
  /\ fs_initialized = FALSE /\ fs_init_err = FALSE /\ experiment_initialized = FALSE
  /\ misc_op_active = FALSE /\ sampling_active = FALSE
  /\ active_experiment_dir = NoDir
  /\ status = [t \in FileTypes |-> "INACTIVE"]
  /\ file = [t \in FileTypes |-> NoFile] /\ lost = 0
  /\ dl_opened = FALSE /\ dl_file = NoFile
  /\ mounted = FALSE /\ folders = {} /\ samples = {}
  /\ sync_timer = FALSE /\ sync_work = FALSE
  /\ pc = "boot" /\ target = NoTarget
  /\ fresh_dir = NoDir
-----------------------------------------------------------------------------
\* Helpers, each after the wrong variants of it that the checks use to show that
\* a property depends on it (their names say what is wrong with them).

\* Only a file without error counts as being sampled.
SamplingAfter_IgnoresErr(exp, st) == exp /\ \E t \in FileTypes: st[t] = "ACTIVE"

\* storage_update_status_locked
SamplingAfter(exp, st) == exp /\ \E t \in FileTypes: st[t] # "INACTIVE"

CardIdle_IgnoresSampling == ~misc_op_active

\* The test maintenance and set-up commands make before they touch the card.
CardIdle == ~sampling_active /\ ~misc_op_active

MayInit_IgnoresMisc(t) == /\ fs_initialized /\ ~fs_init_err
                          /\ experiment_initialized
                          /\ status[t] # "ACTIVE"

\* The checks at the start of storage_init_sample_file.
MayInit(t) == /\ fs_initialized /\ ~fs_init_err
              /\ ~misc_op_active
              /\ experiment_initialized
              /\ status[t] # "ACTIVE"

HandlesInUse == Cardinality({t \in FileTypes: file[t] \in SampleFiles})
                + lost + (IF dl_file = NoFile THEN 0 ELSE 1)

\* storage_erase's strncmp: the path starts with active_experiment_dir.
InActiveDir(path) ==
  LET id == IF path \in Ids THEN path ELSE path[1]
  IN  <<active_experiment_dir, id>> \in PrefixOf

Running == pc \notin {"boot", "boot_timer", "off"}
-----------------------------------------------------------------------------
\* Mounting and unmounting.

\* storage_init_fs up to its unlock.  fs_mount refuses a volume that is mounted.
InitFs(at, timer, otherwise) ==
  /\ pc = at
  /\ \E ok \in BOOLEAN:
       LET mounts == ok /\ ~mounted /\ ~fs_initialized IN
       /\ mounted' = (mounted \/ mounts)
       /\ fs_initialized' = (fs_initialized \/ mounts)
       /\ fs_init_err' = IF fs_initialized THEN fs_init_err ELSE ~mounts
       /\ pc' = IF mounts THEN timer ELSE otherwise
  /\ UNCHANGED <<experiment_initialized, misc_op_active, sampling_active,
                 active_experiment_dir, table, download, folders, samples, sync,
                 target, fresh_dir>>

StartSyncTimer_Lost(at, next) ==
  /\ pc = at
  /\ pc' = next
  /\ UNCHANGED <<flags, active_experiment_dir, table, download, card, sync, target,
                 fresh_dir>>

\* k_timer_start after the unlock.
StartSyncTimer(at, next) ==
  /\ pc = at
  /\ pc' = next
  /\ sync_timer' = TRUE
  /\ UNCHANGED <<flags, active_experiment_dir, table, download, card, sync_work,
                 target, fresh_dir>>

\* main's run_inits: storage first; when that fails nothing else is started.
BootMount == InitFs("boot", "boot_timer", "off")
BootTimer == StartSyncTimer("boot_timer", "idle")

\* storage_deinit_fs, called by an erase of the whole card: what it tests first.
DeinitCheck ==
  /\ pc = "deinit"
  /\ pc' = IF ~fs_initialized THEN "mkfs" ELSE IF CardIdle THEN "deinit_timer" ELSE "idle"
  /\ misc_op_active' = (misc_op_active \/ (fs_initialized /\ CardIdle))
  /\ UNCHANGED <<fs_initialized, fs_init_err, experiment_initialized, sampling_active,
                 active_experiment_dir, table, download, card, sync, target, fresh_dir>>

\* k_timer_stop, outside the mutex.
DeinitStopTimer ==
  /\ pc = "deinit_timer"
  /\ pc' = "deinit_cancel"
  /\ sync_timer' = FALSE
  /\ UNCHANGED <<flags, active_experiment_dir, table, download, card, sync_work,
                 target, fresh_dir>>

\* k_work_cancel_sync: a queued item is removed (one that runs is waited for,
\* which is the order SyncFlush, then this).
DeinitCancelWork ==
  /\ pc = "deinit_cancel"
  /\ pc' = "deinit_finish"
  /\ sync_work' = FALSE
  /\ UNCHANGED <<flags, active_experiment_dir, table, download, card, sync_timer,
                 target, fresh_dir>>

DeinitFinish_KeepsMisc ==
  /\ pc = "deinit_finish"
  /\ fs_initialized' = FALSE /\ experiment_initialized' = FALSE
  /\ sampling_active' = SamplingAfter(FALSE, status)
  /\ \E ok \in BOOLEAN: /\ mounted' = (mounted /\ ~ok)
                        /\ pc' = IF ok THEN "mkfs" ELSE "idle"
  /\ UNCHANGED <<fs_init_err, misc_op_active, active_experiment_dir, table, download,
                 folders, samples, sync, target, fresh_dir>>

\* The second section: unmount.  A failure ends the erase with the volume mounted
\* and fs_initialized FALSE.
DeinitFinish ==
  /\ pc = "deinit_finish"
  /\ fs_initialized' = FALSE /\ experiment_initialized' = FALSE
  /\ sampling_active' = SamplingAfter(FALSE, status)
  /\ \E ok \in BOOLEAN: /\ mounted' = (mounted /\ ~ok)
                        /\ pc' = IF ok THEN "mkfs" ELSE "idle"
  /\ misc_op_active' = FALSE
  /\ UNCHANGED <<fs_init_err, active_experiment_dir, table, download, folders, samples,
                 sync, target, fresh_dir>>

\* The rest of storage_erase for the whole card: format, mount again, release.
\* A failed fs_mkfs may have destroyed what was there.
Mkfs ==
  /\ pc = "mkfs"
  /\ \E ok \in BOOLEAN, destroyed \in BOOLEAN:
       /\ pc' = IF ok THEN "remount" ELSE "erase_done"
       /\ folders' = IF ok \/ destroyed THEN {} ELSE folders
       /\ samples' = IF ok \/ destroyed THEN {} ELSE samples
  /\ UNCHANGED <<flags, active_experiment_dir, table, download, mounted, sync, target,
                 fresh_dir>>

Remount == InitFs("remount", "remount_timer", "erase_done")

RemountTimer == StartSyncTimer("remount_timer", "erase_done")

EraseDone_OnlyIfMounted ==
  /\ pc = "erase_done" /\ fs_initialized
  /\ pc' = "idle" /\ target' = NoTarget
  /\ misc_op_active' = FALSE
  /\ UNCHANGED <<fs_initialized, fs_init_err, experiment_initialized, sampling_active,
                 active_experiment_dir, table, download, card, sync, fresh_dir>>

EraseDone ==
  /\ pc = "erase_done"
  /\ pc' = "idle" /\ target' = NoTarget
  /\ misc_op_active' = FALSE
  /\ UNCHANGED <<fs_initialized, fs_init_err, experiment_initialized, sampling_active,
                 active_experiment_dir, table, download, card, sync, fresh_dir>>
-----------------------------------------------------------------------------
\* Commands.

\* storage_erase(DISK_MOUNT_POINT) up to its first unlock.
EraseWholeCard ==
  /\ pc = "idle" /\ CardIdle
  /\ pc' = "deinit"
  /\ UNCHANGED <<flags, active_experiment_dir, table, download, card, sync, target,
                 fresh_dir>>

\* storage_erase of a folder or a file up to its first unlock.
ErasePath(path) ==
  /\ pc = "idle" /\ CardIdle
  /\ pc' = "erase_path" /\ target' = path
  /\ misc_op_active' = TRUE
  /\ UNCHANGED <<fs_initialized, fs_init_err, experiment_initialized, sampling_active,
                 active_experiment_dir, table, download, card, sync, fresh_dir>>

\* The section that removes the path.  FatFs removes a folder only when it is empty;
\* ID.txt and SYNC, which it also holds, are not tracked: their presence is one of the
\* reasons fs_unlink may fail.
ErasePathFinish ==
  /\ pc = "erase_path"
  /\ pc' = "idle" /\ target' = NoTarget
  /\ misc_op_active' = FALSE
  /\ experiment_initialized' = (experiment_initialized /\ ~InActiveDir(target))
  /\ sampling_active' = SamplingAfter(experiment_initialized', status)
  /\ \E gone \in {{}, {target}}:
       /\ gone # {} /\ target \in Ids =>
            ~\E f \in samples: f[1] = target
       /\ mounted \/ gone = {}
       /\ folders' = folders \ gone
       /\ samples' = samples \ gone
  /\ UNCHANGED <<fs_initialized, fs_init_err, active_experiment_dir, table, download,
                 mounted, sync, fresh_dir>>

\* storage_init_experiment, past the tests that refuse it.  active_experiment_dir is
\* written before fs_stat says whether the folder exists.
InitExperiment(id) ==
  /\ pc = "idle"
  /\ fs_initialized /\ ~fs_init_err /\ CardIdle
  /\ active_experiment_dir' = id
  /\ \/ UNCHANGED <<experiment_initialized, folders, fresh_dir>>  \* -EEXIST, or fs_stat failed
     \/ /\ id \notin folders
        /\ experiment_initialized' = TRUE   \* whatever fs_mkdir and ID.txt's fs_open return
        /\ \/ UNCHANGED <<folders, fresh_dir>>
           \/ folders' = folders \cup {id} /\ fresh_dir' = id
  /\ UNCHANGED <<fs_initialized, fs_init_err, misc_op_active, sampling_active, table,
                 download, mounted, samples, sync, bt>>

\* cmd_download_file_chunk at offset 0: a file left open is closed first, the flag
\* stays set when the new one cannot be opened, the last chunk closes the file.
DownloadFirstChunk(f) ==
  /\ pc = "idle"
  /\ \/ dl_file' = NoFile /\ UNCHANGED dl_opened      \* fs_open failed
     \/ /\ mounted /\ f \in samples
        /\ HandlesInUse - (IF dl_file = NoFile THEN 0 ELSE 1) < NumFiles
        /\ \/ dl_file' = f /\ dl_opened' = TRUE       \* a chunk was read
           \/ dl_file' = NoFile /\ dl_opened' = FALSE \* end of file, or a failed read
  /\ UNCHANGED <<flags, active_experiment_dir, table, card, sync, bt, fresh_dir>>

\* A later chunk that ends the file or cannot be read.
DownloadLastChunk ==
  /\ pc = "idle" /\ dl_opened
  /\ dl_file' = NoFile /\ dl_opened' = FALSE
  /\ UNCHANGED <<flags, active_experiment_dir, table, card, sync, bt, fresh_dir>>
-----------------------------------------------------------------------------
\* What sensors call, and the sync work, on the system work queue.

\* storage_init_sample_file.  The memset forgets a file that was open under status ERR.
InitSampleFile(t, iter) ==
  /\ Running /\ MayInit(t)
  /\ LET f == <<active_experiment_dir, t, iter>>
         Opens == /\ mounted /\ active_experiment_dir \in folders
                  /\ HandlesInUse < NumFiles
     IN /\ lost' = lost + (IF file[t] \in SampleFiles THEN 1 ELSE 0)
        /\ \/ /\ file' = [file EXCEPT ![t] = NoFile]   \* f exists, or fs_stat failed
              /\ UNCHANGED <<status, samples, sampling_active>>
           \/ /\ f \notin samples
              /\ \/ /\ Opens
                    /\ file' = [file EXCEPT ![t] = f]
                    /\ samples' = samples \cup {f}
                    /\ status' = [status EXCEPT ![t] = "ACTIVE"]
                 \/ /\ file' = [file EXCEPT ![t] = NoFile]
                    /\ status' = [status EXCEPT ![t] = "ERR"]
                    /\ UNCHANGED samples
              /\ sampling_active' = SamplingAfter(experiment_initialized, status')
  /\ UNCHANGED <<fs_initialized, fs_init_err, experiment_initialized, misc_op_active,
                 active_experiment_dir, download, mounted, folders, sync, bt, fresh_dir>>

Write_StoresReturnValue(t) ==
  /\ Running /\ status[t] # "INACTIVE"
  /\ status' = [status EXCEPT ![t] = "BYTES"]
  /\ UNCHANGED <<flags, active_experiment_dir, file, lost, download, card, sync, bt,
                 fresh_dir>>

\* storage_write.  fs_write to a file that is not open fails.
Write(t) ==
  /\ Running /\ status[t] # "INACTIVE"
  /\ \E result \in {"ERR"} \cup (IF file[t] \in SampleFiles THEN {"ACTIVE"} ELSE {}):
       status' = [status EXCEPT ![t] = result]
  /\ UNCHANGED <<flags, active_experiment_dir, file, lost, download, card, sync, bt,
                 fresh_dir>>

\* storage_close, whatever the status.  fs_close of a file never opened returns 0; one
\* that fails leaves the struct bound to a file it can no longer use.
Close(t) ==
  /\ Running
  /\ \E ok \in BOOLEAN:
       /\ ok \/ file[t] # NoFile
       /\ file' = [file EXCEPT ![t] = IF ok THEN NoFile ELSE StaleFile]
       /\ status' = [status EXCEPT ![t] = IF ok THEN "INACTIVE" ELSE "ERR"]
  /\ sampling_active' = SamplingAfter(experiment_initialized, status')
  /\ UNCHANGED <<fs_initialized, fs_init_err, experiment_initialized, misc_op_active,
                 active_experiment_dir, lost, download, card, sync, bt, fresh_dir>>

\* storage_sync_timer_handler: k_work_submit of an item already queued does nothing.
SyncTimer ==
  /\ sync_timer
  /\ sync_work' = TRUE
  /\ UNCHANGED <<flags, active_experiment_dir, table, download, card, sync_timer, bt,
                 fresh_dir>>

\* storage_sync_work_handler: fs_sync of each active file, any of which may fail.
SyncFlush ==
  /\ sync_work
  /\ sync_work' = FALSE
  /\ \E failed \in SUBSET {t \in FileTypes: sampling_active /\ status[t] = "ACTIVE"}:
       status' = [t \in FileTypes |-> IF t \in failed THEN "ERR" ELSE status[t]]
  /\ UNCHANGED <<flags, active_experiment_dir, file, lost, download, card, sync_timer,
                 bt, fresh_dir>>

\* cmd_reset's sys_reboot, or the battery: RAM is lost, the card keeps its contents.
Reboot ==
  /\ fs_initialized' = FALSE /\ fs_init_err' = FALSE /\ experiment_initialized' = FALSE
  /\ misc_op_active' = FALSE /\ sampling_active' = FALSE
  /\ active_experiment_dir' = NoDir
  /\ status' = [t \in FileTypes |-> "INACTIVE"]
  /\ file' = [t \in FileTypes |-> NoFile] /\ lost' = 0
  /\ dl_opened' = FALSE /\ dl_file' = NoFile
  /\ mounted' = FALSE /\ UNCHANGED <<folders, samples>>
  /\ sync_timer' = FALSE /\ sync_work' = FALSE
  /\ pc' = "boot" /\ target' = NoTarget
  /\ fresh_dir' = NoDir
-----------------------------------------------------------------------------
Boot == BootMount \/ BootTimer

Deinit == DeinitCheck \/ DeinitStopTimer \/ DeinitCancelWork \/ DeinitFinish

\* The steps with which the command thread goes on with an erase it has begun.
EraseStep == Deinit \/ Mkfs \/ Remount \/ RemountTimer \/ EraseDone \/ ErasePathFinish

Command == \/ EraseWholeCard
           \/ \E path \in Ids \cup SampleFiles: ErasePath(path)
           \/ \E id \in Ids: InitExperiment(id)
           \/ \E f \in SampleFiles: DownloadFirstChunk(f)
           \/ DownloadLastChunk

Sensor == \E t \in FileTypes: \/ \E iter \in Iters: InitSampleFile(t, iter)
                              \/ Write(t)
                              \/ Close(t)

Next == Boot \/ EraseStep \/ Command \/ Sensor \/ SyncTimer \/ SyncFlush \/ Reboot

Spec == Init /\ [][Next]_vars

\* The command thread goes on with what it has begun, the timer expires, and the work
\* queue gets to the sync work.
FairSpec == Spec /\ WF_vars(Boot \/ EraseStep) /\ WF_vars(SyncTimer) /\ WF_vars(SyncFlush)
-----------------------------------------------------------------------------
\* The flag that every maintenance command tests says exactly whether some file is
\* being recorded or failed while it was: the sync work, a failed write and a failed
\* close change a status without updating the flag, or update it without a change.
SamplingFlagExact == sampling_active <=> \E t \in FileTypes: status[t] # "INACTIVE"

\* A file that a sensor has open exists, in the folder of the current experiment, on a
\* mounted volume: no erase, format or set-up takes it away between its opening and
\* its closing, although they drop the mutex between their test and their act.
OpenFilesLive ==
  \A t \in FileTypes: file[t] \in SampleFiles =>
    /\ file[t] \in samples
    /\ file[t][1] = active_experiment_dir
    /\ active_experiment_dir \in folders
    /\ mounted /\ fs_initialized /\ experiment_initialized

\* misc_op_active is set exactly while an erase is between its test and its end, so
\* that no early return leaves it set and the badge refusing to record.
MiscFlagExact ==
  misc_op_active <=> pc \in {"erase_path", "deinit_timer", "deinit_cancel", "deinit_finish"}

\* An erase has the card to itself from the moment it has passed its tests.
Erasing == pc \in {"erase_path", "deinit_timer", "deinit_cancel", "deinit_finish", "mkfs",
                   "remount", "remount_timer", "erase_done"}

\* Why that holds: the tests are made on flags that follow the state of the files.
NothingRecorded == \A t \in FileTypes: status[t] = "INACTIVE"

StorageInv ==
  /\ SamplingFlagExact /\ OpenFilesLive /\ MiscFlagExact
  /\ \A t \in FileTypes: file[t] # NoFile => status[t] # "INACTIVE"
  /\ experiment_initialized \/ NothingRecorded
  /\ experiment_initialized => fs_initialized
  /\ fs_initialized => mounted
  /\ Erasing => NothingRecorded
  /\ pc \in {"boot", "mkfs", "remount"} => ~fs_initialized
  /\ pc \in {"remount_timer", "erase_done"} => ~experiment_initialized

Recording == [t \in FileTypes |-> IF file[t] \in SampleFiles THEN file[t] ELSE NoFile]

Abstract == INSTANCE RecordingStore
              WITH recording <- Recording, card <- samples, exclusive <- Erasing

\* storage.c implements the store of RecordingStore: recordings and maintenance exclude
\* each other, no recording starts in a file that exists, and only maintenance removes
\* a sample file.
ImplementsRecordingStore == Abstract!Spec

\* An erase ends, whatever fails in it.  Whether the badge can record afterwards is not
\* said here: after an unmount, a format or a remount that failed it may not.
EraseEnds == Erasing ~> ~Erasing

\* While a file is being recorded its data is flushed to the card again and again:
\* neither a refused erase nor one that formats the card leaves the timer stopped.
RecordingFlushed ==
  \A t \in FileTypes: status[t] = "ACTIVE" ~> (sync_work \/ status[t] # "ACTIVE")

\* What storage.c:300 says of the fs_stat in storage_init_experiment, "make sure the dir
\* doesn't already exist": sample files are written to a folder the set-up made.
RecordsIntoFreshFolder ==
  \A t \in FileTypes: file[t] \in SampleFiles => file[t][1] = fresh_dir

\* What storage.c:413 says of its strncmp, "check if we are trying to delete the current
\* experiment folder": an erase ends the experiment only when it names its folder.
EraseEndsOnlyItsExperiment ==
  [][ErasePathFinish /\ experiment_initialized /\ ~experiment_initialized'
       => target = active_experiment_dir]_vars

\* What prj.conf:51 says of NumFiles, "FILE_TYPE_MAX + 1 for timesync file": with one
\* entry more than file types, storage_write_timesync always finds one.
TimesyncFindsHandle ==
  NumFiles = Cardinality(FileTypes) + 1 /\ experiment_initialized => HandlesInUse < NumFiles
=============================================================================
