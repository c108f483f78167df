----------------------------- MODULE Proximity -----------------------------
(***************************************************************************)
(* proximity.c: the badges that a badge hears, recorded in blocks.         *)
(*                                                                         *)
(* The scan callback and the commands run on the Bluetooth receive thread, *)
(* which waits for the work items it submits; files are only touched by    *)
(* those items, on the system work queue.  pc is the item the thread waits *)
(* for.  Between its submission and its turn the queue runs the items of   *)
(* others, of which the sync work can change this sensor's file.           *)
(*                                                                         *)
(* Samples are numbered in the order the callback accepts them.  The       *)
(* storage is seen through the entry of FILE_TYPE_PROXIMITY; whether the   *)
(* card lets a file be opened, written or closed is a choice.  The         *)
(* Bluetooth stack is external: its scan calls may fail.                   *)
(***************************************************************************)
EXTENDS Integers, Sequences

CONSTANTS Size,       \* BUFFERED_SAMPLES
          Buffers,    \* CONFIG_MCN_PROXIMITY_BUFFERS
          MaxSamples, \* bound: accepted samples
          Empty       \* the content of a buffer slot never written

ASSUME BuffersAssumption == /\ Size \in Nat \ {0} /\ Buffers \in Nat \ {0}
                            /\ MaxSamples \in Nat /\ Empty \notin Nat

VARIABLES
  state, sample_cnt, buffer_index, buffered_samples,  \* sensor_data
  scanning,   \* the Bluetooth stack scans with scan_callback
  status,     \* file_info_table[FILE_TYPE_PROXIMITY].status
  opened,     \* its file can be written
  file,       \* what the last file created holds
  pc, ctx,    \* the item the thread waits for; its ctx.buffer_index
  total,      \* history: samples accepted since boot
  base,       \* history: those accepted before the current recording began
  error       \* history: a call failed or fell short since then

sensor_data == <<state, sample_cnt, buffer_index, buffered_samples>>
storage == <<status, opened, file>>
history == <<total, base, error>>
vars == <<sensor_data, scanning, storage, pc, ctx, history>>

TypeOK ==
  /\ state \in {"STOP", "ACTIVE", "ERR"}
  /\ sample_cnt \in 0..Size - 1
  /\ buffer_index \in 0..Buffers - 1
  /\ buffered_samples \in [0..Buffers - 1 -> [0..Size - 1 -> Nat \cup {Empty}]]
  /\ scanning \in BOOLEAN /\ opened \in BOOLEAN /\ error \in BOOLEAN
  /\ status \in {"INACTIVE", "ACTIVE", "ERR"}
  /\ file \in Seq(Nat \cup {Empty})
  /\ pc \in {"ready", "write", "start", "stop"} /\ ctx \in 0..Buffers - 1
  /\ total \in Nat /\ base \in 0..total

\* After proximity_sensor_init.
Init ==
  /\ state = "STOP" /\ sample_cnt = 0 /\ buffer_index = 0
  /\ buffered_samples = [b \in 0..Buffers - 1 |-> [i \in 0..Size - 1 |-> Empty]]
  /\ scanning = FALSE
  /\ status = "INACTIVE" /\ opened = FALSE /\ file = <<>>
  /\ pc = "ready" /\ ctx = 0
  /\ total = 0 /\ base = 0 /\ error = TRUE
-----------------------------------------------------------------------------
\* The first n samples of a buffer, as one write stores them.
Block(b, n) == [i \in 1..n |-> buffered_samples[b][i - 1]]

\* What writing size samples may come to: n of them reach the file, and storage_write, which
\* is not called for none, returns an error or not.  It returns none when the card takes
\* only a part of them.
WriteOutcomes(size) ==
  IF size = 0 THEN {[n |-> 0, failed |-> FALSE]}
  ELSE IF opened THEN {o \in [n: 0..size, failed: BOOLEAN]: o.failed => o.n < size}
  ELSE {[n |-> 0, failed |-> TRUE]}

Wrap_Forgotten(b) == b + 1

\* buffer_index after a full buffer.
Wrap(b) == (b + 1) % Buffers

\* storage_init_sample_file has made a new file.
NewFile == status # "ACTIVE" /\ file' = <<>> /\ status' = "ACTIVE" /\ opened' = TRUE
-----------------------------------------------------------------------------
\* The scan callback.

\* An advertisement that is not a badge's: its rssi, time and address go over the slot of
\* the next sample, and sample_cnt stays.
HearOther ==
  /\ pc = "ready" /\ scanning
  /\ buffered_samples' = [buffered_samples EXCEPT ![buffer_index][sample_cnt] = Empty]
  /\ UNCHANGED <<state, sample_cnt, buffer_index, scanning, storage, pc, ctx, history>>

HearBadge_SubmitsNextBuffer ==
  /\ pc = "ready" /\ scanning /\ total < MaxSamples
  /\ buffered_samples' = [buffered_samples EXCEPT ![buffer_index][sample_cnt] = total + 1]
  /\ total' = total + 1
  /\ \/ /\ sample_cnt + 1 < Size
        /\ sample_cnt' = sample_cnt + 1
        /\ UNCHANGED <<pc, ctx, buffer_index>>
     \/ /\ sample_cnt + 1 = Size
        /\ buffer_index' = Wrap(buffer_index) /\ sample_cnt' = 0
        /\ pc' = "write" /\ ctx' = buffer_index'
  /\ UNCHANGED <<state, scanning, storage, base, error>>

\* A badge's: a sample, and when it fills the buffer, work that writes it.
HearBadge ==
  /\ pc = "ready" /\ scanning /\ total < MaxSamples
  /\ buffered_samples' = [buffered_samples EXCEPT ![buffer_index][sample_cnt] = total + 1]
  /\ total' = total + 1
  /\ \/ /\ sample_cnt + 1 < Size
        /\ sample_cnt' = sample_cnt + 1
        /\ UNCHANGED <<pc, ctx, buffer_index>>
     \/ /\ sample_cnt + 1 = Size
        /\ pc' = "write" /\ ctx' = buffer_index
        /\ buffer_index' = Wrap(buffer_index) /\ sample_cnt' = 0
  /\ UNCHANGED <<state, scanning, storage, base, error>>

\* scan_write_samples_work_handler, and the callback's return: a failure is only logged.
\* storage_write leaves the table alone when the file is INACTIVE.
WriteSamples ==
  /\ pc = "write" /\ pc' = "ready"
  /\ \E o \in WriteOutcomes(Size):
       /\ file' = file \o Block(ctx, o.n)
       /\ status' = IF status = "INACTIVE" THEN status
                    ELSE IF o.failed THEN "ERR" ELSE "ACTIVE"
       /\ error' = (error \/ o.n < Size)
  /\ UNCHANGED <<sensor_data, scanning, opened, ctx, total, base>>
-----------------------------------------------------------------------------
\* The commands.

\* cmd_scan_start and cmd_scan_stop hand their work to the queue and wait.
Command(item) ==
  /\ pc = "ready" /\ pc' = item
  /\ UNCHANGED <<sensor_data, scanning, storage, ctx, history>>

\* storage_init_sample_file fails: before it touches the file, because the new one exists
\* (the old handle is gone by then), or because it cannot be opened.
StartRefused ==
  /\ pc = "start" /\ pc' = "ready"
  /\ \/ UNCHANGED <<status, opened, error>>
     \/ /\ status # "ACTIVE"
        /\ status' \in {status, "ERR"}
        /\ opened' = FALSE /\ error' = (error \/ opened)
  /\ UNCHANGED <<sensor_data, scanning, file, ctx, total, base>>

StartScanFails_KeepsFile ==
  /\ pc = "start" /\ pc' = "ready"
  /\ NewFile /\ error' = TRUE
  /\ UNCHANGED <<sensor_data, scanning, ctx, total, base>>

StartScanFails_ReportsError ==
  /\ pc = "start" /\ pc' = "ready"
  /\ status # "ACTIVE"
  /\ file' = <<>> /\ opened' = FALSE /\ status' \in {"INACTIVE", "ERR"}
  /\ state' = "ERR" /\ error' = TRUE
  /\ UNCHANGED <<sample_cnt, buffer_index, buffered_samples, scanning, ctx, total, base>>

\* The scan does not start (-EALREADY when one runs), and the new file is closed.
StartScanFails ==
  /\ pc = "start" /\ pc' = "ready"
  /\ status # "ACTIVE"
  /\ file' = <<>> /\ opened' = FALSE /\ status' \in {"INACTIVE", "ERR"}
  /\ error' = TRUE
  /\ UNCHANGED <<sensor_data, scanning, ctx, total, base>>

StartSucceeds_KeepsCount ==
  /\ pc = "start" /\ pc' = "ready" /\ ~scanning
  /\ NewFile
  /\ scanning' = TRUE /\ state' = "ACTIVE"
  /\ base' = total /\ error' = FALSE
  /\ UNCHANGED <<sample_cnt, buffer_index, buffered_samples, ctx, total>>

\* proximity_sensor_start_work_handler, when all goes well.
StartSucceeds ==
  /\ pc = "start" /\ pc' = "ready" /\ ~scanning
  /\ NewFile
  /\ scanning' = TRUE /\ state' = "ACTIVE" /\ sample_cnt' = 0
  /\ base' = total /\ error' = FALSE
  /\ UNCHANGED <<buffer_index, buffered_samples, ctx, total>>

\* bt_le_scan_stop fails, as it does when no scan runs.  One that runs may have lost its
\* callback.
StopScanFails ==
  /\ pc = "stop" /\ pc' = "ready"
  /\ scanning' \in {scanning, FALSE}
  /\ error' = (error \/ scanning' # scanning)
  /\ UNCHANGED <<sensor_data, storage, ctx, total, base>>

\* The rest of proximity_sensor_stop_work_handler: the samples of the buffer that is not
\* full are written, and the file is closed whatever comes of that.
StopScan ==
  /\ pc = "stop" /\ pc' = "ready" /\ scanning
  /\ scanning' = FALSE /\ opened' = FALSE
  /\ status' = "INACTIVE" \/ (status # "INACTIVE" /\ status' = "ERR")
  /\ \E o \in WriteOutcomes(sample_cnt):
       /\ file' = file \o Block(buffer_index, o.n)
       /\ state' = IF o.failed \/ status' = "ERR" THEN "ERR" ELSE "STOP"
       /\ error' = (error \/ o.n < sample_cnt \/ status' = "ERR")
  /\ UNCHANGED <<sample_cnt, buffer_index, buffered_samples, ctx, total, base>>

\* storage_sync_work_handler cannot flush the file.
SyncFails ==
  /\ status = "ACTIVE" /\ status' = "ERR"
  /\ UNCHANGED <<sensor_data, scanning, opened, file, pc, ctx, history>>
-----------------------------------------------------------------------------
Callback == HearOther \/ HearBadge
Commands == Command("start") \/ Command("stop")
Start == StartRefused \/ StartScanFails \/ StartSucceeds
Stop == StopScanFails \/ StopScan

Next == Callback \/ Commands \/ WriteSamples \/ Start \/ Stop \/ SyncFails

Spec == Init /\ [][Next]_vars
-----------------------------------------------------------------------------
\* The samples accepted and not yet written, which are those of one buffer, since the
\* thread that fills buffers waits while one is written.
Waiting == IF ~scanning THEN <<>>
           ELSE IF pc = "write" THEN Block(ctx, Size)
           ELSE Block(buffer_index, sample_cnt)

Recorded == file \o Waiting

\* A recording in which no call failed holds every sample accepted since its start, once
\* and in order, when it is stopped; before that a buffer holds what its file lacks.
CompleteUnlessError == ~error => Recorded = [i \in 1..total - base |-> base + i]

\* Whatever fails, a file holds samples accepted after its recording began and no others,
\* in order and none twice, and so it will when the rest is written: a start after a stop
\* that failed does not write what that stop left in the buffers.
OwnSamplesInOrder ==
  \A i \in 1..Len(Recorded): /\ Recorded[i] \in base + 1..total
                             /\ \A j \in 1..i - 1: Recorded[j] < Recorded[i]

\* A sensor that says it is not recording has no file marked ACTIVE: that file would
\* refuse every later start and every erase.
IdleLeavesNoActiveFile == status = "ACTIVE" => state = "ACTIVE"

\* A badge that scans says so, also after a stop or a second start that failed.
ScanIsReported == scanning => state = "ACTIVE"
=============================================================================
