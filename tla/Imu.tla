-------------------------------- MODULE Imu --------------------------------
(***************************************************************************)
(* imu.c and the three drivers it can be built with: the inertial sensor.  *)
(*   combo     generic_imu_mag_combo/imu_interface.c (board v2)            *)
(*   icm20948  icm20948/zephyr_drv/imu_interface.c                         *)
(*   closed    icm20948/closed_drv (board v1)                              *)
(* A build has one of them: driver never changes.                          *)
(*                                                                         *)
(* Everything runs as items of the system work queue, one after the other  *)
(* in the order they were submitted: the data-ready interrupt's ("drdy"),  *)
(* the writer of full buffers ("write", Zephyr's drivers only), and the    *)
(* two commands, whose sender waits for ever for its item to be done.  An  *)
(* item is an action; a data-ready item goes on while the sensor has more. *)
(* Storage's sync work runs between items too.                             *)
(*                                                                         *)
(* Samples are numbered per channel in the order the driver gets them, and *)
(* a file is the sequence of the numbers of its samples.  The sensor and   *)
(* the card are external: each call may fail.                              *)
(***************************************************************************)
EXTENDS Naturals, Sequences, FiniteSets, SequencesExt

CONSTANTS Drivers,    \* the drivers to check
          Channels,   \* accelerometer, gyroscope, ...: a file and two buffers each
          Size,       \* BUFFERED_SAMPLES, IMU_BUFFER_SIZE
          MaxSamples  \* bound: samples of a channel in a behaviour

ASSUME DriversAssumption == Drivers \subseteq {"combo", "icm20948", "closed"}
ASSUME SizeAssumption == Size \in Nat \ {0} /\ MaxSamples \in Nat

VARIABLES
  driver,
  state,      \* imu_sensor_state
  armed,      \* external: data ready calls the driver
  queue,      \* the work queue's items, in order
  busy,       \* wr_samples_ctx.done is taken
  wr_index,   \* wr_samples_ctx.buffer_index
  buffer,     \* imu_buffer
  index,      \* sampling_state.buffer_index, active_buffer
  current,    \* sampling_state.current_sample, count
  status,     \* file_info_table[..].status
  opened,     \* file_info_table[..].file is a file that can be written
  file,       \* what the channel's last file holds
  full,       \* channels whose file ends where the card was full
  total,      \* history: samples the driver got
  base,       \* history: total when the channel's file was made
  cut         \* history: since then a call failed or samples were dropped

sensor == <<driver, state, armed>>
writer == <<busy, wr_index>>
position == <<index, current>>
table == <<status, opened, file, full, base>>
vars == <<sensor, queue, writer, buffer, position, table, total, cut>>

Items == {"drdy", "write", "start", "stop"}
Zephyr == driver # "closed"

\* The items are four structures: one that is queued twice would make the queue's list a
\* loop.
TypeOK ==
  /\ driver \in Drivers /\ armed \in BOOLEAN
  /\ state \in {"DISABLED", "STOP", "ACTIVE", "ERR"}
  /\ queue \in Seq(Items) /\ IsInjective(queue)
  /\ busy \in BOOLEAN /\ wr_index \in 0..1
  /\ buffer \in [Channels -> [0..1 -> [1..Size -> 0..MaxSamples]]]
  /\ index \in [Channels -> 0..1] /\ current \in [Channels -> 0..Size - 1]
  /\ status \in [Channels -> {"INACTIVE", "ACTIVE", "ERR"}]
  /\ opened \in [Channels -> BOOLEAN] /\ cut \in [Channels -> BOOLEAN]
  /\ file \in [Channels -> Seq(1..MaxSamples)] /\ full \subseteq Channels
  /\ total \in [Channels -> 0..MaxSamples] /\ base \in [Channels -> 0..MaxSamples]

\* After imu_sensor_init.
Init ==
  /\ driver \in Drivers /\ state \in {"STOP", "ERR"} /\ armed = FALSE
  /\ queue = <<>> /\ busy = FALSE /\ wr_index = 0
  /\ buffer = [c \in Channels |-> [i \in 0..1 |-> [k \in 1..Size |-> 0]]]
  /\ index = [c \in Channels |-> 0] /\ current = [c \in Channels |-> 0]
  /\ status = [c \in Channels |-> "INACTIVE"] /\ opened = [c \in Channels |-> FALSE]
  /\ file = [c \in Channels |-> <<>>] /\ full = {}
  /\ total = [c \in Channels |-> 0] /\ base = total
  /\ cut = [c \in Channels |-> FALSE]

Queued(item) == \E i \in DOMAIN queue: queue[i] = item

\* The work queue runs item, and is done with it.
Runs(item) == queue # <<>> /\ Head(queue) = item
Done(item) == Runs(item) /\ queue' = Tail(queue)
-----------------------------------------------------------------------------
\* storage.c as this sensor sees it, see the module Storage.

\* What storage_write may do with a block: n samples get into the file.  A card that is
\* full stays so while a file is open.
WriteOutcomes(c) ==
  IF status[c] = "INACTIVE" \/ ~opened[c] THEN {[n |-> 0, failed |-> TRUE]}
  ELSE IF c \in full THEN {[n |-> 0, failed |-> f]: f \in BOOLEAN}
  ELSE [n: 0..Size, failed: BOOLEAN]

StatusAfterWrite(c, o) ==
  IF status[c] = "INACTIVE" THEN "INACTIVE" ELSE IF o.failed THEN "ERR" ELSE "ACTIVE"

\* storage_close, of a file that was open or not.
CloseOutcomes(st) == IF st = "INACTIVE" THEN {"INACTIVE"} ELSE {"INACTIVE", "ERR"}

\* storage_init_sample_file: refused, failed after the old handle was cleared, failed to
\* open, or a new file.
OpenOutcomes(c) ==
  IF status[c] = "ACTIVE" THEN {"refused"} ELSE {"refused", "cleared", "failed", "ok"}
-----------------------------------------------------------------------------
\* Data ready.

Interrupt ==
  /\ armed /\ ~Queued("drdy")
  /\ queue' = Append(queue, "drdy")
  /\ UNCHANGED <<sensor, writer, buffer, position, table, total, cut>>

\* The item ends.  A trigger that was cancelled meanwhile leaves it nothing to call.
NoMoreData ==
  /\ Done("drdy")
  /\ UNCHANGED <<sensor, writer, buffer, position, table, total, cut>>

\* A sample of each of the channels cs goes into their current buffers.
Store(cs) ==
  /\ total' = [c \in Channels |-> IF c \in cs THEN total[c] + 1 ELSE total[c]]
  /\ buffer' = [c \in Channels |->
       IF c \in cs THEN [buffer[c] EXCEPT ![index[c]][current[c] + 1] = total[c] + 1]
       ELSE buffer[c]]

HasRoom(c) == total[c] < MaxSamples
Fills(c) == current[c] + 1 = Size
Flip(i) == 1 - i

\* The condition handle_drdy and handle_icm20948_drdy find: the trigger is still theirs.
Triggered == Zephyr /\ Runs("drdy") /\ armed /\ \A c \in Channels: HasRoom(c)

\* sensor_sample_fetch fails: no more samples, but the files stay open and state ACTIVE.
FetchFails ==
  /\ Triggered
  /\ armed' = FALSE /\ cut' = [c \in Channels |-> TRUE]
  /\ UNCHANGED <<driver, state, queue, writer, buffer, position, table, total>>

\* A sample that leaves room in the buffer.  process_icm20948 stores it too when reading
\* the magnetometer's channel failed, and then cancels the trigger.
StoreSample ==
  /\ Triggered /\ \A c \in Channels: ~Fills(c)
  /\ Store(Channels)
  /\ current' = [c \in Channels |-> current[c] + 1]
  /\ armed' \in {TRUE, driver = "combo"}
  /\ cut' = [c \in Channels |-> cut[c] \/ ~armed']
  /\ UNCHANGED <<driver, state, queue, writer, index, table>>

WriterFree_Ignored == TRUE

\* k_sem_take(&wr_samples_ctx.done, K_NO_WAIT)
WriterFree == ~busy

SubmitBlock_KeepsBuffer ==
  /\ Triggered /\ \A c \in Channels: Fills(c)
  /\ WriterFree
  /\ Store(Channels)
  /\ current' = [c \in Channels |-> 0] /\ UNCHANGED index
  /\ queue' = Append(queue, "write") /\ busy' = TRUE
  /\ \E c \in Channels: wr_index' = index[c]
  /\ UNCHANGED <<sensor, table, cut>>

\* The sample that fills the buffer: the writer gets that one, and the next sample the
\* other.
SubmitBlock ==
  /\ Triggered /\ \A c \in Channels: Fills(c)
  /\ WriterFree
  /\ Store(Channels)
  /\ current' = [c \in Channels |-> 0] /\ index' = [c \in Channels |-> Flip(index[c])]
  /\ queue' = Append(queue, "write") /\ busy' = TRUE
  /\ \E c \in Channels: wr_index' = index[c]
  /\ UNCHANGED <<sensor, table, cut>>

\* It is filled before the last one was written: its samples are dropped, and in
\* process_icm20948 the error is returned, which cancels the trigger.
DropBlock ==
  /\ Triggered /\ \A c \in Channels: Fills(c)
  /\ ~WriterFree
  /\ Store(Channels)
  /\ current' = [c \in Channels |-> 0]
  /\ armed' = (driver = "combo") /\ cut' = [c \in Channels |-> TRUE]
  /\ UNCHANGED <<driver, state, queue, writer, index, table>>

\* print_sensor_data, for a sensor that has data, also when the item was submitted before
\* the interrupt was disabled.  A full buffer is written there and then; a failure is
\* only logged.
PrintSensorData(c) ==
  /\ ~Zephyr /\ Runs("drdy") /\ HasRoom(c)
  /\ Store({c})
  /\ \/ /\ ~Fills(c)
        /\ current' = [current EXCEPT ![c] = @ + 1]
        /\ UNCHANGED <<index, table, cut>>
     \/ /\ Fills(c)
        /\ current' = [current EXCEPT ![c] = 0] /\ index' = [index EXCEPT ![c] = Flip(@)]
        /\ \E o \in WriteOutcomes(c):
             /\ file' = [file EXCEPT ![c] = @ \o SubSeq(buffer'[c][index[c]], 1, o.n)]
             /\ status' = [status EXCEPT ![c] = StatusAfterWrite(c, o)]
             /\ full' = IF o.failed \/ o.n = Size THEN full ELSE full \cup {c}
             /\ cut' = [cut EXCEPT ![c] = @ \/ o.failed \/ o.n < Size]
        /\ UNCHANGED <<opened, base>>
  /\ UNCHANGED <<sensor, queue, writer>>
-----------------------------------------------------------------------------
\* The driver's stop, for files whose statuses are st: the trigger or the sensors are off
\* whatever it returns, and the files are closed when it returns 0.
StopDriver(st, ok) ==
  /\ armed' = FALSE
  /\ IF ok
     THEN /\ status' \in [Channels -> {"INACTIVE", "ERR"}]
          /\ \A c \in Channels: status'[c] \in CloseOutcomes(st[c])
          /\ opened' = [c \in Channels |-> FALSE]
     ELSE status' = st /\ UNCHANGED opened

WriteFailed_Everywhere(o) == \A c \in Channels: o[c].failed

WriteFailed(o) == \E c \in Channels: o[c].failed

\* imu_write_samples_work_handler.  When a write fails it stops the driver, and imu.c
\* does not hear of it.
WriteBlock ==
  /\ Done("write")
  /\ \E o \in [Channels -> [n: 0..Size, failed: BOOLEAN]]:
       /\ \A c \in Channels: o[c] \in WriteOutcomes(c)
       /\ file' = [c \in Channels |-> file[c] \o SubSeq(buffer[c][wr_index], 1, o[c].n)]
       /\ full' = full \cup {c \in Channels: ~o[c].failed /\ o[c].n < Size}
       /\ cut' = [c \in Channels |-> cut[c] \/ o[c].failed \/ o[c].n < Size]
       /\ LET st == [c \in Channels |-> StatusAfterWrite(c, o[c])]
          IN  IF WriteFailed(o)
              THEN \E ok \in BOOLEAN: StopDriver(st, ok)
              ELSE status' = st /\ UNCHANGED <<opened, armed>>
  /\ busy' = FALSE
  /\ UNCHANGED <<driver, state, wr_index, buffer, position, base, total>>

\* storage_sync_work_handler cannot flush a file.
SyncFails(c) ==
  /\ status[c] = "ACTIVE" /\ status' = [status EXCEPT ![c] = "ERR"]
  /\ UNCHANGED <<sensor, queue, writer, buffer, position, opened, file, full, base,
                 total, cut>>
-----------------------------------------------------------------------------
\* The commands: cmd_start_imu and cmd_stop_imu submit an item and wait for it.
Command(item) ==
  /\ ~Queued("start") /\ ~Queued("stop")
  /\ queue' = Append(queue, item)
  /\ UNCHANGED <<sensor, writer, buffer, position, table, total, cut>>

\* The driver does not accept the configuration; the combo's never says so.
ConfigRefused ==
  /\ driver # "combo" /\ Done("start")
  /\ UNCHANGED <<sensor, writer, buffer, position, table, total, cut>>

ResetPosition_Kept == UNCHANGED position

\* Zephyr's drivers clear sampling_state before they open a file; the closed one never
\* clears what its callback counts.
ResetPosition ==
  IF Zephyr THEN index' = [c \in Channels |-> 0] /\ current' = [c \in Channels |-> 0]
  ELSE UNCHANGED position

\* A file cannot be made: those that could are closed.  The samples of a recording that
\* goes on are gone from the buffer.
StartRefused ==
  /\ Done("start")
  /\ ResetPosition
  /\ \E o \in [Channels -> {"refused", "cleared", "failed", "ok"}]:
       /\ \A c \in Channels: o[c] \in OpenOutcomes(c)
       /\ \E c \in Channels: o[c] # "ok"
       /\ status' \in [Channels -> {"INACTIVE", "ACTIVE", "ERR"}]
       /\ \A c \in Channels: status'[c] \in CASE o[c] = "ok" -> CloseOutcomes("ACTIVE")
                                              [] o[c] = "failed" -> {"ERR"}
                                              [] OTHER -> {status[c]}
       /\ opened' = [c \in Channels |-> opened[c] /\ o[c] = "refused"]
       /\ file' = [c \in Channels |-> IF o[c] = "ok" THEN <<>> ELSE file[c]]
       /\ base' = [c \in Channels |-> IF o[c] = "ok" THEN total[c] ELSE base[c]]
       /\ full' = {c \in full: o[c] # "ok"}
       /\ cut' = [c \in Channels |-> cut[c] \/ o[c] # "refused"
                                     \/ (Zephyr /\ current[c] # 0)]
  /\ state' = "ERR"
  /\ UNCHANGED <<driver, armed, writer, buffer, total>>

\* All files are new.  Zephyr's drivers close them again when the trigger cannot be set,
\* which may have armed it; the closed one leaves them open and the interrupt enabled
\* when a sensor cannot be enabled.  A block of a recording all of whose files failed
\* may still wait to be written.
StartOpened ==
  /\ Done("start")
  /\ \A c \in Channels: "ok" \in OpenOutcomes(c)
  /\ ResetPosition
  /\ file' = [c \in Channels |-> <<>>] /\ base' = total /\ full' = {}
  /\ cut' = [c \in Channels |-> Queued("write")]
  /\ busy' = (busy /\ ~Zephyr)
  /\ \E ok \in BOOLEAN:
       /\ state' = IF ok THEN "ACTIVE" ELSE "ERR"
       /\ IF ok \/ ~Zephyr
          THEN /\ armed' = TRUE
               /\ status' = [c \in Channels |-> "ACTIVE"]
               /\ opened' = [c \in Channels |-> TRUE]
          ELSE /\ armed' \in BOOLEAN
               /\ status' \in [Channels -> CloseOutcomes("ACTIVE")]
               /\ opened' = [c \in Channels |-> FALSE]
  /\ UNCHANGED <<driver, wr_index, buffer, total>>

Stop_KeepsFiles ==
  /\ Done("stop")
  /\ StopDriver(status, FALSE) /\ state' = "STOP"
  /\ UNCHANGED <<driver, writer, buffer, position, file, full, base, total, cut>>

\* imu_sensor_stop
Stop ==
  /\ Done("stop")
  /\ \E ok \in BOOLEAN: /\ StopDriver(status, ok)
                        /\ state' = IF ok THEN "STOP" ELSE "ERR"
  /\ UNCHANGED <<driver, writer, buffer, position, file, full, base, total, cut>>
-----------------------------------------------------------------------------
DataReady == \/ Interrupt \/ NoMoreData \/ FetchFails
             \/ StoreSample \/ SubmitBlock \/ DropBlock
             \/ \E c \in Channels: PrintSensorData(c)
Commands == Command("start") \/ Command("stop")
Start == ConfigRefused \/ StartRefused \/ StartOpened

Next == \/ DataReady \/ WriteBlock \/ Commands \/ Start \/ Stop
        \/ \E c \in Channels: SyncFails(c)

Spec == Init /\ [][Next]_vars
-----------------------------------------------------------------------------
\* What of a recording that goes on is still in memory: a block that waits to be written
\* and the samples of the buffer that is being filled.
Waiting(c) == (IF Queued("write") THEN buffer[c][wr_index] ELSE <<>>)
              \o SubSeq(buffer[c][index[c]], 1, current[c])

Recorded(c) == IF status[c] = "ACTIVE" THEN file[c] \o Waiting(c) ELSE file[c]

\* What the three rest on.

\* No data-ready item runs before the writer's: none is ahead of it in the queue.
WriteFirst == \A i, j \in DOMAIN queue: queue[i] = "write" /\ queue[j] = "drdy" => i < j

\* The writer's item is queued once, and while samples come in its block is not the one
\* that is being filled, although a start may have reset everything in between.
WriterInv ==
  /\ busy => Queued("write")
  /\ Queued("write") => Zephyr
  /\ Queued("write") /\ ~WriteFirst =>
       busy /\ Runs("drdy") /\ \A c \in Channels: wr_index # index[c]

\* The samples that are already in a file or on their way there.
Flushed(c) == total[c] - current[c]

\* The block that waits has the samples after the p-th: later ones than the files have,
\* and the last before those of the other buffer unless some were dropped.
BlockIs(p) ==
  \A c \in Channels:
    /\ \A k \in 1..Size: buffer[c][wr_index][k] = p + k
    /\ p + Size <= Flushed(c)
    /\ ~cut[c] => p + Size = Flushed(c)
    /\ \A i \in DOMAIN file[c]: file[c][i] <= p
    /\ file[c] # <<>> => base[c] <= p

\* Zephyr's drivers fill the channels' buffers in step; a buffer that is being filled has
\* the latest samples.
MemoryInv ==
  /\ Zephyr => \A c, d \in Channels:
       index[c] = index[d] /\ current[c] = current[d] /\ total[c] = total[d]
  /\ \A c \in Channels:
       /\ current[c] <= total[c]
       /\ \A k \in 1..current[c]: buffer[c][index[c]][k] = Flushed(c) + k
  /\ Queued("write") => \E p \in 0..MaxSamples: BlockIs(p)

\* What the closed driver's buffer still held when a recording began; none with Zephyr's.
Old == 0..(IF Zephyr THEN 0 ELSE Size - 1)

\* What a channel's file holds: later samples after earlier ones, none of an earlier
\* recording but at its beginning, and all of this one unless some were cut off.
FileInv(c) ==
  /\ status[c] = "ACTIVE" => opened[c]
  /\ base[c] <= total[c] /\ (base[c] <= Flushed(c) \/ (~Zephyr /\ file[c] = <<>>))
  /\ \A i, j \in DOMAIN file[c]: i < j => file[c][i] < file[c][j]
  /\ \A i \in DOMAIN file[c]:
       /\ file[c][i] <= Flushed(c)
       /\ i > Size \/ (~Zephyr /\ i = Size) => base[c] < file[c][i]
  /\ ~cut[c] => \E old \in Old:
       /\ \A i \in DOMAIN file[c]: file[c][i] = base[c] - old + i
       /\ opened[c] => Len(file[c]) = Flushed(c) - (IF Queued("write") THEN Size ELSE 0)
                                      - base[c] + old

\* A file that cannot get longer in this recording.
Ended(c) == c \in full \/ ~opened[c] \/ (~armed /\ ~Queued("write"))

AlignedInv ==
  Zephyr => \A c, d \in Channels:
    /\ \A i \in DOMAIN file[c] \cap DOMAIN file[d]: file[c][i] = file[d][i]
    /\ Len(file[c]) < Len(file[d]) => Ended(c)

ImuInv == /\ WriterInv /\ MemoryInv /\ AlignedInv
          /\ \A c \in Channels: FileInv(c)

\* As long as no call failed and no block was dropped, a channel's file and buffers hold
\* every sample the driver got since the recording began, in order and once, and what is
\* not in memory is in the file; and a file that was closed is the beginning of that.
CompleteUnlessCut ==
  \A c \in Channels: ~cut[c] =>
    \E old \in Old:
      /\ Recorded(c) = [i \in 1..Len(Recorded(c)) |-> base[c] - old + i]
      /\ status[c] = "ACTIVE" => Len(Recorded(c)) = total[c] - base[c] + old

\* Whatever fails, and although commands interrupt the recording with a block still to be
\* written: no sample is written twice or after a later one (a block is never overwritten
\* before it is written), and of an earlier recording there is less than a buffer in the
\* closed driver's files and at most the block that waited in the others'.
InOrder ==
  \A c \in Channels:
    /\ \A i \in 1..Len(Recorded(c)) - 1: Recorded(c)[i] < Recorded(c)[i + 1]
    /\ Cardinality({i \in DOMAIN file[c]: file[c][i] <= base[c]})
         <= IF ~Zephyr THEN Size - 1 ELSE IF cut[c] THEN Size ELSE 0

\* With Zephyr's drivers the n-th samples of any two files were taken together, whatever
\* failed: a file may only end earlier than another.
FilesAligned ==
  Zephyr => \A c, d \in Channels: IsPrefix(file[c], file[d]) \/ IsPrefix(file[d], file[c])

\* Once a stop has succeeded no file grows until the next start, although an interrupt
\* and a full buffer may still wait in the queue.
StoppedWritesNothing ==
  [][state = "STOP" => \A c \in Channels: Len(file'[c]) <= Len(file[c])]_vars
=============================================================================
