# Verification of midge-code-neo

TLA+ specifications of the Mingle Midge badge: the firmware that records audio,
motion and proximity on an SD card (`src/firmware/application/src`, below `FW/`) and
the Python hub that drives it over Bluetooth
(`src/packages/midge-badge-framework/src/midge_badge_framework`, below `PK/`). TLC
checks them on small instances; the TLA+ proof system proves every invariant they check
for all instances.

## 1. The system

A hub (one Python process) talks to badges (Zephyr firmware), one connection at a time
to each. A request is framed as `SOT id data EOT`, written to the Nordic UART service,
executed by a function of the firmware, and answered in a frame of the same shape. The
files a badge records are downloaded in chunks, or read from its card, and decoded offline.

### Contexts of the firmware

| context | what runs there |
|---|---|
| Bluetooth receive thread (cooperative) | every command (`received`, FW/cmd_processor.c:155), the scan callback, connection callbacks |
| system work queue (cooperative, one item at a time, in order) | opening and writing files of all sensors, the sync of open files, reading the privacy switch, advertising data, the delayed reset, and the IMU's data-ready handler (board v2: `CONFIG_LSM6DSO_TRIGGER_GLOBAL_THREAD`; board v1: `imu_int_work`) |
| interrupts | the sync timer, the pins of the switch, the IMU's pin |
| main | the initialisations, in order, up to the first that fails |

Both threads are cooperative: one goes on until it blocks on a semaphore, a mutex, a
device or the card. The models therefore interleave the contexts at those points.

### Components

| component | state | operations | correct when |
|---|---|---|---|
| SD card storage (FW/storage.c) | the status union, `active_experiment_dir`, one table entry per file type, the sync timer and work, the file a download keeps open | set-up of an experiment, open/write/close of a sample file, erase of a path or the card, download, sync | recordings and maintenance exclude each other; no recording loses its file; the summary flags tell the truth; an erase ends and gives up its flag |
| microphone (FW/audio.c) | `sensor_data.state`, the work context and its two semaphores, the driver's configuration | start, stop, one work item to open the files, one per block | a state of STOP means closed files and a silent microphone; a command gets its reply; blocks are decimated as the switch demands |
| privacy switch (FW/privacy_switch.c) | `sw_pos`, `debouncing` | pin interrupt, delayed read that stops a recording | the position that decides the decimation is the slider's |
| inertial sensor (FW/imu.c, FW/imu_drivers: one of three drivers) | `imu_sensor_state`, two buffers of each channel, the writer's semaphore | start, stop, data ready, block write | a block holds consecutive samples of one recording; the files of one recording stay aligned |
| proximity (FW/proximity.c) | state, sample count, buffers | start, stop, scan callback, block write | every accepted sample is written once, in order, or an error is reported |
| command processor (FW/cmd_processor.c) | the parser's state, advertising, connections | one byte at a time; execute; reply | every well-formed request is executed once and answered once |
| time control (FW/time_control.c) | status, the last pair of instants | sync, reset, timestamp | an error is reported until the next sync that works |
| connection (PK/connection.py) | the parser's state, two queues | send, receive with a timeout, list, download | the answer belongs to the request |
| hub (PK/hub.py) | the experiment, a selection, one lock | commands to all or to the selection, status loop | a command ends whatever a badge does; one session at a time |
| LED, battery, boot, board files, offline decoding, command line tools | little or none | | not concurrent; see section 7 |

### What is hard to test

Section `hazards` of PROJECT.json lists each at its line. In short: the storage mutex is
dropped between a test and what it allows; the summary flag `sampling_active` is kept by
hand; an erase has many early ends; the work queue waits for itself when the switch
moves; stops time out and come back late; a start can run into the end of the previous
recording, and one that is refused changes the configuration of the recording that goes
on; buffers change hands between the data-ready handler and the writer; parser state
survives a disconnect; a badge may connect after its session gave up; the power may go at
any time.

## 2. Plan

Done: A to G. Left: H and I, and the parts listed below the table.

| | module | about | abstract specification, theorems |
|---|---|---|---|
| A | `Storage`, `RecordingStore`, `Storage_proofs` | the card | `RecordingStore`; invariants and refinement proved |
| B | `Audio`, `Audio_proofs` | microphone and switch | every safety property proved |
| C | `Proximity`, `Proximity_proofs` | scan samples to blocks to file, both commands | what is recorded against what was accepted, proved for any number and size of buffers |
| D | `Imu`, `Imu_proofs`, `ImuFiles_proofs` | data ready, double buffer, writer, commands of the three drivers, with the card failing | the same log, proved for any channels and size of buffers |
| E, F | `HubSession`, `HubSession_proofs` | sessions of the hub, clients, framing over links that end, the badge's parser and its answers | proved: the frames, the answers and who has the badge, for any commands, lengths and data |
| G | `TimeControl`, `TimeControl_proofs` | status of synchronisation | types proved |
| H | `Recorder` | `Audio` with the storage of A instead of an external card | |
| I | `Decimation` | the decimation loop and the WAV header against their definitions | |

Also left: a download that is taken up again after a lost link (PK/connection.py), the
assembly of an answer from notifications, the hub's selection and experiment.

## 3. Modules

- `RecordingStore`: what the storage promises. Which sample file each type records
  into, which files are on the card, and whether maintenance has the card to itself.
  Recording starts in a file that is not there yet and only while nobody has the card;
  only the holder of the card removes files; power may go.
- `Storage`: FW/storage.c, and the parts of FW/main.c and `cmd_reset` that boot it. One
  action per critical section of `storage_mutex`. The erase path, which has several and
  passes through `storage_deinit_fs` and `storage_init_fs`, is a sequence of actions of
  the command thread whose place is `pc`. The variables have the names of the C ones;
  `lost` counts entries of FatFs' pool whose handle was overwritten; `fresh_dir` is a
  history variable. Every call into the file system may fail, and succeeds only where the
  state of the card allows it. `ImplementsRecordingStore` is the refinement: a type
  records into `file[t]`, the card holds `samples`, and maintenance has it while `Erasing`.
- `Audio`: FW/audio.c and FW/privacy_switch.c. `bt` is the command thread, `wq` the
  place of the work queue in the item it runs, `queue` and `timers` the items that wait.
  The card and the driver are external. What the work queue does between two points
  where it blocks is one action. `DecimationHangs` is the loop of audio.c:271 with a step of
  zero, after a start refused during the recording has cleared the number of channels
  (audio.c:372): the thread is cooperative and never blocks again, so that from then on
  (`Hung`) only interrupts act, and no command is answered.
- `Proximity`: FW/proximity.c. `pc` is the work item the Bluetooth thread waits for.
  Samples are numbered as they are accepted, so that the file, a sequence of numbers, can
  be compared with what was accepted since the recording began (`base`). Of the storage it
  has the entry of its file: `status`, and `opened` for a handle that can be written. What
  that file goes through when a call fails is the action of `Storage` for one type.
- `Imu`: FW/imu.c and the drivers in FW/imu_drivers; `driver` says which is built in.
  `queue` is the system work queue as far as this sensor uses it: the data-ready item, the
  writer's, and the two commands, whose sender waits for its item. An item is one action,
  except that data ready goes on while the sensor has samples. Zephyr's drivers fill all
  channels together and hand a full buffer to the writer; the closed one writes there and
  then, channel by channel. Samples are numbered per channel, and a file is a sequence of
  numbers, as in `Proximity`. `base` is the number at which the file begins, `cut` that
  something failed since; both are history variables. The drivers' ways to fail differ
  (which errors cancel the trigger, what a failed start leaves open), and the guards on
  `driver` say how.
- `HubSession`: PK/hub.py and PK/connection.py, and the parser, answers and connections of
  FW/cmd_processor.c. `pc` is the place of the hub's two threads (the command line and
  the one that asks for the status) in a session, `phase` that of each client in its
  `start()`, which runs in a thread of its own. A request is its frame's tokens, written
  `Mtu` at a time to a link that may end between any two writes. `parser` belongs to the
  badge and outlives links, `skewed` remembers that it was inside a frame when the link
  began, `late` that the client's session had stopped it before, `orphans` the clients
  that a listing left behind. `Received`, the loop over the bytes of a write, is a
  recursive function of the number of bytes read.
- `TimeControl`: FW/time_control.c with the commands that call it, over Zephyr's timeutil.
- `Storage_proofs`, `Audio_proofs`, `Proximity_proofs`, `Imu_proofs` (what a stopped sensor
  does), `ImuFiles_proofs` (what its files hold), `HubSession_proofs`,
  `TimeControl_proofs`: the theorems about them.
- `QueueLemmas`: what adding to, taking from and removing from a queue that holds no item
  twice do to its items, for the two models of the work queue.
- `MCImu`, `MCHubSession`: the channels, and commands of one and of two bytes.
- `MCStorage`: the experiments of the runs: `e1` and `e12`, whose folder names are
  prefixes of one another, as `/SD:/1` and `/SD:/12` are.

Operators whose name has an underscore and says what is wrong with them (as
`CardIdle_IgnoresSampling`) are plausible mistakes. They are used nowhere: each is there to
be put in place of the definition it follows, to see that a property notices.

## 4. Runs

| run | expected | shows |
|---|---|---|
| `storage_safety` | pass | flags exact, open files alive, the inductive invariant, refinement of `RecordingStore`; an erase ends whatever fails; a recording is flushed again and again |
| `storage_setup` | violation | a refused set-up redirects the next recording to the old folder (storage.c:296) |
| `storage_prefix` | violation | erasing a file of the current experiment, or an experiment whose id starts with its digits, ends it (storage.c:414) |
| `storage_handles` | violation | the pool of open files is short of the one a download keeps open (prj.conf:52) |
| `audio_safety` | pass | a start is answered; unless the badge hangs in its decimation, an unread microphone is reported (as an error, or as disabled by a later start refused for the switch), a state of STOP is true and a recording told to stop ends or is reported; the inductive invariant behind them (`AudioInv`) |
| `audio_stop` | violation | a stop that timed out replies 0 with its files open: a second variable `ret` hides the first (audio.c:453) |
| `audio_privacy` | violation | a switch moved to OFF just after a start is recorded at full rate (audio.c:369) |
| `proximity` | pass | nothing lost without an error, nothing of another recording ever, a sensor that stopped leaves no active file |
| `imu` | pass | with every driver: files and buffers hold what the driver got unless something failed; order and alignment hold whatever fails; a stopped sensor writes nothing; the inductive invariant behind them (`ImuInv`) |
| `session` | pass | on a link that began at the start of a frame the badge finds each request whatever its bytes; the answer is that of the command sent last; the invariant of the exchange they rest on (`ExchangeInv`); one client at a time has the badge; sessions end unless their client connected after it was stopped |
| `session_release` | violation | the exception above: a client that connects late serves for ever and the session waits for its thread with the lock (connection.py:186) |
| `timesync` | violation | a status request whose entry could not be written is answered as synchronized (time_control.c:154) |

Bounds. `storage_safety` has two experiments (one to erase while the other records, with
both prefix cases), two file types (one recording while the other starts, fails or
closes), one sample id (a second one only repeats the first) and a pool of three (full when
both record and a download is open, the proportion of prj.conf). `lost` is bounded by the
pool: a handle is only lost after it was opened. The two violations that need no second
type have one. `proximity` has two buffers of two samples and
accepts five in all: both buffers are filled and reused, a remainder is left, and a second
recording follows a first. `Audio` has no constants: one microphone, one switch,
and a queue that holds an item at most once. `imu` has two channels (symmetric) with two
buffers of two samples, and four samples in all: both buffers are filled and reused while
the first waits, and a recording can follow one that was interrupted in a buffer. `session`
has two clients (one late or left behind while another is connecting), sessions of two
commands, and frames of four and five tokens written two at a time, so that a frame can be
lost after each of its writes and a parser that was cut off misreads the next; one data
byte equals the delimiter at the end. `timesync` has three times of the hub, all after
the build, and an uptime of two.

Fairness. The command thread goes on with what it has begun (`WF` on the steps of boot and
erase), the kernel's timer expires, and the work queue gets to each item: Zephyr runs a
ready cooperative thread, and no call in the models waits for another except as modelled.
No fairness is assumed of commands, of failures or of the slider. `RecordingFlushed` needs
the sync timer and its item. `StartReplies` and `StopTakesEffect` need the work queue to run, waits and delays to
end, nothing else. In `HubSession` each thread of the hub, each client's thread and the badge
go on: all their waits have timeouts (the connection, an answer, the scan, asyncio's
connect) but `join`, whose guard the model keeps. Nothing makes a link end, a session
begin or the program restart.

## 5. What is proved

`Storage_proofs`, for every finite set of file types, any sets of experiments and sample
ids, any prefix relation that is reflexive, and any pool:

1. `TypeCorrect`: `Spec => []TypeOK`.
2. `InvCorrect`: `Spec => []StorageInv`. `StorageInv` is inductive together with `TypeOK`:
   the three properties of interest are not, since whether an erase may go on was decided
   by flags tested several steps earlier. It adds what carries that decision: a bound
   handle implies a status, an experiment that is not initialized has no active type
   (so `storage_init_sample_file` cannot start while an erase is past
   `storage_deinit_fs`), and for the rest `misc_op_active` keeps recordings out.
3. `SamplingFlagCorrect`, `OpenFilesSafe`, `MiscFlagCorrect`: its parts.
4. `StorageRefines`: `Spec => Abstract!Spec`. Initial states map to initial states; under
   `StorageInv` every action is a step of `RecordingStore` or leaves it alone. The
   interesting case is `Remove`: only actions of an erase shrink `samples`, and the
   invariant says nothing is recorded then.

The assumptions are `PrefixAssumption` (a string is a prefix of itself),
`NamesAssumption` (the markers are not values) and `PoolAssumption`; each run evaluates them.

`Proximity_proofs`, for any number of buffers of any size and any number of samples:

1. `TypeCorrect`: `sample_cnt` and `buffer_index` never index outside the buffers.
2. `InvCorrect`: `Spec => []ProximityInv`, the conjunction of the properties and one
   more, which is inductive with `TypeOK`. What the file holds followed by what waits to
   be written (`Recorded`) changes in three ways only: a sample is appended, it is cut
   to a prefix (a write that stored less, and then an error is noted), or its first
   part, the file, is dropped for a new one. Each has its lemma (`AcceptStep`,
   `PrefixStep`, the case of `StartScanFails`). That what waits is always one buffer
   needs the last conjunct: no sample is accepted while a block is written.
3. `CompleteCorrect`, `OwnSamplesCorrect`, `IdleCorrect`, `ScanReported`: its parts.

`BuffersAssumption` asks for at least one buffer of at least one sample.

`Audio_proofs`, with no constants to assume anything of:

1. `InvCorrect`: `Spec => [](TypeOK /\ AudioInv)`. The properties are not inductive, since
   what an item of the work queue does depends on what was true when it was submitted.
   `AudioInv` says where each item is: in the queue or under a delay or being run, never in
   two places; an item that opens files has the command thread waiting for it with the
   microphone off; whoever reads, or waits to read, a block has the microphone on; an
   item past its stop trigger has it off; an active recording has somebody who goes on,
   or hangs in its decimation.
2. `TypeCorrect`, `UnattendedCorrect`, `StopCorrect`: its parts. The last two exclude the
   badge that hangs, which reports nothing, in their formulas.
3. `ContextCorrect`: a start clears the work context only with the microphone off, and
   then nobody waits to read it.

`Imu_proofs` and `ImuFiles_proofs`, for any of the drivers, any channels and any size of the
buffers:

1. `StoppedCorrect`: no file grows while `state` is STOP. The step alone does not show
   it, since a block may wait in the queue: `StopInv`, which is inductive, adds that no
   file is open then, and `ClosedTakesNothing` that a write to a closed file stores nothing.
2. `InvCorrect`: `Spec => [](TypeOK /\ ImuInv)`. `WriterInv` is about the one writer: its
   item runs before data ready can add another sample, or else its block is not the
   buffer being filled and the drivers' semaphore (`busy`) keeps a second block out. `MemoryInv` says that the
   buffers hold the samples got last, so that a block's numbers follow from `total`, the
   position and whether it waits. `FileInv` says how a file ends in relation to them: with
   nothing cut, just before the block that waits; otherwise somewhere before. `AlignedInv`
   compares the files of two channels at each place, and says that the one that is
   behind does not get longer.
3. `TypeCorrect`, `CompleteCorrect`, `InOrderCorrect`, `AlignedCorrect`: what follows. The
   last needs that of two sequences that agree where both are, one is a prefix.

`SizeAssumption` asks for buffers of at least one sample, `DriversAssumption` for drivers
that are among the three of the code.

`HubSession_proofs`, for any commands, lengths of their data, data, size of a write and
number of clients:

1. `LinkCorrect`: a link is the session's or an orphan's. Who holds a link was decided
   when its client was started, so `SessionInv` follows clients from there: at most the
   thread that has the lock is in a session and has a client, that client runs, every
   other client that runs is in `orphans`, and a link's client serves.
2. `TypeCorrect`. It needs the types of what `received()` goes through for the bytes of a
   write, whatever these are (`ReceivedOK`), and that what a client has not written is the
   rest of its request (`Cut`).
3. `ExchangeCorrect`: `ExchangeInv`, of which `FramesCorrect` and `AnswerCorrect` are
   consequences. A connection that began with the parser at rest is `InStep`: the parser
   is where the tokens written so far put it (`ParserAt`), and the badge has accepted
   nothing but the whole of the request. `StepInRequest` shows it of one token, by the
   place of the token in the frame; `ReceivedInRequest` of any write. It holds for data
   that contain delimiters because the parser counts. That a request starts with the parser
   at rest comes from `Exchange`: a session sends only when it has taken the answer, and
   leaves when it did not get one; and a client that is not connected yet was given nothing.

`ReceivedOK` and `ReceivedInRequest` are inductions over the bytes of a write. The library's
induction theorems take a predicate as a parameter, which the provers cannot instantiate;
`SetInduction` states induction for a set of numbers instead, and follows from the
theorem that `<` is well-founded on the naturals. `RunExists` shows with it that the
recursive function in `Received` exists. `CmdsAssumption` gives every command at least one
byte of data (the request structures of midge_protocol.h have two or more; the parser would
read one even for a command with none), `MtuAssumption` a write at least one token, and `BoundsAssumption` makes
the bounds natural numbers.

`TimeControl_proofs`: `TypeCorrect`, that no instant the badge keeps is in its future, for
natural times.

## 6. What is only model-checked

Liveness (`EraseEnds`, `RecordingFlushed`, `StartReplies`, `StopTakesEffect`,
`SessionEnds`), which is out of the prover's reach. Every invariant and every action property that a passing run checks
has a theorem. What the violations show is shown by TLC's counterexamples only.

What a reader of the properties should know of the code they hold for:

- A second start while the microphone records clears the number of channels before the
  driver refuses it. With the switch on LOW the next block is then decimated for ever: the
  microphone samples, the state stays what it was (ACTIVE, unless a stop waits or gave
  up), and the badge answers nothing more. No property can hold of that; `UnattendedMicReported`, `StopMeansFinished`
  and `StopTakesEffect` have it as their exception `Hung`, without which TLC refutes each.
- `DISABLED` is what a start refused for the switch writes, also over the ERR of a
  recording whose microphone could not be stopped: that is why `UnattendedMicReported`
  allows it.
- `EraseEnds` does not say that the badge can record afterwards. A failed unmount leaves
  the volume mounted with `fs_initialized` clear, and every later mount is refused until
  a reboot (storage.c:196); a failed format or remount leaves it without a mounted card.
- An error in the middle of a proximity recording is only logged, and the next write that
  works makes the status ACTIVE again: `error` in `Proximity` remembers it, the badge does
  not.
- When a fetch or a write fails, an IMU recording ends (and in the second case its files
  are closed) while imu.c still reports ACTIVE.
- With FW/imu_drivers/icm20948/zephyr_drv, "dropping samples" returns the error that
  cancels the trigger: it ends the recording (`DropBlock`).
- A start that is refused because the sensor records clears the position in the buffers
  of the recording that goes on and sets the state to ERR. `cut` covers it.
- The closed driver keeps its position over a stop: a new file begins with up to
  `Size - 1` samples of the recording before (`Old`).
- After a link that ended inside a request the badge takes the beginning of the next
  for the rest of it, and may carry out a frame that nobody sent. `FramesFound` and
  `AnswerIsMine` claim nothing until a link begins with the parser at rest.
- timeutil's base is never cleared: a set-up resets the status only, and later times are
  still interpolated from the first synchronisation.

## 7. What is not modelled

- The contents of files and folders; ID.txt and SYNC, whose presence is one of the
  reasons a folder cannot be removed; listing, free space and CRC, which change nothing.
- The samples of the microphone, the decimation arithmetic and the WAV header (module I).
- Of the inertial sensor: registers, ranges, rates and their conversion, self-test; and
  what the kernel's list becomes when a start re-initialises the writer's item while it is
  queued (`k_work_init`): the model runs the item in its place.
- Of the hub: the experiment's schema, the selection of badges, which commands each
  request sends and what is printed of the answers; downloads and how they are taken up
  again; the assembly of an answer from notifications. Of the protocol: record layouts.
- The advertised data, and `HEURISTIC_TIME_SYNC`, which no build defines.
- LED and battery (no state that others read), board files, the vendored library of the
  ICM20948, offline decoding and plots, and the prompts of the command line tools.
