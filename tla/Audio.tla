------------------------------- MODULE Audio -------------------------------
(***************************************************************************)
(* audio.c and privacy_switch.c: the microphone and the three-position     *)
(* switch that says how much of it may be recorded.                        *)
(*                                                                         *)
(* Three contexts share sensor_data.state:                                 *)
(*   - the command thread starts and stops recordings; it waits on a       *)
(*     semaphore for the work queue to have done so (bt);                  *)
(*   - the system work queue, one thread that takes its items in order,    *)
(*     opens the files (init_work), records block by block (process_work)  *)
(*     and follows the switch (switch_read_work); wq says where it is in   *)
(*     the item it runs;                                                   *)
(*   - the interrupt of the switch's pins.                                 *)
(* Both threads are cooperative: one goes on until it blocks (a semaphore, *)
(* the microphone, the card), so an action is what a thread does between   *)
(* two such points.  The microphone driver and the card are external: each *)
(* call may fail.  When the decimation loop does not end (Hung), the work  *)
(* queue never blocks again, and nothing but interrupts goes on.           *)
(***************************************************************************)
EXTENDS Naturals, Sequences, FiniteSets

VARIABLES
  state,      \* sensor_data.state
  channels,   \* audio_config.channel.act_num_chan # 0: the driver accepted audio_config
  mic,        \* external: the PDM driver samples
  audio_file, meta_file,  \* file_info_table[..].status of the two files
  queue,      \* the work queue's items, in order
  timers,     \* delayable items whose delay runs
  wq,         \* where the work queue's thread is
  seen,       \* the position switch_read_work has read
  bt,         \* where the command thread is
  init_done, stop_done,   \* binary semaphores of audio_sampling_work_ctx
  sw_pos, debouncing,     \* privacy_switch.c
  switch      \* external: where the slider is

vars == <<state, channels, mic, audio_file, meta_file, queue, timers, wq, seen, bt,
          init_done, stop_done, sw_pos, debouncing, switch>>

files == <<audio_file, meta_file>>
sems == <<init_done, stop_done>>
privacy == <<sw_pos, debouncing, switch, seen>>

Positions == {"OFF", "LOW", "HIGH"}
Items == {"init", "process", "switch"}

TypeOK ==
  /\ state \in {"DISABLED", "STOP", "ACTIVE", "ERR"}
  /\ channels \in BOOLEAN /\ mic \in BOOLEAN
  /\ audio_file \in {"INACTIVE", "ACTIVE", "ERR"}
  /\ meta_file \in {"INACTIVE", "ACTIVE", "ERR"}
  /\ queue \in Seq(Items) /\ Len(queue) <= Cardinality(Items)
  /\ timers \subseteq {"process", "switch"}
  /\ wq \in {"idle", "read", "write", "stop", "metadata", "header", "close_audio",
             "close_meta", "switch_wait", "hung"}
  /\ seen \in Positions \cup {"BETWEEN"}
  /\ bt \in {"idle", "start_wait", "stop_wait"}
  /\ init_done \in BOOLEAN /\ stop_done \in BOOLEAN
  /\ sw_pos \in Positions /\ debouncing \in BOOLEAN
  /\ switch \in Positions \cup {"BETWEEN"}

\* After audio_sensor_init and switch_sensor_init, which reads the position.
Init ==
  /\ state = "STOP" /\ channels = FALSE /\ mic = FALSE
  /\ audio_file = "INACTIVE" /\ meta_file = "INACTIVE"
  /\ queue = <<>> /\ timers = {} /\ wq = "idle"
  /\ bt = "idle" /\ init_done = FALSE /\ stop_done = FALSE
  /\ sw_pos \in Positions /\ switch = sw_pos /\ seen = sw_pos
  /\ debouncing = FALSE

Queued(item) == \E i \in DOMAIN queue: queue[i] = item

\* The queue without item, which is in it once at most.
Without(item) ==
  IF Queued(item)
  THEN LET i == CHOOSE i \in DOMAIN queue: queue[i] = item
       IN  SubSeq(queue, 1, i - 1) \o SubSeq(queue, i + 1, Len(queue))
  ELSE queue
\* The loop that decimates a block does not end: the thread of the work queue never gives
\* the processor to another, so that no command is begun, answered or timed out.
Hung == wq = "hung"
-----------------------------------------------------------------------------
\* The command thread.

MicFree_IgnoresMic == TRUE

\* dmic_configure refuses while the driver samples.
MicFree == ~mic

\* audio_sensor_start with valid parameters, up to its wait.  audio_config is cleared
\* before anything can refuse; sensor_data.state is not looked at.
StartMic ==
  /\ bt = "idle" /\ ~Hung
  /\ \/ /\ sw_pos = "OFF"
        /\ state' = "DISABLED" /\ channels' = FALSE
        /\ UNCHANGED <<queue, timers, bt, sems>>
     \/ /\ sw_pos # "OFF"                 \* dmic_configure fails
        /\ channels' = FALSE
        /\ UNCHANGED <<state, queue, timers, bt, sems>>
     \/ /\ sw_pos # "OFF" /\ MicFree
        /\ channels' = TRUE
        /\ init_done' = FALSE /\ stop_done' = FALSE
        /\ queue' = Append(queue, "init")
        /\ bt' = "start_wait"
        /\ UNCHANGED <<state, timers>>
  /\ UNCHANGED <<mic, files, wq, privacy>>

StartReply ==
  /\ bt = "start_wait" /\ init_done /\ ~Hung
  /\ bt' = "idle" /\ init_done' = FALSE
  /\ UNCHANGED <<state, channels, mic, files, queue, timers, wq, stop_done, privacy>>

\* audio_sensor_stop up to its wait; any other state is refused.
StopMic ==
  /\ bt = "idle" /\ state = "ACTIVE" /\ ~Hung
  /\ state' = "STOP"
  /\ bt' = "stop_wait"
  /\ UNCHANGED <<channels, mic, files, queue, timers, wq, sems, privacy>>

StopReply ==
  /\ bt = "stop_wait" /\ stop_done /\ ~Hung
  /\ bt' = "idle" /\ stop_done' = FALSE
  /\ UNCHANGED <<state, channels, mic, files, queue, timers, wq, init_done, privacy>>

StopTimeout_KeepsState ==
  /\ bt = "stop_wait" /\ ~stop_done /\ ~Hung
  /\ bt' = "idle"
  /\ queue' = Without("process") /\ timers' = timers \ {"process"}
  /\ UNCHANGED <<state, channels, mic, files, wq, sems, privacy>>

\* The semaphore was not given for a second: process_work is cancelled where it waits
\* (one that runs goes on), and the reply is 0 as for a stop that worked, because the
\* error is in an inner variable ret.
StopTimeout ==
  /\ bt = "stop_wait" /\ ~stop_done /\ ~Hung
  /\ bt' = "idle"
  /\ queue' = Without("process") /\ timers' = timers \ {"process"}
  /\ state' = "ERR"
  /\ UNCHANGED <<channels, mic, files, wq, sems, privacy>>
-----------------------------------------------------------------------------
\* The work queue.

Takes(item) == /\ wq = "idle" /\ queue # <<>> /\ Head(queue) = item
               /\ queue' = Tail(queue)

\* audio_init_sampling_work_handler.  The command thread waits for it and the switch
\* is read on this thread, so nobody sees the states between its calls.
InitFails ==
  /\ state' = "ERR"
  /\ UNCHANGED <<mic, timers>>
  /\ \/ audio_file' \in {audio_file, "ERR"} /\ UNCHANGED meta_file  \* the file, nothing to close
     \/ /\ audio_file # "ACTIVE"
        /\ audio_file' \in {"INACTIVE", "ERR"}
        /\ \/ UNCHANGED meta_file              \* its header, or the metadata file exists
           \/ meta_file' = "ERR"               \* the metadata file, or its header: not closed
           \/ meta_file' \in {"INACTIVE", "ERR"} /\ meta_file # "ACTIVE"  \* the trigger

InitSucceeds ==
  /\ audio_file # "ACTIVE" /\ meta_file # "ACTIVE" /\ ~mic
  /\ audio_file' = "ACTIVE" /\ meta_file' \in {"ACTIVE", "ERR"} /\ mic' = TRUE
  /\ timers' = timers \cup {"process"}
  /\ state' = "ACTIVE"

InitWork_SignalsOnlySuccess ==
  /\ Takes("init")
  /\ \/ InitFails /\ UNCHANGED init_done
     \/ InitSucceeds /\ init_done' = TRUE
  /\ UNCHANGED <<channels, wq, bt, stop_done, privacy>>

InitWork ==
  /\ Takes("init")
  /\ InitFails \/ InitSucceeds
  /\ init_done' = TRUE
  /\ UNCHANGED <<channels, wq, bt, stop_done, privacy>>

GoOn_OnlyActive(st, items) ==
  /\ wq' = "idle"
  /\ queue' = IF st = "ACTIVE" THEN Append(items, "process") ELSE items

\* The end of audio_sample_process_work_handler's first half: the next block, at once,
\* or the way to the end of the recording.
GoOn(st, items) ==
  IF st = "ACTIVE" THEN wq' = "idle" /\ queue' = Append(items, "process")
                   ELSE wq' = "stop" /\ queue' = items

ProcessWork ==
  /\ Takes("process")
  /\ wq' = IF state = "ACTIVE" THEN "read" ELSE "stop"
  /\ UNCHANGED <<state, channels, mic, files, timers, bt, sems, privacy>>

\* It fails: after -EBUSY, -ENOMSG or -EAGAIN the driver is started again and the
\* metadata file says so; if that fails, or after any other error, recording ends.
ReadFails ==
  /\ wq = "read"
  /\ \/ /\ UNCHANGED state
        /\ meta_file' \in IF meta_file = "INACTIVE" THEN {"INACTIVE"} ELSE {"ACTIVE", "ERR"}
     \/ state' = "ERR" /\ UNCHANGED meta_file
  /\ GoOn(state', queue)
  /\ UNCHANGED <<channels, mic, audio_file, timers, bt, sems, privacy>>

Decimates == sw_pos = "LOW"

\* dmic_read, which waits for a block, and its decimation.
ReadBlock ==
  /\ wq = "read" /\ (Decimates => channels)
  /\ wq' = "write"
  /\ UNCHANGED <<state, channels, mic, files, queue, timers, bt, sems, privacy>>

\* With no channels, as after a start refused while this thread waited for the block or
\* before, the loop that decimates has a step of zero bytes and does not end.
DecimationHangs ==
  /\ wq = "read" /\ Decimates /\ ~channels
  /\ wq' = "hung"
  /\ UNCHANGED <<state, channels, mic, files, queue, timers, bt, sems, privacy>>

\* The block is written, decimated or not.
WriteBlock ==
  /\ wq = "write"
  /\ \E ok \in BOOLEAN:
       /\ ok => audio_file # "INACTIVE"
       /\ audio_file' = IF audio_file = "INACTIVE" THEN audio_file ELSE
                        IF ok THEN "ACTIVE" ELSE "ERR"
       /\ state' = IF ok THEN state ELSE "ERR"
  /\ GoOn(state', queue)
  /\ UNCHANGED <<channels, mic, meta_file, timers, bt, sems, privacy>>

\* dmic_trigger(STOP).  When it fails the files stay open.
StopTrigger ==
  /\ wq = "stop"
  /\ \/ /\ mic' = FALSE /\ wq' = "metadata"
        /\ UNCHANGED <<state, stop_done>>
     \/ /\ state' = "ERR" /\ stop_done' = TRUE /\ wq' = "idle"
        /\ UNCHANGED mic
  /\ UNCHANGED <<channels, files, queue, timers, bt, init_done, privacy>>

\* write_metadata, and the state after it, whatever it was.
StopMetadata ==
  /\ wq = "metadata"
  /\ wq' = "header"
  /\ meta_file' \in IF meta_file = "INACTIVE" THEN {"INACTIVE"} ELSE {"ACTIVE", "ERR"}
  /\ state' = "STOP"
  /\ UNCHANGED <<channels, mic, audio_file, queue, timers, bt, sems, privacy>>

\* The header is written again; storage_seek_start wants an active file.
WriteHeader ==
  /\ wq = "header"
  /\ wq' = "close_audio"
  /\ \/ /\ audio_file = "ACTIVE"
        /\ UNCHANGED <<audio_file, state>>
     \/ /\ audio_file' \in IF audio_file = "ACTIVE" THEN {"ACTIVE", "ERR"} ELSE {audio_file}
        /\ state' = "ERR"
  /\ UNCHANGED <<channels, mic, meta_file, queue, timers, bt, sems, privacy>>

CloseAudio ==
  /\ wq = "close_audio"
  /\ wq' = "close_meta"
  /\ audio_file' \in {"INACTIVE", "ERR"}
  /\ UNCHANGED <<state, channels, mic, meta_file, queue, timers, bt, sems, privacy>>

CloseMeta_IgnoresErrors ==
  /\ wq = "close_meta"
  /\ wq' = "idle"
  /\ meta_file' \in {"INACTIVE", "ERR"}
  /\ stop_done' = TRUE
  /\ UNCHANGED <<state, channels, mic, audio_file, queue, timers, bt, init_done, privacy>>

\* The second close, the state after both, and the semaphore.
CloseMeta ==
  /\ wq = "close_meta"
  /\ wq' = "idle"
  /\ meta_file' \in {"INACTIVE", "ERR"}
  /\ state' = IF "ERR" \in {audio_file, meta_file'} THEN "ERR" ELSE state
  /\ stop_done' = TRUE
  /\ UNCHANGED <<channels, mic, audio_file, queue, timers, bt, init_done, privacy>>
-----------------------------------------------------------------------------
\* The switch.

\* The rest of update_privacy_sw_pos and of switch_read_work_handler.
SetPosition(read) == /\ sw_pos' = IF read = "BETWEEN" THEN sw_pos ELSE read
                     /\ debouncing' = FALSE

\* switch_read_work_handler: the pins are read first, then a recording is stopped with
\* audio_sensor_stop, whose wait blocks this very thread.  (Where stop_done is left given
\* the wait ends at once; like StopMic, the model lets others run in between.)
SwitchWork ==
  /\ Takes("switch")
  /\ seen' = switch
  /\ IF state = "ACTIVE"
       THEN /\ state' = "STOP" /\ wq' = "switch_wait"
            /\ UNCHANGED <<sw_pos, debouncing>>
       ELSE /\ SetPosition(switch)
            /\ UNCHANGED <<state, wq>>
  /\ UNCHANGED <<channels, mic, files, timers, bt, sems, switch>>

\* stop_done was left given by an earlier recording, or nobody gives it for a second.
SwitchWaitEnds ==
  /\ wq = "switch_wait"
  /\ wq' = "idle"
  /\ SetPosition(seen)
  /\ IF stop_done THEN /\ stop_done' = FALSE
                       /\ UNCHANGED <<queue, timers, state>>
                  ELSE /\ queue' = Without("process") /\ timers' = timers \ {"process"}
                       /\ state' = "ERR"
                       /\ UNCHANGED stop_done
  /\ UNCHANGED <<channels, mic, files, bt, init_done, seen, switch>>

EdgeCounts_Always == TRUE

\* sw_pos_changed ignores an edge while it debounces one.  switch_mutex is only held by
\* the handler, with debouncing still set, so that flag alone decides.
EdgeCounts == ~debouncing

\* The slider moves.  A pin that becomes active interrupts; none is between positions.
MoveSwitch(p) ==
  /\ p # switch
  /\ switch' = p
  /\ IF p # "BETWEEN" /\ EdgeCounts
       THEN debouncing' = TRUE /\ timers' = timers \cup {"switch"}
       ELSE UNCHANGED <<debouncing, timers>>
  /\ UNCHANGED <<state, channels, mic, files, queue, wq, bt, sems, sw_pos, seen>>

\* A delay ends: the item joins the queue.
Expire(item) ==
  /\ item \in timers
  /\ timers' = timers \ {item}
  /\ queue' = Append(queue, item)
  /\ UNCHANGED <<state, channels, mic, files, wq, bt, sems, privacy>>
-----------------------------------------------------------------------------
WorkQueue == \/ InitWork \/ ProcessWork \/ ReadBlock \/ ReadFails \/ DecimationHangs
             \/ WriteBlock \/ StopTrigger \/ StopMetadata \/ WriteHeader
             \/ CloseAudio \/ CloseMeta \/ SwitchWork \/ SwitchWaitEnds

Waits == StartReply \/ StopReply \/ StopTimeout

Next == \/ StartMic \/ StopMic \/ Waits
        \/ WorkQueue
        \/ \E p \in Positions \cup {"BETWEEN"}: MoveSwitch(p)
        \/ \E item \in {"process", "switch"}: Expire(item)

Spec == Init /\ [][Next]_vars

\* The kernel runs a thread that can go on, and ends a delay.
FairSpec == /\ Spec
            /\ WF_vars(WorkQueue) /\ WF_vars(Waits)
            /\ \A item \in {"process", "switch"}: WF_vars(Expire(item))
-----------------------------------------------------------------------------
\* A block is to be read.
Pending == "process" \in timers \/ Queued("process")

\* Somebody will still read the microphone or end the recording.
Attended == \/ wq \in {"read", "write", "stop", "metadata", "header", "close_audio",
                       "close_meta"}
            \/ Pending \/ Queued("init")

\* A microphone that samples with nobody to read it (its stop timed out and the block
\* work was cancelled, the switch stopped it from the thread that should have ended the
\* recording, its STOP trigger failed) is never reported as stopped or active: the state
\* is ERR, or DISABLED where a start refused for the switch wrote over it.  The exception
\* is the endless decimation of audio.c:271: nothing runs that could report it.
UnattendedMicReported == mic /\ ~Attended /\ ~Hung => state \in {"ERR", "DISABLED"}

\* A state of STOP with no work left means what it says: the microphone is off and both
\* files are closed, whichever of the timeouts and failures came before.  A stop whose
\* recording hangs in its decimation has set STOP and never gets further.
StopMeansFinished ==
  state = "STOP" /\ ~Attended /\ ~Hung =>
    ~mic /\ audio_file = "INACTIVE" /\ meta_file = "INACTIVE"

Ending == {"metadata", "header", "close_audio", "close_meta"}

\* What the two properties rest on.  Each item is in one place at most; an init item has
\* the command thread waiting and found the microphone off; who works on a block, or
\* waits to, does so for a microphone that samples, and who ends a recording has stopped
\* it; an active recording goes on, or hangs in the decimation of a block; and that takes
\* a microphone that samples, with no block work left beside it.
AudioInv ==
  /\ \A i, j \in DOMAIN queue: queue[i] = queue[j] => i = j
  /\ Queued("init") => bt = "start_wait" /\ ~init_done /\ ~mic
  /\ ~("process" \in timers /\ Queued("process"))
  /\ wq \in {"read", "write", "stop", "hung"} \cup Ending => ~Pending
  /\ ~("switch" \in timers /\ Queued("switch"))
  /\ wq = "switch_wait" => "switch" \notin timers /\ ~Queued("switch")
  /\ "switch" \in timers \/ Queued("switch") \/ wq = "switch_wait" => debouncing
  /\ Pending \/ wq \in {"read", "write", "stop", "hung"} => mic
  /\ wq \in Ending => ~mic
  /\ state = "ACTIVE" => Pending \/ wq \in {"read", "write"} \/ Hung
  /\ wq = "close_meta" => audio_file # "ACTIVE"
  /\ UnattendedMicReported
  /\ StopMeansFinished

\* audio_sensor_start clears the context that holds process_work: never while that
\* item is linked in the kernel's queue or timeout list.
ContextFreeWhenReset ==
  [][StartMic /\ bt' = "start_wait" => "process" \notin timers /\ ~Queued("process")]_vars

\* The command thread, which waits for the files to be opened without a timeout, always
\* gets its answer, whatever runs before on the work queue.
StartReplies == bt = "start_wait" ~> bt = "idle"

\* A recording told to stop, by a command or by the switch, whose files the work queue can
\* only close when the wait is over, silences the microphone or says that something is
\* wrong.  It does neither when its decimation hangs.
StopTakesEffect ==
  state = "STOP" /\ mic ~> ~mic \/ state \in {"ERR", "DISABLED"} \/ Hung

\* What audio.c:334 says of the end of a recording, "return the error code of the first
\* failure, if any": a stop that replies without error has closed both files.
StopReplyMeansClosed ==
  [][StopTimeout \/ StopReply => audio_file = "INACTIVE" /\ meta_file = "INACTIVE"]_vars

\* What audio.c:361-365 demand of the decimation, "privacy-preserving sample rates": a
\* block is recorded undecimated only with the switch read as HIGH.
FullRateOnlyOnHigh ==
  [][WriteBlock /\ state' = "ACTIVE" /\ ~Decimates => sw_pos = "HIGH"]_vars
=============================================================================
