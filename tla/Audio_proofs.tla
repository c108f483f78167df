---------------------------- MODULE Audio_proofs ----------------------------
(***************************************************************************)
(* Theorems about Audio: its types, its invariant, and that a start never  *)
(* clears a work item the kernel holds.                                    *)
(***************************************************************************)
EXTENDS Audio, FiniteSetTheorems, QueueLemmas

\* Queued is what the lemmas about queues call Holds, before a step and after it.
LEMMA QueuedIs ==
  /\ \A x \in Items: Queued(x) <=> Holds(queue, x)
  /\ \A x \in Items: (Queued(x))' <=> Holds(queue', x)
BY DEF Queued, Holds

\* A queue that holds nothing twice is no longer than the items are many.
LEMMA QueueBounded ==
  ASSUME NEW q \in Seq(Items), Once(q)
  PROVE  Len(q) <= Cardinality(Items)
<1>1. Cardinality(Items) = 3
  <2> DEFINE One == {"init"}
             Two == One \cup {"process"}
             Three == Two \cup {"switch"}
  <2>1. IsFiniteSet(One) /\ Cardinality(One) = 1
    BY FS_Singleton
  <2>2. "process" \notin One /\ "switch" \notin Two /\ Items = Three
    BY DEF Items
  <2> HIDE DEF One
  <2>3. IsFiniteSet(Two) /\ Cardinality(Two) = 2
    BY <2>1, <2>2, FS_AddElement
  <2> HIDE DEF Two
  <2>4. Cardinality(Three) = Cardinality(Two) + 1
    BY <2>2, <2>3, FS_AddElement, Zenon
  <2> QED
    BY <2>2, <2>3, <2>4
<1>2. ASSUME Len(q) > 3 PROVE FALSE
  <2>1. Len(q) \in Nat /\ DOMAIN q = 1..Len(q)
    OBVIOUS
  <2>2. {1, 2, 3, 4} \subseteq DOMAIN q /\ \A i \in {1, 2, 3, 4}: q[i] \in Items
    BY <1>2, <2>1
  <2> QED
    BY <2>2 DEF Once, Items
<1> QED
  BY <1>1, <1>2

\* Taking an item out of the queue, wherever it is, leaves the others.
LEMMA WithoutItem ==
  ASSUME queue \in Seq(Items), Once(queue), NEW e \in Items
  PROVE  /\ Without(e) \in Seq(Items) /\ Once(Without(e))
         /\ \A x: Holds(Without(e), x) <=> Holds(queue, x) /\ x # e
<1>1. CASE Holds(queue, e)
  <2> DEFINE i == CHOOSE i \in DOMAIN queue: queue[i] = e
  <2>1. i \in 1..Len(queue) /\ queue[i] = e
    <3>1. \E j \in DOMAIN queue: queue[j] = e
      BY <1>1 DEF Holds
    <3>2. DOMAIN queue = 1..Len(queue)
      OBVIOUS
    <3> QED
      BY <3>1, <3>2
  <2>2. Without(e) = SubSeq(queue, 1, i - 1) \o SubSeq(queue, i + 1, Len(queue))
    BY <1>1 DEF Without, Queued, Holds
  <2> HIDE DEF i
  <2> QED
    BY <2>1, <2>2, QueueRemoveAt
<1>2. CASE ~Holds(queue, e)
  BY <1>2 DEF Without, Queued, Holds
<1> QED
  BY <1>1, <1>2

\* What holds of the queue, and what the invariant says of everything else in terms of
\* what the queue holds.
QueueOK == queue \in Seq(Items) /\ Once(queue)

\* A queue that does not change.
LEMMA SameQueue ==
  ASSUME QueueOK, queue' = queue
  PROVE  QueueOK' /\ \A x: Holds(queue', x) <=> Holds(queue, x)
BY DEF QueueOK

\* An item that joins it.
LEMMA JoinsQueue ==
  ASSUME QueueOK, NEW e \in Items, ~Holds(queue, e), queue' = Append(queue, e)
  PROVE  QueueOK' /\ \A x: Holds(queue', x) <=> Holds(queue, x) \/ x = e
BY QueueAppend DEF QueueOK

\* The item the work queue takes.
LEMMA LeavesQueue ==
  ASSUME QueueOK, NEW e \in Items, Takes(e)
  PROVE  /\ QueueOK' /\ Holds(queue, e) /\ wq = "idle"
         /\ \A x: Holds(queue', x) <=> Holds(queue, x) /\ x # e
BY QueueTail DEF QueueOK, Takes

\* An item that is cancelled.
LEMMA CancelledInQueue ==
  ASSUME QueueOK, NEW e \in Items, queue' = Without(e)
  PROVE  QueueOK' /\ \A x: Holds(queue', x) <=> Holds(queue, x) /\ x # e
BY WithoutItem DEF QueueOK

\* TypeOK and AudioInv with what they say of the queue as QueueOK and Holds.
Rest ==
  /\ state \in {"DISABLED", "STOP", "ACTIVE", "ERR"}
  /\ channels \in BOOLEAN /\ mic \in BOOLEAN
  /\ audio_file \in {"INACTIVE", "ACTIVE", "ERR"}
  /\ meta_file \in {"INACTIVE", "ACTIVE", "ERR"}
  /\ timers \subseteq {"process", "switch"}
  /\ wq \in {"idle", "read", "write", "stop", "metadata", "header", "close_audio",
             "close_meta", "switch_wait", "hung"}
  /\ seen \in Positions \cup {"BETWEEN"}
  /\ bt \in {"idle", "start_wait", "stop_wait"}
  /\ init_done \in BOOLEAN /\ stop_done \in BOOLEAN
  /\ sw_pos \in Positions /\ debouncing \in BOOLEAN
  /\ switch \in Positions \cup {"BETWEEN"}

\* init, process and switch say whether the queue holds that item.
Places(init, process, switched) ==
  LET pending == "process" \in timers \/ process
      attended == wq \in {"read", "write", "stop"} \cup Ending \/ pending \/ init
  IN  /\ init => bt = "start_wait" /\ ~init_done /\ ~mic
      /\ ~("process" \in timers /\ process)
      /\ wq \in {"read", "write", "stop", "hung"} \cup Ending => ~pending
      /\ ~("switch" \in timers /\ switched)
      /\ wq = "switch_wait" => "switch" \notin timers /\ ~switched
      /\ "switch" \in timers \/ switched \/ wq = "switch_wait" => debouncing
      /\ pending \/ wq \in {"read", "write", "stop", "hung"} => mic
      /\ wq \in Ending => ~mic
      /\ state = "ACTIVE" => pending \/ wq \in {"read", "write"} \/ wq = "hung"
      /\ wq = "close_meta" => audio_file # "ACTIVE"
      /\ mic /\ ~attended /\ wq # "hung" => state \in {"ERR", "DISABLED"}
      /\ state = "STOP" /\ ~attended /\ wq # "hung" =>
           ~mic /\ audio_file = "INACTIVE" /\ meta_file = "INACTIVE"

\* The invariant in the form the proof of the steps uses.
IInv == QueueOK /\ Rest
        /\ Places(Holds(queue, "init"), Holds(queue, "process"), Holds(queue, "switch"))

\* It is the type invariant and AudioInv together.
LEMMA InvForms == IInv <=> TypeOK /\ AudioInv
<1>1. QueueOK => Len(queue) <= Cardinality(Items)
  BY QueueBounded DEF QueueOK
<1>2. "init" \in Items /\ "process" \in Items /\ "switch" \in Items
  BY DEF Items
<1>3. /\ Queued("init") <=> Holds(queue, "init")
      /\ Queued("process") <=> Holds(queue, "process")
      /\ Queued("switch") <=> Holds(queue, "switch")
  BY <1>2, QueuedIs
<1>4. TypeOK /\ AudioInv => QueueOK
  BY DEF TypeOK, AudioInv, QueueOK, Once
<1>5. QueueOK /\ Rest => TypeOK
  BY <1>1 DEF QueueOK, Rest, TypeOK
<1>6. TypeOK => Rest
  BY DEF Rest, TypeOK
<1>7. QueueOK /\ Rest =>
        (AudioInv <=>
         Places(Holds(queue, "init"), Holds(queue, "process"), Holds(queue, "switch")))
  BY <1>3 DEF QueueOK, Once, Rest, AudioInv, Places, Pending, UnattendedMicReported,
              StopMeansFinished, Attended, Hung, Ending
<1> QED
  BY <1>4, <1>5, <1>6, <1>7 DEF IInv

\* The initial states.
LEMMA InvInit == Init => IInv
<1> SUFFICES ASSUME Init PROVE IInv
  OBVIOUS
<1>1. QueueOK /\ \A x: ~Holds(queue, x)
  BY QueueEmpty DEF QueueOK, Init
<1> QED
  BY <1>1 DEF Init, IInv, Rest, Places, Positions, Ending

\* Every step keeps the invariant.
LEMMA InvStep ==
  ASSUME IInv, [Next]_vars
  PROVE  IInv'
<1> DEFINE init == Holds(queue, "init")
           process == Holds(queue, "process")
           switched == Holds(queue, "switch")
<1> USE DEF Ending, Positions
<1>0. /\ QueueOK /\ Rest /\ Places(init, process, switched)
      /\ "init" \in Items /\ "process" \in Items /\ "switch" \in Items
  BY DEF IInv, Items
<1>same. ASSUME UNCHANGED queue
         PROVE  /\ QueueOK'
                /\ (init' <=> init) /\ (process' <=> process) /\ (switched' <=> switched)
  BY <1>0, <1>same, SameQueue
<1>1. CASE StartMic
  <2>0. bt = "idle" /\ UNCHANGED <<mic, audio_file, meta_file, wq, sw_pos, debouncing, switch,
                                  seen>>
    BY <1>1 DEF StartMic, files, privacy
  <2>1. CASE bt' = "idle"
    <3>1. UNCHANGED <<queue, timers, bt, init_done, stop_done>>
      BY <1>1, <2>1 DEF StartMic, sems
    <3>2. state' \in {"DISABLED", state} /\ channels' \in BOOLEAN
      BY <1>1, <2>1 DEF StartMic
    <3>3. Rest'
      BY <1>0, <2>0, <3>1, <3>2 DEF Rest
    <3>4. QueueOK' /\ (init' <=> init) /\ (process' <=> process) /\ (switched' <=> switched)
      BY <3>1, <1>same
    <3>5. Places(Holds(queue, "init"), Holds(queue, "process"), Holds(queue, "switch"))'
      BY <1>0, <2>0, <3>1, <3>2, <3>4 DEF Places
    <3> QED
      BY <3>3, <3>4, <3>5 DEF IInv
  <2>2. CASE bt' # "idle"
    <3>1. /\ queue' = Append(queue, "init") /\ bt' = "start_wait" /\ ~mic
          /\ UNCHANGED <<state, timers>>
      BY <1>1, <2>0, <2>2 DEF StartMic, MicFree
    <3>2. /\ init_done' \in BOOLEAN /\ ~init_done'
          /\ stop_done' \in BOOLEAN /\ channels' \in BOOLEAN
      BY <1>1, <2>0, <2>2 DEF StartMic
    <3>3. Rest'
      BY <1>0, <2>0, <3>1, <3>2 DEF Rest
    <3>4. QueueOK' /\ init' /\ (process' <=> process) /\ (switched' <=> switched)
      BY <1>0, <2>0, <3>1, JoinsQueue DEF Places
    <3>5. Places(Holds(queue, "init"), Holds(queue, "process"), Holds(queue, "switch"))'
      BY <1>0, <2>0, <3>1, <3>2, <3>4 DEF Places
    <3> QED
      BY <3>3, <3>4, <3>5 DEF IInv
  <2> QED
    BY <2>1, <2>2
<1>2. CASE StartReply
  <2>1. Rest'
    <3>1. init_done' \in BOOLEAN /\ bt' = "idle"
      BY <1>2 DEF StartReply
    <3>2. UNCHANGED <<state, channels, mic, audio_file, meta_file, timers, wq, stop_done,
                      sw_pos, debouncing, switch, seen>>
      BY <1>2 DEF StartReply, files, privacy
    <3> QED
      BY <1>0, <3>1, <3>2 DEF Rest
  <2>2. QueueOK' /\ (init' <=> init) /\ (process' <=> process) /\ (switched' <=> switched)
    BY <1>2, <1>same DEF StartReply
  <2>3. Places(Holds(queue, "init"), Holds(queue, "process"), Holds(queue, "switch"))'
    BY <1>0, <1>2, <2>2 DEF StartReply, Places, files, sems, privacy
  <2> QED
    BY <2>1, <2>2, <2>3 DEF IInv
<1>3. CASE StopMic
  <2>1. Rest'
    BY <1>0, <1>3 DEF StopMic, Rest, files, sems, privacy
  <2>2. QueueOK' /\ (init' <=> init) /\ (process' <=> process) /\ (switched' <=> switched)
    BY <1>3, <1>same DEF StopMic
  <2>3. Places(Holds(queue, "init"), Holds(queue, "process"), Holds(queue, "switch"))'
    BY <1>0, <1>3, <2>2 DEF StopMic, Places, files, sems, privacy
  <2> QED
    BY <2>1, <2>2, <2>3 DEF IInv
<1>4. CASE StopReply
  <2>1. Rest'
    <3>1. stop_done' \in BOOLEAN /\ bt' = "idle"
      BY <1>4 DEF StopReply
    <3>2. UNCHANGED <<state, channels, mic, audio_file, meta_file, timers, wq, init_done,
                      sw_pos, debouncing, switch, seen>>
      BY <1>4 DEF StopReply, files, privacy
    <3> QED
      BY <1>0, <3>1, <3>2 DEF Rest
  <2>2. QueueOK' /\ (init' <=> init) /\ (process' <=> process) /\ (switched' <=> switched)
    BY <1>4, <1>same DEF StopReply
  <2>3. Places(Holds(queue, "init"), Holds(queue, "process"), Holds(queue, "switch"))'
    BY <1>0, <1>4, <2>2 DEF StopReply, Places, files, sems, privacy
  <2> QED
    BY <2>1, <2>2, <2>3 DEF IInv
<1>5. CASE StopTimeout
  <2>1. QueueOK' /\ (init' <=> init) /\ ~process' /\ (switched' <=> switched)
    BY <1>0, <1>5, CancelledInQueue DEF StopTimeout
  <2>2. /\ bt = "stop_wait" /\ bt' = "idle" /\ state' = "ERR"
        /\ timers' = timers \ {"process"}
        /\ UNCHANGED <<channels, mic, audio_file, meta_file, wq, init_done, stop_done,
                       sw_pos, debouncing, switch, seen>>
    BY <1>5 DEF StopTimeout, files, sems, privacy
  <2>3. "process" \notin timers' /\ ("switch" \in timers' <=> "switch" \in timers)
    BY <2>2
  <2>4. Rest'
    BY <1>0, <2>2 DEF Rest
  <2>5. Places(Holds(queue, "init"), Holds(queue, "process"), Holds(queue, "switch"))'
    BY <1>0, <2>1, <2>2, <2>3 DEF Places
  <2> QED
    BY <2>1, <2>4, <2>5 DEF IInv
<1>6. CASE InitWork
  <2>1. /\ QueueOK' /\ Holds(queue, "init") /\ wq = "idle"
        /\ \A x: Holds(queue', x) <=> Holds(queue, x) /\ x # "init"
    BY <1>0, <1>6, LeavesQueue DEF InitWork
  <2>2. ~init' /\ (process' <=> process) /\ (switched' <=> switched)
    BY <2>1
  <2>3. /\ init_done' = TRUE
        /\ UNCHANGED <<channels, wq, bt, stop_done, sw_pos, debouncing, switch, seen>>
    BY <1>6 DEF InitWork, privacy
  <2>4. /\ state' \in {"DISABLED", "STOP", "ACTIVE", "ERR"} /\ mic' \in BOOLEAN
        /\ audio_file' \in {"INACTIVE", "ACTIVE", "ERR"}
        /\ meta_file' \in {"INACTIVE", "ACTIVE", "ERR"}
        /\ timers' \subseteq {"process", "switch"}
    BY <1>0, <1>6 DEF InitWork, InitFails, InitSucceeds, Rest
  <2>5. Rest'
    <3>1. init_done' \in BOOLEAN
      BY <2>3
    <3> QED
      BY <1>0, <2>3, <2>4, <3>1 DEF Rest
  <2>6. CASE InitFails
    <3>1. state' = "ERR" /\ UNCHANGED <<mic, timers>>
      BY <2>6 DEF InitFails
    <3> QED
      BY <1>0, <2>1, <2>2, <2>3, <2>5, <3>1 DEF IInv, Places
  <2>7. CASE InitSucceeds
    <3>1. state' = "ACTIVE" /\ mic' = TRUE /\ ~mic /\ timers' = timers \cup {"process"}
      BY <2>7 DEF InitSucceeds
    <3> QED
      BY <1>0, <2>1, <2>2, <2>3, <2>5, <3>1 DEF IInv, Places
  <2> QED
    BY <1>6, <2>6, <2>7 DEF InitWork
<1>7. CASE ProcessWork
  <2>1. /\ QueueOK' /\ Holds(queue, "process") /\ wq = "idle"
        /\ \A x: Holds(queue', x) <=> Holds(queue, x) /\ x # "process"
    BY <1>0, <1>7, LeavesQueue DEF ProcessWork
  <2>2. (init' <=> init) /\ ~process' /\ (switched' <=> switched)
    BY <2>1
  <2>3. /\ wq' = IF state = "ACTIVE" THEN "read" ELSE "stop"
        /\ UNCHANGED <<state, channels, mic, audio_file, meta_file, timers, bt, init_done,
                       stop_done, sw_pos, debouncing, switch, seen>>
    BY <1>7 DEF ProcessWork, files, sems, privacy
  <2>4. Rest'
    BY <1>0, <2>3 DEF Rest
  <2>5. Places(Holds(queue, "init"), Holds(queue, "process"), Holds(queue, "switch"))'
    BY <1>0, <2>1, <2>2, <2>3 DEF Places
  <2> QED
    BY <2>1, <2>4, <2>5 DEF IInv
<1>8. CASE ReadBlock
  <2>1. Rest'
    BY <1>0, <1>8 DEF ReadBlock, Rest, files, sems, privacy
  <2>2. QueueOK' /\ (init' <=> init) /\ (process' <=> process) /\ (switched' <=> switched)
    BY <1>8, <1>same DEF ReadBlock
  <2>3. Places(Holds(queue, "init"), Holds(queue, "process"), Holds(queue, "switch"))'
    BY <1>0, <1>8, <2>2 DEF ReadBlock, Places, files, sems, privacy
  <2> QED
    BY <2>1, <2>2, <2>3 DEF IInv
<1>9. CASE ReadFails
  <2>1. GoOn(state', queue) /\ wq \in {"read", "write"}
    BY <1>9 DEF ReadFails
  <2>2. /\ state' \in {state, "ERR"}
        /\ audio_file' \in {"INACTIVE", "ACTIVE", "ERR"}
        /\ meta_file' \in {"INACTIVE", "ACTIVE", "ERR"}
    BY <1>0, <1>9 DEF ReadFails, Rest
  <2>3. UNCHANGED <<channels, mic, timers, bt, init_done, stop_done, sw_pos, debouncing,
                    switch, seen>>
    BY <1>9 DEF ReadFails, sems, privacy
  <2>4. CASE state' = "ACTIVE"
    <3>1. queue' = Append(queue, "process") /\ wq' = "idle" /\ ~process
      BY <1>0, <2>1, <2>4 DEF GoOn, Places
    <3>2. QueueOK' /\ (init' <=> init) /\ process' /\ (switched' <=> switched)
      BY <1>0, <3>1, JoinsQueue
    <3>3. Rest'
      BY <1>0, <2>2, <2>3, <3>1 DEF Rest
    <3>4. Places(Holds(queue, "init"), Holds(queue, "process"), Holds(queue, "switch"))'
      BY <1>0, <2>1, <2>3, <2>4, <3>1, <3>2 DEF Places
    <3> QED
      BY <3>2, <3>3, <3>4 DEF IInv
  <2>5. CASE state' # "ACTIVE"
    <3>1. wq' = "stop" /\ UNCHANGED queue
      BY <2>1, <2>5 DEF GoOn
    <3>2. QueueOK' /\ (init' <=> init) /\ (process' <=> process) /\ (switched' <=> switched)
      BY <3>1, <1>same
    <3>3. Rest'
      BY <1>0, <2>2, <2>3, <3>1 DEF Rest
    <3>4. Places(Holds(queue, "init"), Holds(queue, "process"), Holds(queue, "switch"))'
      BY <1>0, <2>1, <2>2, <2>3, <2>5, <3>1, <3>2 DEF Places
    <3> QED
      BY <3>2, <3>3, <3>4 DEF IInv
  <2> QED
    BY <2>4, <2>5
<1>10. CASE WriteBlock
  <2>1. GoOn(state', queue) /\ wq \in {"read", "write"}
    BY <1>10 DEF WriteBlock
  <2>2. /\ state' \in {state, "ERR"}
        /\ audio_file' \in {"INACTIVE", "ACTIVE", "ERR"}
        /\ meta_file' \in {"INACTIVE", "ACTIVE", "ERR"}
    BY <1>0, <1>10 DEF WriteBlock, Rest
  <2>3. UNCHANGED <<channels, mic, timers, bt, init_done, stop_done, sw_pos, debouncing,
                    switch, seen>>
    BY <1>10 DEF WriteBlock, sems, privacy
  <2>4. CASE state' = "ACTIVE"
    <3>1. queue' = Append(queue, "process") /\ wq' = "idle" /\ ~process
      BY <1>0, <2>1, <2>4 DEF GoOn, Places
    <3>2. QueueOK' /\ (init' <=> init) /\ process' /\ (switched' <=> switched)
      BY <1>0, <3>1, JoinsQueue
    <3>3. Rest'
      BY <1>0, <2>2, <2>3, <3>1 DEF Rest
    <3>4. Places(Holds(queue, "init"), Holds(queue, "process"), Holds(queue, "switch"))'
      BY <1>0, <2>1, <2>3, <2>4, <3>1, <3>2 DEF Places
    <3> QED
      BY <3>2, <3>3, <3>4 DEF IInv
  <2>5. CASE state' # "ACTIVE"
    <3>1. wq' = "stop" /\ UNCHANGED queue
      BY <2>1, <2>5 DEF GoOn
    <3>2. QueueOK' /\ (init' <=> init) /\ (process' <=> process) /\ (switched' <=> switched)
      BY <3>1, <1>same
    <3>3. Rest'
      BY <1>0, <2>2, <2>3, <3>1 DEF Rest
    <3>4. Places(Holds(queue, "init"), Holds(queue, "process"), Holds(queue, "switch"))'
      BY <1>0, <2>1, <2>2, <2>3, <2>5, <3>1, <3>2 DEF Places
    <3> QED
      BY <3>2, <3>3, <3>4 DEF IInv
  <2> QED
    BY <2>4, <2>5
<1>11. CASE DecimationHangs
  <2>1. Rest'
    BY <1>0, <1>11 DEF DecimationHangs, Rest, files, sems, privacy
  <2>2. QueueOK' /\ (init' <=> init) /\ (process' <=> process) /\ (switched' <=> switched)
    BY <1>11, <1>same DEF DecimationHangs
  <2>3. Places(Holds(queue, "init"), Holds(queue, "process"), Holds(queue, "switch"))'
    BY <1>0, <1>11, <2>2 DEF DecimationHangs, Places, files, sems, privacy
  <2> QED
    BY <2>1, <2>2, <2>3 DEF IInv
<1>12. CASE StopTrigger
  <2>1. /\ wq = "stop"
        /\ UNCHANGED <<channels, audio_file, meta_file, queue, timers, bt, init_done,
                       sw_pos, debouncing, switch, seen>>
    BY <1>12 DEF StopTrigger, files, privacy
  <2>2. \/ mic' = FALSE /\ wq' = "metadata" /\ UNCHANGED <<state, stop_done>>
        \/ state' = "ERR" /\ stop_done' = TRUE /\ wq' = "idle" /\ UNCHANGED mic
    BY <1>12 DEF StopTrigger
  <2>3. Rest'
    <3>1. mic' \in BOOLEAN /\ stop_done' \in BOOLEAN
      BY <1>0, <2>2 DEF Rest
    <3> QED
      BY <1>0, <2>1, <2>2, <3>1 DEF Rest
  <2>4. QueueOK' /\ (init' <=> init) /\ (process' <=> process) /\ (switched' <=> switched)
    BY <2>1, <1>same
  <2>5. Places(Holds(queue, "init"), Holds(queue, "process"), Holds(queue, "switch"))'
    BY <1>0, <2>1, <2>2, <2>4 DEF Places
  <2> QED
    BY <2>3, <2>4, <2>5 DEF IInv
<1>13. CASE StopMetadata
  <2>1. Rest'
    BY <1>0, <1>13 DEF StopMetadata, Rest, files, sems, privacy
  <2>2. QueueOK' /\ (init' <=> init) /\ (process' <=> process) /\ (switched' <=> switched)
    BY <1>13, <1>same DEF StopMetadata
  <2>3. Places(Holds(queue, "init"), Holds(queue, "process"), Holds(queue, "switch"))'
    BY <1>0, <1>13, <2>2 DEF StopMetadata, Places, files, sems, privacy
  <2> QED
    BY <2>1, <2>2, <2>3 DEF IInv
<1>14. CASE WriteHeader
  <2>1. Rest'
    BY <1>0, <1>14 DEF WriteHeader, Rest, files, sems, privacy
  <2>2. QueueOK' /\ (init' <=> init) /\ (process' <=> process) /\ (switched' <=> switched)
    BY <1>14, <1>same DEF WriteHeader
  <2>3. Places(Holds(queue, "init"), Holds(queue, "process"), Holds(queue, "switch"))'
    BY <1>0, <1>14, <2>2 DEF WriteHeader, Places, files, sems, privacy
  <2> QED
    BY <2>1, <2>2, <2>3 DEF IInv
<1>15. CASE CloseAudio
  <2>1. Rest'
    BY <1>0, <1>15 DEF CloseAudio, Rest, files, sems, privacy
  <2>2. QueueOK' /\ (init' <=> init) /\ (process' <=> process) /\ (switched' <=> switched)
    BY <1>15, <1>same DEF CloseAudio
  <2>3. Places(Holds(queue, "init"), Holds(queue, "process"), Holds(queue, "switch"))'
    BY <1>0, <1>15, <2>2 DEF CloseAudio, Places, files, sems, privacy
  <2> QED
    BY <2>1, <2>2, <2>3 DEF IInv
<1>16. CASE CloseMeta
  <2>1. Rest'
    BY <1>0, <1>16 DEF CloseMeta, Rest, files, sems, privacy
  <2>2. QueueOK' /\ (init' <=> init) /\ (process' <=> process) /\ (switched' <=> switched)
    BY <1>16, <1>same DEF CloseMeta
  <2>3. Places(Holds(queue, "init"), Holds(queue, "process"), Holds(queue, "switch"))'
    <3>1. /\ wq = "close_meta" /\ wq' = "idle" /\ meta_file' \in {"INACTIVE", "ERR"}
          /\ state' = IF "ERR" \in {audio_file, meta_file'} THEN "ERR" ELSE state
          /\ UNCHANGED <<mic, audio_file, timers, bt, init_done, debouncing>>
      BY <1>16 DEF CloseMeta, files, privacy
    <3>2. audio_file \in {"INACTIVE", "ERR"} /\ ~mic /\ ~process /\ state # "ACTIVE"
      BY <1>0, <3>1 DEF Rest, Places
    <3> QED
      BY <1>0, <2>2, <3>1, <3>2 DEF Places
  <2> QED
    BY <2>1, <2>2, <2>3 DEF IInv
<1>17. CASE SwitchWork
  <2>1. /\ QueueOK' /\ Holds(queue, "switch") /\ wq = "idle"
        /\ \A x: Holds(queue', x) <=> Holds(queue, x) /\ x # "switch"
    BY <1>0, <1>17, LeavesQueue DEF SwitchWork
  <2>2. (init' <=> init) /\ (process' <=> process) /\ ~switched'
    BY <2>1
  <2>3. /\ seen' = switch
        /\ UNCHANGED <<channels, mic, audio_file, meta_file, timers, bt, init_done,
                       stop_done, switch>>
    BY <1>17 DEF SwitchWork, files, sems
  <2>4. CASE state = "ACTIVE"
    <3>1. state' = "STOP" /\ wq' = "switch_wait" /\ UNCHANGED <<sw_pos, debouncing>>
      BY <1>17, <2>4 DEF SwitchWork
    <3>2. Rest'
      BY <1>0, <2>3, <3>1 DEF Rest
    <3>3. Places(Holds(queue, "init"), Holds(queue, "process"), Holds(queue, "switch"))'
      BY <1>0, <2>1, <2>2, <2>3, <2>4, <3>1 DEF Places
    <3> QED
      BY <2>1, <3>2, <3>3 DEF IInv
  <2>5. CASE state # "ACTIVE"
    <3>1. SetPosition(switch) /\ UNCHANGED <<state, wq>>
      BY <1>17, <2>5 DEF SwitchWork
    <3>2. sw_pos' \in Positions /\ debouncing' = FALSE
      BY <1>0, <3>1 DEF SetPosition, Rest
    <3>3. Rest'
      <4>1. debouncing' \in BOOLEAN
        BY <3>2
      <4> QED
        BY <1>0, <2>3, <3>1, <3>2, <4>1 DEF Rest
    <3>4. Places(Holds(queue, "init"), Holds(queue, "process"), Holds(queue, "switch"))'
      BY <1>0, <2>1, <2>2, <2>3, <2>5, <3>1, <3>2 DEF Places
    <3> QED
      BY <2>1, <3>3, <3>4 DEF IInv
  <2> QED
    BY <2>4, <2>5
<1>18. CASE SwitchWaitEnds
  <2>0. /\ wq = "switch_wait" /\ wq' = "idle" /\ sw_pos' \in Positions /\ debouncing' = FALSE
        /\ UNCHANGED <<channels, mic, audio_file, meta_file, bt, init_done, seen, switch>>
    BY <1>0, <1>18 DEF SwitchWaitEnds, SetPosition, Rest, files
  <2>1. CASE stop_done
    <3>1. UNCHANGED <<queue, timers, state>> /\ stop_done' = FALSE
      BY <1>18, <2>1 DEF SwitchWaitEnds
    <3>2. QueueOK' /\ (init' <=> init) /\ (process' <=> process) /\ (switched' <=> switched)
      BY <3>1, <1>same
    <3>3. Rest'
      <4>1. /\ timers' \subseteq {"process", "switch"}
            /\ state' \in {"DISABLED", "STOP", "ACTIVE", "ERR"}
        BY <1>0, <3>1 DEF Rest
      <4>2. stop_done' \in BOOLEAN /\ debouncing' \in BOOLEAN
        BY <2>0, <3>1
      <4> QED
        BY <1>0, <2>0, <4>1, <4>2 DEF Rest
    <3>4. Places(Holds(queue, "init"), Holds(queue, "process"), Holds(queue, "switch"))'
      BY <1>0, <2>0, <3>1, <3>2 DEF Places
    <3> QED
      BY <3>2, <3>3, <3>4 DEF IInv
  <2>2. CASE ~stop_done
    <3>1. QueueOK' /\ (init' <=> init) /\ ~process' /\ (switched' <=> switched)
      BY <1>0, <1>18, <2>2, CancelledInQueue DEF SwitchWaitEnds
    <3>2. timers' = timers \ {"process"} /\ state' = "ERR" /\ UNCHANGED stop_done
      BY <1>18, <2>2 DEF SwitchWaitEnds
    <3>3. "process" \notin timers' /\ ("switch" \in timers' <=> "switch" \in timers)
      BY <3>2
    <3>4. Rest'
      <4>1. /\ timers' \subseteq {"process", "switch"}
            /\ state' \in {"DISABLED", "STOP", "ACTIVE", "ERR"}
        BY <1>0, <3>2 DEF Rest
      <4>2. stop_done' \in BOOLEAN /\ debouncing' \in BOOLEAN
        BY <1>0, <2>0, <3>2 DEF Rest
      <4> QED
        BY <1>0, <2>0, <4>1, <4>2 DEF Rest
    <3>5. Places(Holds(queue, "init"), Holds(queue, "process"), Holds(queue, "switch"))'
      BY <1>0, <2>0, <3>1, <3>2, <3>3 DEF Places
    <3> QED
      BY <3>1, <3>4, <3>5 DEF IInv
  <2> QED
    BY <2>1, <2>2
<1>19. ASSUME NEW p \in Positions \cup {"BETWEEN"}, MoveSwitch(p) PROVE IInv'
  <2>1. UNCHANGED <<state, mic, audio_file, meta_file, queue, wq, bt, init_done>>
    BY <1>19 DEF MoveSwitch, files, sems
  <2>2. \/ UNCHANGED <<timers, debouncing>>
        \/ ~debouncing /\ debouncing' = TRUE /\ timers' = timers \cup {"switch"}
    BY <1>19 DEF MoveSwitch, EdgeCounts
  <2>3. Rest'
    <3>1. UNCHANGED <<channels, seen, stop_done, sw_pos>> /\ switch' = p
      BY <1>19 DEF MoveSwitch, files, sems
    <3>2. timers' \subseteq {"process", "switch"} /\ debouncing' \in BOOLEAN
      BY <1>0, <2>2 DEF Rest
    <3> QED
      BY <1>0, <1>19, <2>1, <3>1, <3>2 DEF Rest
  <2>4. QueueOK' /\ (init' <=> init) /\ (process' <=> process) /\ (switched' <=> switched)
    BY <2>1, <1>same
  <2>5. Places(Holds(queue, "init"), Holds(queue, "process"), Holds(queue, "switch"))'
    BY <1>0, <2>1, <2>2, <2>4 DEF Places
  <2> QED
    BY <2>3, <2>4, <2>5 DEF IInv
<1>20. ASSUME NEW item \in {"process", "switch"}, Expire(item) PROVE IInv'
  <2>1. queue' = Append(queue, item) /\ item \in timers /\ ~Holds(queue, item)
    BY <1>0, <1>20 DEF Expire, Places
  <2>2. QueueOK' /\ \A x: Holds(queue', x) <=> Holds(queue, x) \/ x = item
    BY <1>0, <1>20, <2>1, JoinsQueue
  <2>3. /\ Holds(queue', "init") <=> Holds(queue, "init")
        /\ Holds(queue', "process") <=> Holds(queue, "process") \/ item = "process"
        /\ Holds(queue', "switch") <=> Holds(queue, "switch") \/ item = "switch"
    BY <1>20, <2>2
  <2>4. /\ timers' = timers \ {item}
        /\ UNCHANGED <<state, channels, mic, audio_file, meta_file, wq, bt, init_done,
                       stop_done, sw_pos, debouncing, switch, seen>>
    BY <1>20 DEF Expire, files, sems, privacy
  <2>5. Rest'
    BY <1>0, <2>4 DEF Rest
  <2>6. CASE item = "process"
    <3>1. "process" \in timers /\ "process" \notin timers'
          /\ ("switch" \in timers' <=> "switch" \in timers)
      BY <2>1, <2>4, <2>6
    <3> QED
      BY <1>0, <2>2, <2>3, <2>4, <2>5, <2>6, <3>1 DEF IInv, Places
  <2>7. CASE item = "switch"
    <3>1. "switch" \in timers /\ "switch" \notin timers'
          /\ ("process" \in timers' <=> "process" \in timers)
      BY <2>1, <2>4, <2>7
    <3> QED
      BY <1>0, <2>2, <2>3, <2>4, <2>5, <2>7, <3>1 DEF IInv, Places
  <2> QED
    BY <1>20, <2>6, <2>7
<1>21. CASE UNCHANGED vars
  <2>1. QueueOK' /\ (init' <=> init) /\ (process' <=> process) /\ (switched' <=> switched)
    BY <1>21, <1>same DEF vars
  <2>2. Rest'
    BY <1>0, <1>21 DEF vars, Rest
  <2>3. Places(Holds(queue, "init"), Holds(queue, "process"), Holds(queue, "switch"))'
    BY <1>0, <1>21, <2>1 DEF vars, Places
  <2> QED
    BY <2>1, <2>2, <2>3 DEF IInv
<1> QED
  BY <1>1, <1>2, <1>3, <1>4, <1>5, <1>6, <1>7, <1>8, <1>9, <1>10,
     <1>11, <1>12, <1>13, <1>14, <1>15, <1>16, <1>17, <1>18, <1>19, <1>20, <1>21
     DEF Next, Waits, WorkQueue

\* Both invariants.
THEOREM InvCorrect == Spec => [](TypeOK /\ AudioInv)
<1>1. IInv /\ [Next]_vars => IInv'
  BY InvStep
<1>2. IInv => TypeOK /\ AudioInv
  BY InvForms
<1> QED
  BY <1>1, <1>2, InvInit, PTL DEF Spec

\* Every variable keeps its type; the kernel's queue never gets an item it holds, which
\* would make a loop of its list.
THEOREM TypeCorrect == Spec => []TypeOK
BY InvCorrect, PTL

\* A microphone that samples with nobody to read it is reported as an error, or as
\* disabled where a start refused for the switch wrote over the error, whichever of the
\* timeouts, cancellations and failures made it so.  It says nothing of a badge that hangs
\* in the endless decimation of audio.c:271.
THEOREM UnattendedCorrect == Spec => []UnattendedMicReported
<1>1. AudioInv => UnattendedMicReported
  BY DEF AudioInv
<1> QED
  BY <1>1, InvCorrect, PTL

\* A state of STOP with no work left means a silent microphone and closed files, unless
\* the badge hangs in the endless decimation of audio.c:271.
THEOREM StopCorrect == Spec => []StopMeansFinished
<1>1. AudioInv => StopMeansFinished
  BY DEF AudioInv
<1> QED
  BY <1>1, InvCorrect, PTL

\* A start clears the work context only when the kernel does not hold its item: it gets
\* there with the microphone off, and whoever waits to read it keeps it on.
THEOREM ContextCorrect == Spec => ContextFreeWhenReset
<1>1. TypeOK /\ AudioInv /\ [Next]_vars =>
        [StartMic /\ bt' = "start_wait" => "process" \notin timers /\ ~Queued("process")]_vars
  <2>1. ASSUME TypeOK, AudioInv, StartMic, bt' = "start_wait"
        PROVE  "process" \notin timers /\ ~Queued("process")
    <3>1. ~mic
      BY <2>1 DEF StartMic, MicFree
    <3>2. Pending => mic
      BY <2>1 DEF AudioInv
    <3> QED
      BY <3>1, <3>2 DEF Pending
  <2> QED
    BY <2>1
<1> QED
  BY <1>1, InvCorrect, PTL DEF Spec, ContextFreeWhenReset
=============================================================================
