----------------------------- MODULE Imu_proofs -----------------------------
(***************************************************************************)
(* A theorem about Imu for any set of drivers and channels and any size of *)
(* the buffers.                                                            *)
(***************************************************************************)
EXTENDS Imu, SequenceTheorems, TLAPS

\* The types the proof needs: the buffers' blocks and the files are sequences.
Types ==
  /\ buffer \in [Channels -> [0..1 -> [1..Size -> Nat]]]
  /\ index \in [Channels -> 0..1] /\ wr_index \in 0..1
  /\ total \in [Channels -> Nat] /\ file \in [Channels -> Seq(Nat)]
  /\ opened \in [Channels -> BOOLEAN]

\* No file can be written while the sensor is stopped; what waits in the queue for a file
\* finds it closed.
StopInv == Types /\ (state = "STOP" => \A c \in Channels: ~opened[c])

\* A part of a block is a sequence of that many samples, which a file can be extended by.
LEMMA BlockPart ==
  ASSUME NEW f \in Seq(Nat), NEW b \in [1..Size -> Nat], NEW n \in 0..Size
  PROVE  /\ f \o SubSeq(b, 1, n) \in Seq(Nat)
         /\ Len(f \o SubSeq(b, 1, n)) = Len(f) + n
<1>1. n \in Int /\ 1 \in Int /\ \A k \in 1..n: b[k] \in Nat
  BY SizeAssumption
<1>2. /\ SubSeq(b, 1, n) \in Seq(Nat)
      /\ Len(SubSeq(b, 1, n)) = IF 1 <= n THEN n - 1 + 1 ELSE 0
  BY <1>1, SubSeqProperties
<1>3. SubSeq(b, 1, n) \in Seq(Nat) /\ Len(SubSeq(b, 1, n)) = n
  BY <1>2, SizeAssumption
<1> QED
  BY <1>3, ConcatProperties

\* What a write may store: nothing, when the file is closed.
LEMMA ClosedTakesNothing ==
  ASSUME NEW c \in Channels, NEW o \in WriteOutcomes(c)
  PROVE  /\ o.n \in 0..Size
         /\ ~opened[c] => o.n = 0
BY SizeAssumption DEF WriteOutcomes

\* A sample goes into the buffers and changes none of the types.
LEMMA StoreKeepsTypes ==
  ASSUME Types, NEW cs \in SUBSET Channels, Store(cs)
  PROVE  /\ buffer' \in [Channels -> [0..1 -> [1..Size -> Nat]]]
         /\ total' \in [Channels -> Nat]
<1>1. total' \in [Channels -> Nat]
  BY DEF Types, Store
<1>2. ASSUME NEW c \in Channels
      PROVE  [buffer[c] EXCEPT ![index[c]][current[c] + 1] = total[c] + 1]
               \in [0..1 -> [1..Size -> Nat]]
  <2> DEFINE b == buffer[c]
             v == total[c] + 1
             k == current[c] + 1
             i == index[c]
  <2>1. b \in [0..1 -> [1..Size -> Nat]] /\ v \in Nat /\ i \in 0..1
    BY DEF Types
  <2> HIDE DEF b, v, k, i
  <2>2. [b[i] EXCEPT ![k] = v] \in [1..Size -> Nat]
    BY <2>1
  <2>3. [b EXCEPT ![i] = [b[i] EXCEPT ![k] = v]] \in [0..1 -> [1..Size -> Nat]]
    BY <2>1, <2>2
  <2> QED
    BY <2>3 DEF b, v, k, i
<1> QED
  BY <1>1, <1>2 DEF Types, Store

\* A write, of the writer's or the closed driver's: no file grows when it is closed.
LEMMA WriteKeepsTypes ==
  ASSUME Types, NEW c \in Channels, NEW b \in [1..Size -> Nat], NEW o \in WriteOutcomes(c)
  PROVE  /\ file[c] \o SubSeq(b, 1, o.n) \in Seq(Nat)
         /\ ~opened[c] => Len(file[c] \o SubSeq(b, 1, o.n)) <= Len(file[c])
<1>1. o.n \in 0..Size /\ (~opened[c] => o.n = 0)
  BY ClosedTakesNothing
<1>2. file[c] \in Seq(Nat) /\ Len(file[c]) \in Nat
  BY DEF Types
<1>3. /\ file[c] \o SubSeq(b, 1, o.n) \in Seq(Nat)
      /\ Len(file[c] \o SubSeq(b, 1, o.n)) = Len(file[c]) + o.n
  BY <1>1, <1>2, BlockPart
<1> QED
  BY <1>1, <1>2, <1>3

\* The driver's stop opens no file.
LEMMA StopDriverCloses ==
  ASSUME Types, NEW st, NEW ok \in BOOLEAN, StopDriver(st, ok)
  PROVE  /\ opened' \in [Channels -> BOOLEAN]
         /\ \A c \in Channels: opened'[c] => opened[c]
         /\ ok => \A c \in Channels: ~opened'[c]
BY DEF Types, StopDriver

\* Each step keeps StopInv, and while the sensor is stopped no file gets longer.
LEMMA Step ==
  ASSUME StopInv, [Next]_vars
  PROVE  StopInv' /\ (state = "STOP" => \A c \in Channels: Len(file'[c]) <= Len(file[c]))
<1> USE DEF sensor, writer, position, table
<1>0. \A c \in Channels: Len(file[c]) \in Nat
  BY DEF StopInv, Types
<1>1. CASE \/ Interrupt \/ NoMoreData \/ FetchFails \/ Commands \/ ConfigRefused
          \/ UNCHANGED vars \/ \E c \in Channels: SyncFails(c)
  <2>1. UNCHANGED <<state, buffer, index, wr_index, total, file, opened>>
    BY <1>1 DEF Interrupt, NoMoreData, FetchFails, Commands, Command, ConfigRefused,
                SyncFails, vars
  <2> QED
    BY <1>0, <2>1 DEF StopInv, Types
<1>2. CASE StoreSample \/ SubmitBlock \/ DropBlock
  <2>1. Store(Channels) /\ UNCHANGED <<state, file, opened>>
    BY <1>2 DEF StoreSample, SubmitBlock, DropBlock
  <2>2. index' \in [Channels -> 0..1] /\ wr_index' \in 0..1
    <3>1. CASE SubmitBlock
      <4>1. /\ index' = [c \in Channels |-> 1 - index[c]]
            /\ \E c \in Channels: wr_index' = index[c]
        BY <3>1 DEF SubmitBlock, Flip
      <4>2. \A c \in Channels: index[c] \in 0..1 /\ 1 - index[c] \in 0..1
        BY DEF StopInv, Types
      <4> QED
        BY <4>1, <4>2
    <3>2. CASE StoreSample \/ DropBlock
      BY <3>2 DEF StopInv, Types, StoreSample, DropBlock
    <3> QED
      BY <1>2, <3>1, <3>2
  <2>3. Types'
    BY <2>1, <2>2, StoreKeepsTypes DEF StopInv, Types
  <2> QED
    BY <1>0, <2>1, <2>3 DEF StopInv
<1>3. ASSUME NEW c \in Channels, PrintSensorData(c)
      PROVE  StopInv' /\ (state = "STOP" => \A d \in Channels: Len(file'[d]) <= Len(file[d]))
  <2>1. /\ buffer' \in [Channels -> [0..1 -> [1..Size -> Nat]]]
        /\ total' \in [Channels -> Nat]
    BY <1>3, StoreKeepsTypes DEF PrintSensorData, StopInv
  <2>2. UNCHANGED <<state, wr_index, opened>>
    BY <1>3 DEF PrintSensorData
  <2>3. index' \in [Channels -> 0..1]
    <3>1. index' = index \/ index' = [index EXCEPT ![c] = 1 - @]
      BY <1>3 DEF PrintSensorData, Flip
    <3>2. index \in [Channels -> 0..1]
      BY DEF StopInv, Types
    <3>3. 1 - index[c] \in 0..1
      <4>1. index[c] \in 0..1
        BY <1>3, <3>2
      <4> QED
        BY <4>1
    <3> QED
      BY <1>3, <3>1, <3>2, <3>3
  <2>4. CASE UNCHANGED file
    BY <1>0, <2>1, <2>2, <2>3, <2>4 DEF StopInv, Types
  <2>5. CASE file' # file
    <3>1. PICK o \in WriteOutcomes(c):
            file' = [file EXCEPT ![c] = @ \o SubSeq(buffer'[c][index[c]], 1, o.n)]
      BY <1>3, <2>5 DEF PrintSensorData
    <3>2. buffer'[c][index[c]] \in [1..Size -> Nat]
      <4>1. index[c] \in 0..1 /\ buffer'[c] \in [0..1 -> [1..Size -> Nat]]
        BY <1>3, <2>1 DEF StopInv, Types
      <4> QED
        BY <4>1
    <3> DEFINE longer == file[c] \o SubSeq(buffer'[c][index[c]], 1, o.n)
    <3>3. longer \in Seq(Nat) /\ (~opened[c] => Len(longer) <= Len(file[c]))
      BY <1>3, <3>1, <3>2, WriteKeepsTypes DEF StopInv
    <3>4. file' = [file EXCEPT ![c] = longer]
      BY <3>1
    <3> HIDE DEF longer
    <3> QED
      BY <1>0, <2>1, <2>2, <2>3, <3>3, <3>4 DEF StopInv, Types
  <2> QED
    BY <2>4, <2>5
<1>4. CASE WriteBlock
  <2>1. PICK o \in [Channels -> [n: 0..Size, failed: BOOLEAN]]:
          /\ \A c \in Channels: o[c] \in WriteOutcomes(c)
          /\ file' = [c \in Channels |-> file[c] \o SubSeq(buffer[c][wr_index], 1, o[c].n)]
          /\ LET st == [c \in Channels |-> StatusAfterWrite(c, o[c])]
             IN  IF WriteFailed(o)
                 THEN \E ok \in BOOLEAN: StopDriver(st, ok)
                 ELSE status' = st /\ UNCHANGED <<opened, armed>>
    BY <1>4 DEF WriteBlock
  <2>2. UNCHANGED <<state, buffer, index, wr_index, total>>
    BY <1>4 DEF WriteBlock
  <2>3. opened' \in [Channels -> BOOLEAN] /\ \A c \in Channels: opened'[c] => opened[c]
    BY <2>1, StopDriverCloses DEF StopInv, Types
  <2>4. ASSUME NEW c \in Channels
        PROVE  file'[c] \in Seq(Nat) /\ (~opened[c] => Len(file'[c]) <= Len(file[c]))
    <3>1. buffer[c][wr_index] \in [1..Size -> Nat]
      BY DEF StopInv, Types
    <3> QED
      BY <2>1, <3>1, WriteKeepsTypes DEF StopInv
  <2>5. file' \in [Channels -> Seq(Nat)]
    BY <2>1, <2>4
  <2> QED
    BY <2>2, <2>3, <2>4, <2>5 DEF StopInv, Types
<1>5. CASE StartRefused
  <2>1. UNCHANGED <<buffer, wr_index, total>> /\ state' = "ERR"
    BY <1>5 DEF StartRefused
  <2>2. opened' \in [Channels -> BOOLEAN]
    BY <1>5 DEF StartRefused, StopInv, Types
  <2>3. PICK o \in [Channels -> {"refused", "cleared", "failed", "ok"}]:
          file' = [c \in Channels |-> IF o[c] = "ok" THEN <<>> ELSE file[c]]
    BY <1>5 DEF StartRefused
  <2>4. \A c \in Channels: file'[c] \in Seq(Nat) /\ Len(file'[c]) <= Len(file[c])
    BY <1>0, <2>3 DEF StopInv, Types
  <2>5. index' \in [Channels -> 0..1]
    BY <1>5 DEF StartRefused, ResetPosition, StopInv, Types
  <2> QED
    BY <2>1, <2>2, <2>3, <2>4, <2>5 DEF StopInv, Types
<1>6. CASE StartOpened
  <2>1. UNCHANGED <<buffer, wr_index, total>> /\ state' # "STOP"
    BY <1>6 DEF StartOpened
  <2>2. opened' \in [Channels -> BOOLEAN] /\ file' = [c \in Channels |-> <<>>]
    BY <1>6 DEF StartOpened
  <2>3. index' \in [Channels -> 0..1]
    BY <1>6 DEF StartOpened, ResetPosition, StopInv, Types
  <2> QED
    BY <1>0, <2>1, <2>2, <2>3 DEF StopInv, Types
<1>7. CASE Stop
  <2>1. UNCHANGED <<buffer, index, wr_index, total, file>>
    BY <1>7 DEF Stop
  <2>2. PICK ok \in BOOLEAN: StopDriver(status, ok) /\ state' = IF ok THEN "STOP" ELSE "ERR"
    BY <1>7 DEF Stop
  <2>3. /\ opened' \in [Channels -> BOOLEAN]
        /\ state' = "STOP" => \A c \in Channels: ~opened'[c]
    BY <2>2, StopDriverCloses DEF StopInv
  <2> QED
    BY <1>0, <2>1, <2>3 DEF StopInv, Types
<1> QED
  BY <1>1, <1>2, <1>3, <1>4, <1>5, <1>6, <1>7 DEF Next, DataReady, Start

\* StopInv is an invariant.
THEOREM InvCorrect == Spec => []StopInv
<1>1. Init => StopInv
  BY SizeAssumption DEF Init, StopInv, Types
<1>2. StopInv /\ [Next]_vars => StopInv'
  BY Step
<1> QED
  BY <1>1, <1>2, PTL DEF Spec

\* Once a stop has succeeded no file grows before the next start, whatever interrupts and
\* full buffers still wait in the work queue and whichever driver it is.
THEOREM StoppedCorrect == Spec => StoppedWritesNothing
<1>1. StopInv /\ [Next]_vars
        => [state = "STOP" => \A c \in Channels: Len(file'[c]) <= Len(file[c])]_vars
  BY Step
<1> QED
  BY <1>1, InvCorrect, PTL DEF Spec, StoppedWritesNothing
=============================================================================
