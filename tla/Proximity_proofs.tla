-------------------------- MODULE Proximity_proofs --------------------------
(***************************************************************************)
(* Theorems about Proximity for buffers of every number and size.          *)
(***************************************************************************)
EXTENDS Proximity, SequenceTheorems, TLAPS

\* The four properties, and why the first two last: while a block waits to be written no
\* sample is accepted, for the thread that accepts them waits for the write.
ProximityInv ==
  /\ CompleteUnlessError /\ OwnSamplesInOrder
  /\ IdleLeavesNoActiveFile /\ ScanIsReported
  /\ pc = "write" => scanning /\ sample_cnt = 0

Sample == Nat \cup {Empty}

\* A block is a sequence of its samples.
LEMMA BlockIsSeq ==
  ASSUME TypeOK, NEW b \in 0..Buffers - 1, NEW n \in 0..Size
  PROVE  /\ Block(b, n) \in Seq(Sample)
         /\ Len(Block(b, n)) = n
         /\ \A i \in 1..n: Block(b, n)[i] = buffered_samples[b][i - 1]
<1> USE BuffersAssumption
<1>1. \A i \in 1..n: buffered_samples[b][i - 1] \in Sample
  BY DEF TypeOK, Sample
<1>2. Block(b, n) \in [1..n -> Sample]
  BY <1>1 DEF Block
<1>3. Block(b, n) \in Seq(Sample)
  BY <1>2, SeqDef
<1> QED
  BY <1>2, <1>3, LenProperties DEF Block

\* A write stores no more than it was given.
LEMMA OutcomeBounds ==
  ASSUME NEW size \in Nat, NEW o \in WriteOutcomes(size)
 PROVE  o.n \in 0..size
<1>1. CASE size = 0
  BY <1>1 DEF WriteOutcomes
<1>2. CASE size # 0 /\ opened
  BY <1>2 DEF WriteOutcomes
<1>3. CASE size # 0 /\ ~opened
  BY <1>3 DEF WriteOutcomes
<1> QED
  BY <1>1, <1>2, <1>3

LEMMA TypeInductive == TypeOK /\ [Next]_vars => TypeOK'
<1> SUFFICES ASSUME TypeOK, [Next]_vars PROVE TypeOK'
  OBVIOUS
<1> USE BuffersAssumption DEF TypeOK
<1> USE DEF sensor_data, storage, history
<1>1. CASE HearOther
  BY <1>1 DEF HearOther
<1>2. CASE HearBadge
  BY <1>2 DEF HearBadge, Wrap
<1>3. CASE \E item \in {"start", "stop"}: Command(item)
  BY <1>3 DEF Command
<1>4. CASE WriteSamples
  <2>1. PICK o \in WriteOutcomes(Size): file' = file \o Block(ctx, o.n)
    BY <1>4 DEF WriteSamples
  <2>2. o.n \in 0..Size
    BY <2>1, OutcomeBounds
  <2>3. file' \in Seq(Sample)
    BY <2>1, <2>2, BlockIsSeq, ConcatProperties DEF Sample
  <2> QED
    BY <1>4, <2>3 DEF WriteSamples, Sample
<1>5. CASE StartRefused
  BY <1>5 DEF StartRefused
<1>6. CASE StartScanFails
  BY <1>6, EmptySeq DEF StartScanFails
<1>7. CASE StartSucceeds
  <2>1. file' \in Seq(Sample)
    BY <1>7, EmptySeq DEF StartSucceeds, NewFile
  <2>2. sample_cnt' \in 0..Size - 1
    BY <1>7 DEF StartSucceeds
  <2>3. /\ buffer_index' \in 0..Buffers - 1 /\ ctx' \in 0..Buffers - 1
        /\ buffered_samples' \in [0..Buffers - 1 -> [0..Size - 1 -> Sample]]
        /\ total' \in Nat /\ base' \in 0..total'
    BY <1>7 DEF StartSucceeds, Sample
  <2>4. /\ state' = "ACTIVE" /\ status' = "ACTIVE" /\ pc' = "ready"
        /\ scanning' = TRUE /\ opened' = TRUE /\ error' = FALSE
    BY <1>7 DEF StartSucceeds, NewFile
  <2> QED
    BY <2>1, <2>2, <2>3, <2>4 DEF Sample
<1>8. CASE StopScanFails
  BY <1>8 DEF StopScanFails
<1>9. CASE StopScan
  <2>1. PICK o \in WriteOutcomes(sample_cnt): file' = file \o Block(buffer_index, o.n)
    BY <1>9 DEF StopScan
  <2>2. o.n \in 0..Size
    BY <2>1, OutcomeBounds
  <2>3. file' \in Seq(Sample)
    BY <2>1, <2>2, BlockIsSeq, ConcatProperties DEF Sample
  <2> QED
    BY <1>9, <2>3 DEF StopScan, Sample
<1>10. CASE SyncFails
  BY <1>10 DEF SyncFails
<1>11. CASE UNCHANGED vars
  BY <1>11 DEF vars
<1> QED
  BY <1>1, <1>2, <1>3, <1>4, <1>5, <1>6, <1>7, <1>8, <1>9, <1>10, <1>11
     DEF Next, Callback, Commands, Start, Stop

\* Types: among them, that sample_cnt and buffer_index never leave the buffers.
THEOREM TypeCorrect == Spec => []TypeOK
<1>1. Init => TypeOK
  BY BuffersAssumption, EmptySeq DEF Init, TypeOK
<1> QED
  BY <1>1, TypeInductive, PTL DEF Spec
-----------------------------------------------------------------------------
\* Recorded, element by element.
RecordedFacts ==
  /\ Waiting \in Seq(Sample)
  /\ Recorded \in Seq(Sample)
  /\ Len(Recorded) = Len(file) + Len(Waiting)
  /\ \A i \in 1..Len(Recorded):
       Recorded[i] = IF i <= Len(file) THEN file[i] ELSE Waiting[i - Len(file)]

LEMMA RecordedIsSeq == TypeOK => RecordedFacts
<1> SUFFICES ASSUME TypeOK PROVE RecordedFacts
  OBVIOUS
<1>1. Waiting \in Seq(Sample)
  <2>1. Size \in 0..Size /\ sample_cnt \in 0..Size
    BY BuffersAssumption DEF TypeOK
  <2>2. Block(ctx, Size) \in Seq(Sample) /\ Block(buffer_index, sample_cnt) \in Seq(Sample)
    BY <2>1, BlockIsSeq DEF TypeOK
  <2> QED
    BY <2>2, EmptySeq DEF Waiting
<1>2. file \in Seq(Sample)
  BY DEF TypeOK, Sample
<1> QED
  BY <1>1, <1>2, ConcatProperties, LenProperties DEF Recorded, RecordedFacts

LEMMA RecordedIsSeqNext == TypeOK' => RecordedFacts'
  BY RecordedIsSeq, PTL

\* A sequence is the run of numbers from b + 1 to t if its elements are.
LEMMA RunOfSamples ==
  ASSUME NEW s \in Seq(Sample), NEW t \in Nat, NEW b \in 0..t
  PROVE  s = [i \in 1..t - b |-> b + i] <=>
           Len(s) = t - b /\ \A i \in 1..Len(s): s[i] = b + i
<1> DEFINE run == [i \in 1..t - b |-> b + i]
<1>1. t - b \in Nat /\ \A i \in 1..t - b: b + i \in Sample
  BY DEF Sample
<1>2. run \in [1..t - b -> Sample]
  BY <1>1
<1>3. run \in Seq(Sample)
  BY <1>1, <1>2, SeqDef
<1>4. Len(run) = t - b
  BY <1>1, <1>2, <1>3, LenProperties
<1>5. ASSUME Len(s) = t - b, \A i \in 1..Len(s): s[i] = b + i PROVE s = run
  <2>1. \A i \in 1..Len(s): s[i] = run[i]
    BY <1>5
  <2> HIDE DEF run
  <2> QED
    BY <1>3, <1>4, <1>5, <2>1, SeqEqual
<1>6. ASSUME s = run PROVE Len(s) = t - b /\ \A i \in 1..Len(s): s[i] = b + i
  BY <1>4, <1>6
<1> QED
  BY <1>5, <1>6

\* A step that writes some of what waits and gives up the rest keeps both properties,
\* if it notes that something was given up.
LEMMA PrefixStep ==
  ASSUME TypeOK, TypeOK', CompleteUnlessError, OwnSamplesInOrder,
         NEW n \in 0..Len(Waiting),
         Len(Recorded') = Len(file) + n,
         \A i \in 1..Len(file) + n: Recorded'[i] = Recorded[i],
         UNCHANGED <<base, total>>,
         ~error' => ~error /\ n = Len(Waiting)
  PROVE  CompleteUnlessError' /\ OwnSamplesInOrder'
<1>1. Len(Recorded) = Len(file) + Len(Waiting) /\ Recorded \in Seq(Sample)
  BY RecordedIsSeq DEF RecordedFacts
<1>2. Recorded' \in Seq(Sample)
  BY RecordedIsSeqNext DEF RecordedFacts
<1>3. Len(file) \in Nat /\ Len(Waiting) \in Nat
  BY RecordedIsSeq, LenProperties DEF TypeOK, RecordedFacts
<1>4. CompleteUnlessError'
  <2> SUFFICES ASSUME ~error' PROVE Recorded' = [i \in 1..total - base |-> base + i]
    BY DEF CompleteUnlessError
  <2>1. Len(Recorded) = total - base /\ \A i \in 1..Len(Recorded): Recorded[i] = base + i
    BY <1>1, RunOfSamples DEF CompleteUnlessError, TypeOK
  <2>2. Len(Recorded') = total - base /\ \A i \in 1..Len(Recorded'): Recorded'[i] = base + i
    BY <1>1, <2>1
  <2> QED
    BY <1>2, <2>2, RunOfSamples DEF TypeOK
<1>5. OwnSamplesInOrder'
  BY <1>1, <1>3 DEF OwnSamplesInOrder
<1> QED
  BY <1>4, <1>5

\* A step after which the file and what waits are as before keeps them.
LEMMA SameStep ==
  ASSUME CompleteUnlessError, OwnSamplesInOrder, Recorded' = Recorded,
         UNCHANGED <<base, total>>, ~error' => ~error
  PROVE  CompleteUnlessError' /\ OwnSamplesInOrder'
BY DEF CompleteUnlessError, OwnSamplesInOrder

\* The step that accepts a sample.
LEMMA AcceptStep ==
  ASSUME TypeOK, TypeOK', CompleteUnlessError, OwnSamplesInOrder,
         Len(Recorded') = Len(Recorded) + 1,
         \A i \in 1..Len(Recorded): Recorded'[i] = Recorded[i],
         Recorded'[Len(Recorded) + 1] = total + 1,
         total' = total + 1, base' = base, error' = error
  PROVE  CompleteUnlessError' /\ OwnSamplesInOrder'
<1>1. Recorded \in Seq(Sample) /\ Recorded' \in Seq(Sample) /\ Len(Recorded) \in Nat
  BY RecordedIsSeq, RecordedIsSeqNext, LenProperties DEF RecordedFacts
<1>2. total \in Nat /\ base \in 0..total /\ total + 1 \in Nat /\ base \in 0..total + 1
  BY DEF TypeOK
<1>3. CompleteUnlessError'
  <2> SUFFICES ASSUME ~error PROVE Recorded' = [i \in 1..(total + 1) - base |-> base + i]
    BY DEF CompleteUnlessError
  <2>1. Len(Recorded) = total - base /\ \A i \in 1..Len(Recorded): Recorded[i] = base + i
    BY <1>1, <1>2, RunOfSamples DEF CompleteUnlessError
  <2>2. /\ Len(Recorded') = (total + 1) - base
        /\ \A i \in 1..Len(Recorded'): Recorded'[i] = base + i
    BY <1>1, <1>2, <2>1
  <2> QED
    BY <1>1, <1>2, <2>2, RunOfSamples
<1>4. OwnSamplesInOrder'
  BY <1>1, <1>2 DEF OwnSamplesInOrder
<1> QED
  BY <1>3, <1>4
-----------------------------------------------------------------------------
\* A step that appends n waiting samples to the file and keeps nothing waiting.
LEMMA WriteStep ==
  ASSUME TypeOK, TypeOK', CompleteUnlessError, OwnSamplesInOrder,
         NEW b \in 0..Buffers - 1, NEW size \in 0..Size, NEW n \in 0..size,
         Waiting = Block(b, size), file' = file \o Block(b, n), Len(Waiting') = 0,
         UNCHANGED <<base, total>>,
         ~error' => ~error /\ n = size
  PROVE  CompleteUnlessError' /\ OwnSamplesInOrder'
<1>1. n \in 0..Size
  BY BuffersAssumption
<1>2. Block(b, n) \in Seq(Sample) /\ Len(Block(b, n)) = n /\ Len(Waiting) = size
  BY <1>1, BlockIsSeq
<1>3. file \in Seq(Sample) /\ Len(file) \in Nat
  BY LenProperties DEF TypeOK, Sample
<1>4. \A i \in 1..n: Block(b, n)[i] = Waiting[i]
  BY <1>1, BlockIsSeq
<1>5. /\ Len(file') = Len(file) + n
      /\ \A i \in 1..Len(file) + n:
           file'[i] = IF i <= Len(file) THEN file[i] ELSE Block(b, n)[i - Len(file)]
  <2> DEFINE block == Block(b, n)
  <2>1. block \in Seq(Sample) /\ Len(block) = n
    BY <1>2
  <2> HIDE DEF block
  <2>2. /\ Len(file \o block) = Len(file) + n
        /\ \A i \in 1..Len(file) + n:
             (file \o block)[i] = IF i <= Len(file) THEN file[i] ELSE block[i - Len(file)]
    BY <1>3, <2>1, ConcatProperties
  <2>3. file' = file \o block
    BY DEF block
  <2> QED
    BY <2>2, <2>3 DEF block
<1>6. Len(Recorded') = Len(file) + n
  BY <1>3, <1>5, RecordedIsSeqNext DEF RecordedFacts
<1>7. \A i \in 1..Len(file) + n: Recorded'[i] = Recorded[i]
  <2> SUFFICES ASSUME NEW i \in 1..Len(file) + n PROVE Recorded'[i] = Recorded[i]
    OBVIOUS
  <2>1. Recorded'[i] = file'[i]
    BY <1>3, <1>5, <1>6, RecordedIsSeqNext DEF RecordedFacts
  <2>2. Recorded[i] = IF i <= Len(file) THEN file[i] ELSE Waiting[i - Len(file)]
    <3>1. Len(Recorded) = Len(file) + size
      BY <1>2, RecordedIsSeq DEF RecordedFacts
    <3>2. i \in 1..Len(Recorded)
      BY <1>3, <3>1
    <3> QED
      BY <3>2, RecordedIsSeq DEF RecordedFacts
  <2>3. i > Len(file) => i - Len(file) \in 1..n
    BY <1>3
  <2> QED
    BY <1>4, <1>5, <2>1, <2>2, <2>3
<1> QED
  BY <1>2, <1>6, <1>7, PrefixStep

\* Every action keeps the properties of what is recorded.
LEMMA RecordedInductive ==
  TypeOK /\ TypeOK' /\ ProximityInv /\ Next => CompleteUnlessError' /\ OwnSamplesInOrder'
<1> SUFFICES ASSUME TypeOK, TypeOK', ProximityInv, Next
             PROVE  CompleteUnlessError' /\ OwnSamplesInOrder'
  OBVIOUS
<1> USE DEF sensor_data, storage, history
<1>0. /\ CompleteUnlessError /\ OwnSamplesInOrder
      /\ pc = "write" => scanning /\ sample_cnt = 0
  BY DEF ProximityInv
<1>e. ASSUME sample_cnt = 0 PROVE Len(Block(buffer_index, sample_cnt)) = 0
  BY <1>e, BuffersAssumption, BlockIsSeq DEF TypeOK
<1>1. CASE HearOther
  <2>1. Block(buffer_index, sample_cnt)' = Block(buffer_index, sample_cnt)
    BY <1>1, BuffersAssumption DEF HearOther, Block, TypeOK
  <2>2. Recorded' = Recorded
    BY <1>1, <2>1 DEF HearOther, Recorded, Waiting
  <2> QED
    BY <1>0, <1>1, <2>2, SameStep DEF HearOther
<1>2. CASE HearBadge
  <2>0. scanning'
    BY <1>2, Zenon DEF HearBadge
  <2>1. Waiting = Block(buffer_index, sample_cnt)
    BY <1>2 DEF HearBadge, Waiting
  <2>2. Waiting' = [i \in 1..sample_cnt + 1 |-> buffered_samples'[buffer_index][i - 1]]
    <3>1. CASE sample_cnt + 1 = Size
      <4>1. pc' = "write" /\ ctx' = buffer_index
        BY <1>2, <3>1, BuffersAssumption DEF HearBadge, TypeOK
      <4>2. Waiting' = [i \in 1..Size |-> buffered_samples'[buffer_index][i - 1]]
        BY <2>0, <4>1 DEF Waiting, Block
      <4> QED
        BY <3>1, <4>2
    <3>2. CASE sample_cnt + 1 < Size
      <4>1. pc' = "ready" /\ buffer_index' = buffer_index /\ sample_cnt' = sample_cnt + 1
        BY <1>2, <3>2, BuffersAssumption DEF HearBadge, TypeOK
      <4> QED
        BY <2>0, <4>1 DEF Waiting, Block
    <3> QED
      BY <1>2, <3>1, <3>2 DEF HearBadge
  <2>3. Len(Waiting) = sample_cnt /\ Len(Waiting') = sample_cnt + 1
    BY <2>1, <2>2, RecordedIsSeqNext, BlockIsSeq, BuffersAssumption, LenProperties
       DEF RecordedFacts, TypeOK
  <2>4. \A i \in 1..sample_cnt: Waiting'[i] = Waiting[i]
    BY <1>2, <2>1, <2>2, BuffersAssumption DEF HearBadge, Block, TypeOK
  <2>5. Waiting'[sample_cnt + 1] = total + 1
    BY <1>2, <2>2, BuffersAssumption DEF HearBadge, TypeOK
  <2>6. Len(file) \in Nat /\ sample_cnt \in Nat /\ file' = file
    BY <1>2, LenProperties, BuffersAssumption DEF HearBadge, TypeOK
  <2>7. Len(Recorded) = Len(file) + sample_cnt /\ Len(Recorded') = Len(Recorded) + 1
    <3>1. Len(Recorded) = Len(file) + Len(Waiting)
      BY RecordedIsSeq DEF RecordedFacts
    <3>2. Len(Recorded') = Len(file') + Len(Waiting')
      BY RecordedIsSeqNext DEF RecordedFacts
    <3> QED
      BY <2>3, <2>6, <3>1, <3>2
  <2>8. \A i \in 1..Len(Recorded): Recorded'[i] = Recorded[i]
    <3> SUFFICES ASSUME NEW i \in 1..Len(Recorded) PROVE Recorded'[i] = Recorded[i]
      OBVIOUS
    <3>1. i > Len(file) => i - Len(file) \in 1..sample_cnt
      BY <2>6, <2>7
    <3>2. i \in 1..Len(Recorded')
      BY <2>6, <2>7
    <3> QED
      BY <2>4, <2>6, <3>1, <3>2, RecordedIsSeq, RecordedIsSeqNext DEF RecordedFacts
  <2>9. Recorded'[Len(Recorded) + 1] = total + 1
    <3>1. /\ Len(Recorded) + 1 \in 1..Len(Recorded') /\ ~(Len(Recorded) + 1 <= Len(file))
          /\ (Len(Recorded) + 1) - Len(file) = sample_cnt + 1
      BY <2>6, <2>7
    <3> QED
      BY <2>5, <2>6, <3>1, RecordedIsSeqNext DEF RecordedFacts
  <2> QED
    BY <1>0, <1>2, <2>7, <2>8, <2>9, AcceptStep DEF HearBadge
<1>3. CASE \E item \in {"start", "stop"}: Command(item)
  <2>1. Recorded' = Recorded
    <3>1. pc # "write" /\ pc' # "write"
      BY <1>3 DEF Command
    <3>2. UNCHANGED <<file, scanning, buffer_index, sample_cnt, buffered_samples>>
      BY <1>3 DEF Command
    <3> QED
      BY <3>1, <3>2 DEF Recorded, Waiting, Block
  <2> QED
    BY <1>0, <1>3, <2>1, SameStep DEF Command
<1>4. CASE WriteSamples
  <2>1. PICK o \in WriteOutcomes(Size):
          /\ file' = file \o Block(ctx, o.n)
          /\ ~error' => ~error /\ ~(o.n < Size)
    BY <1>4, Zenon DEF WriteSamples
  <2>2. Size \in 0..Size /\ o.n \in 0..Size
    BY <2>1, OutcomeBounds, BuffersAssumption
  <2>3. scanning /\ Waiting = Block(ctx, Size)
    BY <1>0, <1>4 DEF WriteSamples, Waiting
  <2>4. Waiting' = Block(buffer_index, sample_cnt)
    BY <1>4, <2>3 DEF WriteSamples, Waiting, Block
  <2>5. Len(Waiting') = 0
    BY <1>0, <1>4, <1>e, <2>4 DEF WriteSamples
  <2>6. ~error' => ~error /\ o.n = Size
    BY <2>1, <2>2
  <2> QED
    BY <1>0, <1>4, <2>1, <2>2, <2>3, <2>5, <2>6, WriteStep DEF WriteSamples, TypeOK
<1>5. CASE StartRefused
  <2>1. Recorded' = Recorded
    BY <1>5, <1>0 DEF StartRefused, Recorded, Waiting, Block
  <2>2. UNCHANGED <<base, total>>
    BY <1>5 DEF StartRefused
  <2>3. ~error' => ~error
    BY <1>5, Zenon DEF StartRefused
  <2> QED
    BY <1>0, <2>1, <2>2, <2>3, SameStep
<1>6. CASE StartScanFails
  <2>1. file' = <<>> /\ Waiting' = Waiting
    BY <1>6 DEF StartScanFails, Waiting, Block
  <2>2. Len(file) \in Nat /\ Len(Waiting) \in Nat
    BY RecordedIsSeq, LenProperties DEF TypeOK, RecordedFacts
  <2>3. Len(file') = 0
    BY <2>1, EmptySeq
  <2>4. Len(Recorded') = Len(Waiting)
    BY <2>1, <2>2, <2>3, RecordedIsSeqNext DEF RecordedFacts
  <2>5. \A i \in 1..Len(Waiting): Recorded'[i] = Recorded[Len(file) + i]
    <3> SUFFICES ASSUME NEW i \in 1..Len(Waiting)
                 PROVE  Recorded'[i] = Recorded[Len(file) + i]
      OBVIOUS
    <3>1. Recorded'[i] = Waiting[i]
      BY <2>1, <2>2, <2>3, <2>4, RecordedIsSeqNext DEF RecordedFacts
    <3>2. Len(file) + i \in 1..Len(Recorded) /\ (Len(file) + i) - Len(file) = i
      BY <2>2, RecordedIsSeq DEF RecordedFacts
    <3>3. Recorded[Len(file) + i] = Waiting[(Len(file) + i) - Len(file)]
      BY <2>2, <3>2, RecordedIsSeq DEF RecordedFacts
    <3> QED
      BY <3>1, <3>2, <3>3
  <2>6. Len(Recorded) = Len(file) + Len(Waiting)
    BY RecordedIsSeq DEF RecordedFacts
  <2>7. UNCHANGED <<base, total>> /\ error'
    BY <1>6 DEF StartScanFails
  <2>8. OwnSamplesInOrder'
    <3> SUFFICES ASSUME NEW i \in 1..Len(Waiting)
                 PROVE  /\ Recorded'[i] \in base + 1..total
                        /\ \A j \in 1..i - 1: Recorded'[j] < Recorded'[i]
      BY <2>4, <2>7 DEF OwnSamplesInOrder
    <3>1. Len(file) + i \in 1..Len(Recorded)
      BY <2>2, <2>6
    <3>2. \A j \in 1..i - 1: /\ Recorded[Len(file) + j] < Recorded[Len(file) + i]
                             /\ Recorded'[j] = Recorded[Len(file) + j]
      <4> SUFFICES ASSUME NEW j \in 1..i - 1
                   PROVE  /\ Recorded[Len(file) + j] < Recorded[Len(file) + i]
                          /\ Recorded'[j] = Recorded[Len(file) + j]
        OBVIOUS
      <4>1. Len(file) + j \in 1..(Len(file) + i) - 1 /\ j \in 1..Len(Waiting)
        BY <2>2
      <4> QED
        BY <1>0, <2>5, <3>1, <4>1 DEF OwnSamplesInOrder
    <3> QED
      BY <1>0, <2>5, <3>1, <3>2 DEF OwnSamplesInOrder
  <2> QED
    BY <2>7, <2>8 DEF CompleteUnlessError
<1>7. CASE StartSucceeds
  <2>1. file' = <<>> /\ Waiting' = [i \in 1..0 |-> buffered_samples'[buffer_index'][i - 1]]
    BY <1>7 DEF StartSucceeds, NewFile, Waiting, Block
  <2>2. Len(file') = 0 /\ Len(Waiting') = 0
    BY <2>1, EmptySeq, RecordedIsSeqNext, LenProperties DEF RecordedFacts
  <2>3. Len(Recorded') = 0 /\ Recorded' \in Seq(Sample)
    BY <2>2, RecordedIsSeqNext DEF RecordedFacts
  <2>4. total' = total /\ base' = total
    BY <1>7 DEF StartSucceeds
  <2>5. CompleteUnlessError'
    <3>1. total \in Nat /\ total \in 0..total /\ total - total = 0
      BY DEF TypeOK
    <3>2. \A i \in 1..Len(Recorded'): Recorded'[i] = total + i
      BY <2>3
    <3>3. Recorded' = [i \in 1..total - total |-> total + i]
      BY <2>3, <3>1, <3>2, RunOfSamples
    <3> QED
      BY <2>4, <3>3 DEF CompleteUnlessError
  <2> QED
    BY <2>3, <2>5 DEF OwnSamplesInOrder
<1>8. CASE StopScanFails
  <2>1. CASE scanning' = scanning
    <3>1. Recorded' = Recorded
      BY <1>8, <2>1 DEF StopScanFails, Recorded, Waiting, Block
    <3> QED
      BY <1>0, <1>8, <2>1, <3>1, SameStep DEF StopScanFails
  <2>2. CASE scanning' # scanning
    <3>1. scanning /\ Waiting = Block(buffer_index, sample_cnt) /\ Waiting' = <<>>
      BY <1>8, <2>2 DEF StopScanFails, Waiting, TypeOK
    <3>2. Len(Waiting') = 0
      BY <3>1, EmptySeq
    <3>3. file' = file \o Block(buffer_index, 0)
      <4>1. Block(buffer_index, 0) \in Seq(Sample) /\ Len(Block(buffer_index, 0)) = 0
        <5>1. 0 \in 0..Size /\ buffer_index \in 0..Buffers - 1
          BY BuffersAssumption DEF TypeOK
        <5> QED
          BY <5>1, BlockIsSeq
      <4> QED
        BY <1>8, <4>1, EmptySeq, ConcatEmptySeq DEF StopScanFails, TypeOK, Sample
    <3>4. sample_cnt \in 0..Size /\ 0 \in 0..sample_cnt /\ buffer_index \in 0..Buffers - 1
      BY BuffersAssumption DEF TypeOK
    <3>5. error' /\ UNCHANGED <<base, total>>
      BY <1>8, <2>2 DEF StopScanFails
    <3> QED
      BY <1>0, <3>1, <3>2, <3>3, <3>4, <3>5, WriteStep
  <2> QED
    BY <2>1, <2>2
<1>9. CASE StopScan
  <2>1. PICK o \in WriteOutcomes(sample_cnt):
          /\ file' = file \o Block(buffer_index, o.n)
          /\ ~error' => ~error /\ ~(o.n < sample_cnt)
    BY <1>9, Zenon DEF StopScan
  <2>2. sample_cnt \in 0..Size /\ o.n \in 0..sample_cnt /\ buffer_index \in 0..Buffers - 1
    BY <2>1, OutcomeBounds, BuffersAssumption DEF TypeOK
  <2>3. Waiting = Block(buffer_index, sample_cnt) /\ Waiting' = <<>>
    BY <1>9 DEF StopScan, Waiting
  <2>4. Len(Waiting') = 0
    BY <2>3, EmptySeq
  <2>5. ~error' => ~error /\ o.n = sample_cnt
    BY <2>1, <2>2
  <2>6. UNCHANGED <<base, total>>
    BY <1>9 DEF StopScan
  <2> QED
    BY <1>0, <2>1, <2>2, <2>3, <2>4, <2>5, <2>6, WriteStep
<1>10. CASE SyncFails
  <2>1. Recorded' = Recorded
    BY <1>10 DEF SyncFails, Recorded, Waiting, Block
  <2> QED
    BY <1>0, <1>10, <2>1, SameStep DEF SyncFails
<1> QED
  BY <1>1, <1>2, <1>3, <1>4, <1>5, <1>6, <1>7, <1>8, <1>9, <1>10
     DEF Next, Callback, Commands, Start, Stop

\* Every action keeps what the sensor says of itself true.
LEMMA FlagsInductive ==
  TypeOK /\ ProximityInv /\ Next =>
    /\ IdleLeavesNoActiveFile' /\ ScanIsReported'
    /\ (pc = "write" => scanning /\ sample_cnt = 0)'
<1> SUFFICES ASSUME TypeOK, ProximityInv, Next
             PROVE  /\ IdleLeavesNoActiveFile' /\ ScanIsReported'
                    /\ (pc = "write" => scanning /\ sample_cnt = 0)'
  OBVIOUS
<1> USE DEF ProximityInv, IdleLeavesNoActiveFile, ScanIsReported, sensor_data, storage,
            history
<1>1. CASE Callback
  BY <1>1 DEF Callback, HearOther, HearBadge
<1>2. CASE Commands
  BY <1>2 DEF Commands, Command
<1>3. CASE WriteSamples
  BY <1>3 DEF WriteSamples
<1>4. CASE Start
  BY <1>4 DEF Start, StartRefused, StartScanFails, StartSucceeds, NewFile
<1>5. CASE Stop
  <2>1. CASE StopScanFails
    <3>1. scanning' => scanning
      <4>1. scanning' = scanning \/ scanning' = FALSE
        BY <2>1, Zenon DEF StopScanFails
      <4> QED
        BY <4>1, Zenon
    <3>2. pc' = "ready" /\ UNCHANGED <<status, state>>
      BY <2>1 DEF StopScanFails
    <3> QED
      BY <3>1, <3>2
  <2>2. CASE StopScan
    BY <1>5, <2>2 DEF StopScan
  <2> QED
    BY <1>5, <2>1, <2>2 DEF Stop
<1>6. CASE SyncFails
  BY <1>6 DEF SyncFails
<1> QED
  BY <1>1, <1>2, <1>3, <1>4, <1>5, <1>6 DEF Next

\* ProximityInv holds in every state: what is recorded, reported and left of a recording.
THEOREM InvCorrect == Spec => []ProximityInv
<1>1. Init => ProximityInv
  <2> SUFFICES ASSUME Init PROVE ProximityInv
    OBVIOUS
  <2>1. Recorded = <<>> /\ Len(Recorded) = 0
    BY EmptySeq, ConcatEmptySeq DEF Init, Recorded, Waiting
  <2> QED
    BY <2>1 DEF Init, ProximityInv, CompleteUnlessError, OwnSamplesInOrder,
                IdleLeavesNoActiveFile, ScanIsReported
<1>2. TypeOK /\ TypeOK' /\ ProximityInv /\ [Next]_vars => ProximityInv'
  <2> SUFFICES ASSUME TypeOK, TypeOK', ProximityInv, [Next]_vars PROVE ProximityInv'
    OBVIOUS
  <2>1. CASE Next
    BY <2>1, RecordedInductive, FlagsInductive DEF ProximityInv
  <2>2. CASE UNCHANGED vars
    BY <2>2 DEF vars, sensor_data, storage, history, ProximityInv, CompleteUnlessError,
                OwnSamplesInOrder, Recorded, Waiting, Block, IdleLeavesNoActiveFile,
                ScanIsReported
  <2> QED
    BY <2>1, <2>2
<1> QED
  BY <1>1, <1>2, TypeCorrect, PTL DEF Spec

\* A recording without an error holds every accepted sample once and in order, whatever
\* the number and the size of the buffers.
THEOREM CompleteCorrect == Spec => []CompleteUnlessError
<1>1. ProximityInv => CompleteUnlessError
  BY DEF ProximityInv
<1> QED
  BY <1>1, InvCorrect, PTL

\* No file holds samples of another recording, or one twice, or out of order.
THEOREM OwnSamplesCorrect == Spec => []OwnSamplesInOrder
<1>1. ProximityInv => OwnSamplesInOrder
  BY DEF ProximityInv
<1> QED
  BY <1>1, InvCorrect, PTL

\* A sensor that is not recording has no file that storage believes is being recorded.
THEOREM IdleCorrect == Spec => []IdleLeavesNoActiveFile
<1>1. ProximityInv => IdleLeavesNoActiveFile
  BY DEF ProximityInv
<1> QED
  BY <1>1, InvCorrect, PTL

\* A badge that scans says so, whatever failed.
THEOREM ScanReported == Spec => []ScanIsReported
<1>1. ProximityInv => ScanIsReported
  BY DEF ProximityInv
<1> QED
  BY <1>1, InvCorrect, PTL
=============================================================================
