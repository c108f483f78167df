-------------------------- MODULE ImuFiles_proofs --------------------------
(***************************************************************************)
(* Theorems about what the inertial sensor's files hold, for any set of    *)
(* drivers and channels and any size of the buffers: the invariant ImuInv  *)
(* and what it implies.                                                    *)
(***************************************************************************)
EXTENDS Imu, FiniteSetTheorems, QueueLemmas

\* The types, with what the queue must be in a definition of its own.
QueueOK == queue \in Seq(Items) /\ Once(queue)

Vars ==
  /\ driver \in Drivers /\ armed \in BOOLEAN
  /\ state \in {"DISABLED", "STOP", "ACTIVE", "ERR"}
  /\ busy \in BOOLEAN /\ wr_index \in 0..1
  /\ buffer \in [Channels -> [0..1 -> [1..Size -> 0..MaxSamples]]]
  /\ index \in [Channels -> 0..1] /\ current \in [Channels -> 0..Size - 1]
  /\ status \in [Channels -> {"INACTIVE", "ACTIVE", "ERR"}]
  /\ opened \in [Channels -> BOOLEAN] /\ cut \in [Channels -> BOOLEAN]
  /\ file \in [Channels -> Seq(1..MaxSamples)] /\ full \subseteq Channels
  /\ total \in [Channels -> 0..MaxSamples] /\ base \in [Channels -> 0..MaxSamples]

\* The two conjuncts are what Imu's type invariant says.
LEMMA TypeForms == TypeOK <=> QueueOK /\ Vars
BY DEF TypeOK, QueueOK, Vars, Once, IsInjective

-----------------------------------------------------------------------------
\* The work queue.

\* An item that joins it.
LEMMA Joins ==
  ASSUME QueueOK, NEW e \in Items, ~Queued(e), queue' = Append(queue, e)
  PROVE  /\ QueueOK'
         /\ Queued("write")' <=> Queued("write") \/ e = "write"
         /\ e # "write" /\ WriteFirst => WriteFirst'
         /\ Runs("drdy") => Runs("drdy")'
<1>1. /\ QueueOK' /\ \A x: Holds(queue', x) <=> Holds(queue, x) \/ x = e
  BY QueueAppend DEF QueueOK, Queued, Holds
<1>2. Queued("write")' <=> Queued("write") \/ e = "write"
  BY <1>1 DEF Queued, Holds
<1>3. ASSUME e # "write", WriteFirst PROVE WriteFirst'
  <2>1. Ahead(queue, "write", "drdy") => Ahead(queue', "write", "drdy")
    BY <1>3, QueueAppendOrder DEF QueueOK
  <2> QED
    BY <1>3, <2>1 DEF WriteFirst, Ahead
<1>4. Runs("drdy") => Runs("drdy")'
  <2>1. queue # <<>> => queue' # <<>> /\ Head(queue') = Head(queue)
    BY QueueAppendOrder DEF QueueOK
  <2> QED
    BY <2>1 DEF Runs
<1> QED
  BY <1>1, <1>2, <1>3, <1>4

\* The item the work queue runs leaves it.
LEMMA Leaves ==
  ASSUME QueueOK, NEW e \in Items, Done(e)
  PROVE  /\ QueueOK' /\ Queued(e)
         /\ Queued("write")' <=> Queued("write") /\ e # "write"
         /\ WriteFirst => WriteFirst'
         /\ e = "drdy" => WriteFirst'
         /\ e # "drdy" => ~Runs("drdy")
<1>1. queue # <<>> /\ Head(queue) = e /\ queue' = Tail(queue)
  BY DEF Done, Runs
<1>2. /\ QueueOK' /\ Holds(queue, e)
      /\ \A x: Holds(queue', x) <=> Holds(queue, x) /\ x # e
  BY <1>1, QueueTail DEF QueueOK
<1>3. /\ Ahead(queue, "write", "drdy") => Ahead(queue', "write", "drdy")
      /\ e = "drdy" => Ahead(queue', "write", "drdy")
  BY <1>1, QueueTailOrder DEF QueueOK
<1>4. /\ Queued(e)
      /\ Queued("write")' <=> Queued("write") /\ e # "write"
  BY <1>2 DEF Queued, Holds
<1>5. (WriteFirst => WriteFirst') /\ (e = "drdy" => WriteFirst')
  BY <1>3 DEF WriteFirst, Ahead
<1> QED
  BY <1>1, <1>2, <1>4, <1>5 DEF Runs

\* No block waits behind the data-ready item that runs when the writer goes first.
LEMMA Blocked ==
  ASSUME QueueOK, Runs("drdy"), WriteFirst
  PROVE  ~Queued("write")
<1>1. Ahead(queue, "write", "drdy") /\ Head(queue) = "drdy" => ~Holds(queue, "write")
  BY QueueTailOrder DEF QueueOK, Runs
<1> QED
  BY <1>1 DEF Queued, Holds, WriteFirst, Ahead, Runs

-----------------------------------------------------------------------------
\* Files and buffers.

\* A file and the first n samples of a block.
LEMMA Extended ==
  ASSUME NEW S, NEW f \in Seq(S), NEW m \in Nat, NEW b \in [1..m -> S], NEW n \in 0..m
  PROVE  LET g == f \o SubSeq(b, 1, n)
         IN  /\ g \in Seq(S) /\ Len(g) = Len(f) + n /\ Len(f) \in Nat
             /\ DOMAIN g = 1..Len(f) + n /\ DOMAIN f = 1..Len(f)
             /\ \A i \in 1..Len(f): g[i] = f[i]
             /\ \A k \in 1..n: g[Len(f) + k] = b[k]
<1> DEFINE s == SubSeq(b, 1, n)
           g == f \o s
<1>0. n \in Nat /\ Len(f) \in Nat /\ DOMAIN f = 1..Len(f)
  OBVIOUS
<1>1. 1 \in Int /\ n \in Int /\ \A k \in 1..n: b[k] \in S
  BY <1>0
<1>2. /\ s \in Seq(S) /\ Len(s) = IF 1 <= n THEN n - 1 + 1 ELSE 0
      /\ \A k \in 1..n - 1 + 1: s[k] = b[1 + k - 1]
  BY <1>1, SubSeqProperties
<1> HIDE DEF s
<1>3. Len(s) = n
  BY <1>0, <1>2
<1>4. ASSUME NEW k \in 1..n PROVE s[k] = b[k]
  <2>1. k \in 1..n - 1 + 1 /\ 1 + k - 1 = k
    BY <1>0
  <2> QED
    BY <1>2, <2>1
<1>5. /\ g \in Seq(S) /\ Len(g) = Len(f) + n
      /\ \A i \in 1..Len(f) + n: g[i] = IF i <= Len(f) THEN f[i] ELSE s[i - Len(f)]
  BY <1>2, <1>3, ConcatProperties
<1> HIDE DEF g
<1>6. DOMAIN g = 1..Len(f) + n
  BY <1>5
<1>7. \A i \in 1..Len(f): g[i] = f[i]
  BY <1>0, <1>5
<1>8. ASSUME NEW k \in 1..n PROVE g[Len(f) + k] = b[k]
  <2>1. /\ Len(f) + k \in 1..Len(f) + n /\ ~(Len(f) + k <= Len(f))
        /\ Len(f) + k - Len(f) = k
    BY <1>0
  <2> QED
    BY <1>4, <1>5, <2>1
<1> QED
  BY <1>0, <1>5, <1>6, <1>7, <1>8 DEF g, s

\* A sample of each channel of cs goes into its buffer, and nothing else changes.
LEMMA StoreDoes ==
  ASSUME Vars, NEW cs \in SUBSET Channels, \A c \in cs: HasRoom(c), Store(cs)
  PROVE  /\ buffer' \in [Channels -> [0..1 -> [1..Size -> 0..MaxSamples]]]
         /\ total' \in [Channels -> 0..MaxSamples]
         /\ \A c \in cs:
              /\ total'[c] = total[c] + 1
              /\ \A i \in 0..1, k \in 1..Size:
                   buffer'[c][i][k] = IF i = index[c] /\ k = current[c] + 1 THEN total[c] + 1
                                      ELSE buffer[c][i][k]
         /\ \A c \in Channels \ cs: total'[c] = total[c] /\ buffer'[c] = buffer[c]
<1>1. \A c \in Channels:
        /\ buffer[c] \in [0..1 -> [1..Size -> 0..MaxSamples]]
        /\ index[c] \in 0..1 /\ current[c] \in 0..Size - 1 /\ total[c] \in 0..MaxSamples
  BY DEF Vars
<1>2. \A c \in cs: total[c] + 1 \in 0..MaxSamples
  BY <1>1, SizeAssumption DEF HasRoom
<1>3. total' \in [Channels -> 0..MaxSamples]
  BY <1>1, <1>2 DEF Store
<1>4. ASSUME NEW c \in Channels, total[c] + 1 \in 0..MaxSamples
      PROVE  LET u == [buffer[c] EXCEPT ![index[c]][current[c] + 1] = total[c] + 1]
             IN  /\ u \in [0..1 -> [1..Size -> 0..MaxSamples]]
                 /\ \A i \in 0..1, k \in 1..Size:
                      u[i][k] = IF i = index[c] /\ k = current[c] + 1 THEN total[c] + 1
                                ELSE buffer[c][i][k]
  <2> DEFINE b == buffer[c]
             v == total[c] + 1
             k0 == current[c] + 1
             i0 == index[c]
  <2>1. b \in [0..1 -> [1..Size -> 0..MaxSamples]] /\ v \in 0..MaxSamples /\ i0 \in 0..1
    BY <1>1, <1>4
  <2> HIDE DEF b, v, k0, i0
  <2>2. [b[i0] EXCEPT ![k0] = v] \in [1..Size -> 0..MaxSamples]
    BY <2>1
  <2>3. [b EXCEPT ![i0] = [b[i0] EXCEPT ![k0] = v]] \in [0..1 -> [1..Size -> 0..MaxSamples]]
    BY <2>1, <2>2
  <2>4. \A i \in 0..1, k \in 1..Size:
          [b EXCEPT ![i0] = [b[i0] EXCEPT ![k0] = v]][i][k]
            = IF i = i0 /\ k = k0 THEN v ELSE b[i][k]
    BY <2>1
  <2> QED
    BY <2>3, <2>4 DEF b, v, k0, i0
<1>5. buffer' \in [Channels -> [0..1 -> [1..Size -> 0..MaxSamples]]]
  BY <1>1, <1>2, <1>4 DEF Store
<1>6. ASSUME NEW c \in cs
      PROVE  /\ total'[c] = total[c] + 1
             /\ \A i \in 0..1, k \in 1..Size:
                  buffer'[c][i][k] = IF i = index[c] /\ k = current[c] + 1 THEN total[c] + 1
                                     ELSE buffer[c][i][k]
  <2>1. /\ total'[c] = total[c] + 1
        /\ buffer'[c] = [buffer[c] EXCEPT ![index[c]][current[c] + 1] = total[c] + 1]
    BY DEF Store
  <2> QED
    BY <1>2, <1>4, <2>1
<1>7. \A c \in Channels \ cs: total'[c] = total[c] /\ buffer'[c] = buffer[c]
  BY DEF Store
<1> QED
  BY <1>3, <1>5, <1>6, <1>7

Increasing(f) == \A i, j \in DOMAIN f: i < j => f[i] < f[j]

\* What a file needs of the samples after the p-th, to get them: they are later than those
\* it has.  lim is where samples of an earlier recording end.
Fits(f, p, from, lim) ==
  /\ f \in Seq(1..MaxSamples) /\ p \in Nat /\ from \in Nat
  /\ lim \in Int /\ lim >= Size - 1
  /\ Increasing(f)
  /\ \A i \in DOMAIN f: f[i] <= p /\ (i > lim => from < f[i])
  /\ f = <<>> => lim >= Size \/ from < p + Size
  /\ f # <<>> => from <= p

\* g is the file f with n of them.
Longer(g, f, n, p) ==
  /\ g \in Seq(1..MaxSamples) /\ n \in 0..Size
  /\ Len(f) \in Nat /\ Len(g) = Len(f) + n
  /\ \A i \in 1..Len(f): g[i] = f[i]
  /\ \A k \in 1..n: g[Len(f) + k] = p + k

\* A file and the first n samples of a block.
LEMMA Appended ==
  ASSUME NEW f \in Seq(1..MaxSamples), NEW b \in [1..Size -> 1..MaxSamples], NEW n \in 0..Size,
         NEW p, \A k \in 1..Size: b[k] = p + k
  PROVE  Longer(f \o SubSeq(b, 1, n), f, n, p)
<1>1. Size \in Nat /\ n \in Nat /\ n <= Size
  BY SizeAssumption
<1>2. /\ f \o SubSeq(b, 1, n) \in Seq(1..MaxSamples)
      /\ Len(f \o SubSeq(b, 1, n)) = Len(f) + n /\ Len(f) \in Nat
      /\ \A i \in 1..Len(f): (f \o SubSeq(b, 1, n))[i] = f[i]
      /\ \A k \in 1..n: (f \o SubSeq(b, 1, n))[Len(f) + k] = b[k]
  BY <1>1, Extended
<1>3. \A k \in 1..n: b[k] = p + k
  BY <1>1
<1> QED
  BY <1>2, <1>3 DEF Longer

\* A file that gets the samples after the p-th stays in order, and keeps what it has of an
\* earlier recording at its beginning.
LEMMA Grown ==
  ASSUME NEW f, NEW g, NEW n, NEW p, NEW from, NEW lim,
         Fits(f, p, from, lim), Longer(g, f, n, p)
  PROVE  /\ Increasing(g)
         /\ \A i \in DOMAIN g: g[i] <= p + Size /\ (i > lim => from < g[i])
<1> DEFINE m == Len(f)
<1>0. /\ Size \in Nat /\ n \in Nat /\ n <= Size
      /\ m \in Nat /\ DOMAIN f = 1..m /\ DOMAIN g = 1..m + n
      /\ p \in Nat /\ from \in Nat /\ lim \in Int /\ lim >= Size - 1
      /\ f \in Seq(1..MaxSamples)
  BY SizeAssumption DEF Fits, Longer
<1>1. \A i \in 1..m: f[i] \in Nat
  <2>1. \A i \in DOMAIN f: f[i] \in 1..MaxSamples
    BY <1>0, ElementOfSeq, LenProperties
  <2> QED
    BY <1>0, <2>1, SizeAssumption
<1>2. m = 0 <=> f = <<>>
  BY <1>0, EmptySeq
<1> HIDE DEF m
<1>3. ASSUME NEW i \in 1..m
      PROVE  g[i] \in Nat /\ g[i] = f[i] /\ g[i] <= p /\ (i > lim => from < g[i])
  BY <1>0, <1>1, <1>3 DEF Fits, Longer, m
<1>4. ASSUME NEW i \in 1..m + n, i \notin 1..m
      PROVE  /\ i \in Nat /\ m < i /\ g[i] = p + (i - m) /\ i - m \in 1..n
             /\ i > lim => from < g[i]
  <2>1. i \in Nat /\ m < i /\ i - m \in 1..n /\ i = m + (i - m)
    BY <1>0, <1>4
  <2>2. g[i] = p + (i - m)
    BY <2>1 DEF m, Longer
  <2>3. ASSUME i > lim PROVE from < g[i]
    <3>1. CASE f = <<>>
      <4>1. lim >= Size \/ from < p + Size
        BY <3>1 DEF Fits
      <4>2. i - m = i /\ i <= Size
        BY <1>0, <1>2, <2>1, <3>1
      <4>3. i = Size /\ from < p + Size
        BY <1>0, <2>1, <2>3, <4>1, <4>2
      <4> QED
        BY <2>2, <4>2, <4>3
    <3>2. CASE f # <<>>
      <4>1. from <= p
        BY <3>2 DEF Fits
      <4>2. i - m \in Nat \ {0}
        BY <1>0, <2>1
      <4> QED
        BY <1>0, <2>2, <4>1, <4>2
    <3> QED
      BY <3>1, <3>2
  <2> QED
    BY <2>1, <2>2, <2>3
<1>5. Increasing(g)
  <2> SUFFICES ASSUME NEW i \in 1..m + n, NEW j \in 1..m + n, i < j PROVE g[i] < g[j]
    BY <1>0 DEF Increasing
  <2>1. CASE j \in 1..m
    <3>1. i \in 1..m
      BY <1>0, <2>1
    <3> QED
      BY <1>0, <1>3, <2>1, <3>1 DEF Fits, Increasing
  <2>2. CASE j \notin 1..m /\ i \in 1..m
    <3>1. g[j] = p + (j - m) /\ j - m \in 1..n
      BY <1>4, <2>2
    <3>2. g[i] \in Nat /\ g[i] <= p
      BY <1>3, <2>2
    <3>3. j - m \in Nat \ {0}
      BY <1>0, <3>1
    <3> QED
      BY <1>0, <3>1, <3>2, <3>3
  <2>3. CASE j \notin 1..m /\ i \notin 1..m
    <3>1. g[j] = p + (j - m) /\ g[i] = p + (i - m) /\ i \in Nat /\ j \in Nat
      BY <1>4, <2>3
    <3> QED
      BY <1>0, <3>1
  <2> QED
    BY <1>0, <2>1, <2>2, <2>3
<1>6. ASSUME NEW i \in 1..m + n PROVE g[i] <= p + Size /\ (i > lim => from < g[i])
  <2>1. CASE i \in 1..m
    BY <1>0, <1>3, <2>1
  <2>2. CASE i \notin 1..m
    <3>1. g[i] = p + (i - m) /\ i - m \in 1..n /\ (i > lim => from < g[i])
      BY <1>4, <2>2
    <3>2. i - m \in Nat /\ i - m <= Size
      BY <1>0, <3>1
    <3> QED
      BY <1>0, <3>1, <3>2
  <2> QED
    BY <2>1, <2>2
<1> QED
  BY <1>0, <1>5, <1>6

-----------------------------------------------------------------------------
\* Each step keeps the invariant.

IInv == QueueOK /\ Vars /\ ImuInv

\* The inductive invariant is the type invariant and ImuInv.
LEMMA InvForms == IInv <=> TypeOK /\ ImuInv
BY TypeForms DEF IInv

\* The values of one channel.
LEMMA Values ==
  ASSUME Vars, NEW c \in Channels
  PROVE  /\ Size \in Nat \ {0} /\ MaxSamples \in Nat
         /\ wr_index \in 0..1 /\ index[c] \in 0..1
         /\ current[c] \in 0..Size - 1 /\ current[c] \in Nat /\ current[c] < Size
         /\ total[c] \in 0..MaxSamples /\ total[c] \in Nat
         /\ base[c] \in 0..MaxSamples /\ base[c] \in Nat
         /\ file[c] \in Seq(1..MaxSamples)
         /\ Len(file[c]) \in Nat /\ DOMAIN file[c] = 1..Len(file[c])
         /\ \A i \in DOMAIN file[c]: file[c][i] \in 1..MaxSamples
         /\ buffer[c] \in [0..1 -> [1..Size -> 0..MaxSamples]]
         /\ Flushed(c) \in Int
<1>1. Size \in Nat \ {0} /\ MaxSamples \in Nat
  BY SizeAssumption
<1>2. /\ wr_index \in 0..1 /\ index[c] \in 0..1 /\ current[c] \in 0..Size - 1
      /\ total[c] \in 0..MaxSamples /\ base[c] \in 0..MaxSamples
      /\ file[c] \in Seq(1..MaxSamples)
      /\ buffer[c] \in [0..1 -> [1..Size -> 0..MaxSamples]]
  BY DEF Vars
<1>3. /\ Len(file[c]) \in Nat /\ DOMAIN file[c] = 1..Len(file[c])
      /\ \A i \in DOMAIN file[c]: file[c][i] \in 1..MaxSamples
  BY <1>2, ElementOfSeq, LenProperties
<1>4. /\ current[c] \in Nat /\ current[c] < Size /\ total[c] \in Nat /\ base[c] \in Nat
  BY <1>1, <1>2
<1>5. Flushed(c) \in Int
  BY <1>4 DEF Flushed
<1> QED
  BY <1>1, <1>2, <1>3, <1>4, <1>5

\* A step that neither takes nor writes a sample and opens no file: an interrupt, a
\* command, the end of an item, a failure outside a write, a stop.
LEMMA Quiet ==
  ASSUME IInv,
         UNCHANGED <<driver, busy, wr_index, buffer, position, file, full, base, total>>,
         Queued("write")' <=> Queued("write"),
         WriteFirst => WriteFirst',
         WriteFirst' \/ (Runs("drdy") => Runs("drdy")'),
         armed' => armed,
         \A c \in Channels: /\ opened'[c] => opened[c]
                            /\ cut[c] => cut'[c]
                            /\ status'[c] = "ACTIVE" => opened'[c]
  PROVE  ImuInv'
<1> USE DEF position
<1>1. WriterInv'
  BY DEF IInv, ImuInv, WriterInv, Zephyr
<1>2. MemoryInv'
  <2>1. \A p: BlockIs(p) => BlockIs(p)'
    BY DEF BlockIs, Flushed
  <2> QED
    BY <2>1 DEF IInv, ImuInv, MemoryInv, Zephyr, Flushed
<1>3. ASSUME NEW c \in Channels PROVE FileInv(c)'
  BY DEF IInv, ImuInv, FileInv, Zephyr, Flushed, Old
<1>4. AlignedInv'
  <2>1. \A c \in Channels: Ended(c) => Ended(c)'
    BY DEF Ended
  <2> QED
    BY <2>1 DEF IInv, ImuInv, AlignedInv, Zephyr
<1> QED
  BY <1>1, <1>2, <1>3, <1>4 DEF ImuInv

\* The data-ready interrupt submits its item: behind the writer's, if that is queued.
LEMMA InterruptKeeps == ASSUME IInv, Interrupt PROVE IInv'
<1>1. /\ ~Queued("drdy") /\ queue' = Append(queue, "drdy")
      /\ UNCHANGED <<sensor, writer, buffer, position, table, total, cut>>
  BY DEF Interrupt
<1>2. /\ QueueOK' /\ (Queued("write")' <=> Queued("write"))
      /\ (WriteFirst => WriteFirst') /\ (Runs("drdy") => Runs("drdy")')
  <2>1. "drdy" \in Items /\ "drdy" # "write"
    BY DEF Items
  <2> QED
    BY <1>1, <2>1, Joins DEF IInv
<1>3. Vars'
  BY <1>1 DEF IInv, Vars, sensor, writer, position, table
<1>4. \A c \in Channels: status[c] = "ACTIVE" => opened[c]
  BY DEF IInv, ImuInv, FileInv
<1>5. ImuInv'
  BY <1>1, <1>2, <1>4, Quiet DEF sensor, writer, table
<1> QED
  BY <1>2, <1>3, <1>5 DEF IInv

\* A command submits its item.
LEMMA CommandKeeps == ASSUME IInv, NEW item \in {"start", "stop"}, Command(item) PROVE IInv'
<1>1. /\ ~Queued(item) /\ queue' = Append(queue, item)
      /\ UNCHANGED <<sensor, writer, buffer, position, table, total, cut>>
  BY DEF Command
<1>2. /\ QueueOK' /\ (Queued("write")' <=> Queued("write"))
      /\ (WriteFirst => WriteFirst') /\ (Runs("drdy") => Runs("drdy")')
  <2>1. item \in Items /\ item # "write"
    BY DEF Items
  <2> QED
    BY <1>1, <2>1, Joins DEF IInv
<1>3. Vars'
  BY <1>1 DEF IInv, Vars, sensor, writer, position, table
<1>4. \A c \in Channels: status[c] = "ACTIVE" => opened[c]
  BY DEF IInv, ImuInv, FileInv
<1>5. ImuInv'
  BY <1>1, <1>2, <1>4, Quiet DEF sensor, writer, table
<1> QED
  BY <1>2, <1>3, <1>5 DEF IInv

\* An item of the queue that is not the writer's ends.
LEMMA DoneKeeps ==
  ASSUME IInv, NEW item \in {"drdy", "start", "stop"}, Done(item)
  PROVE  /\ QueueOK' /\ (Queued("write")' <=> Queued("write"))
         /\ (WriteFirst => WriteFirst')
         /\ WriteFirst' \/ (Runs("drdy") => Runs("drdy")')
         /\ item # "drdy" => (Queued("write") => WriteFirst)
<1>1. item \in Items /\ item # "write"
  BY DEF Items
<1>2. /\ QueueOK' /\ (Queued("write")' <=> Queued("write"))
      /\ WriteFirst => WriteFirst'
      /\ item = "drdy" => WriteFirst'
      /\ item # "drdy" => ~Runs("drdy")
  BY <1>1, Leaves DEF IInv
<1>3. ~Runs("drdy") => (Queued("write") => WriteFirst)
  BY DEF IInv, ImuInv, WriterInv
<1> QED
  BY <1>2, <1>3

\* A data-ready item with nothing to read ends, and so does a start with a configuration
\* that the driver refuses.
LEMMA ItemEndKeeps == ASSUME IInv, NoMoreData \/ ConfigRefused PROVE IInv'
<1>1. /\ Done("drdy") \/ Done("start")
      /\ UNCHANGED <<sensor, writer, buffer, position, table, total, cut>>
  BY DEF NoMoreData, ConfigRefused
<1>2. /\ QueueOK' /\ (Queued("write")' <=> Queued("write"))
      /\ (WriteFirst => WriteFirst') /\ (WriteFirst' \/ (Runs("drdy") => Runs("drdy")'))
  BY <1>1, DoneKeeps
<1>3. Vars'
  BY <1>1 DEF IInv, Vars, sensor, writer, position, table
<1>4. \A c \in Channels: status[c] = "ACTIVE" => opened[c]
  BY DEF IInv, ImuInv, FileInv
<1>5. ImuInv'
  BY <1>1, <1>2, <1>4, Quiet DEF sensor, writer, table
<1> QED
  BY <1>2, <1>3, <1>5 DEF IInv

\* The queue stays as it is.
LEMMA SameQueue ==
  ASSUME QueueOK, UNCHANGED queue
  PROVE  /\ QueueOK' /\ (Queued("write")' <=> Queued("write"))
         /\ (WriteFirst <=> WriteFirst') /\ (Runs("drdy") <=> Runs("drdy")')
BY DEF QueueOK, Queued, WriteFirst, Runs

\* A sample cannot be fetched: the trigger is cancelled.
LEMMA FetchFailsKeeps == ASSUME IInv, FetchFails PROVE IInv'
<1>1. /\ armed' = FALSE /\ cut' = [c \in Channels |-> TRUE]
      /\ UNCHANGED <<driver, state, queue, writer, buffer, position, table, total>>
  BY DEF FetchFails
<1>2. /\ QueueOK' /\ (Queued("write")' <=> Queued("write"))
      /\ (WriteFirst <=> WriteFirst') /\ (Runs("drdy") <=> Runs("drdy")')
  BY <1>1, SameQueue DEF IInv
<1>3. Vars'
  <2>1. armed' \in BOOLEAN /\ cut' \in [Channels -> BOOLEAN]
    BY <1>1
  <2> QED
    BY <1>1, <2>1 DEF IInv, Vars, writer, position, table
<1>4. \A c \in Channels: (status[c] = "ACTIVE" => opened[c]) /\ cut'[c]
  BY <1>1 DEF IInv, ImuInv, FileInv
<1>5. ImuInv'
  BY <1>1, <1>2, <1>4, Quiet DEF writer, table
<1> QED
  BY <1>2, <1>3, <1>5 DEF IInv

\* The sync work cannot flush a file.
LEMMA SyncFailsKeeps == ASSUME IInv, NEW c \in Channels, SyncFails(c) PROVE IInv'
<1>1. /\ status' = [status EXCEPT ![c] = "ERR"]
      /\ UNCHANGED <<sensor, queue, writer, buffer, position, opened, file, full, base,
                     total, cut>>
  BY DEF SyncFails
<1>2. /\ QueueOK' /\ (Queued("write")' <=> Queued("write"))
      /\ (WriteFirst <=> WriteFirst') /\ (Runs("drdy") <=> Runs("drdy")')
  BY <1>1, SameQueue DEF IInv
<1>3. Vars'
  <2>1. status' \in [Channels -> {"INACTIVE", "ACTIVE", "ERR"}]
    BY <1>1 DEF IInv, Vars
  <2> QED
    BY <1>1, <2>1 DEF IInv, Vars, sensor, writer, position
<1>4. \A d \in Channels: status'[d] = "ACTIVE" => opened[d]
  BY <1>1 DEF IInv, Vars, ImuInv, FileInv
<1>5. ImuInv'
  BY <1>1, <1>2, <1>4, Quiet DEF sensor, writer
<1> QED
  BY <1>2, <1>3, <1>5 DEF IInv

\* What the driver's stop leaves of the files' statuses.
LEMMA StopDriverDoes ==
  ASSUME Vars, NEW st \in [Channels -> {"INACTIVE", "ACTIVE", "ERR"}], NEW ok \in BOOLEAN,
         StopDriver(st, ok), \A c \in Channels: st[c] = "ACTIVE" => opened[c]
  PROVE  /\ armed' = FALSE
         /\ status' \in [Channels -> {"INACTIVE", "ACTIVE", "ERR"}]
         /\ opened' \in [Channels -> BOOLEAN]
         /\ \A c \in Channels: /\ opened'[c] => opened[c]
                               /\ status'[c] = "ACTIVE" => opened'[c]
<1>1. CASE ok
  <2>1. /\ armed' = FALSE /\ status' \in [Channels -> {"INACTIVE", "ERR"}]
        /\ opened' = [c \in Channels |-> FALSE]
    BY <1>1 DEF StopDriver
  <2> QED
    BY <2>1
<1>2. CASE ~ok
  BY <1>2 DEF StopDriver, Vars
<1> QED
  BY <1>1, <1>2

\* The stop command: the driver is off, and its files are closed if it returns 0.
LEMMA StopKeeps == ASSUME IInv, Stop PROVE IInv'
<1>1. PICK ok \in BOOLEAN: StopDriver(status, ok) /\ state' = IF ok THEN "STOP" ELSE "ERR"
  BY DEF Stop
<1>2. /\ Done("stop")
      /\ UNCHANGED <<driver, writer, buffer, position, file, full, base, total, cut>>
  BY DEF Stop
<1>3. /\ QueueOK' /\ (Queued("write")' <=> Queued("write"))
      /\ (WriteFirst => WriteFirst') /\ (WriteFirst' \/ (Runs("drdy") => Runs("drdy")'))
  BY <1>2, DoneKeeps
<1>4. \A c \in Channels: status[c] = "ACTIVE" => opened[c]
  BY DEF IInv, ImuInv, FileInv
<1>5. /\ armed' = FALSE
      /\ status' \in [Channels -> {"INACTIVE", "ACTIVE", "ERR"}]
      /\ opened' \in [Channels -> BOOLEAN]
      /\ \A c \in Channels: /\ opened'[c] => opened[c]
                            /\ status'[c] = "ACTIVE" => opened'[c]
  <2>1. Vars /\ status \in [Channels -> {"INACTIVE", "ACTIVE", "ERR"}]
    BY DEF IInv, Vars
  <2> QED
    BY <1>1, <1>4, <2>1, StopDriverDoes
<1>6. Vars'
  <2>1. armed' \in BOOLEAN /\ state' \in {"DISABLED", "STOP", "ACTIVE", "ERR"}
    BY <1>1, <1>5
  <2> QED
    BY <1>2, <1>5, <2>1 DEF IInv, Vars, writer, position
<1>7. ImuInv'
  BY <1>2, <1>3, <1>5, Quiet DEF writer
<1> QED
  BY <1>3, <1>6, <1>7 DEF IInv

\* While samples come in, a block that waits is not in the buffers they go to.
LEMMA OtherBuffer ==
  ASSUME IInv, Runs("drdy"), Queued("write")
  PROVE  busy /\ \A c \in Channels: wr_index # index[c]
<1>1. ~WriteFirst
  BY Blocked DEF IInv
<1> QED
  BY <1>1 DEF IInv, ImuInv, WriterInv

\* The buffer a sample goes to has the latest samples again, one more than before.
LEMMA LatestStored ==
  ASSUME IInv, NEW cs \in SUBSET Channels, \A c \in cs: HasRoom(c), Store(cs), NEW c \in cs,
         NEW k \in 1..current[c] + 1
  PROVE  buffer'[c][index[c]][k] = Flushed(c) + k
<1>1. \A i \in 0..1, l \in 1..Size:
        buffer'[c][i][l] = IF i = index[c] /\ l = current[c] + 1 THEN total[c] + 1
                           ELSE buffer[c][i][l]
  BY StoreDoes DEF IInv
<1>2. /\ Size \in Nat \ {0} /\ index[c] \in 0..1 /\ current[c] \in Nat /\ current[c] < Size
      /\ total[c] \in Nat
  BY Values DEF IInv
<1>3. k \in 1..Size /\ k \in Nat
  BY <1>2
<1>4. buffer'[c][index[c]][k] = IF k = current[c] + 1 THEN total[c] + 1
                                ELSE buffer[c][index[c]][k]
  BY <1>1, <1>2, <1>3
<1>5. CASE k = current[c] + 1
  BY <1>2, <1>4, <1>5 DEF Flushed
<1>6. CASE k # current[c] + 1
  <2>1. k \in 1..current[c]
    BY <1>2, <1>3, <1>6
  <2> QED
    BY <1>4, <1>6, <2>1 DEF IInv, ImuInv, MemoryInv
<1> QED
  BY <1>5, <1>6

\* A sample of every channel goes into the buffers, and a block that waits does not change.
LEMMA SampleStored ==
  ASSUME IInv, Triggered, Store(Channels)
  PROVE  /\ buffer' \in [Channels -> [0..1 -> [1..Size -> 0..MaxSamples]]]
         /\ total' \in [Channels -> 0..MaxSamples]
         /\ \A c \in Channels:
              /\ total'[c] = total[c] + 1
              /\ \A k \in 1..current[c] + 1: buffer'[c][index[c]][k] = Flushed(c) + k
              /\ Queued("write") => \A k \in 1..Size: buffer'[c][wr_index][k]
                                                        = buffer[c][wr_index][k]
<1>0. Vars /\ \A c \in Channels: HasRoom(c)
  BY DEF IInv, Triggered
<1>1. /\ buffer' \in [Channels -> [0..1 -> [1..Size -> 0..MaxSamples]]]
      /\ total' \in [Channels -> 0..MaxSamples]
      /\ \A c \in Channels:
           /\ total'[c] = total[c] + 1
           /\ \A i \in 0..1, k \in 1..Size:
                buffer'[c][i][k] = IF i = index[c] /\ k = current[c] + 1 THEN total[c] + 1
                                   ELSE buffer[c][i][k]
  BY <1>0, StoreDoes
<1>2. \A c \in Channels: \A k \in 1..current[c] + 1: buffer'[c][index[c]][k] = Flushed(c) + k
  BY <1>0, LatestStored
<1>3. ASSUME NEW c \in Channels, Queued("write"), NEW k \in 1..Size
      PROVE  buffer'[c][wr_index][k] = buffer[c][wr_index][k]
  <2>1. wr_index \in 0..1 /\ wr_index # index[c]
    BY <1>3, OtherBuffer, Values DEF IInv, Triggered
  <2> QED
    BY <1>1, <2>1
<1> QED
  BY <1>1, <1>2, <1>3

\* A sample of every channel that leaves room in the buffers.
LEMMA StoreSampleKeeps == ASSUME IInv, StoreSample PROVE IInv'
<1>1. /\ Triggered /\ Store(Channels) /\ \A c \in Channels: ~Fills(c)
      /\ current' = [c \in Channels |-> current[c] + 1]
      /\ armed' \in BOOLEAN
      /\ cut' = [c \in Channels |-> cut[c] \/ ~armed']
      /\ UNCHANGED <<driver, state, queue, writer, index, table>>
  BY DEF StoreSample
<1>2. /\ QueueOK' /\ (Queued("write")' <=> Queued("write"))
      /\ (WriteFirst <=> WriteFirst') /\ (Runs("drdy") <=> Runs("drdy")')
  BY <1>1, SameQueue DEF IInv
<1>3. /\ buffer' \in [Channels -> [0..1 -> [1..Size -> 0..MaxSamples]]]
      /\ total' \in [Channels -> 0..MaxSamples]
      /\ \A c \in Channels:
           /\ total'[c] = total[c] + 1
           /\ \A k \in 1..current[c] + 1: buffer'[c][index[c]][k] = Flushed(c) + k
           /\ Queued("write") => \A k \in 1..Size: buffer'[c][wr_index][k]
                                                     = buffer[c][wr_index][k]
  BY <1>1, SampleStored
<1>4. \A c \in Channels: /\ current'[c] = current[c] + 1 /\ current'[c] \in 0..Size - 1
                         /\ Flushed(c)' = Flushed(c)
                         /\ cut[c] => cut'[c]
                         /\ total'[c] \in Nat /\ total[c] \in Nat /\ current[c] \in Nat
  <2> TAKE c \in Channels
  <2>1. Size \in Nat /\ current[c] \in Nat /\ current[c] < Size /\ total[c] \in Nat
    BY Values DEF IInv
  <2>2. current'[c] = current[c] + 1 /\ current[c] + 1 # Size /\ total'[c] = total[c] + 1
    BY <1>1, <1>3 DEF Fills
  <2>3. current'[c] \in 0..Size - 1
    BY <2>1, <2>2
  <2>4. Flushed(c)' = Flushed(c) /\ total'[c] \in Nat
    BY <2>1, <2>2 DEF Flushed
  <2>5. cut[c] => cut'[c]
    BY <1>1
  <2> QED
    BY <2>1, <2>2, <2>3, <2>4, <2>5
<1>5. Vars'
  <2>1. current' \in [Channels -> 0..Size - 1] /\ cut' \in [Channels -> BOOLEAN]
    BY <1>1, <1>4 DEF IInv, Vars
  <2> QED
    BY <1>1, <1>3, <2>1 DEF IInv, Vars, writer, table
<1>6. WriterInv'
  BY <1>1, <1>2 DEF IInv, ImuInv, WriterInv, Zephyr, writer
<1>7. MemoryInv'
  <2>1. Zephyr' => \A c, d \in Channels:
          index'[c] = index'[d] /\ current'[c] = current'[d] /\ total'[c] = total'[d]
    <3>1. Zephyr => \A c, d \in Channels:
            index[c] = index[d] /\ current[c] = current[d] /\ total[c] = total[d]
      BY DEF IInv, ImuInv, MemoryInv
    <3>2. UNCHANGED <<driver, index>>
      BY <1>1
    <3> QED
      BY <1>3, <1>4, <3>1, <3>2 DEF Zephyr
  <2>2. \A c \in Channels:
          /\ current'[c] <= total'[c]
          /\ \A k \in 1..current'[c]: buffer'[c][index'[c]][k] = Flushed(c)' + k
    BY <1>1, <1>3, <1>4 DEF IInv, ImuInv, MemoryInv
  <2>3. ASSUME Queued("write")' PROVE \E p \in 0..MaxSamples: BlockIs(p)'
    <3>1. PICK p \in 0..MaxSamples: BlockIs(p)
      BY <1>2, <2>3 DEF IInv, ImuInv, MemoryInv
    <3>2. BlockIs(p)'
      <4>1. UNCHANGED <<wr_index, file, base>>
        BY <1>1 DEF writer, table
      <4>2. \A c \in Channels: /\ Flushed(c)' = Flushed(c) /\ (cut[c] => cut'[c])
                               /\ \A k \in 1..Size: buffer'[c][wr_index][k]
                                                     = buffer[c][wr_index][k]
        BY <1>2, <1>3, <1>4, <2>3
      <4>3. ASSUME NEW c \in Channels
            PROVE  /\ \A k \in 1..Size: buffer'[c][wr_index][k] = p + k
                   /\ p + Size <= Flushed(c)'
                   /\ ~cut'[c] => p + Size = Flushed(c)'
                   /\ \A i \in DOMAIN file[c]: file[c][i] <= p
                   /\ file[c] # <<>> => base[c] <= p
        <5>1. /\ \A k \in 1..Size: buffer[c][wr_index][k] = p + k
              /\ p + Size <= Flushed(c)
              /\ ~cut[c] => p + Size = Flushed(c)
              /\ \A i \in DOMAIN file[c]: file[c][i] <= p
              /\ file[c] # <<>> => base[c] <= p
          BY <3>1 DEF BlockIs
        <5> QED
          BY <4>2, <5>1
      <4> QED
        BY <4>1, <4>3 DEF BlockIs
    <3> QED
      BY <3>2
  <2> QED
    BY <2>1, <2>2, <2>3 DEF MemoryInv
<1>8. ASSUME NEW c \in Channels PROVE FileInv(c)'
  <2>1. FileInv(c) /\ base[c] \in Nat
    BY Values DEF IInv, ImuInv
  <2>2. base'[c] <= total'[c]
    BY <1>1, <1>3, <1>4, <2>1 DEF FileInv, table
  <2> QED
    BY <1>1, <1>2, <1>4, <2>1, <2>2 DEF FileInv, table, Zephyr, Old
<1>9. AlignedInv'
  <2>1. \A c \in Channels: Ended(c) => Ended(c)'
    BY <1>1 DEF Ended, Triggered, table
  <2> QED
    BY <1>1, <2>1 DEF IInv, ImuInv, AlignedInv, Zephyr, table
<1> QED
  BY <1>2, <1>5, <1>6, <1>7, <1>8, <1>9 DEF IInv, ImuInv

\* The sample that fills the buffers: they wait for the writer, and the others are empty.
LEMMA SubmitBlockKeeps == ASSUME IInv, SubmitBlock PROVE IInv'
<1>1. /\ Triggered /\ Store(Channels) /\ \A c \in Channels: current[c] + 1 = Size
      /\ ~busy /\ busy' = TRUE /\ queue' = Append(queue, "write")
      /\ current' = [c \in Channels |-> 0]
      /\ index' = [c \in Channels |-> 1 - index[c]]
      /\ \E c \in Channels: wr_index' = index[c]
      /\ UNCHANGED <<sensor, table, cut>>
  BY DEF SubmitBlock, WriterFree, Fills, Flip
<1>2. ~Queued("write") /\ Runs("drdy") /\ Zephyr
  BY <1>1, OtherBuffer DEF Triggered
<1>3. QueueOK' /\ Queued("write")' /\ Runs("drdy")'
  <2>1. "write" \in Items
    BY DEF Items
  <2> QED
    BY <1>1, <1>2, <2>1, Joins DEF IInv
<1>4. /\ buffer' \in [Channels -> [0..1 -> [1..Size -> 0..MaxSamples]]]
      /\ total' \in [Channels -> 0..MaxSamples]
      /\ \A c \in Channels:
           /\ total'[c] = total[c] + 1
           /\ \A k \in 1..current[c] + 1: buffer'[c][index[c]][k] = Flushed(c) + k
  BY <1>1, SampleStored
<1>5. \A c \in Channels:
        /\ wr_index' = index[c] /\ index'[c] = 1 - wr_index'
        /\ current'[c] = 0 /\ total[c] \in Nat /\ total'[c] \in Nat
        /\ Flushed(c) \in Nat /\ Flushed(c)' = Flushed(c) + Size
        /\ Flushed(c)' = total'[c]
        /\ \A d \in Channels: Flushed(c) = Flushed(d) /\ total'[c] = total'[d]
  <2>1. \A c, d \in Channels:
          index[c] = index[d] /\ current[c] = current[d] /\ total[c] = total[d]
    BY <1>2 DEF IInv, ImuInv, MemoryInv
  <2> TAKE c \in Channels
  <2>2. wr_index' = index[c] /\ index'[c] = 1 - index[c] /\ current'[c] = 0
    BY <1>1, <2>1
  <2>3. /\ total[c] \in Nat /\ current[c] \in Nat /\ current[c] <= total[c]
        /\ total'[c] = total[c] + 1 /\ current[c] + 1 = Size
    BY <1>1, <1>4, Values DEF IInv, ImuInv, MemoryInv
  <2>4. Flushed(c) \in Nat /\ Flushed(c)' = Flushed(c) + Size /\ Flushed(c)' = total'[c]
    BY <2>2, <2>3, SizeAssumption DEF Flushed
  <2>5. \A d \in Channels: Flushed(c) = Flushed(d) /\ total'[c] = total'[d]
    BY <1>4, <2>1 DEF Flushed
  <2> QED
    BY <2>2, <2>3, <2>4, <2>5
<1>6. PICK c0 \in Channels: wr_index' = index[c0]
  BY <1>1
<1>7. wr_index' \in 0..1 /\ 1 - wr_index' \in 0..1 /\ wr_index' # 1 - wr_index'
  <2>1. index[c0] \in 0..1
    BY Values DEF IInv
  <2> QED
    BY <1>6, <2>1
<1>8. Vars'
  <2>1. index' \in [Channels -> 0..1] /\ current' \in [Channels -> 0..Size - 1]
    BY <1>1, <1>5, <1>7, SizeAssumption
  <2>2. busy' \in BOOLEAN
    BY <1>1
  <2> QED
    BY <1>1, <1>4, <1>7, <2>1, <2>2 DEF IInv, Vars, sensor, table
<1>9. WriterInv'
  <2>1. busy' /\ Zephyr' /\ \A c \in Channels: wr_index' # index'[c]
    BY <1>1, <1>2, <1>5, <1>7 DEF Zephyr, sensor
  <2> QED
    BY <1>3, <2>1 DEF WriterInv
<1>10. MemoryInv'
  <2>1. \A c, d \in Channels:
          index'[c] = index'[d] /\ current'[c] = current'[d] /\ total'[c] = total'[d]
    BY <1>5
  <2>2. \A c \in Channels:
          /\ current'[c] <= total'[c]
          /\ \A k \in 1..current'[c]: buffer'[c][index'[c]][k] = Flushed(c)' + k
    BY <1>5
  <2>3. PICK p \in 0..MaxSamples: p = Flushed(c0) /\ p \in Nat
    <3>1. total'[c0] \in 0..MaxSamples /\ Flushed(c0) \in Nat /\ total'[c0] = Flushed(c0) + Size
      BY <1>4, <1>5
    <3>2. Flushed(c0) \in 0..MaxSamples
      BY <3>1, SizeAssumption
    <3> QED
      BY <3>1, <3>2
  <2>4. ASSUME NEW c \in Channels
        PROVE  /\ \A k \in 1..Size: buffer'[c][wr_index'][k] = p + k
               /\ p + Size = Flushed(c)' /\ p = Flushed(c) /\ p \in Nat
    <3>1. p = Flushed(c) /\ p + Size = Flushed(c)' /\ wr_index' = index[c]
      BY <1>5, <2>3
    <3>2. current[c] + 1 = Size /\ \A k \in 1..current[c] + 1:
            buffer'[c][index[c]][k] = Flushed(c) + k
      BY <1>1, <1>4
    <3> QED
      BY <2>3, <3>1, <3>2
  <2>5. ASSUME NEW c \in Channels
        PROVE  /\ \A i \in DOMAIN file[c]: file[c][i] <= p
               /\ file[c] # <<>> => base[c] <= p
    BY <1>2, <2>4 DEF IInv, ImuInv, FileInv
  <2>6. BlockIs(p)'
    <3>1. ASSUME NEW c \in Channels PROVE p + Size <= Flushed(c)'
      BY <2>3, <2>4, SizeAssumption
    <3> QED
      BY <1>1, <2>4, <2>5, <3>1 DEF BlockIs, table
  <2> QED
    BY <2>1, <2>2, <2>3, <2>6 DEF MemoryInv
<1>11. ASSUME NEW c \in Channels PROVE FileInv(c)'
  <2>1. FileInv(c) /\ Vars /\ Size \in Nat
    BY SizeAssumption DEF IInv, ImuInv
  <2>2. /\ base[c] \in Nat /\ Len(file[c]) \in Nat
        /\ \A i \in DOMAIN file[c]: file[c][i] \in Nat
    BY <2>1, Values
  <2>3. /\ base[c] <= total'[c] /\ base[c] <= Flushed(c)'
        /\ \A i \in DOMAIN file[c]: file[c][i] <= Flushed(c)'
    BY <1>2, <1>5, <2>1, <2>2 DEF FileInv
  <2>4. ASSUME NEW old \in Old, opened[c] => Len(file[c]) = Flushed(c) - 0 - base[c] + old
        PROVE  opened[c] => Len(file[c]) = Flushed(c)' - Size - base[c] + old
    <3>1. old = 0
      BY <1>2 DEF Old
    <3> QED
      BY <1>5, <2>1, <2>2, <2>4, <3>1
  <2>5. ~cut[c] => \E old \in Old:
          /\ \A i \in DOMAIN file[c]: file[c][i] = base[c] - old + i
          /\ opened[c] => Len(file[c]) = Flushed(c)' - Size - base[c] + old
    BY <1>2, <2>1, <2>4 DEF FileInv
  <2>6. Old' = Old /\ Zephyr' /\ UNCHANGED <<status, opened, file, base, cut>>
    BY <1>1, <1>2 DEF Old, Zephyr, sensor, table
  <2> QED
    BY <1>2, <1>3, <2>1, <2>3, <2>5, <2>6 DEF FileInv
<1>12. AlignedInv'
  <2>1. \A c \in Channels: Ended(c) => Ended(c)'
    BY <1>1 DEF Ended, Triggered, table
  <2> QED
    BY <1>1, <2>1 DEF IInv, ImuInv, AlignedInv, Zephyr, sensor, table
<1> QED
  BY <1>3, <1>8, <1>9, <1>10, <1>11, <1>12 DEF IInv, ImuInv

\* The sample that fills the buffers while a block still waits: its buffer is emptied.
LEMMA DropBlockKeeps == ASSUME IInv, DropBlock PROVE IInv'
<1>1. /\ Triggered /\ Store(Channels) /\ busy
      /\ current' = [c \in Channels |-> 0]
      /\ armed' \in BOOLEAN /\ cut' = [c \in Channels |-> TRUE]
      /\ UNCHANGED <<driver, state, queue, writer, index, table>>
  BY DEF DropBlock, WriterFree
<1>2. /\ QueueOK' /\ (Queued("write")' <=> Queued("write"))
      /\ (WriteFirst <=> WriteFirst') /\ (Runs("drdy") <=> Runs("drdy")')
  BY <1>1, SameQueue DEF IInv
<1>3. /\ buffer' \in [Channels -> [0..1 -> [1..Size -> 0..MaxSamples]]]
      /\ total' \in [Channels -> 0..MaxSamples]
      /\ \A c \in Channels:
           /\ total'[c] = total[c] + 1
           /\ Queued("write") => \A k \in 1..Size: buffer'[c][wr_index][k]
                                                     = buffer[c][wr_index][k]
  BY <1>1, SampleStored
<1>4. \A c \in Channels: /\ current'[c] = 0 /\ total[c] \in Nat /\ total'[c] = total[c] + 1
                         /\ Flushed(c) \in Int /\ Flushed(c) <= Flushed(c)' /\ cut'[c]
                         /\ Flushed(c)' = total'[c]
  <2> TAKE c \in Channels
  <2>1. current[c] \in Nat /\ total[c] \in Nat
    BY Values DEF IInv
  <2> QED
    BY <1>1, <1>3, <2>1 DEF Flushed
<1>5. Vars'
  <2>1. current' \in [Channels -> 0..Size - 1] /\ cut' \in [Channels -> BOOLEAN]
    BY <1>1, SizeAssumption
  <2> QED
    BY <1>1, <1>3, <2>1 DEF IInv, Vars, writer, table
<1>6. WriterInv'
  BY <1>1, <1>2 DEF IInv, ImuInv, WriterInv, Zephyr, writer
<1>7. MemoryInv'
  <2>1. Zephyr' => \A c, d \in Channels:
          index'[c] = index'[d] /\ current'[c] = current'[d] /\ total'[c] = total'[d]
    <3>1. Zephyr => \A c, d \in Channels:
            index[c] = index[d] /\ current[c] = current[d] /\ total[c] = total[d]
      BY DEF IInv, ImuInv, MemoryInv
    <3>2. UNCHANGED <<driver, index>>
      BY <1>1
    <3> QED
      BY <1>3, <1>4, <3>1, <3>2 DEF Zephyr
  <2>2. \A c \in Channels:
          /\ current'[c] <= total'[c]
          /\ \A k \in 1..current'[c]: buffer'[c][index'[c]][k] = Flushed(c)' + k
    BY <1>4
  <2>3. ASSUME Queued("write")' PROVE \E p \in 0..MaxSamples: BlockIs(p)'
    <3>1. PICK p \in 0..MaxSamples: BlockIs(p)
      BY <1>2, <2>3 DEF IInv, ImuInv, MemoryInv
    <3>2. ASSUME NEW c \in Channels PROVE p + Size <= Flushed(c)'
      <4>1. p + Size <= Flushed(c) /\ p + Size \in Int /\ Flushed(c)' \in Int
        BY <1>4, <3>1, SizeAssumption DEF BlockIs
      <4> QED
        BY <1>4, <4>1
    <3>3. BlockIs(p)'
      BY <1>1, <1>2, <1>3, <1>4, <2>3, <3>1, <3>2 DEF BlockIs, writer, table
    <3> QED
      BY <3>3
  <2> QED
    BY <2>1, <2>2, <2>3 DEF MemoryInv
<1>8. ASSUME NEW c \in Channels PROVE FileInv(c)'
  <2>1. FileInv(c) /\ Vars
    BY DEF IInv, ImuInv
  <2>2. /\ base[c] \in Nat /\ \A i \in DOMAIN file[c]: file[c][i] \in Nat
    BY <2>1, Values
  <2>3. /\ base[c] <= total'[c] /\ base[c] <= Flushed(c)'
        /\ \A i \in DOMAIN file[c]: file[c][i] <= Flushed(c)'
    BY <1>4, <2>1, <2>2 DEF FileInv
  <2>4. /\ cut'[c] /\ (Zephyr' <=> Zephyr) /\ UNCHANGED <<status, opened, file, base>>
    BY <1>1, <1>4 DEF Zephyr, table
  <2> QED
    BY <2>1, <2>3, <2>4 DEF FileInv
<1>9. AlignedInv'
  <2>1. \A c \in Channels: Ended(c) => Ended(c)'
    BY <1>1 DEF Ended, Triggered, table
  <2> QED
    BY <1>1, <2>1 DEF IInv, ImuInv, AlignedInv, Zephyr, table
<1> QED
  BY <1>2, <1>5, <1>6, <1>7, <1>8, <1>9 DEF IInv, ImuInv

\* What a write may do: one that does not fail is to a file that is open.
LEMMA Outcome ==
  ASSUME NEW c \in Channels, NEW o \in WriteOutcomes(c)
  PROVE  /\ o.n \in 0..Size
         /\ StatusAfterWrite(c, o) \in {"INACTIVE", "ACTIVE", "ERR"}
         /\ ~o.failed => opened[c]
         /\ StatusAfterWrite(c, o) = "ACTIVE" => opened[c]
<1>1. o.n \in 0..Size
  BY SizeAssumption DEF WriteOutcomes
<1>2. ~o.failed => opened[c]
  BY DEF WriteOutcomes
<1> QED
  BY <1>1, <1>2 DEF StatusAfterWrite

\* The closed driver: it has no writer, and its buffer is written where it is filled.
LEMMA PrintSensorDataKeeps ==
  ASSUME IInv, NEW c \in Channels, PrintSensorData(c) PROVE IInv'
<1>1. /\ ~Zephyr /\ HasRoom(c) /\ Store({c})
      /\ UNCHANGED <<sensor, queue, writer, opened, base>>
  BY DEF PrintSensorData, table
<1>2. QueueOK' /\ ~busy /\ ~Queued("write") /\ ~Queued("write")'
  BY <1>1, SameQueue DEF IInv, ImuInv, WriterInv
<1>3. /\ buffer' \in [Channels -> [0..1 -> [1..Size -> 0..MaxSamples]]]
      /\ total' \in [Channels -> 0..MaxSamples]
      /\ total'[c] = total[c] + 1
      /\ \A d \in Channels \ {c}: total'[d] = total[d] /\ buffer'[d] = buffer[d]
      /\ \A k \in 1..current[c] + 1: buffer'[c][index[c]][k] = Flushed(c) + k
  <2>1. \A d \in {c}: HasRoom(d)
    BY <1>1
  <2> QED
    BY <1>1, <2>1, StoreDoes, LatestStored DEF IInv
<1>4. Vars /\ FileInv(c) /\ current[c] <= total[c] /\ \A d \in Channels: FileInv(d)
  BY DEF IInv, ImuInv, MemoryInv
<1>5. /\ Size \in Nat \ {0} /\ index[c] \in 0..1 /\ current[c] \in Nat /\ current[c] < Size
      /\ total[c] \in Nat /\ base[c] \in Nat /\ file[c] \in Seq(1..MaxSamples)
      /\ \A i \in DOMAIN file[c]: file[c][i] \in Nat
  BY <1>4, Values
<1>6. ~Zephyr' /\ UNCHANGED <<driver, state, armed, busy, wr_index>> /\ Old' = Old
  BY <1>1 DEF Zephyr, Old, sensor, writer
<1>7. CASE current[c] + 1 # Size
  <2>1. /\ current' = [current EXCEPT ![c] = @ + 1]
        /\ UNCHANGED <<index, table, cut>>
    BY <1>7 DEF PrintSensorData, Fills
  <2>2. current'[c] = current[c] + 1 /\ \A d \in Channels \ {c}: current'[d] = current[d]
    BY <1>4, <2>1 DEF Vars
  <2>3. Flushed(c)' = Flushed(c) /\ \A d \in Channels \ {c}: Flushed(d)' = Flushed(d)
    BY <1>3, <1>5, <2>2 DEF Flushed
  <2>4. Vars'
    <3>1. current[c] + 1 \in 0..Size - 1
      BY <1>5, <1>7
    <3>2. current' \in [Channels -> 0..Size - 1]
      BY <1>4, <2>1, <3>1 DEF Vars
    <3> QED
      BY <1>3, <1>4, <1>6, <2>1, <3>2 DEF Vars, table
  <2>5. MemoryInv'
    <3>1. \A d \in Channels \ {c}:
            /\ current'[d] <= total'[d]
            /\ \A k \in 1..current'[d]: buffer'[d][index'[d]][k] = Flushed(d)' + k
      <4> TAKE d \in Channels \ {c}
      <4>1. /\ current[d] <= total[d]
            /\ \A k \in 1..current[d]: buffer[d][index[d]][k] = Flushed(d) + k
        BY DEF IInv, ImuInv, MemoryInv
      <4>2. /\ current'[d] = current[d] /\ total'[d] = total[d] /\ buffer'[d] = buffer[d]
            /\ index'[d] = index[d] /\ Flushed(d)' = Flushed(d)
        BY <1>3, <2>1, <2>2, <2>3
      <4> QED
        BY <4>1, <4>2
    <3>2. /\ current'[c] <= total'[c]
          /\ \A k \in 1..current'[c]: buffer'[c][index'[c]][k] = Flushed(c)' + k
      BY <1>3, <1>4, <1>5, <2>1, <2>2, <2>3
    <3> QED
      BY <1>2, <1>6, <3>1, <3>2 DEF MemoryInv
  <2>6. ASSUME NEW d \in Channels PROVE FileInv(d)'
    <3>1. base[d] <= total'[d]
      <4>1. base[d] <= total[d] /\ base[d] \in Nat /\ total[d] \in Nat
        BY <1>4, Values DEF FileInv
      <4> QED
        BY <1>3, <4>1
    <3>2. Flushed(d)' = Flushed(d)
      BY <2>3
    <3>3. FileInv(d) /\ UNCHANGED <<status, opened, file, base, cut>>
      BY <1>4, <2>1 DEF table
    <3> QED
      BY <1>1, <1>2, <1>6, <3>1, <3>2, <3>3 DEF FileInv
  <2>7. WriterInv' /\ AlignedInv'
    BY <1>2, <1>6 DEF WriterInv, AlignedInv
  <2> QED
    BY <1>2, <2>4, <2>5, <2>6, <2>7 DEF IInv, ImuInv
<1>8. CASE current[c] + 1 = Size
  <2> DEFINE b == buffer'[c][index[c]]
  <2>1. PICK o \in WriteOutcomes(c):
          /\ file' = [file EXCEPT ![c] = @ \o SubSeq(b, 1, o.n)]
          /\ status' = [status EXCEPT ![c] = StatusAfterWrite(c, o)]
          /\ full' = IF o.failed \/ o.n = Size THEN full ELSE full \cup {c}
          /\ cut' = [cut EXCEPT ![c] = @ \/ o.failed \/ o.n < Size]
    BY <1>8 DEF PrintSensorData, Fills
  <2>2. current' = [current EXCEPT ![c] = 0] /\ index' = [index EXCEPT ![c] = 1 - @]
    BY <1>8 DEF PrintSensorData, Fills, Flip
  <2>3. /\ o.n \in 0..Size
        /\ StatusAfterWrite(c, o) \in {"INACTIVE", "ACTIVE", "ERR"}
        /\ ~o.failed => opened[c]
        /\ StatusAfterWrite(c, o) = "ACTIVE" => opened[c]
    BY Outcome
  <2>4. b \in [1..Size -> 1..MaxSamples]
    <3>1. b \in [1..Size -> 0..MaxSamples] /\ \A k \in 1..Size: b[k] = Flushed(c) + k
      BY <1>3, <1>5, <1>8
    <3>2. Flushed(c) \in Nat
      BY <1>4, <1>5 DEF Flushed
    <3> HIDE DEF b
    <3>3. ASSUME NEW k \in 1..Size PROVE b[k] \in 1..MaxSamples
      <4>1. b[k] \in 0..MaxSamples /\ b[k] = Flushed(c) + k /\ k \in Nat \ {0}
        BY <1>5, <3>1
      <4> QED
        BY <3>2, <4>1
    <3> QED
      BY <3>1, <3>3
  <2> DEFINE g == file[c] \o SubSeq(b, 1, o.n)
  <2>5. /\ Longer(g, file[c], o.n, Flushed(c))
        /\ Increasing(g)
        /\ \A i \in DOMAIN g: g[i] <= Flushed(c) + Size /\ (i > Size - 1 => base[c] < g[i])
    <3>1. Flushed(c) \in Nat /\ Flushed(c) + Size = total[c] + 1
      BY <1>4, <1>5, <1>8 DEF Flushed
    <3>2. Longer(g, file[c], o.n, Flushed(c))
      <4>1. \A k \in 1..Size: b[k] = Flushed(c) + k
        BY <1>3, <1>8
      <4> HIDE DEF b
      <4> QED
        BY <1>5, <2>3, <2>4, <4>1, Appended
    <3>3. Fits(file[c], Flushed(c), base[c], Size - 1)
      <4>1. \A i \in DOMAIN file[c]: i > Size - 1 => base[c] < file[c][i]
        <5>1. DOMAIN file[c] \subseteq Nat
          BY <1>4, Values
        <5>2. \A i \in DOMAIN file[c]: i > Size \/ i = Size => base[c] < file[c][i]
          BY <1>1, <1>4 DEF FileInv
        <5> QED
          BY <1>5, <5>1, <5>2
      <4>2. \A i \in DOMAIN file[c]: file[c][i] <= Flushed(c)
        BY <1>4 DEF FileInv
      <4>3. base[c] < Flushed(c) + Size
        BY <1>4, <1>5, <3>1 DEF FileInv
      <4>4. file[c] # <<>> => base[c] <= Flushed(c)
        BY <1>1, <1>4 DEF FileInv
      <4>5. Increasing(file[c])
        BY <1>4 DEF FileInv, Increasing
      <4>6. Size - 1 \in Int /\ Size - 1 >= Size - 1
        BY <1>5
      <4> QED
        BY <1>5, <3>1, <4>1, <4>2, <4>3, <4>4, <4>5, <4>6 DEF Fits
    <3> HIDE DEF b, g
    <3> QED
      BY <3>2, <3>3, Grown
  <2>6. /\ file'[c] = g /\ status'[c] = StatusAfterWrite(c, o) /\ current'[c] = 0
        /\ index'[c] = 1 - index[c] /\ (cut'[c] <=> cut[c] \/ o.failed \/ o.n < Size)
        /\ Flushed(c)' = Flushed(c) + Size /\ Flushed(c)' = total'[c] /\ Flushed(c) \in Nat
    <3>1. /\ file'[c] = g /\ status'[c] = StatusAfterWrite(c, o) /\ current'[c] = 0
          /\ index'[c] = 1 - index[c]
      BY <1>4, <2>1, <2>2 DEF Vars
    <3>2. cut'[c] <=> cut[c] \/ o.failed \/ o.n < Size
      BY <1>4, <2>1 DEF Vars
    <3>3. Flushed(c)' = total'[c] - 0 /\ total'[c] = total[c] + 1
      BY <1>3, <3>1 DEF Flushed
    <3> QED
      BY <1>4, <1>5, <1>8, <3>1, <3>2, <3>3 DEF Flushed
  <2>7. \A d \in Channels \ {c}:
          /\ file'[d] = file[d] /\ status'[d] = status[d] /\ current'[d] = current[d]
          /\ index'[d] = index[d] /\ cut'[d] = cut[d] /\ Flushed(d)' = Flushed(d)
    BY <1>3, <1>4, <2>1, <2>2 DEF Vars, Flushed
  <2> HIDE DEF b, g
  <2>8. Vars'
    <3>1. /\ file' \in [Channels -> Seq(1..MaxSamples)]
          /\ status' \in [Channels -> {"INACTIVE", "ACTIVE", "ERR"}]
      BY <1>4, <2>1, <2>3, <2>5 DEF Vars, Longer, g
    <3>2. current' \in [Channels -> 0..Size - 1]
      BY <1>4, <2>2, SizeAssumption DEF Vars
    <3>3. index' \in [Channels -> 0..1]
      <4>1. 1 - index[c] \in 0..1
        BY <1>5
      <4> QED
        BY <1>4, <2>2, <4>1 DEF Vars
    <3>4. cut' \in [Channels -> BOOLEAN]
      BY <1>4, <2>1 DEF Vars
    <3>5. full' \subseteq Channels
      BY <1>4, <2>1 DEF Vars
    <3> QED
      BY <1>1, <1>3, <1>4, <1>6, <3>1, <3>2, <3>3, <3>4, <3>5 DEF Vars
  <2>9. MemoryInv'
    <3>1. \A d \in Channels \ {c}:
            /\ current'[d] <= total'[d]
            /\ \A k \in 1..current'[d]: buffer'[d][index'[d]][k] = Flushed(d)' + k
      BY <1>3, <2>7 DEF IInv, ImuInv, MemoryInv
    <3>2. /\ current'[c] <= total'[c]
          /\ \A k \in 1..current'[c]: buffer'[c][index'[c]][k] = Flushed(c)' + k
      BY <1>3, <1>5, <2>6
    <3> QED
      BY <1>2, <1>6, <3>1, <3>2 DEF MemoryInv
  <2>10. ASSUME NEW d \in Channels \ {c} PROVE FileInv(d)'
    <3>1. base[d] <= total'[d]
      BY <1>3, <1>4 DEF FileInv
    <3>2. FileInv(d) /\ UNCHANGED <<opened, base>>
      BY <1>1, <1>4
    <3> QED
      BY <1>1, <1>2, <1>6, <2>7, <3>1, <3>2 DEF FileInv
  <2>11. FileInv(c)'
    <3>1. base'[c] <= Flushed(c)' /\ base'[c] <= total'[c] /\ base'[c] = base[c]
      BY <1>1, <1>3, <1>4, <1>5, <2>6 DEF FileInv
    <3>2. /\ \A i, j \in DOMAIN g: i < j => g[i] < g[j]
          /\ \A i \in DOMAIN g: /\ g[i] <= Flushed(c)'
                                /\ i > Size \/ i = Size => base[c] < g[i]
      <4>1. \A i, j \in DOMAIN g: i < j => g[i] < g[j]
        BY <2>5 DEF Increasing
      <4>2. ASSUME NEW i \in DOMAIN g
            PROVE  g[i] <= Flushed(c)' /\ (i > Size \/ i = Size => base[c] < g[i])
        <5>1. DOMAIN g = 1..Len(file[c]) + o.n /\ o.n \in Nat /\ Len(file[c]) \in Nat
          BY <1>5, <2>3, <2>5 DEF Longer
        <5>2. i \in Nat
          BY <5>1
        <5>3. g[i] <= Flushed(c) + Size /\ (i > Size - 1 => base[c] < g[i])
          BY <2>5
        <5>4. i > Size \/ i = Size => i > Size - 1
          BY <1>5, <5>2
        <5> QED
          BY <2>6, <5>3, <5>4
      <4> QED
        BY <4>1, <4>2
    <3>3. ASSUME ~cut'[c]
          PROVE  \E old \in Old: /\ \A i \in DOMAIN g: g[i] = base[c] - old + i
                                 /\ Len(g) = Flushed(c)' - 0 - base[c] + old
      <4>1. ~cut[c] /\ o.n = Size /\ opened[c]
        BY <1>5, <2>3, <2>6, <3>3
      <4>2. PICK old \in Old:
              /\ \A i \in DOMAIN file[c]: file[c][i] = base[c] - old + i
              /\ Len(file[c]) = Flushed(c) - 0 - base[c] + old
        BY <1>2, <1>4, <4>1 DEF FileInv
      <4>3. old \in Int
        BY <1>5 DEF Old
      <4>4. Len(g) = Flushed(c)' - 0 - base[c] + old
        BY <1>5, <2>5, <2>6, <4>1, <4>2, <4>3 DEF Longer
      <4>5. DOMAIN g = 1..Len(file[c]) + Size /\ DOMAIN file[c] = 1..Len(file[c])
        BY <1>5, <2>5, <4>1 DEF Longer
      <4>6. ASSUME NEW i \in DOMAIN g PROVE g[i] = base[c] - old + i
        <5>1. CASE i \in 1..Len(file[c])
          BY <2>5, <4>2, <4>5, <5>1 DEF Longer
        <5>2. CASE i \notin 1..Len(file[c])
          <6>1. i - Len(file[c]) \in 1..o.n /\ i = Len(file[c]) + (i - Len(file[c]))
            BY <1>5, <2>5, <4>1, <4>5, <5>2 DEF Longer
          <6>2. g[i] = Flushed(c) + (i - Len(file[c]))
            BY <2>5, <6>1 DEF Longer
          <6>3. i \in Nat /\ Flushed(c) \in Nat /\ Len(file[c]) \in Nat
            BY <1>5, <2>5, <2>6, <4>5 DEF Longer
          <6> QED
            BY <1>5, <4>2, <4>3, <6>2, <6>3
        <5> QED
          BY <5>1, <5>2
      <4> QED
        BY <4>4, <4>6
    <3>4. status'[c] = "ACTIVE" => opened'[c]
      BY <1>1, <2>3, <2>6
    <3> QED
      BY <1>2, <1>6, <2>6, <3>1, <3>2, <3>3, <3>4 DEF FileInv
  <2>12. WriterInv' /\ AlignedInv'
    BY <1>2, <1>6 DEF WriterInv, AlignedInv
  <2> QED
    BY <1>2, <2>8, <2>9, <2>10, <2>11, <2>12 DEF IInv, ImuInv
<1> QED
  BY <1>7, <1>8

\* What the writer makes of a channel's file.
LEMMA BlockWritten ==
  ASSUME IInv, Zephyr, NEW c \in Channels, NEW p \in 0..MaxSamples, BlockIs(p),
         NEW n \in 0..Size
  PROVE  LET g == file[c] \o SubSeq(buffer[c][wr_index], 1, n)
         IN  /\ Longer(g, file[c], n, p) /\ Increasing(g)
             /\ \A i \in DOMAIN g: g[i] <= Flushed(c) /\ (i > Size => base[c] < g[i])
<1> DEFINE b == buffer[c][wr_index]
           g == file[c] \o SubSeq(b, 1, n)
<1>1. /\ Size \in Nat \ {0} /\ MaxSamples \in Nat /\ p \in Nat /\ base[c] \in Nat
      /\ file[c] \in Seq(1..MaxSamples) /\ DOMAIN file[c] \subseteq Nat
      /\ \A i \in DOMAIN file[c]: file[c][i] \in Nat
      /\ b \in [1..Size -> 0..MaxSamples] /\ Flushed(c) \in Int
  <2>1. /\ file[c] \in Seq(1..MaxSamples) /\ DOMAIN file[c] = 1..Len(file[c])
        /\ \A i \in DOMAIN file[c]: file[c][i] \in 1..MaxSamples
        /\ Size \in Nat \ {0} /\ MaxSamples \in Nat /\ base[c] \in Nat
        /\ wr_index \in 0..1 /\ buffer[c] \in [0..1 -> [1..Size -> 0..MaxSamples]]
        /\ Flushed(c) \in Int
    BY Values DEF IInv
  <2>2. DOMAIN file[c] \subseteq Nat
    BY <2>1
  <2>3. \A i \in DOMAIN file[c]: file[c][i] \in Nat
    BY <2>1
  <2> QED
    BY <2>1, <2>2, <2>3
<1>2. FileInv(c)
  BY DEF IInv, ImuInv
<1>3. /\ \A k \in 1..Size: b[k] = p + k
      /\ p + Size <= Flushed(c)
      /\ \A i \in DOMAIN file[c]: file[c][i] <= p
      /\ file[c] # <<>> => base[c] <= p
  BY DEF BlockIs
<1> HIDE DEF b
<1>4. b \in [1..Size -> 1..MaxSamples]
  <2>1. ASSUME NEW k \in 1..Size PROVE b[k] \in 1..MaxSamples
    <3>1. b[k] \in 0..MaxSamples /\ b[k] = p + k /\ k \in Nat \ {0}
      BY <1>1, <1>3
    <3> QED
      BY <1>1, <3>1
  <2> QED
    BY <1>1, <2>1
<1>5. Longer(g, file[c], n, p)
  BY <1>1, <1>3, <1>4, Appended
<1>6. Fits(file[c], p, base[c], Size)
  <2>1. Increasing(file[c])
    BY <1>2 DEF FileInv, Increasing
  <2>2. \A i \in DOMAIN file[c]: i > Size => base[c] < file[c][i]
    BY <1>2 DEF FileInv
  <2>3. Size \in Int /\ Size >= Size - 1 /\ Size >= Size
    BY <1>1
  <2> QED
    BY <1>1, <1>3, <2>1, <2>2, <2>3 DEF Fits
<1> HIDE DEF g
<1>7. /\ Increasing(g)
      /\ \A i \in DOMAIN g: g[i] <= p + Size /\ (i > Size => base[c] < g[i])
  BY <1>5, <1>6, Grown
<1>8. ASSUME NEW i \in DOMAIN g PROVE g[i] <= Flushed(c)
  <2>1. g[i] \in Nat
    <3>1. g \in Seq(1..MaxSamples)
      BY <1>5 DEF Longer
    <3>2. g[i] \in 1..MaxSamples
      BY <1>8, <3>1, ElementOfSeq, LenProperties
    <3> QED
      BY <1>1, <3>2
  <2>2. g[i] <= p + Size
    BY <1>7
  <2> QED
    BY <1>1, <1>3, <2>1, <2>2
<1> QED
  BY <1>5, <1>7, <1>8 DEF g, b

\* Two files that agree as far as both go still do when they get the same block, if the
\* shorter one gets none of it.
LEMMA AgreeStill ==
  ASSUME NEW f1, NEW f2, NEW g1, NEW g2, NEW n1, NEW n2, NEW p \in Nat,
         Longer(g1, f1, n1, p), Longer(g2, f2, n2, p),
         f1 \in Seq(1..MaxSamples), f2 \in Seq(1..MaxSamples),
         \A i \in DOMAIN f1 \cap DOMAIN f2: f1[i] = f2[i],
         Len(f1) < Len(f2) => n1 = 0,
         Len(f2) < Len(f1) => n2 = 0
  PROVE  /\ \A i \in DOMAIN g1 \cap DOMAIN g2: g1[i] = g2[i]
         /\ Len(g1) < Len(g2) => Len(f1) < Len(f2) \/ n1 < Size
<1> DEFINE l1 == Len(f1)
           l2 == Len(f2)
<1>1. /\ l1 \in Nat /\ l2 \in Nat /\ n1 \in Nat /\ n2 \in Nat /\ Size \in Nat
      /\ n1 <= Size /\ n2 <= Size
      /\ DOMAIN f1 = 1..l1 /\ DOMAIN f2 = 1..l2
      /\ Len(g1) = l1 + n1 /\ Len(g2) = l2 + n2
      /\ DOMAIN g1 = 1..l1 + n1 /\ DOMAIN g2 = 1..l2 + n2
  BY SizeAssumption DEF Longer
<1>2. /\ \A i \in 1..l1: g1[i] = f1[i]
      /\ \A i \in 1..l2: g2[i] = f2[i]
      /\ \A k \in 1..n1: g1[l1 + k] = p + k
      /\ \A k \in 1..n2: g2[l2 + k] = p + k
  BY DEF Longer
<1>3. /\ \A i \in 1..l1: i \in 1..l2 => f1[i] = f2[i]
      /\ l1 < l2 => n1 = 0
      /\ l2 < l1 => n2 = 0
  BY <1>1
<1> HIDE DEF l1, l2
<1>4. ASSUME NEW i \in DOMAIN g1 \cap DOMAIN g2 PROVE g1[i] = g2[i]
  <2>0. i \in Nat /\ 1 <= i /\ i <= l1 + n1 /\ i <= l2 + n2
    BY <1>1
  <2>1. CASE i <= l1 /\ i <= l2
    <3>1. i \in 1..l1 /\ i \in 1..l2
      BY <1>1, <2>0, <2>1
    <3> QED
      BY <1>2, <1>3, <3>1
  <2>2. CASE ~(i <= l1 /\ i <= l2)
    <3>1. l1 = l2 /\ i > l1
      BY <1>1, <1>3, <2>0, <2>2
    <3>2. i - l1 \in 1..n1 /\ i - l1 \in 1..n2 /\ i = l1 + (i - l1)
      BY <1>1, <2>0, <3>1
    <3>3. g1[i] = p + (i - l1)
      BY <1>2, <3>2
    <3>4. g2[i] = p + (i - l1)
      BY <1>2, <3>1, <3>2
    <3> QED
      BY <3>3, <3>4
  <2> QED
    BY <2>1, <2>2
<1>5. Len(g1) < Len(g2) => l1 < l2 \/ n1 < Size
  BY <1>1, <1>3
<1> QED
  BY <1>4, <1>5 DEF l1, l2

\* A file that cannot get longer gets none of the block.
LEMMA NoneWritten ==
  ASSUME NEW c \in Channels, Ended(c), Queued("write"), NEW o \in WriteOutcomes(c)
  PROVE  o.n = 0 /\ (c \in full \/ ~opened[c])
BY DEF WriteOutcomes, Ended

\* An index behind the first m.
LEMMA Behind ==
  ASSUME NEW m \in Nat, NEW n \in Nat, NEW i \in 1..m + n, i \notin 1..m
  PROVE  i \in Nat /\ i - m \in 1..n /\ i = m + (i - m)
OBVIOUS

\* The writer's item: of the block, each file gets as much as the card takes.
LEMMA WriteBlockKeeps == ASSUME IInv, WriteBlock PROVE IInv'
<1> DEFINE g(c, n) == file[c] \o SubSeq(buffer[c][wr_index], 1, n)
<1>1. /\ Done("write") /\ busy' = FALSE
      /\ UNCHANGED <<driver, state, wr_index, buffer, position, base, total>>
  BY DEF WriteBlock
<1>2. PICK o \in [Channels -> [n: 0..Size, failed: BOOLEAN]]:
        /\ \A c \in Channels: o[c] \in WriteOutcomes(c)
        /\ file' = [c \in Channels |-> g(c, o[c].n)]
        /\ full' = full \cup {c \in Channels: ~o[c].failed /\ o[c].n < Size}
        /\ cut' = [c \in Channels |-> cut[c] \/ o[c].failed \/ o[c].n < Size]
        /\ LET st == [c \in Channels |-> StatusAfterWrite(c, o[c])]
           IN  IF WriteFailed(o)
               THEN \E ok \in BOOLEAN: StopDriver(st, ok)
               ELSE status' = st /\ UNCHANGED <<opened, armed>>
  BY DEF WriteBlock
<1>3. QueueOK' /\ Queued("write") /\ ~Queued("write")' /\ (WriteFirst => WriteFirst')
  <2>1. "write" \in Items
    BY DEF Items
  <2> QED
    BY <1>1, <2>1, Leaves DEF IInv
<1>4. Zephyr /\ Vars /\ \A c \in Channels: FileInv(c)
  BY <1>3 DEF IInv, ImuInv, WriterInv
<1>5. PICK p \in 0..MaxSamples: BlockIs(p)
  BY <1>3 DEF IInv, ImuInv, MemoryInv
<1>6. \A c \in Channels: /\ o[c].n \in 0..Size
                         /\ StatusAfterWrite(c, o[c]) \in {"INACTIVE", "ACTIVE", "ERR"}
                         /\ ~o[c].failed => opened[c]
                         /\ StatusAfterWrite(c, o[c]) = "ACTIVE" => opened[c]
  BY <1>2, Outcome
<1>7. \A c \in Channels:
        /\ file'[c] = g(c, o[c].n)
        /\ Longer(file'[c], file[c], o[c].n, p) /\ Increasing(file'[c])
        /\ \A i \in DOMAIN file'[c]: file'[c][i] <= Flushed(c)
                                     /\ (i > Size => base[c] < file'[c][i])
  <2> TAKE c \in Channels
  <2>1. file'[c] = g(c, o[c].n)
    BY <1>2
  <2>2. /\ Longer(g(c, o[c].n), file[c], o[c].n, p) /\ Increasing(g(c, o[c].n))
        /\ \A i \in DOMAIN g(c, o[c].n): g(c, o[c].n)[i] <= Flushed(c)
                                         /\ (i > Size => base[c] < g(c, o[c].n)[i])
    BY <1>4, <1>5, <1>6, BlockWritten
  <2> QED
    BY <2>1, <2>2
<1>8. /\ armed' \in BOOLEAN /\ (armed' => armed) /\ (WriteFailed(o) => ~armed')
      /\ status' \in [Channels -> {"INACTIVE", "ACTIVE", "ERR"}]
      /\ opened' \in [Channels -> BOOLEAN]
      /\ \A c \in Channels: /\ opened'[c] => opened[c]
                            /\ status'[c] = "ACTIVE" => opened'[c]
  <2> DEFINE st == [c \in Channels |-> StatusAfterWrite(c, o[c])]
  <2>1. /\ st \in [Channels -> {"INACTIVE", "ACTIVE", "ERR"}]
        /\ \A c \in Channels: st[c] = "ACTIVE" => opened[c]
    BY <1>6
  <2>2. IF WriteFailed(o) THEN \E ok \in BOOLEAN: StopDriver(st, ok)
        ELSE status' = st /\ UNCHANGED <<opened, armed>>
    BY <1>2
  <2> HIDE DEF st
  <2>3. CASE WriteFailed(o)
    BY <1>4, <2>1, <2>2, <2>3, StopDriverDoes
  <2>4. CASE ~WriteFailed(o)
    BY <1>4, <2>1, <2>2, <2>4 DEF Vars
  <2> QED
    BY <2>3, <2>4
<1> HIDE DEF g
<1>9. UNCHANGED <<driver, state, wr_index, buffer, index, current, base, total>>
  BY <1>1 DEF position
<1>10. Vars'
  <2>1. file' \in [Channels -> Seq(1..MaxSamples)]
    <3>1. \A c \in Channels: g(c, o[c].n) \in Seq(1..MaxSamples)
      BY <1>7 DEF Longer
    <3> QED
      BY <1>2, <3>1
  <2>2. full' \subseteq Channels /\ cut' \in [Channels -> BOOLEAN]
    BY <1>2, <1>4 DEF Vars
  <2>3. busy' \in BOOLEAN
    BY <1>1
  <2> QED
    BY <1>4, <1>8, <1>9, <2>1, <2>2, <2>3 DEF Vars
<1>11. WriterInv'
  BY <1>1, <1>3 DEF WriterInv
<1>12. MemoryInv'
  BY <1>3, <1>9 DEF IInv, ImuInv, MemoryInv, Zephyr, Flushed
<1>13. (Zephyr <=> Zephyr') /\ Old' = Old /\ \A c \in Channels: Flushed(c)' = Flushed(c)
  BY <1>9 DEF Zephyr, Old, Flushed
<1>14. ASSUME NEW c \in Channels PROVE FileInv(c)'
  <2>1. base[c] <= total[c] /\ base[c] <= Flushed(c)
    BY <1>4 DEF FileInv
  <2>2. \A i, j \in DOMAIN file'[c]: i < j => file'[c][i] < file'[c][j]
    BY <1>7 DEF Increasing
  <2>3. ASSUME ~cut'[c]
        PROVE  /\ 0 \in Old
               /\ \A i \in DOMAIN file'[c]: file'[c][i] = base[c] - 0 + i
               /\ Len(file'[c]) = Flushed(c) - 0 - base[c] + 0
    <3>1. /\ Size \in Nat \ {0} /\ base[c] \in Nat /\ Flushed(c) \in Int
          /\ Len(file[c]) \in Nat /\ DOMAIN file[c] = 1..Len(file[c])
      BY <1>4, Values
    <3>2. ~cut[c] /\ ~o[c].failed /\ ~(o[c].n < Size)
      BY <1>2, <2>3
    <3>3. o[c].n = Size /\ opened[c] /\ p + Size = Flushed(c) /\ p \in Nat
      <4>1. o[c].n \in Nat /\ o[c].n <= Size
        BY <1>6, <3>1
      <4>2. MaxSamples \in Nat
        BY SizeAssumption
      <4> QED
        BY <1>5, <1>6, <3>1, <3>2, <4>1, <4>2 DEF BlockIs
    <3>4. Old = {0}
      BY <1>4 DEF Old
    <3>5. /\ \A i \in DOMAIN file[c]: file[c][i] = base[c] - 0 + i
          /\ Len(file[c]) = Flushed(c) - Size - base[c] + 0
      BY <1>3, <1>4, <3>2, <3>3, <3>4 DEF FileInv
    <3>6. /\ Len(file'[c]) = Len(file[c]) + Size
          /\ DOMAIN file'[c] = 1..Len(file[c]) + Size
          /\ \A i \in 1..Len(file[c]): file'[c][i] = file[c][i]
          /\ \A k \in 1..Size: file'[c][Len(file[c]) + k] = p + k
      BY <1>7, <3>3 DEF Longer
    <3>7. ASSUME NEW i \in DOMAIN file'[c] PROVE file'[c][i] = base[c] - 0 + i
      <4>1. PICK m \in Nat: m = Len(file[c])
        BY <3>1
      <4>2. /\ i \in 1..m + Size /\ m = Flushed(c) - Size - base[c] + 0
            /\ \A j \in 1..m: file'[c][j] = base[c] - 0 + j
            /\ \A k \in 1..Size: file'[c][m + k] = p + k
        BY <3>1, <3>5, <3>6, <4>1
      <4>3. CASE i \in 1..m
        BY <4>2, <4>3
      <4>4. CASE i \notin 1..m
        <5>1. i \in 1..m + Size /\ Size \in Nat
          BY <3>1, <4>2
        <5>2. i \in Nat /\ i - m \in 1..Size /\ i = m + (i - m)
          BY <4>4, <5>1, Behind
        <5>3. file'[c][i] = p + (i - m)
          BY <4>2, <5>2
        <5>4. /\ p \in Nat /\ p + Size = Flushed(c) /\ m = Flushed(c) - Size - base[c] + 0
              /\ base[c] \in Nat /\ Flushed(c) \in Int /\ Size \in Nat
          BY <3>1, <3>3, <4>2
        <5>5. p + (i - m) = base[c] - 0 + i
          BY <5>2, <5>4
        <5> QED
          BY <5>3, <5>5
      <4> QED
        BY <4>3, <4>4
    <3>8. Len(file'[c]) = Flushed(c) - 0 - base[c] + 0
      BY <3>1, <3>5, <3>6
    <3> QED
      BY <3>4, <3>7, <3>8
  <2> QED
    BY <1>3, <1>4, <1>7, <1>8, <1>9, <1>13, <2>1, <2>2, <2>3 DEF FileInv
<1>15. AlignedInv'
  <2> SUFFICES ASSUME NEW c \in Channels, NEW d \in Channels
               PROVE  /\ \A i \in DOMAIN file'[c] \cap DOMAIN file'[d]: file'[c][i] = file'[d][i]
                      /\ Len(file'[c]) < Len(file'[d]) => Ended(c)'
    BY DEF AlignedInv
  <2>1. /\ \A i \in DOMAIN file[c] \cap DOMAIN file[d]: file[c][i] = file[d][i]
        /\ Len(file[c]) < Len(file[d]) => Ended(c)
        /\ Len(file[d]) < Len(file[c]) => Ended(d)
    BY <1>4 DEF IInv, ImuInv, AlignedInv
  <2>2. /\ Len(file[c]) < Len(file[d]) => o[c].n = 0
        /\ Len(file[d]) < Len(file[c]) => o[d].n = 0
    BY <1>2, <1>3, <2>1, NoneWritten
  <2>3. /\ \A i \in DOMAIN file'[c] \cap DOMAIN file'[d]: file'[c][i] = file'[d][i]
        /\ Len(file'[c]) < Len(file'[d]) => Len(file[c]) < Len(file[d]) \/ o[c].n < Size
    <3>1. file[c] \in Seq(1..MaxSamples) /\ file[d] \in Seq(1..MaxSamples) /\ p \in Nat
      BY <1>4, <1>5, Values
    <3> QED
      BY <1>7, <2>1, <2>2, <3>1, AgreeStill
  <2>4. CASE Len(file[c]) < Len(file[d])
    <3>1. c \in full \/ ~opened[c]
      BY <1>2, <1>3, <2>1, <2>4, NoneWritten
    <3>2. (c \in full => c \in full') /\ (opened'[c] => opened[c])
      BY <1>2, <1>8
    <3> QED
      BY <2>3, <3>1, <3>2 DEF Ended
  <2>5. CASE o[c].n < Size
    <3>1. CASE o[c].failed
      BY <1>3, <1>8, <2>3, <3>1 DEF Ended, WriteFailed
    <3>2. CASE ~o[c].failed
      BY <1>2, <2>3, <2>5, <3>2 DEF Ended
    <3> QED
      BY <3>1, <3>2
  <2> QED
    BY <2>3, <2>4, <2>5
<1> QED
  BY <1>3, <1>10, <1>11, <1>12, <1>14, <1>15 DEF IInv, ImuInv

\* What a start does to the position in the buffers.
LEMMA ResetDoes ==
  ASSUME IInv, ResetPosition, UNCHANGED <<driver, wr_index, buffer, total>>
  PROVE  /\ index' \in [Channels -> 0..1] /\ current' \in [Channels -> 0..Size - 1]
         /\ Zephyr' <=> Zephyr
         /\ \A c \in Channels:
              /\ Flushed(c)' = total[c] - current'[c] /\ Flushed(c) <= Flushed(c)'
              /\ Flushed(c) \in Int /\ Flushed(c)' \in Int /\ current'[c] \in Nat
              /\ Zephyr => current'[c] = 0 /\ Flushed(c)' = total[c]
              /\ ~(Zephyr /\ current[c] # 0) => Flushed(c)' = Flushed(c)
         /\ (Queued("write")' => \E p \in 0..MaxSamples: BlockIs(p)') => MemoryInv'
<1>1. Vars /\ (Zephyr' <=> Zephyr)
  BY DEF IInv, Zephyr
<1>2. Zephyr => \A c, d \in Channels: total[c] = total[d]
  BY DEF IInv, ImuInv, MemoryInv
<1>3. \A c \in Channels:
        /\ Size \in Nat \ {0} /\ total[c] \in Nat /\ current[c] \in Nat
        /\ current[c] <= total[c] /\ current[c] \in 0..Size - 1
        /\ \A k \in 1..current[c]: buffer[c][index[c]][k] = Flushed(c) + k
  BY <1>1, Values DEF IInv, ImuInv, MemoryInv
<1>4. CASE Zephyr
  <2>1. index' = [c \in Channels |-> 0] /\ current' = [c \in Channels |-> 0]
    BY <1>4 DEF ResetPosition
  <2>2. index' \in [Channels -> 0..1] /\ current' \in [Channels -> 0..Size - 1]
    BY <2>1, SizeAssumption
  <2>3. ASSUME NEW c \in Channels
        PROVE  /\ index'[c] = 0 /\ current'[c] = 0 /\ Flushed(c)' = total[c]
               /\ Flushed(c)' = total[c] - current'[c] /\ Flushed(c) <= Flushed(c)'
               /\ Flushed(c) \in Int /\ Flushed(c)' \in Int
               /\ current[c] = 0 => Flushed(c)' = Flushed(c)
    BY <1>3, <2>1 DEF Flushed
  <2>4. ASSUME Queued("write")' => \E p \in 0..MaxSamples: BlockIs(p)' PROVE MemoryInv'
    <3>1. \A c \in Channels: current'[c] <= total'[c] /\ 1..current'[c] = {}
      BY <1>3, <2>3
    <3>2. \A c, d \in Channels:
            index'[c] = index'[d] /\ current'[c] = current'[d] /\ total'[c] = total'[d]
      BY <1>2, <1>4, <2>3
    <3> QED
      BY <2>4, <3>1, <3>2 DEF MemoryInv
  <2> QED
    BY <1>1, <1>4, <2>2, <2>3, <2>4
<1>5. CASE ~Zephyr
  <2>1. UNCHANGED <<index, current>>
    BY <1>5 DEF ResetPosition, position
  <2>2. index' \in [Channels -> 0..1] /\ current' \in [Channels -> 0..Size - 1]
    BY <1>1, <2>1 DEF Vars
  <2>3. \A c \in Channels: /\ Flushed(c)' = Flushed(c)
                           /\ Flushed(c) = total[c] - current[c] /\ Flushed(c) \in Int
    BY <1>3, <2>1 DEF Flushed
  <2>4. ASSUME Queued("write")' => \E p \in 0..MaxSamples: BlockIs(p)' PROVE MemoryInv'
    BY <1>1, <1>3, <1>5, <2>1, <2>3, <2>4 DEF MemoryInv
  <2> QED
    BY <1>1, <1>3, <1>5, <2>1, <2>2, <2>3, <2>4
<1> QED
  BY <1>4, <1>5

\* A start that cannot make all the files: those it made are closed, others are left as
\* they were.
LEMMA StartRefusedKeeps == ASSUME IInv, StartRefused PROVE IInv'
<1>1. /\ Done("start") /\ ResetPosition /\ state' = "ERR"
      /\ UNCHANGED <<driver, armed, busy, wr_index, buffer, total>>
  BY DEF StartRefused, writer
<1>2. PICK o \in [Channels -> {"refused", "cleared", "failed", "ok"}]:
        /\ \A c \in Channels: o[c] \in OpenOutcomes(c)
        /\ status' \in [Channels -> {"INACTIVE", "ACTIVE", "ERR"}]
        /\ \A c \in Channels: status'[c] \in CASE o[c] = "ok" -> CloseOutcomes("ACTIVE")
                                               [] o[c] = "failed" -> {"ERR"}
                                               [] OTHER -> {status[c]}
        /\ opened' = [c \in Channels |-> opened[c] /\ o[c] = "refused"]
        /\ file' = [c \in Channels |-> IF o[c] = "ok" THEN <<>> ELSE file[c]]
        /\ base' = [c \in Channels |-> IF o[c] = "ok" THEN total[c] ELSE base[c]]
        /\ full' = {c \in full: o[c] # "ok"}
        /\ cut' = [c \in Channels |-> cut[c] \/ o[c] # "refused"
                                      \/ (Zephyr /\ current[c] # 0)]
  BY DEF StartRefused
<1>3. /\ QueueOK' /\ (Queued("write")' <=> Queued("write"))
      /\ (WriteFirst => WriteFirst') /\ (Queued("write") => WriteFirst)
  BY <1>1, DoneKeeps
<1>4. /\ index' \in [Channels -> 0..1] /\ current' \in [Channels -> 0..Size - 1]
      /\ Zephyr' <=> Zephyr
      /\ \A c \in Channels:
           /\ Flushed(c)' = total[c] - current'[c] /\ Flushed(c) <= Flushed(c)'
           /\ Flushed(c) \in Int /\ Flushed(c)' \in Int /\ current'[c] \in Nat
           /\ Zephyr => current'[c] = 0 /\ Flushed(c)' = total[c]
           /\ ~(Zephyr /\ current[c] # 0) => Flushed(c)' = Flushed(c)
      /\ (Queued("write")' => \E p \in 0..MaxSamples: BlockIs(p)') => MemoryInv'
  BY <1>1, ResetDoes
<1>5. Vars /\ (\A c \in Channels: FileInv(c)) /\ Old' = Old
  BY <1>4 DEF IInv, ImuInv, Old
<1>6. ASSUME NEW c \in Channels
      PROVE  /\ base[c] \in Nat /\ total[c] \in Nat /\ DOMAIN file[c] = 1..Len(file[c])
             /\ \A i \in DOMAIN file[c]: file[c][i] \in Nat
             /\ Size \in Nat \ {0} /\ MaxSamples \in Nat
  BY <1>5, Values
<1>7. ASSUME NEW c \in Channels
      PROVE  /\ o[c] = "ok" => /\ file'[c] = <<>> /\ base'[c] = total[c] /\ c \notin full'
                               /\ ~opened'[c] /\ status'[c] # "ACTIVE"
             /\ o[c] # "ok" => /\ file'[c] = file[c] /\ base'[c] = base[c]
                               /\ c \in full => c \in full'
                               /\ status'[c] = "ACTIVE" => opened'[c]
             /\ ~cut'[c] => /\ ~cut[c] /\ o[c] = "refused" /\ Flushed(c)' = Flushed(c)
                            /\ opened'[c] = opened[c]
             /\ opened'[c] => opened[c]
  <2>1. /\ o[c] = "ok" => file'[c] = <<>> /\ base'[c] = total[c]
        /\ o[c] # "ok" => file'[c] = file[c] /\ base'[c] = base[c]
    BY <1>2
  <2>2. /\ o[c] = "ok" => c \notin full'
        /\ o[c] # "ok" => (c \in full => c \in full')
    BY <1>2
  <2>3. opened'[c] <=> opened[c] /\ o[c] = "refused"
    BY <1>2
  <2>4. o[c] = "ok" => status'[c] # "ACTIVE"
    BY <1>2 DEF CloseOutcomes
  <2>5. o[c] # "ok" /\ status'[c] = "ACTIVE" => opened'[c]
    <3>1. CASE o[c] = "failed"
      BY <1>2, <3>1
    <3>2. CASE o[c] = "cleared"
      <4>1. status'[c] = status[c]
        BY <1>2, <3>2
      <4>2. status[c] # "ACTIVE"
        BY <1>2, <3>2 DEF OpenOutcomes
      <4> QED
        BY <4>1, <4>2
    <3>3. CASE o[c] = "refused"
      <4>1. status'[c] = status[c]
        BY <1>2, <3>3
      <4> QED
        BY <1>5, <2>3, <3>3, <4>1 DEF FileInv
    <3>4. o[c] \in {"refused", "cleared", "failed", "ok"}
      OBVIOUS
    <3> QED
      BY <3>1, <3>2, <3>3, <3>4
  <2>6. cut'[c] <=> cut[c] \/ o[c] # "refused" \/ (Zephyr /\ current[c] # 0)
    BY <1>2
  <2>7. opened[c] \in BOOLEAN /\ opened'[c] \in BOOLEAN
    BY <1>2, <1>5 DEF Vars
  <2> QED
    BY <1>4, <2>1, <2>2, <2>3, <2>4, <2>5, <2>6, <2>7
<1>8. Vars'
  <2>1. /\ file' \in [Channels -> Seq(1..MaxSamples)]
        /\ base' \in [Channels -> 0..MaxSamples]
    <3>1. \A c \in Channels: /\ file[c] \in Seq(1..MaxSamples)
                             /\ base[c] \in 0..MaxSamples /\ total[c] \in 0..MaxSamples
      BY <1>5, Values
    <3>2. <<>> \in Seq(1..MaxSamples)
      OBVIOUS
    <3> QED
      BY <1>2, <3>1, <3>2
  <2>2. /\ opened' \in [Channels -> BOOLEAN] /\ cut' \in [Channels -> BOOLEAN]
        /\ full' \subseteq Channels
    BY <1>2, <1>5 DEF Vars
  <2>3. state' \in {"DISABLED", "STOP", "ACTIVE", "ERR"}
    BY <1>1
  <2> QED
    BY <1>1, <1>2, <1>4, <1>5, <2>1, <2>2, <2>3 DEF Vars
<1>9. WriterInv'
  BY <1>1, <1>3, <1>4 DEF IInv, ImuInv, WriterInv
<1>10. MemoryInv'
  <2> SUFFICES ASSUME Queued("write")' PROVE \E p \in 0..MaxSamples: BlockIs(p)'
    BY <1>4
  <2>1. Zephyr
    BY <1>3 DEF IInv, ImuInv, WriterInv
  <2>2. PICK p \in 0..MaxSamples: BlockIs(p)
    BY <1>3 DEF IInv, ImuInv, MemoryInv
  <2>3. ASSUME NEW c \in Channels
        PROVE  /\ \A k \in 1..Size: buffer'[c][wr_index'][k] = p + k
               /\ p + Size <= Flushed(c)'
               /\ ~cut'[c] => p + Size = Flushed(c)'
               /\ \A i \in DOMAIN file'[c]: file'[c][i] <= p
               /\ file'[c] # <<>> => base'[c] <= p
    <3>1. /\ \A k \in 1..Size: buffer[c][wr_index][k] = p + k
          /\ p + Size <= Flushed(c)
          /\ ~cut[c] => p + Size = Flushed(c)
          /\ \A i \in DOMAIN file[c]: file[c][i] <= p
          /\ file[c] # <<>> => base[c] <= p
      BY <2>2 DEF BlockIs
    <3>2. p + Size <= Flushed(c)'
      BY <1>4, <1>6, <3>1
    <3>3. /\ \A i \in DOMAIN file'[c]: file'[c][i] <= p
          /\ file'[c] # <<>> => base'[c] <= p
      <4>1. file'[c] = <<>> \/ (file'[c] = file[c] /\ base'[c] = base[c])
        BY <1>7
      <4>2. DOMAIN <<>> = {}
        OBVIOUS
      <4> QED
        BY <3>1, <4>1, <4>2
    <3> QED
      BY <1>1, <1>7, <3>1, <3>2, <3>3
  <2>4. BlockIs(p)'
    BY <2>3 DEF BlockIs
  <2> QED
    BY <2>4
<1>11. ASSUME NEW c \in Channels PROVE FileInv(c)'
  <2>1. FileInv(c)
    BY <1>5
  <2>2. CASE o[c] = "ok"
    <3>1. /\ file'[c] = <<>> /\ base'[c] = total[c] /\ ~opened'[c] /\ cut'[c]
          /\ status'[c] # "ACTIVE" /\ DOMAIN file'[c] = {}
      BY <1>7, <2>2
    <3>2. base'[c] <= total'[c] /\ (base'[c] <= Flushed(c)' \/ ~Zephyr)
      BY <1>1, <1>4, <1>6, <3>1
    <3> QED
      BY <1>4, <3>1, <3>2 DEF FileInv
  <2>3. CASE o[c] # "ok"
    <3>1. /\ file'[c] = file[c] /\ base'[c] = base[c] /\ total'[c] = total[c]
          /\ status'[c] = "ACTIVE" => opened'[c]
          /\ ~cut'[c] => ~cut[c] /\ Flushed(c)' = Flushed(c) /\ opened'[c] = opened[c]
      BY <1>1, <1>7, <2>3
    <3>2. /\ base[c] <= total[c]
          /\ base[c] <= Flushed(c)' \/ (~Zephyr /\ file[c] = <<>>)
          /\ \A i \in DOMAIN file[c]: file[c][i] <= Flushed(c)'
      BY <1>4, <1>6, <2>1 DEF FileInv
    <3> QED
      BY <1>3, <1>4, <1>5, <2>1, <3>1, <3>2 DEF FileInv
  <2> QED
    BY <2>2, <2>3
<1>12. AlignedInv'
  <2> SUFFICES ASSUME Zephyr, NEW c \in Channels, NEW d \in Channels
               PROVE  /\ \A i \in DOMAIN file'[c] \cap DOMAIN file'[d]: file'[c][i] = file'[d][i]
                      /\ Len(file'[c]) < Len(file'[d]) => Ended(c)'
    BY <1>4 DEF AlignedInv
  <2>1. /\ \A i \in DOMAIN file[c] \cap DOMAIN file[d]: file[c][i] = file[d][i]
        /\ Len(file[c]) < Len(file[d]) => Ended(c)
    BY DEF IInv, ImuInv, AlignedInv
  <2>2. CASE o[c] = "ok"
    <3>1. ~opened'[c] /\ DOMAIN file'[c] = {}
      BY <1>7, <2>2
    <3> QED
      BY <3>1 DEF Ended
  <2>3. CASE o[c] # "ok" /\ o[d] = "ok"
    <3>1. file'[d] = <<>> /\ DOMAIN file'[d] = {} /\ Len(file'[d]) = 0 /\ file'[c] = file[c]
      BY <1>7, <2>3
    <3>2. Len(file[c]) \in Nat
      BY <1>5, Values
    <3> QED
      BY <3>1, <3>2
  <2>4. CASE o[c] # "ok" /\ o[d] # "ok"
    <3>1. file'[c] = file[c] /\ file'[d] = file[d]
      BY <1>7, <2>4
    <3>2. Ended(c) => Ended(c)'
      BY <1>1, <1>3, <1>7, <2>4 DEF Ended
    <3> QED
      BY <2>1, <3>1, <3>2
  <2> QED
    BY <2>2, <2>3, <2>4
<1> QED
  BY <1>3, <1>8, <1>9, <1>10, <1>11, <1>12 DEF IInv, ImuInv

\* A start that makes all the files: nothing is in them, and the block that waits, if one
\* does, is in the way of what comes.
LEMMA StartOpenedKeeps == ASSUME IInv, StartOpened PROVE IInv'
<1>1. /\ Done("start") /\ ResetPosition
      /\ file' = [c \in Channels |-> <<>>] /\ base' = total /\ full' = {}
      /\ cut' = [c \in Channels |-> Queued("write")]
      /\ busy' = (busy /\ ~Zephyr)
      /\ UNCHANGED <<driver, wr_index, buffer, total>>
  BY DEF StartOpened
<1>2. /\ QueueOK' /\ (Queued("write")' <=> Queued("write"))
      /\ (WriteFirst => WriteFirst') /\ (Queued("write") => WriteFirst)
  BY <1>1, DoneKeeps
<1>3. /\ index' \in [Channels -> 0..1] /\ current' \in [Channels -> 0..Size - 1]
      /\ Zephyr' <=> Zephyr
      /\ \A c \in Channels:
           /\ Flushed(c)' = total[c] - current'[c] /\ Flushed(c) <= Flushed(c)'
           /\ Flushed(c) \in Int /\ Flushed(c)' \in Int /\ current'[c] \in Nat
           /\ Zephyr => current'[c] = 0 /\ Flushed(c)' = total[c]
      /\ (Queued("write")' => \E p \in 0..MaxSamples: BlockIs(p)') => MemoryInv'
  BY <1>1, ResetDoes
<1>4. /\ state' \in {"DISABLED", "STOP", "ACTIVE", "ERR"} /\ armed' \in BOOLEAN
      /\ status' \in [Channels -> {"INACTIVE", "ACTIVE", "ERR"}]
      /\ opened' \in [Channels -> BOOLEAN]
      /\ \A c \in Channels: status'[c] = "ACTIVE" => opened'[c]
  <2>1. PICK ok \in BOOLEAN:
          /\ state' = IF ok THEN "ACTIVE" ELSE "ERR"
          /\ IF ok \/ ~Zephyr
             THEN /\ armed' = TRUE
                  /\ status' = [c \in Channels |-> "ACTIVE"]
                  /\ opened' = [c \in Channels |-> TRUE]
             ELSE /\ armed' \in BOOLEAN
                  /\ status' \in [Channels -> CloseOutcomes("ACTIVE")]
                  /\ opened' = [c \in Channels |-> FALSE]
    BY <1>1 DEF StartOpened
  <2>2. CASE ok \/ ~Zephyr
    BY <2>1, <2>2
  <2>3. CASE ~(ok \/ ~Zephyr)
    BY <2>1, <2>3 DEF CloseOutcomes
  <2> QED
    BY <2>2, <2>3
<1>5. Vars /\ ~busy' /\ busy' \in BOOLEAN
  BY <1>1 DEF IInv, ImuInv, WriterInv
<1>6. \A c \in Channels: /\ file'[c] = <<>> /\ DOMAIN file'[c] = {} /\ Len(file'[c]) = 0
                         /\ base'[c] = total[c] /\ total'[c] = total[c]
                         /\ (cut'[c] <=> Queued("write"))
                         /\ total[c] \in Nat /\ Size \in Nat \ {0}
  BY <1>1, <1>5, Values
<1>7. Vars'
  <2>1. file' \in [Channels -> Seq(1..MaxSamples)] /\ base' \in [Channels -> 0..MaxSamples]
    BY <1>1, <1>5 DEF Vars
  <2>2. cut' \in [Channels -> BOOLEAN] /\ full' \subseteq Channels
    BY <1>1 DEF Queued
  <2> QED
    BY <1>1, <1>3, <1>4, <1>5, <2>1, <2>2 DEF Vars
<1>8. WriterInv'
  BY <1>2, <1>3, <1>5 DEF IInv, ImuInv, WriterInv
<1>9. MemoryInv'
  <2> SUFFICES ASSUME Queued("write")' PROVE \E p \in 0..MaxSamples: BlockIs(p)'
    BY <1>3
  <2>1. PICK p \in 0..MaxSamples: BlockIs(p)
    BY <1>2 DEF IInv, ImuInv, MemoryInv
  <2>2. ASSUME NEW c \in Channels
        PROVE  p + Size <= Flushed(c)' /\ \A k \in 1..Size: buffer'[c][wr_index'][k] = p + k
    <3>1. p + Size <= Flushed(c) /\ \A k \in 1..Size: buffer[c][wr_index][k] = p + k
      BY <2>1 DEF BlockIs
    <3>2. p \in Int /\ Size \in Int
      BY SizeAssumption
    <3> QED
      BY <1>1, <1>3, <3>1, <3>2
  <2>3. BlockIs(p)'
    BY <1>2, <1>6, <2>2 DEF BlockIs
  <2> QED
    BY <2>3
<1>10. ASSUME NEW c \in Channels PROVE FileInv(c)'
  <2>1. base'[c] <= total'[c] /\ (base'[c] <= Flushed(c)' \/ ~Zephyr)
    BY <1>3, <1>6
  <2>2. current'[c] \in Old'
    BY <1>3, <1>6 DEF Old
  <2>3. 0 = Flushed(c)' - 0 - base'[c] + current'[c]
    BY <1>3, <1>6
  <2> QED
    BY <1>2, <1>3, <1>4, <1>6, <2>1, <2>2, <2>3 DEF FileInv
<1>11. AlignedInv'
  BY <1>6 DEF AlignedInv
<1> QED
  BY <1>2, <1>7, <1>8, <1>9, <1>10, <1>11 DEF IInv, ImuInv

\* Nothing happens.
LEMMA StutterKeeps == ASSUME IInv, UNCHANGED vars PROVE IInv'
<1>1. UNCHANGED <<sensor, queue, writer, buffer, position, table, total, cut>>
  BY DEF vars
<1>2. /\ QueueOK' /\ (Queued("write")' <=> Queued("write"))
      /\ (WriteFirst <=> WriteFirst') /\ (Runs("drdy") <=> Runs("drdy")')
  BY <1>1, SameQueue DEF IInv
<1>3. Vars'
  BY <1>1 DEF IInv, Vars, sensor, writer, position, table
<1>4. \A c \in Channels: status[c] = "ACTIVE" => opened[c]
  BY DEF IInv, ImuInv, FileInv
<1>5. ImuInv'
  BY <1>1, <1>2, <1>4, Quiet DEF sensor, writer, table
<1> QED
  BY <1>2, <1>3, <1>5 DEF IInv

\* After imu_sensor_init nothing is queued and no file is open.
LEMMA InvInit == Init => IInv
<1> SUFFICES ASSUME Init PROVE IInv
  OBVIOUS
<1>1. QueueOK /\ ~Queued("write")
  <2>1. queue = <<>>
    BY DEF Init
  <2> QED
    BY <2>1, QueueEmpty DEF QueueOK, Queued, Holds
<1>2. Vars
  <2>1. 0 \in 0..Size - 1 /\ 0 \in 0..MaxSamples /\ 0 \in 0..1
    BY SizeAssumption
  <2>2. /\ driver \in Drivers /\ armed \in BOOLEAN /\ busy \in BOOLEAN /\ wr_index \in 0..1
        /\ state \in {"DISABLED", "STOP", "ACTIVE", "ERR"} /\ full \subseteq Channels
        /\ status \in [Channels -> {"INACTIVE", "ACTIVE", "ERR"}]
        /\ opened \in [Channels -> BOOLEAN] /\ cut \in [Channels -> BOOLEAN]
    BY <2>1 DEF Init
  <2>3. /\ index \in [Channels -> 0..1] /\ current \in [Channels -> 0..Size - 1]
        /\ total \in [Channels -> 0..MaxSamples] /\ base \in [Channels -> 0..MaxSamples]
        /\ buffer \in [Channels -> [0..1 -> [1..Size -> 0..MaxSamples]]]
    BY <2>1 DEF Init
  <2>4. file \in [Channels -> Seq(1..MaxSamples)]
    <3>1. <<>> \in Seq(1..MaxSamples) /\ file = [c \in Channels |-> <<>>]
      BY DEF Init
    <3> QED
      BY <3>1
  <2> QED
    BY <2>2, <2>3, <2>4 DEF Vars
<1>3. \A c \in Channels: /\ file[c] = <<>> /\ total[c] = 0 /\ base[c] = 0 /\ current[c] = 0
                         /\ index[c] = 0 /\ ~opened[c] /\ status[c] = "INACTIVE"
                         /\ Flushed(c) = 0 /\ DOMAIN file[c] = {} /\ Len(file[c]) = 0
  BY DEF Init, Flushed
<1>4. WriterInv /\ MemoryInv
  BY <1>1, <1>3 DEF WriterInv, MemoryInv, Init
<1>5. AlignedInv
  BY <1>3 DEF AlignedInv
<1>6. ASSUME NEW c \in Channels PROVE FileInv(c)
  <2>1. 0 \in Old
    BY SizeAssumption DEF Old
  <2> QED
    BY <1>3, <2>1 DEF FileInv
<1> QED
  BY <1>1, <1>2, <1>4, <1>5, <1>6 DEF IInv, ImuInv

\* Every step keeps it.
LEMMA InvStep == IInv /\ [Next]_vars => IInv'
<1> SUFFICES ASSUME IInv, [Next]_vars PROVE IInv'
  OBVIOUS
<1>1. CASE Interrupt
  BY <1>1, InterruptKeeps
<1>2. CASE NoMoreData \/ ConfigRefused
  BY <1>2, ItemEndKeeps
<1>3. CASE FetchFails
  BY <1>3, FetchFailsKeeps
<1>4. CASE StoreSample
  BY <1>4, StoreSampleKeeps
<1>5. CASE SubmitBlock
  BY <1>5, SubmitBlockKeeps
<1>6. CASE DropBlock
  BY <1>6, DropBlockKeeps
<1>7. ASSUME NEW c \in Channels, PrintSensorData(c) PROVE IInv'
  BY <1>7, PrintSensorDataKeeps
<1>8. CASE WriteBlock
  BY <1>8, WriteBlockKeeps
<1>9. CASE Commands
  BY <1>9, CommandKeeps DEF Commands
<1>10. CASE StartRefused
  BY <1>10, StartRefusedKeeps
<1>11. CASE StartOpened
  BY <1>11, StartOpenedKeeps
<1>12. CASE Stop
  BY <1>12, StopKeeps
<1>13. ASSUME NEW c \in Channels, SyncFails(c) PROVE IInv'
  BY <1>13, SyncFailsKeeps
<1>14. CASE UNCHANGED vars
  BY <1>14, StutterKeeps
<1> QED
  BY <1>1, <1>2, <1>3, <1>4, <1>5, <1>6, <1>7, <1>8, <1>9, <1>10, <1>11, <1>12, <1>13, <1>14
     DEF Next, DataReady, Start

\* The types hold, and the invariant the three properties of the files rest on: no
\* data-ready item runs before the writer's or else the block that waits is not the one
\* being filled, the buffers hold the latest samples, and each file has its samples in
\* order and next to the others'.
THEOREM InvCorrect == Spec => [](TypeOK /\ ImuInv)
<1>1. Spec => []IInv
  BY InvInit, InvStep, PTL DEF Spec
<1> QED
  BY <1>1, InvForms, PTL

\* No work item is queued twice, and no index or count leaves its range.
THEOREM TypeCorrect == Spec => []TypeOK
BY InvCorrect, PTL

-----------------------------------------------------------------------------
\* What the invariant says of files and memory together.

\* s is the n samples after the v-th.
Run(s, v, n) == s \in Seq(Int) /\ n \in Nat /\ Len(s) = n /\ \A i \in 1..n: s[i] = v + i

\* A run and the one that follows it are one run.
LEMMA RunConcat ==
  ASSUME NEW s, NEW t, NEW v \in Int, NEW n, NEW m, Run(s, v, n), Run(t, v + n, m)
  PROVE  Run(s \o t, v, n + m)
<1>1. /\ s \in Seq(Int) /\ n \in Nat /\ Len(s) = n /\ \A i \in 1..n: s[i] = v + i
      /\ t \in Seq(Int) /\ m \in Nat /\ Len(t) = m /\ \A i \in 1..m: t[i] = (v + n) + i
  BY DEF Run
<1>2. /\ s \o t \in Seq(Int) /\ Len(s \o t) = n + m
      /\ \A i \in 1..n + m: (s \o t)[i] = IF i <= n THEN s[i] ELSE t[i - n]
  BY <1>1, ConcatProperties
<1>3. ASSUME NEW i \in 1..n + m PROVE (s \o t)[i] = v + i
  <2>1. CASE i \in 1..n
    BY <1>1, <1>2, <2>1
  <2>2. CASE i \notin 1..n
    <3>1. i \in Nat /\ i - n \in 1..m /\ i = n + (i - n) /\ ~(i <= n)
      BY <1>1, <2>2
    <3>2. (s \o t)[i] = (v + n) + (i - n)
      BY <1>1, <1>2, <3>1
    <3> QED
      BY <1>1, <3>1, <3>2
  <2> QED
    BY <2>1, <2>2
<1> QED
  BY <1>1, <1>2, <1>3 DEF Run

\* A file, a block and what is in the buffer, each later than the one before it.
LEMMA IncreasingConcat ==
  ASSUME NEW s \in Seq(Int), NEW t \in Seq(Int), Increasing(s), Increasing(t), NEW p \in Int,
         \A i \in DOMAIN s: s[i] <= p,
         \A i \in DOMAIN t: p < t[i]
  PROVE  s \o t \in Seq(Int) /\ Increasing(s \o t)
<1>1. PICK n \in Nat: n = Len(s) /\ DOMAIN s = 1..n
  OBVIOUS
<1>2. PICK m \in Nat: m = Len(t) /\ DOMAIN t = 1..m
  OBVIOUS
<1>3. /\ s \o t \in Seq(Int) /\ Len(s \o t) = n + m
      /\ \A i \in 1..n + m: (s \o t)[i] = IF i <= n THEN s[i] ELSE t[i - n]
  BY <1>1, <1>2, ConcatProperties
<1>4. (\A i \in 1..n: s[i] \in Int) /\ (\A i \in 1..m: t[i] \in Int)
  BY <1>1, <1>2, ElementOfSeq
<1>5. DOMAIN (s \o t) = 1..n + m
  BY <1>3
<1>6. ASSUME NEW i \in 1..n + m, NEW j \in 1..n + m, i < j PROVE (s \o t)[i] < (s \o t)[j]
  <2>1. CASE j <= n
    <3>1. i \in 1..n /\ j \in 1..n /\ i <= n
      BY <1>6, <2>1
    <3> QED
      BY <1>1, <1>3, <1>6, <2>1, <3>1 DEF Increasing
  <2>2. CASE i <= n /\ ~(j <= n)
    <3>1. i \in 1..n /\ j - n \in 1..m
      BY <2>2
    <3>2. (s \o t)[i] = s[i] /\ (s \o t)[j] = t[j - n]
      BY <1>3, <2>2
    <3>3. s[i] \in Int /\ s[i] <= p
      BY <1>1, <1>4, <3>1
    <3>4. t[j - n] \in Int /\ p < t[j - n]
      BY <1>2, <1>4, <3>1
    <3> QED
      BY <3>2, <3>3, <3>4
  <2>3. CASE ~(i <= n)
    <3>1. i - n \in 1..m /\ j - n \in 1..m /\ i - n < j - n /\ ~(j <= n)
      BY <1>6, <2>3
    <3> QED
      BY <1>2, <1>3, <2>3, <3>1 DEF Increasing
  <2> QED
    BY <2>1, <2>2, <2>3
<1> QED
  BY <1>3, <1>5, <1>6 DEF Increasing

\* What waits in memory is the last samples the driver got: with a block, those after the
\* p-th.
LEMMA WaitingIs ==
  ASSUME IInv, NEW c \in Channels
  PROVE  /\ Run(SubSeq(buffer[c][index[c]], 1, current[c]), Flushed(c), current[c])
         /\ ~Queued("write") => Run(Waiting(c), Flushed(c), current[c])
         /\ Queued("write") => \E p \in 0..MaxSamples:
              /\ BlockIs(p) /\ Run(buffer[c][wr_index], p, Size)
              /\ Waiting(c) = buffer[c][wr_index] \o SubSeq(buffer[c][index[c]], 1, current[c])
<1> DEFINE b == buffer[c][index[c]]
           part == SubSeq(b, 1, current[c])
<1>1. /\ Size \in Nat \ {0} /\ MaxSamples \in Nat /\ current[c] \in Nat /\ current[c] < Size
      /\ index[c] \in 0..1 /\ wr_index \in 0..1 /\ Flushed(c) \in Int
      /\ buffer[c] \in [0..1 -> [1..Size -> 0..MaxSamples]]
  BY Values DEF IInv
<1>2. \A k \in 1..current[c]: b[k] = Flushed(c) + k
  BY DEF IInv, ImuInv, MemoryInv
<1> HIDE DEF b
<1>3. Run(part, Flushed(c), current[c])
  <2>1. 1 \in Int /\ current[c] \in Int /\ \A k \in 1..current[c]: b[k] \in Int
    <3>1. current[c] \in Nat /\ Flushed(c) \in Int
      BY <1>1
    <3> QED
      BY <1>2, <3>1
  <2>2. /\ part \in Seq(Int) /\ Len(part) = IF 1 <= current[c] THEN current[c] - 1 + 1 ELSE 0
        /\ \A k \in 1..current[c] - 1 + 1: part[k] = b[1 + k - 1]
    BY <2>1, SubSeqProperties
  <2> HIDE DEF part
  <2>3. Len(part) = current[c]
    BY <1>1, <2>2
  <2>4. ASSUME NEW k \in 1..current[c] PROVE part[k] = Flushed(c) + k
    <3>1. k \in 1..current[c] - 1 + 1 /\ 1 + k - 1 = k
      BY <1>1
    <3> QED
      BY <1>2, <2>2, <3>1
  <2> QED
    BY <1>1, <2>2, <2>3, <2>4 DEF Run
<1>4. CASE ~Queued("write")
  <2>1. Waiting(c) = <<>> \o part
    BY <1>4 DEF Waiting, b
  <2>2. part \in Seq(Int)
    BY <1>3 DEF Run
  <2>3. Waiting(c) = part
    BY <2>1, <2>2, ConcatEmptySeq
  <2> QED
    BY <1>3, <1>4, <2>3 DEF b
<1>5. CASE Queued("write")
  <2>1. PICK p \in 0..MaxSamples: BlockIs(p)
    BY <1>5 DEF IInv, ImuInv, MemoryInv
  <2>2. Run(buffer[c][wr_index], p, Size)
    <3>1. \A k \in 1..Size: buffer[c][wr_index][k] = p + k
      BY <2>1 DEF BlockIs
    <3>2. buffer[c][wr_index] \in [1..Size -> 0..MaxSamples]
      BY <1>1
    <3>3. buffer[c][wr_index] \in Seq(Int) /\ Len(buffer[c][wr_index]) = Size
      BY <1>1, <3>2
    <3> QED
      BY <1>1, <3>1, <3>3 DEF Run
  <2> QED
    BY <1>3, <1>5, <2>1, <2>2 DEF Waiting, b
<1> QED
  BY <1>4, <1>5

\* A file whose recording goes on is open, and what is recorded is its samples and those
\* that wait.
LEMMA RecordedIs ==
  ASSUME IInv, NEW c \in Channels
  PROVE  /\ status[c] = "ACTIVE" => opened[c] /\ Recorded(c) = file[c] \o Waiting(c)
         /\ status[c] # "ACTIVE" => Recorded(c) = file[c]
         /\ file[c] \in Seq(Int) /\ Increasing(file[c])
         /\ \A i \in DOMAIN file[c]: file[c][i] <= Flushed(c)
<1>1. file[c] \in Seq(1..MaxSamples) /\ MaxSamples \in Nat
  BY Values DEF IInv
<1>2. file[c] \in Seq(Int)
  <2>1. 1..MaxSamples \subseteq Int
    BY <1>1
  <2> QED
    BY <1>1, <2>1
<1> QED
  BY <1>2 DEF IInv, ImuInv, FileInv, Recorded, Increasing

\* Of a recording that nothing cut short, file and memory are one run of samples, up to
\* the last.
LEMMA CompleteHolds == IInv => CompleteUnlessCut
<1> SUFFICES ASSUME IInv, NEW c \in Channels, ~cut[c]
             PROVE  \E old \in Old:
                      /\ Recorded(c) = [i \in 1..Len(Recorded(c)) |-> base[c] - old + i]
                      /\ status[c] = "ACTIVE" => Len(Recorded(c)) = total[c] - base[c] + old
  BY DEF CompleteUnlessCut
<1>1. /\ Size \in Nat \ {0} /\ base[c] \in Nat /\ total[c] \in Nat /\ current[c] \in Nat
      /\ Flushed(c) \in Int /\ Flushed(c) = total[c] - current[c]
      /\ Len(file[c]) \in Nat /\ DOMAIN file[c] = 1..Len(file[c])
  BY Values DEF IInv, Flushed
<1>2. PICK old \in Old:
        /\ \A i \in DOMAIN file[c]: file[c][i] = base[c] - old + i
        /\ opened[c] => Len(file[c]) = Flushed(c) - (IF Queued("write") THEN Size ELSE 0)
                                       - base[c] + old
  BY DEF IInv, ImuInv, FileInv
<1>3. old \in Nat /\ (Zephyr => old = 0)
  BY <1>1 DEF Old
<1>4. PICK v \in Int: v = base[c] - old
  BY <1>1, <1>3
<1>5. Run(file[c], v, Len(file[c]))
  BY <1>1, <1>2, <1>4, RecordedIs DEF Run
<1>6. CASE status[c] # "ACTIVE"
  <2>1. Recorded(c) = file[c]
    BY <1>6, RecordedIs
  <2>2. /\ Recorded(c) \in Seq(Int)
        /\ \A i \in 1..Len(Recorded(c)): Recorded(c)[i] = v + i
    BY <1>5, <2>1 DEF Run
  <2>3. Recorded(c) = [i \in 1..Len(Recorded(c)) |-> v + i]
    BY <2>2
  <2> QED
    BY <1>4, <1>6, <2>3
<1>7. CASE status[c] = "ACTIVE"
  <2>1. opened[c] /\ Recorded(c) = file[c] \o Waiting(c)
    BY <1>7, RecordedIs
  <2>2. Run(Recorded(c), v, total[c] - v)
    <3>1. CASE ~Queued("write")
      <4>1. /\ Flushed(c) = v + Len(file[c])
            /\ Len(file[c]) + current[c] = total[c] - v
        BY <1>1, <1>2, <1>3, <1>4, <2>1, <3>1
      <4>2. Run(Waiting(c), v + Len(file[c]), current[c])
        BY <3>1, <4>1, WaitingIs
      <4>3. Run(Recorded(c), v, Len(file[c]) + current[c])
        BY <1>5, <2>1, <4>2, RunConcat
      <4> QED
        BY <4>1, <4>3
    <3>2. CASE Queued("write")
      <4>1. PICK p \in 0..MaxSamples:
              /\ BlockIs(p) /\ Run(buffer[c][wr_index], p, Size)
              /\ Waiting(c) = buffer[c][wr_index] \o SubSeq(buffer[c][index[c]], 1, current[c])
        BY <3>2, WaitingIs
      <4>2. p + Size = Flushed(c) /\ p \in Int
        BY <4>1, SizeAssumption DEF BlockIs
      <4>3. Run(SubSeq(buffer[c][index[c]], 1, current[c]), p + Size, current[c])
        BY <4>2, WaitingIs
      <4>4. Run(Waiting(c), p, Size + current[c])
        BY <4>1, <4>2, <4>3, RunConcat
      <4>5. p = v + Len(file[c]) /\ Len(file[c]) + (Size + current[c]) = total[c] - v
        <5>1. Zephyr /\ old = 0
          BY <1>3, <3>2 DEF IInv, ImuInv, WriterInv
        <5>2. v \in Nat /\ v = base[c]
          BY <1>1, <1>4, <5>1
        <5>3. PICK l \in Nat: l = Len(file[c]) /\ l = Flushed(c) - Size - v
          BY <1>1, <1>2, <2>1, <3>2, <5>1, <5>2
        <5>4. PICK k \in Nat: k = current[c] /\ Flushed(c) = total[c] - k
          BY <1>1
        <5>5. PICK t \in Nat: t = total[c]
          BY <1>1
        <5>6. PICK m \in Nat: m = Size /\ p + m = t - k /\ l = t - k - m - v
          BY <1>1, <4>2, <5>3, <5>4, <5>5
        <5>7. p = v + l /\ l + (m + k) = t - v
          BY <4>2, <5>2, <5>6
        <5> QED
          BY <5>3, <5>4, <5>5, <5>6, <5>7
      <4>6. Run(Waiting(c), v + Len(file[c]), Size + current[c])
        BY <4>4, <4>5
      <4>7. Run(Recorded(c), v, Len(file[c]) + (Size + current[c]))
        BY <1>5, <2>1, <4>6, RunConcat
      <4> QED
        BY <4>5, <4>7
    <3> QED
      BY <3>1, <3>2
  <2>3. /\ Recorded(c) \in Seq(Int) /\ Len(Recorded(c)) = total[c] - v
        /\ \A i \in 1..Len(Recorded(c)): Recorded(c)[i] = v + i
    BY <2>2 DEF Run
  <2>4. Recorded(c) = [i \in 1..Len(Recorded(c)) |-> v + i]
    BY <2>3
  <2>5. total[c] - v = total[c] - base[c] + old
    BY <1>1, <1>3, <1>4
  <2> QED
    BY <1>4, <2>3, <2>4, <2>5
<1> QED
  BY <1>6, <1>7

\* A start, a stop or a failure does not disturb the order of what is recorded.
LEMMA RecordedIncreasing ==
  ASSUME IInv, NEW c \in Channels
  PROVE  Recorded(c) \in Seq(Int) /\ Increasing(Recorded(c))
<1> DEFINE part == SubSeq(buffer[c][index[c]], 1, current[c])
<1>1. /\ file[c] \in Seq(Int) /\ Increasing(file[c])
      /\ \A i \in DOMAIN file[c]: file[c][i] <= Flushed(c)
      /\ status[c] # "ACTIVE" => Recorded(c) = file[c]
      /\ status[c] = "ACTIVE" => Recorded(c) = file[c] \o Waiting(c)
  BY RecordedIs
<1>2. Flushed(c) \in Int /\ Size \in Nat
  BY Values DEF IInv
<1>3. ASSUME NEW s, NEW v \in Int, NEW n, Run(s, v, n)
      PROVE  /\ s \in Seq(Int) /\ Increasing(s)
             /\ \A i \in DOMAIN s: v < s[i] /\ s[i] <= v + n
  <2>1. s \in Seq(Int) /\ n \in Nat /\ DOMAIN s = 1..n /\ \A i \in 1..n: s[i] = v + i
    BY <1>3 DEF Run
  <2>2. \A i \in 1..n: i \in Nat /\ v < v + i /\ v + i <= v + n
    BY <2>1
  <2>3. \A i, j \in 1..n: i < j => v + i < v + j
    BY <2>1
  <2> QED
    BY <2>1, <2>2, <2>3 DEF Increasing
<1>4. /\ part \in Seq(Int) /\ Increasing(part)
      /\ \A i \in DOMAIN part: Flushed(c) < part[i]
  BY <1>2, <1>3, WaitingIs
<1>5. CASE status[c] # "ACTIVE"
  BY <1>1, <1>5
<1>6. CASE status[c] = "ACTIVE" /\ ~Queued("write")
  <2>1. /\ Waiting(c) \in Seq(Int) /\ Increasing(Waiting(c))
        /\ \A i \in DOMAIN Waiting(c): Flushed(c) < Waiting(c)[i]
    BY <1>2, <1>3, <1>6, WaitingIs
  <2>2. /\ file[c] \o Waiting(c) \in Seq(Int)
        /\ Increasing(file[c] \o Waiting(c))
    BY <1>1, <1>2, <2>1, IncreasingConcat
  <2> QED
    BY <1>1, <1>6, <2>2
<1>7. CASE status[c] = "ACTIVE" /\ Queued("write")
  <2> DEFINE b == buffer[c][wr_index]
  <2>1. PICK p \in 0..MaxSamples: /\ BlockIs(p) /\ Run(b, p, Size) /\ Waiting(c) = b \o part
    BY <1>7, WaitingIs
  <2> HIDE DEF b, part
  <2>2. /\ p \in Int /\ p + Size <= Flushed(c)
        /\ \A i \in DOMAIN file[c]: file[c][i] <= p
    BY <2>1, SizeAssumption DEF BlockIs
  <2>3. /\ b \in Seq(Int) /\ Increasing(b)
        /\ \A i \in DOMAIN b: p < b[i] /\ b[i] <= p + Size
    BY <1>3, <2>1, <2>2
  <2>4. \A i \in DOMAIN b: b[i] \in Int
    BY <2>3, ElementOfSeq, LenProperties
  <2>5. \A i \in DOMAIN b: b[i] <= Flushed(c)
    BY <1>2, <2>2, <2>3, <2>4
  <2>6. file[c] \o b \in Seq(Int) /\ Increasing(file[c] \o b)
    BY <1>1, <2>2, <2>3, IncreasingConcat
  <2>7. \A i \in DOMAIN (file[c] \o b): (file[c] \o b)[i] <= Flushed(c)
    <3>1. PICK n \in Nat: n = Len(file[c]) /\ DOMAIN file[c] = 1..n
      BY <1>1
    <3>2. PICK m \in Nat: m = Len(b) /\ DOMAIN b = 1..m
      BY <2>3
    <3>3. /\ DOMAIN (file[c] \o b) = 1..n + m
          /\ \A i \in 1..n + m: (file[c] \o b)[i] = IF i <= n THEN file[c][i] ELSE b[i - n]
      BY <1>1, <2>3, <3>1, <3>2, ConcatProperties
    <3>4. ASSUME NEW i \in 1..n + m PROVE (file[c] \o b)[i] <= Flushed(c)
      <4>1. CASE i \in 1..n
        BY <1>1, <3>1, <3>3, <4>1
      <4>2. CASE i \notin 1..n
        <5>1. i - n \in 1..m /\ ~(i <= n)
          BY <4>2
        <5> QED
          BY <2>5, <3>2, <3>3, <5>1
      <4> QED
        BY <4>1, <4>2
    <3> QED
      BY <3>3, <3>4
  <2>8. /\ (file[c] \o b) \o part \in Seq(Int)
        /\ Increasing((file[c] \o b) \o part)
    BY <1>2, <1>4, <2>6, <2>7, IncreasingConcat DEF part
  <2>9. Recorded(c) = (file[c] \o b) \o part
    <3>1. ASSUME NEW s \in Seq(Int), NEW t \in Seq(Int), NEW u \in Seq(Int)
          PROVE  (s \o t) \o u = s \o (t \o u)
      BY ConcatAssociative, SMTT(30)
    <3>2. file[c] \o (b \o part) = (file[c] \o b) \o part
      BY <1>1, <1>4, <2>3, <3>1
    <3> QED
      BY <1>1, <1>7, <2>1, <3>2
  <2> QED
    BY <2>8, <2>9
<1> QED
  BY <1>5, <1>6, <1>7

\* Of an earlier recording a file has less than a buffer, or at most one with Zephyr's
\* drivers, and then none when nothing was cut off.
LEMMA OldSamples ==
  ASSUME IInv, NEW c \in Channels
  PROVE  Cardinality({i \in DOMAIN file[c]: file[c][i] <= base[c]})
           <= IF ~Zephyr THEN Size - 1 ELSE IF cut[c] THEN Size ELSE 0
<1> DEFINE S == {i \in DOMAIN file[c]: file[c][i] <= base[c]}
<1>1. /\ Size \in Nat \ {0} /\ base[c] \in Nat /\ DOMAIN file[c] = 1..Len(file[c])
      /\ Len(file[c]) \in Nat
  BY Values DEF IInv
<1>2. \A i \in DOMAIN file[c]: i \in Nat \ {0} /\ file[c][i] \in Nat
  <2>1. \A i \in DOMAIN file[c]: file[c][i] \in 1..MaxSamples
    BY Values DEF IInv
  <2> QED
    BY <1>1, <2>1, SizeAssumption
<1>3. \A i \in DOMAIN file[c]: i > Size \/ (~Zephyr /\ i = Size) => base[c] < file[c][i]
  BY DEF IInv, ImuInv, FileInv
<1>4. ASSUME NEW n \in Nat, S \subseteq 1..n PROVE Cardinality(S) <= n
  <2>1. IsFiniteSet(1..n) /\ Cardinality(1..n) = n
    <3>1. /\ IsFiniteSet(1..n)
          /\ Cardinality(1..n) = IF 1 > n THEN 0 ELSE n - 1 + 1
      BY FS_Interval
    <3> QED
      BY <3>1
  <2>2. Cardinality(S) <= Cardinality(1..n)
    BY <1>4, <2>1, FS_Subset
  <2> QED
    BY <2>1, <2>2
<1>5. CASE ~Zephyr
  <2>1. S \subseteq 1..Size - 1
    BY <1>1, <1>2, <1>3, <1>5
  <2> QED
    BY <1>1, <1>4, <1>5, <2>1
<1>6. CASE Zephyr /\ cut[c]
  <2>1. S \subseteq 1..Size
    BY <1>1, <1>2, <1>3
  <2> QED
    BY <1>1, <1>4, <1>6, <2>1
<1>7. CASE Zephyr /\ ~cut[c]
  <2>1. \E old \in Old: \A i \in DOMAIN file[c]: file[c][i] = base[c] - old + i
    BY <1>7 DEF IInv, ImuInv, FileInv
  <2>2. \A i \in DOMAIN file[c]: file[c][i] = base[c] - 0 + i
    BY <1>7, <2>1 DEF Old
  <2>3. \A i \in DOMAIN file[c]: ~(file[c][i] <= base[c])
    BY <1>1, <1>2, <2>2
  <2>4. S \subseteq 1..0
    BY <2>3
  <2> QED
    BY <1>4, <1>7, <2>4
<1> QED
  BY <1>5, <1>6, <1>7

\* What is recorded is in order, and of an earlier recording it has little.
LEMMA OrderHolds == IInv => InOrder
<1> SUFFICES ASSUME IInv, NEW c \in Channels
             PROVE  /\ \A i \in 1..Len(Recorded(c)) - 1: Recorded(c)[i] < Recorded(c)[i + 1]
                    /\ Cardinality({i \in DOMAIN file[c]: file[c][i] <= base[c]})
                         <= IF ~Zephyr THEN Size - 1 ELSE IF cut[c] THEN Size ELSE 0
  BY DEF InOrder
<1>1. ASSUME NEW i \in 1..Len(Recorded(c)) - 1 PROVE Recorded(c)[i] < Recorded(c)[i + 1]
  <2>1. Recorded(c) \in Seq(Int) /\ Increasing(Recorded(c))
    BY RecordedIncreasing
  <2>2. PICK n \in Nat: n = Len(Recorded(c)) /\ DOMAIN Recorded(c) = 1..n
    BY <2>1
  <2>3. i \in 1..n /\ i + 1 \in 1..n /\ i < i + 1
    BY <2>2
  <2> QED
    BY <2>1, <2>2, <2>3 DEF Increasing
<1> QED
  BY <1>1, OldSamples

\* Two files that agree as far as both go: one is the beginning of the other.
LEMMA AlignedHolds == IInv => FilesAligned
<1> SUFFICES ASSUME IInv, Zephyr, NEW c \in Channels, NEW d \in Channels
             PROVE  IsPrefix(file[c], file[d]) \/ IsPrefix(file[d], file[c])
  BY DEF FilesAligned
<1>1. ASSUME NEW s \in Seq(1..MaxSamples), NEW t \in Seq(1..MaxSamples), Len(s) <= Len(t),
             \A i \in DOMAIN s \cap DOMAIN t: s[i] = t[i]
      PROVE  IsPrefix(s, t)
  <2>1. PICK n \in Nat: n = Len(s) /\ DOMAIN s = 1..n
    OBVIOUS
  <2>2. PICK m \in Nat: m = Len(t) /\ DOMAIN t = 1..m /\ n <= m
    BY <1>1, <2>1
  <2>3. \A i \in 1..n: i \in 1..m /\ s[i] = t[i] /\ s[i] \in 1..MaxSamples
    <3>1. \A i \in 1..n: i \in 1..m /\ s[i] = t[i]
      BY <1>1, <2>1, <2>2
    <3>2. \A i \in 1..n: s[i] \in 1..MaxSamples
      BY <2>1, ElementOfSeq
    <3> QED
      BY <3>1, <3>2
  <2>4. 1 \in Int /\ n \in Int /\ \A i \in 1..n: t[i] \in 1..MaxSamples
    BY <2>3
  <2>5. /\ SubSeq(s, 1, n) \in Seq(1..MaxSamples) /\ SubSeq(t, 1, n) \in Seq(1..MaxSamples)
        /\ Len(SubSeq(s, 1, n)) = (IF 1 <= n THEN n - 1 + 1 ELSE 0)
        /\ Len(SubSeq(t, 1, n)) = (IF 1 <= n THEN n - 1 + 1 ELSE 0)
        /\ \A i \in 1..n - 1 + 1: SubSeq(s, 1, n)[i] = s[1 + i - 1]
        /\ \A i \in 1..n - 1 + 1: SubSeq(t, 1, n)[i] = t[1 + i - 1]
    BY <2>3, <2>4, SubSeqProperties
  <2>6. Len(SubSeq(s, 1, n)) = n /\ Len(SubSeq(t, 1, n)) = n
    BY <2>5
  <2>7. \A i \in 1..n: SubSeq(s, 1, n)[i] = SubSeq(t, 1, n)[i]
    <3>1. \A i \in 1..n: i \in 1..n - 1 + 1 /\ 1 + i - 1 = i
      OBVIOUS
    <3> QED
      BY <2>3, <2>5, <3>1
  <2>8. SubSeq(s, 1, n) = SubSeq(t, 1, n)
    BY <2>5, <2>6, <2>7, SeqEqual
  <2> QED
    BY <1>1, <2>1, <2>8 DEF IsPrefix
<1>2. /\ file[c] \in Seq(1..MaxSamples) /\ file[d] \in Seq(1..MaxSamples)
      /\ Len(file[c]) \in Nat /\ Len(file[d]) \in Nat
  BY Values DEF IInv
<1>3. /\ \A i \in DOMAIN file[c] \cap DOMAIN file[d]: file[c][i] = file[d][i]
      /\ \A i \in DOMAIN file[d] \cap DOMAIN file[c]: file[d][i] = file[c][i]
  BY DEF IInv, ImuInv, AlignedInv
<1>4. Len(file[c]) <= Len(file[d]) \/ Len(file[d]) <= Len(file[c])
  BY <1>2
<1> QED
  BY <1>1, <1>2, <1>3, <1>4

\* A channel's file and buffers hold every sample since the recording began, in order and
\* once, unless a call failed or a block was dropped.
THEOREM CompleteCorrect == Spec => []CompleteUnlessCut
<1>1. TypeOK /\ ImuInv => CompleteUnlessCut
  BY InvForms, CompleteHolds
<1> QED
  BY <1>1, InvCorrect, PTL

\* Whatever fails, no sample is written twice or after a later one, and little of an
\* earlier recording gets into a file.
THEOREM InOrderCorrect == Spec => []InOrder
<1>1. TypeOK /\ ImuInv => InOrder
  BY InvForms, OrderHolds
<1> QED
  BY <1>1, InvCorrect, PTL

\* With Zephyr's drivers the n-th samples of any two files were taken together.
THEOREM AlignedCorrect == Spec => []FilesAligned
<1>1. TypeOK /\ ImuInv => FilesAligned
  BY InvForms, AlignedHolds
<1> QED
  BY <1>1, InvCorrect, PTL
=============================================================================
