---------------------------- MODULE QueueLemmas ----------------------------
(***************************************************************************)
(* What taking items from a queue and adding them does to the items in it, *)
(* for queues that hold no item twice, as the kernel's work queue.         *)
(***************************************************************************)
EXTENDS Naturals, Sequences, SequenceTheorems, TLAPS

\* q holds x, and holds nothing twice.
Holds(q, x) == \E i \in DOMAIN q: q[i] = x
Once(q) == \A i, j \in DOMAIN q: q[i] = q[j] => i = j

\* Wherever q holds y, x is before it.
Ahead(q, x, y) == \A i, j \in DOMAIN q: q[i] = x /\ q[j] = y => i < j

\* An empty queue.
LEMMA QueueEmpty ==
  ASSUME NEW S
  PROVE  <<>> \in Seq(S) /\ Once(<<>>) /\ \A x: ~Holds(<<>>, x)
BY EmptySeq DEF Holds, Once

\* An item that is not in the queue joins it.
LEMMA QueueAppend ==
  ASSUME NEW S, NEW q \in Seq(S), Once(q), NEW e \in S, ~Holds(q, e)
  PROVE  /\ Append(q, e) \in Seq(S)
         /\ Once(Append(q, e))
         /\ \A x: Holds(Append(q, e), x) <=> Holds(q, x) \/ x = e
<1> DEFINE r == Append(q, e)
<1>1. /\ r \in Seq(S) /\ Len(r) = Len(q) + 1 /\ Len(q) \in Nat
      /\ \A i \in 1..Len(q): r[i] = q[i]
      /\ r[Len(q) + 1] = e
  BY AppendProperties
<1>2. DOMAIN q = 1..Len(q) /\ DOMAIN r = 1..Len(q) + 1
  BY <1>1
<1> HIDE DEF r
<1>3. Once(r)
  BY <1>1, <1>2 DEF Once, Holds
<1>4. ASSUME NEW x PROVE Holds(r, x) <=> Holds(q, x) \/ x = e
  BY <1>1, <1>2 DEF Holds
<1> QED
  BY <1>1, <1>3, <1>4 DEF r

\* The first item leaves the queue.
LEMMA QueueTail ==
  ASSUME NEW S, NEW q \in Seq(S), Once(q), q # <<>>
  PROVE  /\ Tail(q) \in Seq(S) /\ Head(q) \in S
         /\ Once(Tail(q))
         /\ Holds(q, Head(q))
         /\ \A x: Holds(Tail(q), x) <=> Holds(q, x) /\ x # Head(q)
<1> DEFINE r == Tail(q)
<1>1. /\ r \in Seq(S) /\ Len(r) = Len(q) - 1 /\ Len(q) \in Nat \ {0}
      /\ \A i \in 1..Len(r): r[i] = q[i + 1]
      /\ Head(q) = q[1] /\ Head(q) \in S
  BY HeadTailProperties, EmptySeq
<1>2. DOMAIN q = 1..Len(q) /\ DOMAIN r = 1..Len(q) - 1
  BY <1>1
<1> HIDE DEF r
<1>3. Once(r)
  BY <1>1, <1>2 DEF Once
<1>4. Holds(q, Head(q))
  BY <1>1, <1>2 DEF Holds
<1>5. ASSUME NEW x PROVE Holds(r, x) <=> Holds(q, x) /\ x # Head(q)
  <2>1. ASSUME Holds(r, x) PROVE Holds(q, x) /\ x # Head(q)
    BY <1>1, <1>2, <2>1 DEF Holds, Once
  <2>2. ASSUME Holds(q, x), x # Head(q) PROVE Holds(r, x)
    <3>1. PICK i \in 1..Len(q): q[i] = x
      BY <1>2, <2>2 DEF Holds
    <3>2. i # 1 /\ i - 1 \in 1..Len(r) /\ r[i - 1] = x
      BY <1>1, <2>2, <3>1
    <3> QED
      BY <1>1, <1>2, <3>2 DEF Holds
  <2> QED
    BY <2>1, <2>2
<1> QED
  BY <1>1, <1>3, <1>4, <1>5 DEF r

\* An item is taken out of the queue from where it is.
LEMMA QueueRemoveAt ==
  ASSUME NEW S, NEW q \in Seq(S), Once(q), NEW i \in 1..Len(q)
  PROVE  /\ SubSeq(q, 1, i - 1) \o SubSeq(q, i + 1, Len(q)) \in Seq(S)
         /\ Once(SubSeq(q, 1, i - 1) \o SubSeq(q, i + 1, Len(q)))
         /\ \A x: Holds(SubSeq(q, 1, i - 1) \o SubSeq(q, i + 1, Len(q)), x)
                    <=> Holds(q, x) /\ x # q[i]
<1> DEFINE s == SubSeq(q, 1, i - 1)
           t == SubSeq(q, i + 1, Len(q))
           r == s \o t
<1>0. Len(q) \in Nat /\ DOMAIN q = 1..Len(q) /\ \A j \in 1..Len(q): q[j] \in S
  OBVIOUS
<1>1. s \in Seq(S) /\ Len(s) = i - 1 /\ \A j \in 1..i - 1: s[j] = q[j]
  <2>1. 1 \in Int /\ i - 1 \in Int /\ \A j \in 1..i - 1: q[j] \in S
    BY <1>0
  <2> QED
    BY <2>1, SubSeqProperties, Z3
<1>2. t \in Seq(S) /\ Len(t) = Len(q) - i /\ \A j \in 1..Len(q) - i: t[j] = q[i + j]
  <2>1. i + 1 \in Int /\ Len(q) \in Int /\ \A j \in i + 1..Len(q): q[j] \in S
    BY <1>0
  <2>2. /\ t \in Seq(S)
        /\ Len(t) = IF i + 1 <= Len(q) THEN Len(q) - (i + 1) + 1 ELSE 0
        /\ \A j \in 1..Len(q) - (i + 1) + 1: t[j] = q[i + 1 + j - 1]
    BY <2>1, SubSeqProperties
  <2> HIDE DEF t
  <2>3. Len(t) = Len(q) - i
    <3>1. Len(t) = IF i + 1 <= Len(q) THEN Len(q) - (i + 1) + 1 ELSE 0
      BY <2>2
    <3>2. PICK n \in Nat: n = Len(q)
      BY <1>0
    <3>3. (IF i + 1 <= n THEN n - (i + 1) + 1 ELSE 0) = n - i
      BY <3>2
    <3> QED
      BY <3>1, <3>2, <3>3
  <2>4. ASSUME NEW j \in 1..Len(q) - i PROVE t[j] = q[i + j]
    <3>1. j \in 1..Len(q) - (i + 1) + 1 /\ i + 1 + j - 1 = i + j
      BY <1>0
    <3> QED
      BY <2>2, <3>1
  <2> QED
    BY <2>2, <2>3, <2>4
<1> HIDE DEF s, t
<1>3. /\ r \in Seq(S) /\ Len(r) = Len(q) - 1
      /\ \A j \in 1..Len(q) - 1: r[j] = IF j < i THEN q[j] ELSE q[j + 1]
  <2>1. /\ r \in Seq(S) /\ Len(r) = Len(s) + Len(t)
        /\ \A j \in 1..Len(s) + Len(t): r[j] = IF j <= Len(s) THEN s[j] ELSE t[j - Len(s)]
    BY <1>1, <1>2, ConcatProperties
  <2> HIDE DEF r
  <2>2. Len(r) = Len(q) - 1
    BY <1>0, <1>1, <1>2, <2>1
  <2>3. ASSUME NEW j \in 1..Len(q) - 1 PROVE r[j] = IF j < i THEN q[j] ELSE q[j + 1]
    <3>1. j \in 1..Len(s) + Len(t)
      BY <1>0, <1>1, <1>2
    <3>2. CASE j < i
      BY <1>1, <2>1, <3>1, <3>2
    <3>3. CASE j >= i
      <4>1. /\ j - Len(s) \in 1..Len(q) - i /\ i + (j - Len(s)) = j + 1
            /\ ~(j <= Len(s)) /\ ~(j < i)
        BY <1>0, <1>1, <3>3
      <4> QED
        BY <1>2, <2>1, <3>1, <4>1
    <3> QED
      BY <3>2, <3>3
  <2> QED
    BY <2>1, <2>2, <2>3
<1>4. DOMAIN r = 1..Len(q) - 1
  BY <1>3
<1> HIDE DEF r
<1>5. Once(r)
  BY <1>0, <1>3, <1>4 DEF Once
<1>6. ASSUME NEW x PROVE Holds(r, x) <=> Holds(q, x) /\ x # q[i]
  <2>1. ASSUME Holds(r, x) PROVE Holds(q, x) /\ x # q[i]
    BY <1>0, <1>3, <1>4, <2>1 DEF Holds, Once
  <2>2. ASSUME Holds(q, x), x # q[i] PROVE Holds(r, x)
    <3>1. PICK j \in 1..Len(q): q[j] = x
      BY <1>0, <2>2 DEF Holds
    <3>2. CASE j < i
      BY <1>0, <1>3, <1>4, <3>1, <3>2 DEF Holds
    <3>3. CASE j > i
      <4>1. j - 1 \in 1..Len(q) - 1 /\ r[j - 1] = x
        BY <1>0, <1>3, <3>1, <3>3
      <4> QED
        BY <1>4, <4>1 DEF Holds
    <3> QED
      BY <2>2, <3>1, <3>2, <3>3
  <2> QED
    BY <2>1, <2>2
<1> QED
  BY <1>3, <1>5, <1>6 DEF r, s, t

\* What joins the queue is behind everything in it.
LEMMA QueueAppendOrder ==
  ASSUME NEW S, NEW q \in Seq(S), NEW e \in S, NEW x, NEW y
  PROVE  /\ x # e /\ Ahead(q, x, y) => Ahead(Append(q, e), x, y)
         /\ q # <<>> => Append(q, e) # <<>> /\ Head(Append(q, e)) = Head(q)
<1> DEFINE r == Append(q, e)
<1>1. /\ r \in Seq(S) /\ Len(r) = Len(q) + 1 /\ Len(q) \in Nat
      /\ \A i \in 1..Len(q): r[i] = q[i]
      /\ r[Len(q) + 1] = e
  BY AppendProperties
<1>2. DOMAIN q = 1..Len(q) /\ DOMAIN r = 1..Len(q) + 1
  BY <1>1
<1> HIDE DEF r
<1>3. x # e /\ Ahead(q, x, y) => Ahead(r, x, y)
  BY <1>1, <1>2 DEF Ahead
<1>4. q # <<>> => r # <<>> /\ Head(r) = Head(q)
  <2>1. q # <<>> => Len(q) # 0
    BY EmptySeq
  <2>2. Len(q) # 0 => r # <<>> /\ r[1] = q[1]
    BY <1>1
  <2> QED
    BY <1>1, <2>1, <2>2, HeadTailProperties
<1> QED
  BY <1>3, <1>4 DEF r

\* The order stays when the first item leaves; behind that one it says nothing, and ahead
\* of it there is nothing.
LEMMA QueueTailOrder ==
  ASSUME NEW S, NEW q \in Seq(S), Once(q), q # <<>>, NEW x, NEW y
  PROVE  /\ Ahead(q, x, y) => Ahead(Tail(q), x, y)
         /\ Head(q) = y => Ahead(Tail(q), x, y)
         /\ Ahead(q, x, y) /\ Head(q) = y => ~Holds(q, x)
<1> DEFINE r == Tail(q)
<1>1. /\ r \in Seq(S) /\ Len(r) = Len(q) - 1 /\ Len(q) \in Nat \ {0}
      /\ \A i \in 1..Len(r): r[i] = q[i + 1]
      /\ Head(q) = q[1]
  BY HeadTailProperties, EmptySeq
<1>2. DOMAIN q = 1..Len(q) /\ DOMAIN r = 1..Len(q) - 1
  BY <1>1
<1> HIDE DEF r
<1>3. Ahead(q, x, y) => Ahead(r, x, y)
  <2> SUFFICES ASSUME Ahead(q, x, y), NEW i \in DOMAIN r, NEW j \in DOMAIN r, r[i] = x, r[j] = y
               PROVE  i < j
    BY DEF Ahead
  <2>1. i + 1 \in DOMAIN q /\ j + 1 \in DOMAIN q /\ q[i + 1] = x /\ q[j + 1] = y
    BY <1>1, <1>2
  <2> QED
    BY <1>1, <1>2, <2>1 DEF Ahead
<1>4. Head(q) = y => Ahead(r, x, y)
  <2>1. Head(q) = y => ~Holds(r, y)
    BY QueueTail DEF r
  <2> QED
    BY <2>1 DEF Ahead, Holds
<1>5. Ahead(q, x, y) /\ Head(q) = y => ~Holds(q, x)
  <2> SUFFICES ASSUME Ahead(q, x, y), Head(q) = y, NEW i \in DOMAIN q, q[i] = x PROVE FALSE
    BY DEF Holds
  <2>1. 1 \in DOMAIN q /\ q[1] = y
    BY <1>1, <1>2
  <2> QED
    BY <1>2, <2>1 DEF Ahead
<1> QED
  BY <1>3, <1>4, <1>5 DEF r
=============================================================================
