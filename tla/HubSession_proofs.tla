-------------------------- MODULE HubSession_proofs --------------------------
(***************************************************************************)
(* Theorems about HubSession for any commands, data, size of a write and   *)
(* number of clients.                                                      *)
(***************************************************************************)
EXTENDS HubSession, SequenceTheorems, WellFoundedInduction, TLAPS

\* What decides who has the badge: one thread at most is in a session, and it is the one
\* that has the lock and a client, which runs; every other client that runs is an orphan;
\* and a link's client serves.  The other variables do not matter.
SessionInv ==
  /\ pc \in [Threads -> {"idle", "connect", "send", "answer", "join", "crash", "dead"}]
  /\ mine \in [Threads -> 0..MaxClients]
  /\ lock \in Threads \cup {NoOne}
  /\ \A t \in Threads: (lock = t <=> InSession(t)) /\ (mine[t] # 0 <=> InSession(t))
  /\ phase \in [Clients -> {"none", "scan", "connecting", "serving", "done"}]
  /\ \A t \in Threads: mine[t] # 0 => phase[mine[t]] # "none"
  /\ orphans = {n \in Clients: phase[n] # "none" /\ \A t \in Threads: mine[t] # n}
  /\ link \in 0..Gone
  /\ link \in Clients => phase[link] = "serving"

\* The numbers of clients are neither that of no client nor that of one that is gone.
LEMMA ClientNumbers ==
  /\ 0 \notin Clients /\ Gone \notin Clients
  /\ 0 \in 0..Gone /\ Gone \in 0..Gone /\ 0 \in 0..MaxClients
  /\ Clients \subseteq 0..MaxClients /\ Clients \subseteq 0..Gone
BY BoundsAssumption DEF Clients, Gone

\* Nobody's name is not a thread's.
LEMMA NoThread == NoOne \notin Threads
BY DEF NoOne, Threads

\* A thread that opens a session gets the lock and a client that did not run.
LEMMA BeginStep ==
  ASSUME SessionInv, NEW t \in Threads, NEW list \in BOOLEAN, BeginSession(t, list)
  PROVE  SessionInv'
<1>1. PICK n \in Clients: /\ phase[n] = "none"
                          /\ mine' = [mine EXCEPT ![t] = n]
                          /\ phase' = [phase EXCEPT ![n] = "scan"]
  BY DEF BeginSession
<1>2. /\ pc' = [pc EXCEPT ![t] = "connect"] /\ lock = NoOne /\ lock' = t
      /\ UNCHANGED <<orphans, link>>
  BY DEF BeginSession, Goto, LockFree, air
<1>3. \A u \in Threads: mine[u] = 0 /\ ~InSession(u)
  BY <1>2, NoThread DEF SessionInv
<1>4. \A u \in Threads: InSession(u)' <=> u = t
  BY <1>2, <1>3 DEF SessionInv, InSession
<1>5. n # 0 /\ n \in 0..MaxClients
  BY ClientNumbers
<1>6. \A u \in Threads: mine'[u] = IF u = t THEN n ELSE 0
  BY <1>1, <1>3 DEF SessionInv
<1>7. orphans' = {m \in Clients: phase'[m] # "none" /\ \A u \in Threads: mine'[u] # m}
  BY <1>1, <1>2, <1>3, <1>6, ClientNumbers DEF SessionInv
<1> QED
  BY <1>1, <1>2, <1>4, <1>5, <1>6, <1>7 DEF SessionInv

\* A session that goes on keeps the lock and its client.
LEMMA GotoStep ==
  ASSUME SessionInv, NEW t \in Threads, InSession(t),
         NEW next \in {"connect", "send", "answer", "join"}, Goto(t, next),
         UNCHANGED <<mine, lock, orphans, phase, link>>
  PROVE  SessionInv'
<1>1. \A u \in Threads: InSession(u)' <=> InSession(u)
  BY DEF SessionInv, InSession, Goto
<1>2. pc' \in [Threads -> {"idle", "connect", "send", "answer", "join", "crash", "dead"}]
  BY DEF SessionInv, Goto
<1> QED
  BY <1>1, <1>2 DEF SessionInv

\* A session that ends gives the lock back.  Its client has ended with it or, of a listing
\* that gave up, is an orphan.
LEMMA ReleaseStep ==
  ASSUME SessionInv, NEW t \in Threads, InSession(t),
         NEW next \in {"idle", "crash", "dead"}, Release(t, next),
         \/ /\ phase[mine[t]] = "done" /\ phase' = [phase EXCEPT ![mine[t]] = "none"]
            /\ UNCHANGED orphans
         \/ /\ phase[mine[t]] # "none" /\ orphans' = orphans \cup {mine[t]}
            /\ UNCHANGED phase,
         UNCHANGED link
  PROVE  SessionInv'
<1>1. /\ lock' = NoOne /\ pc' = [pc EXCEPT ![t] = next] /\ mine' = [mine EXCEPT ![t] = 0]
  BY DEF Release, Goto
<1>2. lock = t /\ mine[t] \in Clients
  BY DEF SessionInv, Clients
<1>3. \A u \in Threads: u # t => ~InSession(u) /\ mine[u] = 0
  BY <1>2 DEF SessionInv
<1>4. \A u \in Threads: ~InSession(u)' /\ mine'[u] = 0
  BY <1>1, <1>3 DEF SessionInv, InSession
<1>5. orphans' = {m \in Clients: phase'[m] # "none" /\ \A u \in Threads: mine'[u] # m}
  <2>1. \A m \in Clients: (\A u \in Threads: mine'[u] # m)
                          /\ ((\A u \in Threads: mine[u] # m) <=> m # mine[t])
    BY <1>2, <1>3, <1>4, ClientNumbers
  <2> QED
    BY <1>2, <2>1 DEF SessionInv
<1>6. link' \in Clients => phase'[link'] = "serving"
  BY <1>2 DEF SessionInv
<1>7. phase' \in [Clients -> {"none", "scan", "connecting", "serving", "done"}]
  BY DEF SessionInv
<1>8. /\ pc' \in [Threads -> {"idle", "connect", "send", "answer", "join", "crash", "dead"}]
      /\ mine' \in [Threads -> 0..MaxClients]
  BY <1>1, ClientNumbers DEF SessionInv
<1> QED
  BY <1>1, <1>4, <1>5, <1>6, <1>7, <1>8, NoThread DEF SessionInv

\* The hub's steps in a session.
LEMMA SessionStep ==
  ASSUME SessionInv, NEW t \in Threads, Session(t)
  PROVE  SessionInv'
<1> USE DEF At, client, hold, air
\* Its thread only waits, or asks for more.
<1>1. CASE SeesConnected(t) \/ Send(t) \/ TakeAnswer(t)
  <2>1. /\ InSession(t) /\ \E next \in {"send", "answer"}: Goto(t, next)
        /\ UNCHANGED <<mine, lock, orphans, phase, link>>
    BY <1>1 DEF SeesConnected, Send, TakeAnswer, InSession, task
  <2> QED
    BY <2>1, GotoStep
\* It stops its client and joins it.
<1>2. ASSUME InSession(t), StopClient(t), UNCHANGED <<phase, link>>
      PROVE  SessionInv'
  BY <1>2, GotoStep DEF StopClient
\* An exception.
<1>3. ASSUME NEW next \in {"idle", "crash", "dead"}, InSession(t), Leave(t, next),
             UNCHANGED link
      PROVE  SessionInv'
  <2>1. CASE ~listing[t]
    BY <1>2, <1>3, <2>1 DEF Leave
  <2>2. CASE listing[t] /\ phase[mine[t]] = "done"
    BY <1>3, <2>2, ReleaseStep DEF Leave
  <2>3. CASE listing[t] /\ phase[mine[t]] # "done"
    <3>1. phase[mine[t]] # "none"
      BY <1>3 DEF SessionInv
    <3> QED
      BY <1>3, <2>3, <3>1, ReleaseStep DEF Leave
  <2> QED
    BY <2>1, <2>2, <2>3
<1>4. CASE GiveUp(t) \/ NoAnswer(t) \/ CannotSend(t)
  <2>1. InSession(t) /\ UNCHANGED link
    BY <1>4 DEF GiveUp, NoAnswer, CannotSend, InSession
  <2>2. \E next \in {"idle", "crash", "dead"}: Leave(t, next)
    BY <1>4 DEF GiveUp, NoAnswer, CannotSend, Crashes
  <2> QED
    BY <1>3, <2>1, <2>2
<1>5. CASE EndSession(t)
  BY <1>2, <1>5 DEF EndSession, InSession
<1>6. CASE Join(t)
  <2>1. InSession(t) /\ \E next \in {"idle", "crash", "dead"}: Release(t, next)
    BY <1>6 DEF Join, InSession, Crashes
  <2> QED
    BY <1>6, <2>1, ReleaseStep DEF Join
<1> QED
  BY <1>1, <1>4, <1>5, <1>6 DEF Session

\* The steps of a client's own thread.
LEMMA ClientStep ==
  ASSUME SessionInv, NEW n \in Clients, Client(n)
  PROVE  SessionInv'
<1> USE DEF task, client, hold, air
<1>0. UNCHANGED <<pc, mine, lock>>
  BY DEF Client, Finds, CannotConnect, Connects, Write, ClientEnds
<1>1. \A u \in Threads: InSession(u)' <=> InSession(u)
  BY <1>0 DEF InSession
<1>2. CASE Finds(n) \/ Connects(n)
  <2>1. \E next \in {"connecting", "serving"}: phase' = [phase EXCEPT ![n] = next]
    BY <1>2 DEF Finds, Connects
  <2>2. UNCHANGED orphans /\ phase[n] # "none" /\ link = 0
    BY <1>2 DEF Finds, Connects
  <2>3. orphans' = {m \in Clients: phase'[m] # "none" /\ \A u \in Threads: mine'[u] # m}
    BY <1>0, <2>1, <2>2 DEF SessionInv
  <2>4. link' = 0 \/ (link' = n /\ phase'[n] = "serving")
    BY <1>2, <2>2 DEF Finds, Connects, SessionInv
  <2> QED
    BY <1>0, <1>1, <2>1, <2>3, <2>4, ClientNumbers DEF SessionInv
<1>3. CASE CannotConnect(n) \/ ClientEnds(n)
  <2>1. Ends(n) /\ phase[n] # "none"
    BY <1>3 DEF CannotConnect, ClientEnds
  <2>2. orphans' = {m \in Clients: phase'[m] # "none" /\ \A u \in Threads: mine'[u] # m}
    BY <1>0, <2>1 DEF Ends, SessionInv
  <2>3. link' = 0 \/ (link' = link /\ link # n)
    BY <1>3 DEF CannotConnect, ClientEnds, SessionInv
  <2>4. phase' \in [Clients -> {"none", "scan", "connecting", "serving", "done"}]
    BY <2>1 DEF Ends, SessionInv
  <2>5. \A m \in Clients: m # n => phase'[m] = phase[m]
    BY <2>1 DEF Ends, SessionInv
  <2>6. \A u \in Threads: mine'[u] # 0 => phase'[mine'[u]] # "none"
    <3> SUFFICES ASSUME NEW u \in Threads, mine[u] # 0 PROVE phase'[mine[u]] # "none"
      BY <1>0
    <3>1. mine[u] \in Clients \ orphans /\ phase[mine[u]] # "none"
      BY DEF SessionInv, Clients
    <3> QED
      BY <2>1, <3>1 DEF Ends, SessionInv
  <2> QED
    BY <1>0, <1>1, <2>2, <2>3, <2>4, <2>5, <2>6, ClientNumbers DEF SessionInv
<1>4. CASE Write(n)
  BY <1>0, <1>1, <1>4 DEF Write, SessionInv
<1> QED
  BY <1>2, <1>3, <1>4 DEF Client

\* Who has the badge is decided by SessionInv in every state.
THEOREM InvCorrect == Spec => []SessionInv
<1>1. Init => SessionInv
  <2> SUFFICES ASSUME Init PROVE SessionInv
    OBVIOUS
  <2>1. \A t \in Threads: ~InSession(t) /\ lock # t /\ mine[t] = 0
    BY NoThread DEF Init, InSession
  <2>2. orphans = {n \in Clients: phase[n] # "none" /\ \A t \in Threads: mine[t] # n}
    BY DEF Init
  <2> QED
    BY <2>1, <2>2, ClientNumbers DEF Init, SessionInv
<1>2. SessionInv /\ [Next]_vars => SessionInv'
  <2> SUFFICES ASSUME SessionInv, [Next]_vars PROVE SessionInv'
    OBVIOUS
  <2>1. ASSUME NEW t \in Threads, NEW list \in BOOLEAN, BeginSession(t, list)
        PROVE  SessionInv'
    BY <2>1, BeginStep
  <2>2. ASSUME NEW t \in Threads, Session(t) PROVE SessionInv'
    BY <2>2, SessionStep
  <2>3. ASSUME NEW n \in Clients, Client(n) PROVE SessionInv'
    BY <2>3, ClientStep
  <2>4. CASE BadgeAnswers
    BY <2>4 DEF BadgeAnswers, SessionInv, InSession, task, hold, client, air
  <2>5. CASE LinkDrops
    BY <2>5, ClientNumbers DEF LinkDrops, SessionInv, InSession, task, hold
  <2>6. CASE Restart
    <3>1. \A t \in Threads: ~InSession(t)' /\ lock' # t /\ mine'[t] = 0
      BY <2>6, NoThread DEF Restart, InSession
    <3>2. link' \in {0, Gone}
      BY <2>6 DEF Restart
    <3>3. orphans' = {n \in Clients: phase'[n] # "none" /\ \A t \in Threads: mine'[t] # n}
      BY <2>6 DEF Restart
    <3> QED
      BY <2>6, <3>1, <3>2, <3>3, ClientNumbers DEF Restart, SessionInv
  <2>7. CASE UNCHANGED vars
    BY <2>7 DEF vars, SessionInv, InSession, task, hold, client, air
  <2> QED
    BY <2>1, <2>2, <2>3, <2>4, <2>5, <2>6, <2>7 DEF Next
<1> QED
  BY <1>1, <1>2, PTL DEF Spec

\* Whatever is lost, times out or is started again, only the client of the session that
\* has the lock has the badge, but for those a listing left.
THEOREM LinkCorrect == Spec => []LinkHasSession
<1>1. SessionInv => LinkHasSession
  BY DEF SessionInv, LinkHasSession, Clients
<1> QED
  BY <1>1, InvCorrect, PTL
-----------------------------------------------------------------------------
\* What the parser finds in the tokens of a write.

Tokens == Data \cup Cmds \cup {"SOT", "EOT"}
States == [st: {"SOT", "CMD", "DATA", "EOT"}, cmd: Cmds \cup {NoOne}, data: Seq(Tokens)]

\* The states of the parser: of a frame's data it knows the command, and between frames
\* nothing.
ParserOK(p) ==
  /\ p \in States
  /\ p.st \in {"DATA", "EOT"} => p.cmd \in Cmds
  /\ p.st = "SOT" => p = AtRest

FoldOK(s) == s \in [p: States, got: Seq(Frames)] /\ ParserOK(s.p)

\* Induction, over sets: the provers cannot instantiate the library's, over predicates.
NatLess == {ss \in Nat \X Nat: ss[1] < ss[2]}

\* There is no infinite descent in the natural numbers.
LEMMA NatWellFounded == IsWellFoundedOn(NatLess, Nat)
BY NatLessThanWellFounded DEF OpToRel, NatLess

\* A set that has 0, and with every number the next, has all of them.
LEMMA SetInduction ==
  ASSUME NEW S, 0 \in S, \A n \in Nat: n \in S => n + 1 \in S
  PROVE  Nat \subseteq S
<1> SUFFICES ASSUME Nat \ S # {} PROVE FALSE
  OBVIOUS
<1>1. PICK x \in Nat \ S: \A y \in Nat \ S: ~(<<y, x>> \in NatLess)
  BY NatWellFounded, WFMin
<1>2. x # 0 /\ x - 1 \in Nat /\ x - 1 + 1 = x /\ x - 1 < x
  OBVIOUS
<1>3. <<x - 1, x>> \in NatLess
  BY <1>2 DEF NatLess
<1> QED
  BY <1>1, <1>2, <1>3

\* run is what received() goes through for the bytes.
Folds(run, start, bytes) ==
  run = [i \in 0..Len(bytes) |-> IF i = 0 THEN start ELSE Step(run[i - 1], bytes[i])]

\* received()'s loop has a run for whatever a write brings.
LEMMA RunExists ==
  ASSUME NEW start, NEW bytes \in Seq(Tokens)
  PROVE  \E run: Folds(run, start, bytes)
<1> DEFINE Is(run, k) == run = [i \in 0..k |-> IF i = 0 THEN start
                                               ELSE Step(run[i - 1], bytes[i])]
           S == {k \in Nat: \E run: Is(run, k)}
<1>1. 0 \in S
  <2> DEFINE run == [i \in 0..0 |-> start]
  <2>1. Is(run, 0)
    OBVIOUS
  <2> QED
    BY <2>1
<1>2. ASSUME NEW k \in Nat, k \in S PROVE k + 1 \in S
  <2>1. PICK old: Is(old, k)
    BY <1>2
  <2> DEFINE run == [i \in 0..k + 1 |-> IF i <= k THEN old[i]
                                        ELSE Step(old[k], bytes[k + 1])]
  <2>2. \A i \in 0..k: run[i] = old[i]
    OBVIOUS
  <2>3. run[k + 1] = Step(run[k], bytes[k + 1])
    OBVIOUS
  <2>4. ASSUME NEW i \in 0..k + 1
        PROVE  run[i] = IF i = 0 THEN start ELSE Step(run[i - 1], bytes[i])
    <3>1. CASE i = k + 1
      BY <2>3, <3>1
    <3>2. CASE i \in 0..k
      <4>1. i # 0 => i - 1 \in 0..k
        BY <3>2
      <4>2. old[i] = IF i = 0 THEN start ELSE Step(old[i - 1], bytes[i])
        BY <2>1, <3>2
      <4> HIDE DEF run
      <4> QED
        BY <2>2, <3>2, <4>1, <4>2
    <3> QED
      BY <3>1, <3>2
  <2>5. Is(run, k + 1)
    <3>1. run = [i \in 0..k + 1 |-> run[i]]
      OBVIOUS
    <3> HIDE DEF run
    <3> QED
      BY <2>4, <3>1
  <2> HIDE DEF run, Is
  <2> QED
    BY <2>5
<1> HIDE DEF S
<1>3. Nat \subseteq S
  BY <1>1, <1>2, SetInduction
<1>4. Len(bytes) \in Nat
  OBVIOUS
<1> QED
  BY <1>3, <1>4 DEF S, Folds

\* What received() has found is the end of a run that begins where the parser was.
LEMMA ReceivedRun ==
  ASSUME NEW bytes \in Seq(Tokens)
  PROVE  \E run: /\ Folds(run, [p |-> parser, got |-> <<>>], bytes)
                 /\ Received(bytes) = run[Len(bytes)]
<1>1. \E run: Folds(run, [p |-> parser, got |-> <<>>], bytes)
  BY RunExists
<1> QED
  BY <1>1 DEF Folds, Received

\* A run begins with its start, and goes on byte by byte.
LEMMA RunSteps ==
  ASSUME NEW start, NEW bytes \in Seq(Tokens), NEW run, Folds(run, start, bytes)
  PROVE  /\ run[0] = start
         /\ \A i \in 1..Len(bytes): run[i] = Step(run[i - 1], bytes[i])
<1>1. Len(bytes) \in Nat
  OBVIOUS
<1>2. \A i \in 0..Len(bytes): run[i] = IF i = 0 THEN start ELSE Step(run[i - 1], bytes[i])
  BY DEF Folds
<1> QED
  BY <1>1, <1>2

\* A byte leaves the parser in one of its states, and what it ends is a frame.
LEMMA StepOK ==
  ASSUME NEW s, FoldOK(s), NEW b \in Tokens
  PROVE  FoldOK(Step(s, b))
<1>0. /\ s = [p |-> s.p, got |-> s.got]
      /\ s.p = [st |-> s.p.st, cmd |-> s.p.cmd, data |-> s.p.data]
      /\ s.p.st \in {"SOT", "CMD", "DATA", "EOT"} /\ s.p.cmd \in Cmds \cup {NoOne}
      /\ s.p.data \in Seq(Tokens) /\ s.got \in Seq(Frames)
      /\ s.p.st \in {"DATA", "EOT"} => s.p.cmd \in Cmds
      /\ s.p.st = "SOT" => s.p = AtRest
  BY DEF FoldOK, ParserOK, States
<1>1. ParserOK(AtRest)
  <2>1. <<>> \in Seq(Tokens)
    BY EmptySeq
  <2> QED
    BY <2>1 DEF ParserOK, States, AtRest
<1>2. \A p: \A g \in Seq(Frames): ParserOK(p) => FoldOK([p |-> p, got |-> g])
  BY DEF FoldOK, ParserOK
<1>3. CASE s.p.st = "SOT"
  <2>1. Step(s, b) = [p |-> [AtRest EXCEPT !.st = IF b = "SOT" THEN "CMD" ELSE "SOT"],
                      got |-> s.got]
    BY <1>0, <1>3 DEF Step
  <2>2. ParserOK([AtRest EXCEPT !.st = IF b = "SOT" THEN "CMD" ELSE "SOT"])
    BY <1>1 DEF ParserOK, States, AtRest
  <2> QED
    BY <1>0, <1>2, <2>1, <2>2
<1>4. CASE s.p.st = "CMD"
  <2>1. Step(s, b) = [p |-> IF b \in Cmds THEN [st |-> "DATA", cmd |-> b, data |-> <<>>]
                            ELSE AtRest,
                      got |-> s.got]
    BY <1>0, <1>4 DEF Step
  <2>2. ASSUME b \in Cmds PROVE ParserOK([st |-> "DATA", cmd |-> b, data |-> <<>>])
    <3>1. <<>> \in Seq(Tokens)
      BY EmptySeq
    <3> QED
      BY <2>2, <3>1 DEF ParserOK, States
  <2> QED
    BY <1>0, <1>1, <1>2, <2>1, <2>2
<1>5. CASE s.p.st = "DATA"
  <2> DEFINE next == IF Len(s.p.data) + 1 < DataLen[s.p.cmd] THEN "DATA" ELSE "EOT"
             p == [st |-> next, cmd |-> s.p.cmd, data |-> Append(s.p.data, b)]
  <2>1. Step(s, b) = [p |-> p, got |-> s.got]
    BY <1>0, <1>5 DEF Step
  <2>2. Append(s.p.data, b) \in Seq(Tokens)
    BY <1>0, AppendProperties
  <2>3. ParserOK(p)
    BY <1>0, <1>5, <2>2 DEF ParserOK, States
  <2> QED
    BY <1>0, <1>2, <2>1, <2>3
<1>6. CASE s.p.st = "EOT"
  <2> DEFINE f == [cmd |-> s.p.cmd, data |-> s.p.data]
             g == IF b # "EOT" THEN s.got ELSE Append(s.got, f)
  <2>1. Step(s, b) = [p |-> AtRest, got |-> g]
    BY <1>0, <1>6 DEF Step
  <2>2. f \in Frames
    BY <1>0, <1>6 DEF Frames, Tokens
  <2>3. g \in Seq(Frames)
    BY <1>0, <2>2, AppendProperties
  <2> QED
    BY <1>1, <1>2, <2>1, <2>3
<1> QED
  BY <1>0, <1>3, <1>4, <1>5, <1>6

\* So do the bytes of a write.
LEMMA ReceivedOK ==
  ASSUME NEW bytes \in Seq(Tokens), ParserOK(parser)
  PROVE  FoldOK(Received(bytes))
<1>1. PICK run: /\ Folds(run, [p |-> parser, got |-> <<>>], bytes)
                /\ Received(bytes) = run[Len(bytes)]
  BY ReceivedRun
<1>2. /\ run[0] = [p |-> parser, got |-> <<>>]
      /\ \A i \in 1..Len(bytes): run[i] = Step(run[i - 1], bytes[i])
  BY <1>1, RunSteps
<1> DEFINE S == {k \in Nat: k <= Len(bytes) => FoldOK(run[k])}
<1>3. 0 \in S
  <2>1. <<>> \in Seq(Frames)
    BY EmptySeq
  <2>2. FoldOK([p |-> parser, got |-> <<>>])
    BY <2>1 DEF FoldOK, ParserOK
  <2> QED
    BY <1>2, <2>2
<1>4. ASSUME NEW k \in Nat, k \in S PROVE k + 1 \in S
  <2>1. SUFFICES ASSUME k + 1 <= Len(bytes) PROVE FoldOK(run[k + 1])
    OBVIOUS
  <2>2. Len(bytes) \in Nat /\ k + 1 \in 1..Len(bytes) /\ k + 1 - 1 = k /\ k <= Len(bytes)
    BY <2>1
  <2>3. run[k + 1] = Step(run[k], bytes[k + 1])
    BY <1>2, <2>2
  <2>4. bytes[k + 1] \in Tokens
    BY <2>2
  <2>5. FoldOK(run[k])
    BY <1>4, <2>2
  <2> QED
    BY <2>3, <2>4, <2>5, StepOK
<1> HIDE DEF S
<1>5. Len(bytes) \in Nat /\ Nat \subseteq S
  BY <1>3, <1>4, SetInduction
<1> QED
  BY <1>1, <1>5 DEF S

\* A frame that the hub sends is its four parts, in a row.
LEMMA BytesOf ==
  ASSUME NEW f \in Requests \cup {NoRequest}
  PROVE  /\ Bytes(f) \in Seq(Tokens \cup {NoOne}) /\ f.data \in Seq(Data)
         /\ Len(Bytes(f)) = Len(f.data) + 3 /\ Len(f.data) \in Nat
         /\ Bytes(f)[1] = "SOT" /\ Bytes(f)[2] = f.cmd
         /\ \A i \in 1..Len(f.data): Bytes(f)[i + 2] = f.data[i]
         /\ Bytes(f)[Len(f.data) + 3] = "EOT"
<1>1. f.data \in Seq(Data) /\ f.cmd \in Cmds \cup {NoOne}
  <2>1. CASE f = NoRequest
    BY <2>1, EmptySeq DEF NoRequest
  <2>2. CASE f \in Requests
    <3>1. PICK c \in Cmds: f \in [cmd: {c}, data: [1..DataLen[c] -> Data]]
      BY <2>2 DEF Requests
    <3>2. DataLen[c] \in Nat
      BY CmdsAssumption
    <3> QED
      BY <3>1, <3>2
  <2> QED
    BY <2>1, <2>2
<1>2. PICK d \in Seq(Tokens \cup {NoOne}): d = f.data
  BY <1>1 DEF Tokens
<1> DEFINE T == Tokens \cup {NoOne}
           head == <<"SOT", f.cmd>>
<1>3. head \in Seq(T) /\ Len(head) = 2 /\ head[1] = "SOT" /\ head[2] = f.cmd
  BY <1>1 DEF Tokens
<1>4. <<"EOT">> \in Seq(T) /\ Len(<<"EOT">>) = 1 /\ <<"EOT">>[1] = "EOT"
  BY DEF Tokens
<1>5. PICK n \in Nat: n = Len(d)
  OBVIOUS
<1> HIDE DEF head, T
<1>6. /\ head \o d \in Seq(T) /\ Len(head \o d) = 2 + n
      /\ \A i \in 1..2 + n: (head \o d)[i] = IF i <= 2 THEN head[i] ELSE d[i - 2]
  <2>1. d \in Seq(T)
    BY DEF T
  <2>2. PICK h \in Seq(T): h = head /\ Len(h) = 2
    BY <1>3
  <2>3. /\ h \o d \in Seq(T) /\ Len(h \o d) = Len(h) + Len(d)
        /\ \A i \in 1..Len(h) + Len(d): (h \o d)[i] = IF i <= Len(h) THEN h[i]
                                                      ELSE d[i - Len(h)]
    BY <2>1, <2>2, ConcatProperties
  <2> QED
    BY <1>5, <2>2, <2>3
<1>7. /\ (head \o d) \o <<"EOT">> \in Seq(T) /\ Len((head \o d) \o <<"EOT">>) = 2 + n + 1
      /\ \A i \in 1..2 + n + 1: ((head \o d) \o <<"EOT">>)[i] =
                                IF i <= 2 + n THEN (head \o d)[i] ELSE <<"EOT">>[i - (2 + n)]
  BY <1>4, <1>6, ConcatProperties
<1>8. Bytes(f) = (head \o d) \o <<"EOT">>
  BY <1>2 DEF Bytes, head
<1>9. \A i \in 1..n: i + 2 \in 1..2 + n + 1 /\ i + 2 <= 2 + n /\ ~(i + 2 <= 2)
                     /\ i + 2 - 2 = i /\ i + 2 \in 1..2 + n
  OBVIOUS
<1>10. /\ 1 \in 1..2 + n + 1 /\ 2 \in 1..2 + n + 1 /\ 1 \in 1..2 + n /\ 2 \in 1..2 + n
       /\ 1 <= 2 + n /\ 2 <= 2 + n /\ n + 3 = 2 + n + 1 /\ n + 3 \in 1..2 + n + 1
       /\ ~(n + 3 <= 2 + n) /\ n + 3 - (2 + n) = 1
  OBVIOUS
<1>11. Bytes(f)[1] = "SOT" /\ Bytes(f)[2] = f.cmd
  BY <1>3, <1>6, <1>7, <1>8, <1>10
<1>12. ASSUME NEW i \in 1..n PROVE Bytes(f)[i + 2] = d[i]
  <2>1. PICK j: j = i + 2
    OBVIOUS
  <2>2. /\ j \in 1..2 + n + 1 /\ j <= 2 + n /\ ~(j <= 2) /\ j - 2 = i /\ j \in 1..2 + n
    BY <1>9, <2>1
  <2>3. Bytes(f)[j] = (head \o d)[j]
    BY <1>7, <1>8, <2>2
  <2>4. (head \o d)[j] = d[j - 2]
    BY <1>6, <2>2
  <2> QED
    BY <2>1, <2>2, <2>3, <2>4
<1>13. Bytes(f)[n + 3] = "EOT"
  BY <1>4, <1>7, <1>8, <1>10
<1> QED
  BY <1>1, <1>2, <1>5, <1>7, <1>8, <1>10, <1>11, <1>12, <1>13 DEF T

\* The command of a request has as many data bytes as it asks for.
LEMMA RequestOf ==
  ASSUME NEW f \in Requests
  PROVE  /\ f \in Frames /\ f.cmd \in Cmds
         /\ Len(f.data) = DataLen[f.cmd] /\ DataLen[f.cmd] \in Nat \ {0}
         /\ f = [cmd |-> f.cmd, data |-> f.data] /\ f.data \in Seq(Tokens)
<1>1. PICK c \in Cmds: f \in [cmd: {c}, data: [1..DataLen[c] -> Data]]
  BY DEF Requests
<1>2. DataLen[c] \in Nat \ {0}
  BY CmdsAssumption
<1>3. /\ f.cmd = c /\ f.data \in [1..DataLen[c] -> Data]
      /\ f = [cmd |-> f.cmd, data |-> f.data]
  BY <1>1
<1>4. f.data \in Seq(Tokens) /\ Len(f.data) = DataLen[c]
  BY <1>2, <1>3 DEF Tokens
<1> QED
  BY <1>2, <1>3, <1>4 DEF Frames, Tokens

\* The next token of a request takes the parser, in step with it, one further; the last one
\* makes it a frame.
LEMMA StepInRequest ==
  ASSUME NEW f \in Requests, NEW k \in 0..Len(f.data) + 2, NEW g
  PROVE  Step([p |-> ParserAt(f, k), got |-> g], Bytes(f)[k + 1]) =
         [p |-> ParserAt(f, k + 1),
          got |-> IF k = Len(f.data) + 2 THEN Append(g, f) ELSE g]
<1>0. PICK n \in Nat \ {0}: n = Len(f.data)
  BY RequestOf
<1>1. /\ f.cmd \in Cmds /\ DataLen[f.cmd] = n /\ f = [cmd |-> f.cmd, data |-> f.data]
      /\ f.data \in Seq(Tokens)
  BY <1>0, RequestOf
<1>2. /\ Bytes(f)[1] = "SOT" /\ Bytes(f)[2] = f.cmd
      /\ \A i \in 1..n: Bytes(f)[i + 2] = f.data[i]
      /\ Bytes(f)[n + 3] = "EOT"
  BY <1>0, BytesOf
<1>3. k \in 0..n + 2
  BY <1>0
<1>4. CASE k = 0
  <2>1. ParserAt(f, k) = AtRest
    BY <1>4 DEF ParserAt
  <2>2. ParserAt(f, k + 1) = [st |-> "CMD", cmd |-> NoOne, data |-> <<>>]
    <3>1. k + 1 = 1 /\ 1 # n + 3 /\ 1 - 2 < 1 /\ 1 - 2 \in Int
      BY <1>4
    <3>2. SubSeq(f.data, 1, 1 - 2) = <<>>
      BY <3>1, SubSeqEmpty
    <3> QED
      BY <1>0, <3>1, <3>2 DEF ParserAt
  <2>3. Bytes(f)[k + 1] = "SOT" /\ k # n + 2
    BY <1>2, <1>4
  <2> QED
    BY <1>0, <2>1, <2>2, <2>3 DEF Step, AtRest
<1>5. CASE k = 1
  <2>1. ParserAt(f, k) = [st |-> "CMD", cmd |-> NoOne, data |-> <<>>]
    <3>1. 1 # n + 3 /\ 1 - 2 < 1 /\ 1 - 2 \in Int
      OBVIOUS
    <3>2. SubSeq(f.data, 1, 1 - 2) = <<>>
      BY <3>1, SubSeqEmpty
    <3> QED
      BY <1>0, <1>5, <3>1, <3>2 DEF ParserAt
  <2>2. ParserAt(f, k + 1) = [st |-> "DATA", cmd |-> f.cmd, data |-> <<>>]
    <3>1. k + 1 = 2 /\ 2 # 0 /\ 2 # n + 3 /\ 2 # n + 2 /\ 2 - 2 < 1 /\ 2 - 2 \in Int /\ 2 # 1
      BY <1>5
    <3>2. SubSeq(f.data, 1, 2 - 2) = <<>>
      BY <3>1, SubSeqEmpty
    <3> QED
      BY <1>0, <3>1, <3>2 DEF ParserAt
  <2>3. Bytes(f)[k + 1] = f.cmd /\ k # n + 2
    BY <1>2, <1>5
  <2> QED
    BY <1>0, <1>1, <2>1, <2>2, <2>3 DEF Step
<1>6. CASE k \in 2..n + 1
  <2>0. /\ k # 0 /\ k # 1 /\ k # n + 3 /\ k # n + 2 /\ k + 1 # 0 /\ k + 1 # n + 3 /\ k + 1 # 1
        /\ k - 2 \in 0..n - 1 /\ k - 1 \in 1..n /\ k + 1 - 2 = k - 1 /\ k + 1 = k - 1 + 2
        /\ (k + 1 = n + 2 <=> ~(k - 2 + 1 < n)) /\ k - 1 \in Int
    BY <1>6
  <2>1. ParserAt(f, k) = [st |-> "DATA", cmd |-> f.cmd, data |-> SubSeq(f.data, 1, k - 2)]
    BY <1>0, <2>0 DEF ParserAt
  <2>2. ParserAt(f, k + 1) = [st |-> IF k - 2 + 1 < n THEN "DATA" ELSE "EOT", cmd |-> f.cmd,
                              data |-> SubSeq(f.data, 1, k - 1)]
    <3>1. PICK m: m = k + 1
      OBVIOUS
    <3>2. /\ m # 0 /\ m # Len(f.data) + 3 /\ m # 1 /\ m - 2 = k - 1
          /\ (m = Len(f.data) + 2 <=> ~(k - 2 + 1 < n))
      BY <1>0, <2>0, <3>1
    <3>3. ParserAt(f, m) = [st |-> IF m = Len(f.data) + 2 THEN "EOT" ELSE "DATA",
                            cmd |-> f.cmd, data |-> SubSeq(f.data, 1, m - 2)]
      BY <3>2 DEF ParserAt
    <3> QED
      BY <3>1, <3>2, <3>3
  <2>3. Bytes(f)[k + 1] = f.data[k - 1]
    BY <1>2, <2>0
  <2>4. /\ Len(SubSeq(f.data, 1, k - 2)) = k - 2
        /\ Append(SubSeq(f.data, 1, k - 2), f.data[k - 1]) = SubSeq(f.data, 1, k - 1)
    BY <1>0, <1>1, <2>0
  <2> DEFINE d == SubSeq(f.data, 1, k - 2)
             e == SubSeq(f.data, 1, k - 1)
             b == Bytes(f)[k + 1]
  <2> HIDE DEF d, e, b
  <2>5. Step([p |-> [st |-> "DATA", cmd |-> f.cmd, data |-> d], got |-> g], b) =
        [p |-> [st |-> IF Len(d) + 1 < DataLen[f.cmd] THEN "DATA" ELSE "EOT", cmd |-> f.cmd,
                data |-> Append(d, b)],
         got |-> g]
    BY DEF Step
  <2>6. Append(d, b) = e /\ Len(d) = k - 2
    BY <2>3, <2>4 DEF b, d, e
  <2>7. k # Len(f.data) + 2
    BY <1>0, <2>0
  <2> QED
    BY <1>1, <2>1, <2>2, <2>5, <2>6, <2>7 DEF b, d, e
<1>7. CASE k = n + 2
  <2>0. /\ k # 0 /\ k # 1 /\ k # n + 3 /\ k + 1 = n + 3 /\ k - 2 = n /\ k = Len(f.data) + 2
    BY <1>0, <1>7
  <2>1. SubSeq(f.data, 1, n) = f.data
    BY <1>0, <1>1, SubSeqFull
  <2>2. ParserAt(f, k) = [st |-> "EOT", cmd |-> f.cmd, data |-> f.data]
    BY <1>0, <2>0, <2>1 DEF ParserAt
  <2>3. ParserAt(f, k + 1) = AtRest
    BY <1>0, <2>0 DEF ParserAt
  <2>4. Bytes(f)[k + 1] = "EOT"
    BY <1>2, <2>0
  <2>5. Step([p |-> ParserAt(f, k), got |-> g], "EOT") =
        [p |-> AtRest, got |-> Append(g, [cmd |-> f.cmd, data |-> f.data])]
    BY <2>2 DEF Step
  <2> QED
    BY <1>1, <2>0, <2>3, <2>4, <2>5
<1> QED
  BY <1>3, <1>4, <1>5, <1>6, <1>7

\* A parser that is in step with a request stays so over any part of it that follows, and
\* accepts it when, and only when, that is the last one.
LEMMA ReceivedInRequest ==
  ASSUME NEW f \in Requests, NEW j \in Nat, NEW bytes \in Seq(Tokens), bytes # <<>>,
         j + Len(bytes) <= Len(f.data) + 3,
         \A i \in 1..Len(bytes): bytes[i] = Bytes(f)[j + i],
         parser = ParserAt(f, j)
  PROVE  Received(bytes) = [p |-> ParserAt(f, j + Len(bytes)),
                            got |-> IF j + Len(bytes) = Len(f.data) + 3
                                    THEN <<f>> ELSE <<>>]
<1>1. PICK run: /\ Folds(run, [p |-> parser, got |-> <<>>], bytes)
                /\ Received(bytes) = run[Len(bytes)]
  BY ReceivedRun
<1>2. /\ run[0] = [p |-> parser, got |-> <<>>]
      /\ \A i \in 1..Len(bytes): run[i] = Step(run[i - 1], bytes[i])
  BY <1>1, RunSteps
<1>3. PICK n \in Nat: n = Len(f.data)
  BY RequestOf
<1>4. PICK m \in Nat \ {0}: m = Len(bytes)
  BY EmptySeq
<1>5. j + m <= n + 3
  BY <1>3, <1>4
<1> DEFINE Found(k) == IF k > 0 /\ j + k = n + 3 THEN <<f>> ELSE <<>>
           S == {k \in Nat: k <= m => run[k] = [p |-> ParserAt(f, j + k), got |-> Found(k)]}
<1>6. 0 \in S
  <2>1. Found(0) = <<>> /\ j + 0 = j
    OBVIOUS
  <2> HIDE DEF Found
  <2> QED
    BY <1>2, <2>1
<1>7. ASSUME NEW k \in Nat, k \in S PROVE k + 1 \in S
  <2>1. SUFFICES ASSUME k + 1 <= m
                 PROVE  run[k + 1] = [p |-> ParserAt(f, j + (k + 1)), got |-> Found(k + 1)]
    OBVIOUS
  <2>2. PICK i \in Nat: i = j + k
    OBVIOUS
  <2>3. /\ k <= m /\ k + 1 \in 1..m /\ k + 1 - 1 = k /\ i \in 0..n + 2
        /\ j + (k + 1) = i + 1 /\ j + k # n + 3 /\ k + 1 > 0
        /\ (j + (k + 1) = n + 3 <=> i = n + 2)
    BY <1>5, <2>1, <2>2
  <2>4. run[k] = [p |-> ParserAt(f, i), got |-> <<>>]
    BY <1>7, <2>2, <2>3
  <2>5. run[k + 1] = Step(run[k], bytes[k + 1])
    BY <1>2, <1>4, <2>3
  <2>6. bytes[k + 1] = Bytes(f)[i + 1]
    BY <1>4, <2>3
  <2>7. Step([p |-> ParserAt(f, i), got |-> <<>>], Bytes(f)[i + 1]) =
        [p |-> ParserAt(f, i + 1), got |-> IF i = n + 2 THEN Append(<<>>, f) ELSE <<>>]
    BY <1>3, <2>3, StepInRequest
  <2>8. Append(<<>>, f) = <<f>>
    OBVIOUS
  <2>9. Found(k + 1) = IF i = n + 2 THEN <<f>> ELSE <<>>
    BY <2>3
  <2> HIDE DEF Found
  <2> QED
    BY <2>3, <2>4, <2>5, <2>6, <2>7, <2>8, <2>9
<1> HIDE DEF S
<1>8. Nat \subseteq S
  BY <1>6, <1>7, SetInduction
<1>9. run[m] = [p |-> ParserAt(f, j + m), got |-> Found(m)]
  <2> HIDE DEF Found
  <2>1. m \in S
    BY <1>8
  <2> QED
    BY <2>1 DEF S
<1> QED
  BY <1>1, <1>3, <1>4, <1>9
-----------------------------------------------------------------------------
\* The types of what the sessions exchange.

\* o is what is left of b when its first tokens are taken.
Rest(o, b) ==
  /\ Len(o) <= Len(b)
  /\ \A i \in 1..Len(o): o[i] = b[Len(b) - Len(o) + i]

\* Flags and counters.
FlagsOK ==
  /\ listing \in [Threads -> BOOLEAN] /\ failed \in [Threads -> BOOLEAN]
  /\ sends \in [Threads -> 0..MaxSends]
  /\ connected \in [Clients -> BOOLEAN]
  /\ skewed \in BOOLEAN /\ late \in BOOLEAN

\* What a client has not written is the rest of its last request.
IoOK ==
  /\ request \in [Clients -> Requests \cup {NoRequest}]
  /\ out \in [Clients -> Seq(Tokens)]
  /\ \A n \in Clients: /\ Rest(out[n], Bytes(request[n]))
                       /\ out[n] # <<>> => request[n] \in Requests
  /\ answers \in [Clients -> Seq(Cmds)]

BadgeOK == ParserOK(parser) /\ running \in Seq(Frames)

Typed == FlagsOK /\ IoOK /\ BadgeOK

\* What is left of a sequence is a suffix of it.
LEMMA RestIsSuffix ==
  ASSUME NEW T, NEW o \in Seq(T), NEW b \in Seq(T), Rest(o, b)
  PROVE  IsSuffix(o, b)
<1>1. PICK m \in Nat: m = Len(o)
  OBVIOUS
<1>2. PICK n \in Nat: n = Len(b)
  OBVIOUS
<1>3. m <= n /\ \A i \in 1..m: o[i] = b[n - m + i]
  BY <1>1, <1>2 DEF Rest
<1> DEFINE p == [i \in 1..m |-> o[m - i + 1]]
           q == [i \in 1..n |-> b[n - i + 1]]
<1>4. p \in Seq(T) /\ Len(p) = m
  <2>1. \A i \in 1..m: m - i + 1 \in 1..m
    OBVIOUS
  <2>2. p \in [1..m -> T]
    BY <1>1, <2>1
  <2> HIDE DEF p
  <2> QED
    BY <2>2
<1>5. q \in Seq(T) /\ Len(q) = n
  <2>1. \A i \in 1..n: n - i + 1 \in 1..n
    OBVIOUS
  <2>2. q \in [1..n -> T]
    BY <1>2, <2>1
  <2> HIDE DEF q
  <2> QED
    BY <2>2
<1>6. \A i \in 1..m: p[i] = q[i]
  <2> TAKE i \in 1..m
  <2>1. m - i + 1 \in 1..m /\ n - m + (m - i + 1) = n - i + 1 /\ i \in 1..n
    BY <1>3
  <2>2. p[i] = o[m - i + 1] /\ q[i] = b[n - i + 1]
    BY <2>1
  <2> QED
    BY <1>3, <2>1, <2>2
<1>7. Reverse(o) = p /\ Reverse(b) = q
  BY <1>1, <1>2 DEF Reverse
<1> HIDE DEF p, q
<1>8. SubSeq(p, 1, m) = SubSeq(q, 1, m)
  BY <1>3, <1>4, <1>5, <1>6
<1> QED
  BY <1>3, <1>4, <1>5, <1>7, <1>8 DEF IsSuffix, IsPrefix

\* The states the theorem about types is about.
LEMMA TypedIsTypeOK == SessionInv /\ Typed => TypeOK
<1> SUFFICES ASSUME SessionInv, Typed PROVE TypeOK
  OBVIOUS
<1>1. ASSUME NEW n \in Clients
      PROVE  IsSuffix(out[n], Bytes(request[n])) /\ answers[n] \in Seq(Cmds)
  <2>1. request[n] \in Requests \cup {NoRequest} /\ out[n] \in Seq(Tokens)
        /\ Rest(out[n], Bytes(request[n])) /\ answers[n] \in Seq(Cmds)
    BY DEF Typed, IoOK
  <2>2. Bytes(request[n]) \in Seq(Tokens \cup {NoOne})
    BY <2>1, BytesOf
  <2>3. out[n] \in Seq(Tokens \cup {NoOne})
    BY <2>1
  <2> QED
    BY <2>1, <2>2, <2>3, RestIsSuffix
<1>2. parser.st \in {"SOT", "CMD", "DATA", "EOT"}
  BY DEF Typed, BadgeOK, ParserOK, States
<1> QED
  BY <1>1, <1>2 DEF SessionInv, Typed, FlagsOK, IoOK, BadgeOK, TypeOK

\* Nothing is left of any frame, and all of one.
LEMMA RestOfFrame ==
  ASSUME NEW f \in Requests \cup {NoRequest}
  PROVE  Rest(<<>>, Bytes(f)) /\ Rest(Bytes(f), Bytes(f))
<1>1. PICK n \in Nat: n = Len(Bytes(f))
  BY BytesOf
<1>2. \A i \in 1..n: n - n + i = i
  OBVIOUS
<1>3. Len(<<>>) = 0 /\ 0 <= n /\ 1..0 = {}
  OBVIOUS
<1>4. n <= n
  OBVIOUS
<1> QED
  BY <1>1, <1>2, <1>3, <1>4 DEF Rest

\* The tokens of a request are tokens: the name of no command is not in it.
LEMMA RequestTokens ==
  ASSUME NEW f \in Requests
  PROVE  Bytes(f) \in Seq(Tokens)
<1>1. f.cmd \in Cmds /\ f.data \in Seq(Tokens)
  BY RequestOf
<1>2. <<"SOT", f.cmd>> \in Seq(Tokens) /\ <<"EOT">> \in Seq(Tokens)
  BY <1>1 DEF Tokens
<1> HIDE DEF Tokens
<1>3. <<"SOT", f.cmd>> \o f.data \in Seq(Tokens)
  BY <1>1, <1>2, ConcatProperties
<1> QED
  BY <1>2, <1>3, ConcatProperties DEF Bytes

\* What a write takes and what it leaves: the beginning and the rest.
Beginning(o, k) == SubSeq(o, 1, k)
Remainder(o, k) == SubSeq(o, k + 1, Len(o))

\* A write takes Mtu tokens, or what there is.
Taken(o) == IF Len(o) < Mtu THEN Len(o) ELSE Mtu

\* What is left after a write is still the rest of the request, and what was written is the
\* part of it between what was before and what is left.
LEMMA Cut ==
  ASSUME NEW b \in Seq(Tokens), NEW o \in Seq(Tokens), Rest(o, b), o # <<>>
  PROVE  /\ Beginning(o, Taken(o)) \in Seq(Tokens) /\ Remainder(o, Taken(o)) \in Seq(Tokens)
         /\ Rest(Remainder(o, Taken(o)), b)
         /\ Beginning(o, Taken(o)) # <<>>
         /\ Len(b) - Len(o) \in Nat
         /\ Len(Beginning(o, Taken(o))) = Taken(o) /\ Taken(o) \in Nat \ {0}
         /\ Len(b) - Len(o) + Taken(o) = Len(b) - Len(Remainder(o, Taken(o)))
         /\ Len(b) - Len(o) + Taken(o) <= Len(b)
         /\ \A i \in 1..Taken(o): Beginning(o, Taken(o))[i] = b[Len(b) - Len(o) + i]
         /\ Remainder(o, Taken(o)) = <<>> <=> Len(b) - Len(o) + Taken(o) = Len(b)
<1>1. PICK m \in Nat \ {0}: m = Len(o)
  BY EmptySeq
<1>2. PICK n \in Nat: n = Len(b)
  OBVIOUS
<1>3. m <= n /\ \A i \in 1..m: o[i] = b[n - m + i]
  BY <1>1, <1>2 DEF Rest
<1>4. PICK k \in 1..m: k = Taken(o)
  <2>1. Mtu \in Nat \ {0}
    BY MtuAssumption
  <2> QED
    BY <1>1, <2>1 DEF Taken
<1>5. PICK p: p = Beginning(o, k)
  OBVIOUS
<1>6. PICK q: q = Remainder(o, k)
  OBVIOUS
<1>7. /\ p \in Seq(Tokens) /\ Len(p) = k
      /\ \A i \in 1..k: p[i] = o[i]
  BY <1>1, <1>4, <1>5 DEF Beginning
<1>8. /\ q \in Seq(Tokens) /\ Len(q) = m - k
      /\ \A i \in 1..m - k: q[i] = o[k + i]
  BY <1>1, <1>4, <1>6 DEF Remainder
<1>9. Rest(q, b)
  <2>1. m - k <= n
    BY <1>3
  <2>2. ASSUME NEW i \in 1..m - k PROVE q[i] = b[n - (m - k) + i]
    <3>1. k + i \in 1..m /\ n - m + (k + i) = n - (m - k) + i
      OBVIOUS
    <3>2. q[i] = o[k + i]
      BY <1>8
    <3>3. o[k + i] = b[n - m + (k + i)]
      BY <1>3, <3>1
    <3> QED
      BY <3>1, <3>2, <3>3
  <2> QED
    BY <1>2, <1>8, <2>1, <2>2 DEF Rest
<1>10. \A i \in 1..k: p[i] = b[n - m + i]
  <2> TAKE i \in 1..k
  <2>1. i \in 1..m
    OBVIOUS
  <2> QED
    BY <1>3, <1>7, <2>1
<1>11. q = <<>> <=> m - k = 0
  <2>1. q = <<>> => Len(q) = 0
    BY EmptySeq
  <2>2. q # <<>> => Len(q) # 0
    BY <1>8, EmptySeq
  <2> QED
    BY <1>8, <2>1, <2>2
<1>12. p # <<>>
  <2>1. p = <<>> => Len(p) = 0
    BY EmptySeq
  <2> QED
    BY <1>7, <2>1
<1>13. /\ n - m \in Nat /\ n - m + k = n - (m - k) /\ n - m + k <= n
       /\ (m - k = 0 <=> n - m + k = n)
  BY <1>3
<1> QED
  BY <1>1, <1>2, <1>4, <1>5, <1>6, <1>7, <1>8, <1>9, <1>10, <1>11, <1>12, <1>13

\* A client in a session is one.
LEMMA MineIsClient ==
  ASSUME SessionInv, NEW t \in Threads, InSession(t)
  PROVE  mine[t] \in Clients
BY DEF SessionInv, Clients

\* A new client was not given anything.
LEMMA FreshTyped ==
  ASSUME IoOK, NEW n \in Clients, Fresh(n)
  PROVE  IoOK'
<1>1. /\ request' = [request EXCEPT ![n] = NoRequest]
      /\ out' = [out EXCEPT ![n] = <<>>] /\ answers' = [answers EXCEPT ![n] = <<>>]
  BY DEF Fresh
<1>2. <<>> \in Seq(Tokens) /\ <<>> \in Seq(Cmds)
  BY EmptySeq
<1>3. Rest(<<>>, Bytes(NoRequest))
  BY RestOfFrame
<1> QED
  BY <1>1, <1>2, <1>3 DEF IoOK

\* A client is given a request as a whole.
LEMMA SendTyped ==
  ASSUME SessionInv, IoOK, NEW t \in Threads, Send(t)
  PROVE  IoOK'
<1>1. mine[t] \in Clients
  BY MineIsClient DEF Send, At, InSession
<1>2. PICK f \in Requests: /\ request' = [request EXCEPT ![mine[t]] = f]
                           /\ out' = [out EXCEPT ![mine[t]] = Bytes(f)]
  BY DEF Send
<1>3. answers' = answers
  BY DEF Send
<1>4. Rest(Bytes(f), Bytes(f)) /\ Bytes(f) \in Seq(Tokens)
  BY RestOfFrame, RequestTokens
<1> QED
  BY <1>1, <1>2, <1>3, <1>4 DEF IoOK

\* An answer is taken.
LEMMA TakeTyped ==
  ASSUME SessionInv, IoOK, NEW t \in Threads, TakeAnswer(t)
  PROVE  IoOK'
<1>1. mine[t] \in Clients
  BY MineIsClient DEF TakeAnswer, At, InSession
<1>2. /\ answers[mine[t]] # <<>> /\ answers' = [answers EXCEPT ![mine[t]] = Tail(@)]
      /\ UNCHANGED <<request, out>>
  BY DEF TakeAnswer
<1>3. Tail(answers[mine[t]]) \in Seq(Cmds)
  BY <1>1, <1>2, HeadTailProperties DEF IoOK
<1> QED
  BY <1>1, <1>2, <1>3 DEF IoOK

\* The hub's steps keep the flags' types.
LEMMA SessionFlags ==
  ASSUME SessionInv, FlagsOK, NEW t \in Threads,
         Session(t) \/ \E list \in BOOLEAN: BeginSession(t, list)
  PROVE  FlagsOK'
<1> USE DEF task, hold, client, io, air
<1>1. UNCHANGED <<skewed, late>>
  BY DEF Session, BeginSession, SeesConnected, GiveUp, Send, TakeAnswer, NoAnswer, CannotSend,
         EndSession, Join
<1>2. failed' \in [Threads -> BOOLEAN]
  BY DEF FlagsOK, Session, BeginSession, SeesConnected, GiveUp, Send, TakeAnswer, NoAnswer,
         CannotSend, EndSession, Join
<1>3. ASSUME NEW next, Release(t, next)
      PROVE  listing' \in [Threads -> BOOLEAN] /\ sends' \in [Threads -> 0..MaxSends]
  <2>1. 0 \in 0..MaxSends
    BY BoundsAssumption
  <2> QED
    BY <1>3, <2>1 DEF Release, FlagsOK
<1>4. ASSUME StopClient(t)
      PROVE  /\ listing' \in [Threads -> BOOLEAN] /\ sends' \in [Threads -> 0..MaxSends]
             /\ connected' \in [Clients -> BOOLEAN]
  BY <1>4 DEF StopClient, FlagsOK
<1>5. ASSUME NEW next, Leave(t, next)
      PROVE  /\ listing' \in [Threads -> BOOLEAN] /\ sends' \in [Threads -> 0..MaxSends]
             /\ connected' \in [Clients -> BOOLEAN]
  BY <1>3, <1>4, <1>5 DEF Leave, FlagsOK
<1>6. CASE \E list \in BOOLEAN: BeginSession(t, list)
  <2>1. PICK list \in BOOLEAN: BeginSession(t, list)
    BY <1>6
  <2>2. /\ listing' = [listing EXCEPT ![t] = list] /\ UNCHANGED <<sends, connected>>
    BY <2>1 DEF BeginSession
  <2>3. listing' \in [Threads -> BOOLEAN]
    BY <2>2 DEF FlagsOK
  <2> QED
    BY <1>1, <1>2, <2>2, <2>3 DEF FlagsOK
<1>7. CASE SeesConnected(t) \/ TakeAnswer(t)
  BY <1>7 DEF SeesConnected, TakeAnswer, FlagsOK
<1>8. CASE GiveUp(t) \/ NoAnswer(t) \/ CannotSend(t)
  BY <1>1, <1>2, <1>5, <1>8 DEF GiveUp, NoAnswer, CannotSend, FlagsOK
<1>9. CASE Send(t)
  <2>1. sends[t] < MaxSends /\ sends' = [sends EXCEPT ![t] = @ + 1]
        /\ UNCHANGED <<listing, connected>>
    BY <1>9 DEF Send
  <2>2. sends[t] + 1 \in 0..MaxSends
    BY <2>1, BoundsAssumption DEF FlagsOK
  <2> QED
    BY <1>1, <1>2, <2>1, <2>2 DEF FlagsOK
<1>10. CASE EndSession(t)
  BY <1>1, <1>2, <1>4, <1>10 DEF EndSession, FlagsOK
<1>11. CASE Join(t)
  BY <1>1, <1>2, <1>3, <1>11 DEF Join, FlagsOK
<1> QED
  BY <1>6, <1>7, <1>8, <1>9, <1>10, <1>11 DEF Session

\* The hub's steps keep the types of the rest.
LEMMA SessionTyped ==
  ASSUME SessionInv, Typed, NEW t \in Threads,
         Session(t) \/ \E list \in BOOLEAN: BeginSession(t, list)
  PROVE  Typed'
<1> USE DEF task, hold, client, io, air, badge
<1>1. FlagsOK'
  BY SessionFlags DEF Typed
<1>2. BadgeOK'
  BY DEF Session, BeginSession, SeesConnected, GiveUp, Send, TakeAnswer, NoAnswer, CannotSend,
         EndSession, Join, Typed, BadgeOK
<1>3. IoOK'
  <2>1. CASE \E list \in BOOLEAN: BeginSession(t, list)
    BY <2>1, FreshTyped DEF BeginSession, Typed
  <2>2. CASE Send(t)
    BY <2>2, SendTyped DEF Typed
  <2>3. CASE TakeAnswer(t)
    BY <2>3, TakeTyped DEF Typed
  <2>4. CASE Join(t)
    <3>1. mine[t] \in Clients
      BY <2>4, MineIsClient DEF Join, At, InSession
    <3> QED
      BY <2>4, <3>1, FreshTyped DEF Join, Typed
  <2>5. CASE SeesConnected(t) \/ GiveUp(t) \/ NoAnswer(t) \/ CannotSend(t) \/ EndSession(t)
    BY <2>5 DEF SeesConnected, GiveUp, NoAnswer, CannotSend, EndSession, Typed, IoOK
  <2> QED
    BY <2>1, <2>2, <2>3, <2>4, <2>5 DEF Session
<1> QED
  BY <1>1, <1>2, <1>3 DEF Typed

\* A write, in the words of the lemmas above.
LEMMA WriteEffect ==
  ASSUME Typed, NEW n \in Clients, Write(n)
  PROVE  LET o == out[n]
             k == Taken(o)
         IN  /\ request[n] \in Requests /\ o \in Seq(Tokens) /\ o # <<>>
             /\ Rest(o, Bytes(request[n])) /\ Bytes(request[n]) \in Seq(Tokens)
             /\ link = n /\ running = <<>>
             /\ out' = [out EXCEPT ![n] = Remainder(o, k)]
             /\ parser' = Received(Beginning(o, k)).p
             /\ running' = Received(Beginning(o, k)).got
             /\ UNCHANGED <<pc, mine, phase, connected, request, answers, link, skewed>>
             /\ FlagsOK'
<1> USE DEF task, hold, client, air
<1>1. /\ out[n] # <<>> /\ link = n /\ running = <<>>
      /\ out' = [out EXCEPT ![n] = Remainder(out[n], Taken(out[n]))]
      /\ parser' = Received(Beginning(out[n], Taken(out[n]))).p
      /\ running' = Received(Beginning(out[n], Taken(out[n]))).got
  BY DEF Write, Taken, Beginning, Remainder
<1>2. /\ UNCHANGED <<pc, mine, phase, connected, request, answers, link, skewed>>
      /\ FlagsOK'
  BY DEF Write, Typed, FlagsOK
<1>3. /\ request[n] \in Requests /\ out[n] \in Seq(Tokens)
      /\ Rest(out[n], Bytes(request[n]))
  BY <1>1 DEF Typed, IoOK
<1>4. Bytes(request[n]) \in Seq(Tokens)
  BY <1>3, RequestTokens
<1> QED
  BY <1>1, <1>2, <1>3, <1>4

\* A write keeps the types.
LEMMA WriteTyped ==
  ASSUME Typed, NEW n \in Clients, Write(n)
  PROVE  Typed'
<1>1. PICK o: o = out[n]
  OBVIOUS
<1>2. /\ request[n] \in Requests /\ o \in Seq(Tokens) /\ o # <<>>
      /\ Rest(o, Bytes(request[n])) /\ Bytes(request[n]) \in Seq(Tokens)
      /\ out' = [out EXCEPT ![n] = Remainder(o, Taken(o))]
      /\ parser' = Received(Beginning(o, Taken(o))).p
      /\ running' = Received(Beginning(o, Taken(o))).got
      /\ UNCHANGED <<request, answers>> /\ FlagsOK'
  BY <1>1, WriteEffect
<1>3. /\ Beginning(o, Taken(o)) \in Seq(Tokens) /\ Remainder(o, Taken(o)) \in Seq(Tokens)
      /\ Rest(Remainder(o, Taken(o)), Bytes(request[n]))
  BY <1>2, Cut
<1>4. IoOK'
  BY <1>2, <1>3 DEF Typed, IoOK
<1>5. FoldOK(Received(Beginning(o, Taken(o))))
  BY <1>3, ReceivedOK DEF Typed, BadgeOK
<1>6. BadgeOK'
  <2>1. PICK r: r = Received(Beginning(o, Taken(o)))
    OBVIOUS
  <2>2. ParserOK(r.p) /\ r.got \in Seq(Frames)
    BY <1>5, <2>1 DEF FoldOK
  <2> QED
    BY <1>2, <2>1, <2>2 DEF BadgeOK
<1> QED
  BY <1>2, <1>4, <1>6 DEF Typed

\* An answer keeps the types.
LEMMA AnswersTyped ==
  ASSUME Typed, BadgeAnswers
  PROVE  Typed'
<1> USE DEF task, hold, client, io, air
<1>1. /\ running # <<>> /\ running' = Tail(running)
      /\ answers' = [n \in Clients |->
                      IF n = link THEN Append(answers[n], Head(running).cmd) ELSE answers[n]]
      /\ UNCHANGED <<request, out, parser>>
  BY DEF BadgeAnswers
<1>2. Tail(running) \in Seq(Frames) /\ Head(running) \in Frames
  BY <1>1, HeadTailProperties DEF Typed, BadgeOK
<1>3. Head(running).cmd \in Cmds
  BY <1>2 DEF Frames
<1>4. \A n \in Clients: Append(answers[n], Head(running).cmd) \in Seq(Cmds)
  BY <1>3, AppendProperties DEF Typed, IoOK
<1>5. FlagsOK'
  BY DEF BadgeAnswers, Typed, FlagsOK
<1>6. IoOK'
  BY <1>1, <1>4 DEF Typed, IoOK
<1> QED
  BY <1>1, <1>2, <1>5, <1>6 DEF Typed, BadgeOK

\* Every step keeps the types.
LEMMA TypedStep ==
  ASSUME SessionInv, Typed, [Next]_vars
  PROVE  Typed'
<1> USE DEF task, hold, client, io, air, badge
<1>1. ASSUME NEW t \in Threads, Session(t) \/ \E list \in BOOLEAN: BeginSession(t, list)
      PROVE  Typed'
  BY <1>1, SessionTyped
<1>2. ASSUME NEW n \in Clients, Client(n) PROVE Typed'
  <2>1. CASE Write(n)
    BY <2>1, WriteTyped
  <2>2. CASE Finds(n) \/ CannotConnect(n) \/ ClientEnds(n)
    BY <2>2 DEF Finds, CannotConnect, ClientEnds, Typed, FlagsOK, IoOK, BadgeOK
  <2>3. CASE Connects(n)
    <3>1. skewed' \in BOOLEAN
      BY <2>3 DEF Connects
    <3>2. late' \in BOOLEAN
      BY <2>3 DEF Connects
    <3>3. connected' \in [Clients -> BOOLEAN]
      BY <2>3 DEF Connects, Typed, FlagsOK
    <3> QED
      BY <2>3, <3>1, <3>2, <3>3 DEF Connects, Typed, FlagsOK, IoOK, BadgeOK
  <2> QED
    BY <1>2, <2>1, <2>2, <2>3 DEF Client
<1>3. CASE BadgeAnswers
  BY <1>3, AnswersTyped
<1>4. CASE LinkDrops
  <2>1. connected' \in [Clients -> BOOLEAN]
    BY <1>4 DEF LinkDrops, Typed, FlagsOK
  <2> QED
    BY <1>4, <2>1 DEF LinkDrops, Typed, FlagsOK, IoOK, BadgeOK
<1>5. CASE Restart
  <2>1. FlagsOK'
    BY <1>5, BoundsAssumption DEF Restart, Typed, FlagsOK
  <2>2. IoOK'
    BY <1>5, EmptySeq, RestOfFrame DEF Restart, IoOK
  <2> QED
    BY <1>5, <2>1, <2>2 DEF Restart, Typed, BadgeOK
<1>6. CASE UNCHANGED vars
  BY <1>6 DEF vars, Typed, FlagsOK, IoOK, BadgeOK
<1> QED
  BY <1>1, <1>2, <1>3, <1>4, <1>5, <1>6 DEF Next

\* The program starts with the types.
LEMMA TypedInit == Init => Typed
<1> SUFFICES ASSUME Init PROVE Typed
  OBVIOUS
<1>1. FlagsOK
  <2>1. 0 \in 0..MaxSends
    BY BoundsAssumption
  <2> QED
    BY <2>1 DEF Init, FlagsOK
<1>2. IoOK
  BY EmptySeq, RestOfFrame DEF Init, IoOK
<1>3. BadgeOK
  <2>1. <<>> \in Seq(Frames) /\ <<>> \in Seq(Tokens)
    BY EmptySeq
  <2> QED
    BY <2>1 DEF Init, BadgeOK, ParserOK, States, AtRest
<1> QED
  BY <1>1, <1>2, <1>3 DEF Typed

\* The types of the exchange, in every state.
THEOREM TypedCorrect == Spec => []Typed
<1>1. SessionInv /\ Typed /\ [Next]_vars => Typed'
  BY TypedStep
<1> QED
  BY <1>1, TypedInit, InvCorrect, PTL DEF Spec

\* Everything has its type, the hub is in one session at most, and what a client has not
\* written is a suffix of its last request.
THEOREM TypeCorrect == Spec => []TypeOK
BY TypedIsTypeOK, TypedCorrect, InvCorrect, PTL

-----------------------------------------------------------------------------
\* The exchange of requests and answers.

\* The parts of ExchangeInv.
FlagOK == \A n \in Clients: connected[n] => link = n
NewOK == \A n \in Clients: phase[n] \in {"scan", "connecting"} =>
                             out[n] = <<>> /\ answers[n] = <<>>
SentOK == \A t \in Threads: pc[t] \in {"send", "answer"} =>
                              phase[mine[t]] \in {"serving", "done"}
LinkOK == link \in Clients /\ ~skewed =>
            InStep /\ \A t \in Threads: mine[t] = link => Exchange(t)

HInv == SessionInv /\ Typed /\ FlagOK /\ NewOK /\ SentOK /\ LinkOK

\* With the types, these are all of it.
LEMMA HInvIsExchangeInv == HInv => ExchangeInv
BY DEF HInv, FlagOK, NewOK, SentOK, LinkOK, Typed, BadgeOK, ParserOK, ExchangeInv

\* While one thread is in a session, no other is.
LEMMA OnlyOne ==
  ASSUME SessionInv, NEW t \in Threads, InSession(t)
  PROVE  \A u \in Threads: u # t => /\ ~InSession(u) /\ mine[u] = 0
                                    /\ pc[u] \notin {"connect", "send", "answer"}
BY DEF SessionInv, InSession

\* A thread's step to another place.
LEMMA GotoEffect ==
  ASSUME SessionInv, NEW t \in Threads, NEW next, Goto(t, next)
  PROVE  \A u \in Threads: pc'[u] = IF u = t THEN next ELSE pc[u]
BY DEF Goto, SessionInv

\* A connection nothing happens on stays in step.  A session over it may come to send, or
\* be left.
LEMMA SameLink ==
  ASSUME HInv, UNCHANGED <<link, skewed, parser, running>>,
         link \in Clients => /\ request'[link] = request[link] /\ out'[link] = out[link]
                             /\ answers'[link] = answers[link],
         \A u \in Threads: mine'[u] = link /\ pc'[u] \in {"connect", "send", "answer"} =>
                             /\ mine[u] = link
                             /\ pc'[u] = pc[u] \/ (pc'[u] = "send" /\ pc[u] = "connect")
  PROVE  LinkOK'
<1> SUFFICES ASSUME link \in Clients, ~skewed
             PROVE  InStep' /\ \A u \in Threads: mine'[u] = link => Exchange(u)'
  BY DEF LinkOK
<1>1. InStep /\ \A u \in Threads: mine[u] = link => Exchange(u)
  BY DEF HInv, LinkOK
<1>2. InStep'
  BY <1>1 DEF InStep, Written
<1>3. ASSUME NEW u \in Threads, mine'[u] = link PROVE Exchange(u)'
  <2>1. CASE pc'[u] \notin {"connect", "send", "answer"}
    BY <2>1 DEF Exchange
  <2>2. CASE pc'[u] \in {"connect", "send", "answer"}
    <3>1. Exchange(u) /\ (pc'[u] = pc[u] \/ (pc'[u] = "send" /\ pc[u] = "connect"))
      BY <1>1, <1>3, <2>2
    <3> QED
      BY <3>1 DEF Exchange
  <2> QED
    BY <2>1, <2>2
<1> QED
  BY <1>2, <1>3

\* A link's client serves: one that does not is not given a link's request.
LEMMA LinkServes ==
  ASSUME SessionInv
  PROVE  link \in Clients => phase[link] = "serving"
BY DEF SessionInv

\* The next steps keep HInv; that the first two parts are kept is known.

\* A session begins with a client that nothing was sent with.
LEMMA BeginExchange ==
  ASSUME HInv, SessionInv', Typed', NEW t \in Threads, NEW list \in BOOLEAN,
         BeginSession(t, list)
  PROVE  HInv'
<1>1. PICK n \in Clients: /\ phase[n] = "none" /\ Fresh(n)
                          /\ mine' = [mine EXCEPT ![t] = n]
                          /\ phase' = [phase EXCEPT ![n] = "scan"]
  BY DEF BeginSession
<1>2. /\ Goto(t, "connect") /\ lock = NoOne
      /\ UNCHANGED <<connected, link, skewed, parser, running>>
  BY DEF BeginSession, LockFree, air, badge
<1>3. \A u \in Threads: ~InSession(u) /\ mine[u] = 0
  BY <1>2, NoThread DEF HInv, SessionInv
<1>4. \A u \in Threads: pc'[u] = IF u = t THEN "connect" ELSE pc[u]
  BY <1>2, GotoEffect DEF HInv
<1>5. \A m \in Clients: m # n => /\ request'[m] = request[m] /\ out'[m] = out[m]
                                 /\ answers'[m] = answers[m]
  BY <1>1 DEF Fresh, HInv, Typed, IoOK
<1>6. out'[n] = <<>> /\ answers'[n] = <<>>
  BY <1>1 DEF Fresh, HInv, Typed, IoOK
<1>7. FlagOK'
  BY <1>2 DEF HInv, FlagOK
<1>8. NewOK'
  BY <1>1, <1>5, <1>6 DEF HInv, NewOK, SessionInv
<1>9. SentOK'
  BY <1>3, <1>4 DEF InSession, SentOK
<1>10. link # n /\ (link \in Clients => link # 0)
  BY <1>1, ClientNumbers DEF HInv, SessionInv
<1>11. \A u \in Threads: mine'[u] # link \/ pc'[u] \notin {"connect", "send", "answer"}
  BY <1>1, <1>3, <1>4, <1>10 DEF InSession, HInv, SessionInv
<1>12. LinkOK'
  BY <1>2, <1>5, <1>10, <1>11, SameLink
<1> QED
  BY <1>7, <1>8, <1>9, <1>12 DEF HInv

\* A session whose client is connected comes to send: the flag is that of the link's client.
LEMMA SeesExchange ==
  ASSUME HInv, SessionInv', Typed', NEW t \in Threads, SeesConnected(t)
  PROVE  HInv'
<1>1. /\ pc[t] = "connect" /\ connected[mine[t]] /\ Goto(t, "send")
      /\ UNCHANGED <<mine, phase, connected, request, out, answers, link, skewed, parser,
                     running>>
  BY DEF SeesConnected, At, task, client, io, air, badge
<1>2. \A u \in Threads: pc'[u] = IF u = t THEN "send" ELSE pc[u]
  BY <1>1, GotoEffect DEF HInv
<1>3. mine[t] \in Clients
  BY <1>1, MineIsClient DEF HInv, InSession
<1>4. phase[mine[t]] = "serving"
  BY <1>1, <1>3, LinkServes DEF HInv, FlagOK
<1>5. FlagOK' /\ NewOK'
  BY <1>1 DEF HInv, FlagOK, NewOK
<1>6. SentOK'
  BY <1>1, <1>2, <1>4 DEF HInv, SentOK
<1>7. LinkOK'
  BY <1>1, <1>2, SameLink
<1> QED
  BY <1>5, <1>6, <1>7 DEF HInv

\* A session that is left, by its end or an exception.
LEMMA LeaveExchange ==
  ASSUME HInv, SessionInv', Typed', NEW t \in Threads, InSession(t),
         NEW next, next \notin {"connect", "send", "answer"}, Goto(t, next),
         \A u \in Threads: u # t => mine'[u] = mine[u],
         \A n \in Clients: connected'[n] => connected[n],
         \A n \in Clients: phase'[n] \in {"scan", "connecting"} => phase'[n] = phase[n],
         UNCHANGED <<request, out, answers, link, skewed, parser, running>>
  PROVE  HInv'
<1>1. \A u \in Threads: pc'[u] = IF u = t THEN next ELSE pc[u]
  BY GotoEffect DEF HInv
<1>2. \A u \in Threads: u # t => pc[u] \notin {"connect", "send", "answer"}
  BY OnlyOne DEF HInv
<1>3. \A u \in Threads: pc'[u] \notin {"connect", "send", "answer"}
  BY <1>1, <1>2
<1>4. FlagOK'
  BY DEF HInv, FlagOK
<1>5. NewOK'
  BY DEF HInv, NewOK
<1>6. SentOK'
  BY <1>3 DEF SentOK
<1>7. LinkOK'
  BY <1>3, SameLink
<1> QED
  BY <1>4, <1>5, <1>6, <1>7 DEF HInv

\* A client is stopped, or given up.
LEMMA StopExchange ==
  ASSUME HInv, SessionInv', Typed', NEW t \in Threads,
         GiveUp(t) \/ NoAnswer(t) \/ CannotSend(t) \/ EndSession(t)
  PROVE  HInv'
<1>1. InSession(t)
  BY DEF GiveUp, NoAnswer, CannotSend, EndSession, At, InSession
<1>2. UNCHANGED <<request, out, answers, link, skewed, parser, running>>
  BY DEF GiveUp, NoAnswer, CannotSend, EndSession, io, air, badge
<1>3. mine[t] \in Clients
  BY <1>1, MineIsClient DEF HInv
<1>4. ASSUME StopClient(t), UNCHANGED phase PROVE HInv'
  <2>1. Goto(t, "join") /\ mine' = mine /\ connected' = [connected EXCEPT ![mine[t]] = FALSE]
    BY <1>4 DEF StopClient
  <2>2. \A n \in Clients: connected'[n] => connected[n]
    BY <2>1 DEF HInv, Typed, FlagsOK
  <2> QED
    BY <1>1, <1>2, <1>4, <2>1, <2>2, LeaveExchange
<1>5. ASSUME NEW next \in {"idle", "crash", "dead"}, Leave(t, next) PROVE HInv'
  <2>1. CASE ~listing[t]
    BY <1>4, <1>5, <2>1 DEF Leave
  <2>2. CASE listing[t]
    <3>1. Goto(t, next) /\ mine' = [mine EXCEPT ![t] = 0] /\ UNCHANGED connected
      BY <1>5, <2>2 DEF Leave, Release
    <3>2. \A u \in Threads: u # t => mine'[u] = mine[u]
      BY <3>1 DEF HInv, SessionInv
    <3>3. \A n \in Clients: phase'[n] \in {"scan", "connecting"} => phase'[n] = phase[n]
      BY <1>5, <2>2 DEF Leave, HInv, SessionInv
    <3> QED
      BY <1>1, <1>2, <3>1, <3>2, <3>3, LeaveExchange
  <2> QED
    BY <2>1, <2>2
<1>6. CASE GiveUp(t) \/ NoAnswer(t) \/ CannotSend(t)
  <2>1. \E next \in {"idle", "crash", "dead"}: Leave(t, next)
    BY <1>6 DEF GiveUp, NoAnswer, CannotSend, Crashes
  <2> QED
    BY <1>5, <2>1
<1>7. CASE EndSession(t)
  BY <1>4, <1>7 DEF EndSession
<1> QED
  BY <1>6, <1>7

\* A client whose thread has ended goes with its session: it is not the link's.
LEMMA JoinExchange ==
  ASSUME HInv, SessionInv', Typed', NEW t \in Threads, Join(t)
  PROVE  HInv'
<1>1. /\ InSession(t) /\ phase[mine[t]] = "done" /\ Fresh(mine[t])
      /\ phase' = [phase EXCEPT ![mine[t]] = "none"]
      /\ UNCHANGED <<connected, link, skewed, parser, running>>
      /\ \E next \in {"idle", "crash", "dead"}: Release(t, next)
  BY DEF Join, At, InSession, Crashes, air, badge
<1>2. PICK next \in {"idle", "crash", "dead"}: Goto(t, next)
  BY <1>1 DEF Release
<1>3. \A u \in Threads: pc'[u] \notin {"connect", "send", "answer"}
  BY <1>1, <1>2, OnlyOne, GotoEffect DEF HInv
<1>4. mine[t] \in Clients
  BY <1>1, MineIsClient DEF HInv
<1>5. \A m \in Clients: m # mine[t] => /\ request'[m] = request[m] /\ out'[m] = out[m]
                                       /\ answers'[m] = answers[m]
  BY <1>1 DEF Fresh, HInv, Typed, IoOK
<1>6. FlagOK'
  BY <1>1 DEF HInv, FlagOK
<1>7. NewOK'
  <2>1. phase'[mine[t]] = "none" /\ \A m \in Clients: m # mine[t] => phase'[m] = phase[m]
    BY <1>1, <1>4 DEF HInv, SessionInv
  <2> QED
    BY <1>5, <2>1 DEF HInv, NewOK
<1>8. SentOK'
  BY <1>3 DEF SentOK
<1>9. link \in Clients => link # mine[t]
  BY <1>1, LinkServes DEF HInv
<1>10. LinkOK'
  BY <1>1, <1>3, <1>5, <1>9, SameLink
<1> QED
  BY <1>6, <1>7, <1>8, <1>10 DEF HInv

\* What ParserAt says at the two ends of a frame.
LEMMA ParserAtEnds ==
  ASSUME NEW f \in Requests \cup {NoRequest}
  PROVE  ParserAt(f, 0) = AtRest /\ ParserAt(f, Len(Bytes(f))) = AtRest
BY BytesOf DEF ParserAt

\* What a client has written when all of a request is left, and when nothing is.
LEMMA WrittenEnds ==
  ASSUME IoOK, NEW n \in Clients
  PROVE  /\ out[n] = <<>> => Written(n) = Len(Bytes(request[n]))
         /\ out[n] = Bytes(request[n]) => Written(n) = 0
<1>1. PICK m \in Nat: m = Len(Bytes(request[n]))
  <2>1. request[n] \in Requests \cup {NoRequest}
    BY DEF IoOK
  <2>2. Len(Bytes(request[n])) \in Nat
    BY <2>1, BytesOf
  <2> QED
    BY <2>2
<1>2. m - 0 = m /\ m - m = 0 /\ Len(<<>>) = 0
  OBVIOUS
<1> QED
  BY <1>1, <1>2 DEF Written

\* A command is sent over a connection on which nothing is under way.
LEMMA SendExchange ==
  ASSUME HInv, SessionInv', Typed', NEW t \in Threads, Send(t)
  PROVE  HInv'
<1>1. /\ pc[t] = "send" /\ Goto(t, "answer")
      /\ UNCHANGED <<mine, phase, connected, answers, link, skewed, parser, running>>
  BY DEF Send, At, task, client, air, badge
<1>2. PICK f \in Requests: /\ request' = [request EXCEPT ![mine[t]] = f]
                           /\ out' = [out EXCEPT ![mine[t]] = Bytes(f)]
  BY DEF Send
<1>3. mine[t] \in Clients
  BY <1>1, MineIsClient DEF HInv, InSession
<1>4. \A u \in Threads: pc'[u] = IF u = t THEN "answer" ELSE pc[u]
  BY <1>1, GotoEffect DEF HInv
<1>5. /\ request'[mine[t]] = f /\ out'[mine[t]] = Bytes(f)
      /\ \A m \in Clients: m # mine[t] => request'[m] = request[m] /\ out'[m] = out[m]
  BY <1>2, <1>3 DEF HInv, Typed, IoOK
<1>6. phase[mine[t]] \in {"serving", "done"}
  BY <1>1 DEF HInv, SentOK
<1>7. FlagOK'
  BY <1>1 DEF HInv, FlagOK
<1>8. NewOK'
  BY <1>1, <1>5, <1>6 DEF HInv, NewOK
<1>9. SentOK'
  BY <1>1, <1>4, <1>6 DEF HInv, SentOK
<1>10. \A u \in Threads: u # t => pc[u] \notin {"connect", "send", "answer"}
  BY <1>1, OnlyOne DEF HInv, InSession
<1>11. LinkOK'
  <2>1. CASE link # mine[t]
    <3>1. \A u \in Threads: mine'[u] = link => pc'[u] \notin {"connect", "send", "answer"}
      BY <1>1, <1>4, <1>10, <2>1
    <3> QED
      BY <1>1, <1>5, <2>1, <3>1, SameLink
  <2>2. CASE link = mine[t]
    <3> SUFFICES ASSUME ~skewed
                 PROVE  InStep' /\ \A u \in Threads: mine'[u] = link => Exchange(u)'
      BY <1>1 DEF LinkOK
    <3>1. InStep /\ Exchange(t)
      BY <1>3, <2>2 DEF HInv, LinkOK
    <3>2. out[link] = <<>> /\ running = <<>> /\ answers[link] = <<>>
      BY <1>1, <3>1 DEF Exchange
    <3>3. parser = AtRest
      <4>1. parser = ParserAt(request[link], Len(Bytes(request[link])))
        BY <1>3, <2>2, <3>1, <3>2, WrittenEnds DEF InStep, HInv, Typed
      <4>2. request[link] \in Requests \cup {NoRequest}
        BY <1>3, <2>2 DEF HInv, Typed, IoOK
      <4> QED
        BY <4>1, <4>2, ParserAtEnds
    <3>4. InStep'
      <4>1. Written(link)' = Len(Bytes(f)) - Len(Bytes(f))
        BY <1>1, <1>5, <2>2 DEF Written
      <4>2. Len(Bytes(f)) - Len(Bytes(f)) = 0
        BY BytesOf
      <4>3. ParserAt(request'[link'], Written(link)') = AtRest
        BY <1>1, <1>5, <2>2, <4>1, <4>2, ParserAtEnds
      <4> QED
        BY <1>1, <3>2, <3>3, <4>1, <4>2, <4>3 DEF InStep, Written
    <3>5. Bytes(f) # <<>>
      <4>1. Len(Bytes(f)) # 0
        BY BytesOf
      <4> QED
        BY <4>1
    <3>6. \A u \in Threads: mine'[u] = link => Exchange(u)'
      BY <1>1, <1>4, <1>5, <1>10, <2>2, <3>2, <3>5 DEF Exchange
    <3> QED
      BY <3>4, <3>6
  <2> QED
    BY <2>1, <2>2
<1> QED
  BY <1>7, <1>8, <1>9, <1>11 DEF HInv

\* The answer that is taken is the last there is.
LEMMA TakeExchange ==
  ASSUME HInv, SessionInv', Typed', NEW t \in Threads, TakeAnswer(t)
  PROVE  HInv'
<1>1. /\ pc[t] = "answer" /\ Goto(t, "send") /\ answers[mine[t]] # <<>>
      /\ answers' = [answers EXCEPT ![mine[t]] = Tail(@)]
      /\ UNCHANGED <<mine, phase, connected, request, out, link, skewed, parser, running>>
  BY DEF TakeAnswer, At, task, client, air, badge
<1>2. mine[t] \in Clients
  BY <1>1, MineIsClient DEF HInv, InSession
<1>3. \A u \in Threads: pc'[u] = IF u = t THEN "send" ELSE pc[u]
  BY <1>1, GotoEffect DEF HInv
<1>4. /\ answers'[mine[t]] = Tail(answers[mine[t]])
      /\ \A m \in Clients: m # mine[t] => answers'[m] = answers[m]
  BY <1>1, <1>2 DEF HInv, Typed, IoOK
<1>5. phase[mine[t]] \in {"serving", "done"}
  BY <1>1 DEF HInv, SentOK
<1>6. FlagOK'
  BY <1>1 DEF HInv, FlagOK
<1>7. NewOK'
  BY <1>1, <1>4, <1>5 DEF HInv, NewOK
<1>8. SentOK'
  BY <1>1, <1>3, <1>5 DEF HInv, SentOK
<1>9. \A u \in Threads: u # t => pc[u] \notin {"connect", "send", "answer"}
  BY <1>1, OnlyOne DEF HInv, InSession
<1>10. LinkOK'
  <2>1. CASE link # mine[t]
    <3>1. \A u \in Threads: mine'[u] = link => pc'[u] \notin {"connect", "send", "answer"}
      BY <1>1, <1>3, <1>9, <2>1
    <3> QED
      BY <1>1, <1>4, <2>1, <3>1, SameLink
  <2>2. CASE link = mine[t]
    <3> SUFFICES ASSUME ~skewed
                 PROVE  InStep' /\ \A u \in Threads: mine'[u] = link => Exchange(u)'
      BY <1>1 DEF LinkOK
    <3>1. InStep /\ Exchange(t)
      BY <1>2, <2>2 DEF HInv, LinkOK
    <3>2. out[link] = <<>> /\ running = <<>> /\ answers[link] = <<request[link].cmd>>
      BY <1>1, <2>2, <3>1 DEF Exchange
    <3>3. answers'[link] = <<>>
      BY <1>4, <2>2, <3>2
    <3>4. InStep'
      BY <1>1, <3>1 DEF InStep, Written
    <3>5. \A u \in Threads: mine'[u] = link => Exchange(u)'
      BY <1>1, <1>3, <1>9, <3>2, <3>3 DEF Exchange
    <3> QED
      BY <3>4, <3>5
  <2> QED
    BY <2>1, <2>2
<1> QED
  BY <1>6, <1>7, <1>8, <1>10 DEF HInv

\* A client is connected.  Nothing was sent with it; if the parser is between two frames, it
\* is in step with nothing.
LEMMA ConnectsExchange ==
  ASSUME HInv, SessionInv', Typed', NEW n \in Clients, Connects(n)
  PROVE  HInv'
<1>1. /\ phase[n] = "connecting" /\ link = 0 /\ running = <<>>
      /\ link' = n /\ skewed' = (parser.st # "SOT")
      /\ connected' = [connected EXCEPT ![n] = TRUE]
      /\ phase' = [phase EXCEPT ![n] = "serving"]
      /\ UNCHANGED <<pc, mine, request, out, answers, parser, running>>
  BY DEF Connects, task, io, badge
<1>2. \A m \in Clients: phase'[m] = IF m = n THEN "serving" ELSE phase[m]
  BY <1>1 DEF HInv, SessionInv
<1>3. \A m \in Clients: connected'[m] => m = n
  BY <1>1, ClientNumbers DEF HInv, FlagOK, Typed, FlagsOK
<1>4. FlagOK'
  BY <1>1, <1>3 DEF FlagOK
<1>5. NewOK'
  BY <1>1, <1>2 DEF HInv, NewOK
<1>6. ASSUME NEW t \in Threads, pc[t] \in {"send", "answer"} PROVE mine[t] # n
  BY <1>1, <1>6 DEF HInv, SentOK
<1>7. SentOK'
  <2> SUFFICES ASSUME NEW t \in Threads, pc[t] \in {"send", "answer"}
               PROVE  phase'[mine[t]] \in {"serving", "done"}
    BY <1>1 DEF SentOK
  <2>1. mine[t] \in Clients
    BY MineIsClient DEF HInv, InSession
  <2> QED
    BY <1>2, <2>1 DEF HInv, SentOK
<1>8. LinkOK'
  <2> SUFFICES ASSUME ~skewed'
               PROVE  InStep' /\ \A t \in Threads: mine'[t] = n => Exchange(t)'
    BY <1>1 DEF LinkOK
  <2>1. out[n] = <<>> /\ answers[n] = <<>>
    BY <1>1 DEF HInv, NewOK
  <2>2. parser = AtRest
    BY <1>1 DEF HInv, Typed, BadgeOK, ParserOK
  <2>3. ParserAt(request[n], Written(n)) = AtRest
    <3>1. Written(n) = Len(Bytes(request[n]))
      BY <2>1, WrittenEnds DEF HInv, Typed
    <3>2. request[n] \in Requests \cup {NoRequest}
      BY DEF HInv, Typed, IoOK
    <3> QED
      BY <3>1, <3>2, ParserAtEnds
  <2>4. InStep'
    BY <1>1, <2>2, <2>3 DEF InStep, Written
  <2>5. \A t \in Threads: mine'[t] = n => Exchange(t)'
    BY <1>1, <1>6, <2>1 DEF Exchange
  <2> QED
    BY <2>4, <2>5
<1> QED
  BY <1>4, <1>5, <1>7, <1>8 DEF HInv

\* A write takes the parser further in the request, in step with the client.
LEMMA WriteExchange ==
  ASSUME HInv, SessionInv', Typed', NEW n \in Clients, Write(n)
  PROVE  HInv'
<1>1. PICK o: o = out[n]
  OBVIOUS
<1>2. PICK f: f = request[n]
  OBVIOUS
<1>3. PICK p: p = Beginning(o, Taken(o))
  OBVIOUS
<1>4. PICK q: q = Remainder(o, Taken(o))
  OBVIOUS
<1>5. /\ f \in Requests /\ o \in Seq(Tokens) /\ o # <<>>
      /\ Rest(o, Bytes(f)) /\ Bytes(f) \in Seq(Tokens)
      /\ link = n /\ running = <<>>
      /\ out' = [out EXCEPT ![n] = q]
      /\ parser' = Received(p).p /\ running' = Received(p).got
      /\ UNCHANGED <<pc, mine, phase, connected, request, answers, link, skewed>>
  BY <1>1, <1>2, <1>3, <1>4, WriteEffect DEF HInv
<1>6. \A m \in Clients: out'[m] = IF m = n THEN q ELSE out[m]
  BY <1>5 DEF HInv, Typed, IoOK
<1>7. FlagOK'
  BY <1>5 DEF HInv, FlagOK
<1>8. NewOK'
  <2>1. phase[n] = "serving"
    BY <1>5, LinkServes DEF HInv
  <2> QED
    BY <1>5, <1>6, <2>1 DEF HInv, NewOK
<1>9. SentOK'
  BY <1>5 DEF HInv, SentOK
<1>10. LinkOK'
  <2> SUFFICES ASSUME ~skewed
               PROVE  InStep' /\ \A t \in Threads: mine'[t] = n => Exchange(t)'
    BY <1>5 DEF LinkOK
  <2>1. InStep /\ \A t \in Threads: mine[t] = n => Exchange(t)
    BY <1>5 DEF HInv, LinkOK
  <2>2. PICK all \in Nat: all = Len(Bytes(f)) /\ all = Len(f.data) + 3
    BY <1>5, BytesOf
  <2>3. PICK j \in Nat: j = Len(Bytes(f)) - Len(o)
    BY <1>5, Cut
  <2>4. PICK k \in Nat \ {0}: k = Taken(o)
    BY <1>5, Cut
  <2>5. /\ p \in Seq(Tokens) /\ p # <<>> /\ Len(p) = k
        /\ j + k = all - Len(q) /\ j + k <= all
        /\ \A i \in 1..k: p[i] = Bytes(f)[j + i]
        /\ (q = <<>> <=> j + k = all)
    <3> HIDE DEF Tokens
    <3>1. /\ p \in Seq(Tokens) /\ p # <<>> /\ Len(p) = Taken(o)
      BY <1>3, <1>5, Cut
    <3>2. /\ Len(Bytes(f)) - Len(o) + Taken(o) = Len(Bytes(f)) - Len(q)
          /\ Len(Bytes(f)) - Len(o) + Taken(o) <= Len(Bytes(f))
          /\ q = <<>> <=> Len(Bytes(f)) - Len(o) + Taken(o) = Len(Bytes(f))
      BY <1>4, <1>5, Cut
    <3>3. \A i \in 1..Taken(o): p[i] = Bytes(f)[Len(Bytes(f)) - Len(o) + i]
      BY <1>3, <1>5, Cut
    <3> QED
      BY <2>2, <2>3, <2>4, <3>1, <3>2, <3>3
  <2>6. parser = ParserAt(f, j)
    BY <1>1, <1>2, <1>5, <2>1, <2>3 DEF InStep, Written
  <2>7. Received(p) = [p |-> ParserAt(f, j + k),
                       got |-> IF j + k = all THEN <<f>> ELSE <<>>]
    BY <1>5, <2>2, <2>5, <2>6, ReceivedInRequest
  <2>8. parser' = ParserAt(f, j + k) /\ running' = IF q = <<>> THEN <<f>> ELSE <<>>
    BY <1>5, <2>5, <2>7
  <2>9. Written(n)' = j + k
    BY <1>2, <1>5, <1>6, <2>2, <2>5 DEF Written
  <2>10. InStep'
    BY <1>2, <1>5, <1>6, <2>8, <2>9 DEF InStep, Written
  <2>11. <<f>> # <<>>
    OBVIOUS
  <2>12. ASSUME NEW t \in Threads, mine'[t] = n PROVE Exchange(t)'
    <3>1. Exchange(t) /\ pc'[t] = pc[t]
      BY <1>5, <2>1, <2>12
    <3>2. /\ pc[t] \notin {"connect", "send"}
          /\ pc[t] = "answer" => answers[n] = <<>>
      BY <1>1, <1>5, <3>1 DEF Exchange
    <3> QED
      BY <1>5, <1>6, <2>8, <2>11, <3>1, <3>2 DEF Exchange
  <2> QED
    BY <2>10, <2>12
<1> QED
  BY <1>7, <1>8, <1>9, <1>10 DEF HInv

\* The badge answers the request it has accepted, to the client that has sent it.
LEMMA AnswersExchange ==
  ASSUME HInv, SessionInv', Typed', BadgeAnswers
  PROVE  HInv'
<1>1. /\ running # <<>> /\ running' = Tail(running)
      /\ answers' = [n \in Clients |->
                      IF n = link THEN Append(answers[n], Head(running).cmd) ELSE answers[n]]
      /\ UNCHANGED <<pc, mine, phase, connected, request, out, link, skewed, parser>>
  BY DEF BadgeAnswers, task, client, air
<1>2. FlagOK'
  BY <1>1 DEF HInv, FlagOK
<1>3. NewOK'
  BY <1>1, LinkServes DEF HInv, NewOK
<1>4. SentOK'
  BY <1>1 DEF HInv, SentOK
<1>5. LinkOK'
  <2> SUFFICES ASSUME link \in Clients, ~skewed
               PROVE  InStep' /\ \A t \in Threads: mine'[t] = link => Exchange(t)'
    BY <1>1 DEF LinkOK
  <2>1. InStep /\ \A t \in Threads: mine[t] = link => Exchange(t)
    BY DEF HInv, LinkOK
  <2>2. running = <<request[link]>> /\ out[link] = <<>>
    BY <1>1, <2>1 DEF InStep
  <2>3. Tail(running) = <<>> /\ Head(running) = request[link]
    BY <2>2
  <2>4. answers'[link] = Append(answers[link], request[link].cmd)
    BY <1>1, <2>3
  <2>5. InStep'
    BY <1>1, <2>1, <2>3 DEF InStep, Written
  <2>6. ASSUME NEW t \in Threads, mine'[t] = link PROVE Exchange(t)'
    <3>1. Exchange(t)
      BY <1>1, <2>1, <2>6
    <3>2. /\ pc[t] \notin {"connect", "send"}
          /\ pc[t] = "answer" => answers[link] = <<>>
      BY <1>1, <3>1 DEF Exchange
    <3>3. Append(<<>>, request[link].cmd) = <<request[link].cmd>>
      OBVIOUS
    <3> QED
      BY <1>1, <2>2, <2>3, <2>4, <3>2, <3>3 DEF Exchange
  <2> QED
    BY <2>5, <2>6
<1> QED
  BY <1>2, <1>3, <1>4, <1>5 DEF HInv

\* The steps of a client that is not connected, or no longer.
LEMMA ClientExchange ==
  ASSUME HInv, SessionInv', Typed', NEW n \in Clients,
         Finds(n) \/ CannotConnect(n) \/ ClientEnds(n)
  PROVE  HInv'
<1>1. UNCHANGED <<pc, mine, connected, request, out, answers, skewed, parser, running>>
  BY DEF Finds, CannotConnect, ClientEnds, task, hold, io, air, badge
<1>2. /\ \A m \in Clients: m # n => phase'[m] = phase[m]
      /\ \/ phase[n] = "scan" /\ phase'[n] = "connecting"
         \/ phase'[n] = IF n \in orphans THEN "none" ELSE "done"
  BY DEF Finds, CannotConnect, ClientEnds, Ends, HInv, SessionInv
<1>3. link' = link \/ (link = n /\ link' = 0 /\ ~connected[n])
  BY DEF Finds, CannotConnect, ClientEnds, air
<1>4. FlagOK'
  BY <1>1, <1>3 DEF HInv, FlagOK
<1>5. NewOK'
  BY <1>1, <1>2 DEF HInv, NewOK
<1>6. SentOK'
  <2> SUFFICES ASSUME NEW t \in Threads, pc[t] \in {"send", "answer"}
               PROVE  phase'[mine[t]] \in {"serving", "done"}
    BY <1>1 DEF SentOK
  <2>1. mine[t] \in Clients /\ mine[t] \notin orphans
    BY MineIsClient DEF HInv, SessionInv, InSession
  <2>2. phase[mine[t]] \in {"serving", "done"}
    BY DEF HInv, SentOK
  <2> QED
    BY <1>2, <2>1, <2>2
<1>7. LinkOK'
  <2>1. CASE link' = link
    BY <1>1, <2>1, SameLink
  <2>2. CASE link' = 0
    BY <2>2, ClientNumbers DEF LinkOK
  <2> QED
    BY <1>3, <2>1, <2>2
<1> QED
  BY <1>4, <1>5, <1>6, <1>7 DEF HInv

\* Every step keeps the exchanges in step.
LEMMA HStep ==
  ASSUME HInv, SessionInv', Typed', [Next]_vars
  PROVE  HInv'
<1>1. ASSUME NEW t \in Threads, NEW list \in BOOLEAN, BeginSession(t, list) PROVE HInv'
  BY <1>1, BeginExchange
<1>2. ASSUME NEW t \in Threads, Session(t) PROVE HInv'
  BY <1>2, SeesExchange, StopExchange, SendExchange, TakeExchange, JoinExchange DEF Session
<1>3. ASSUME NEW n \in Clients, Client(n) PROVE HInv'
  BY <1>3, ClientExchange, ConnectsExchange, WriteExchange DEF Client
<1>4. CASE BadgeAnswers
  BY <1>4, AnswersExchange
<1>5. CASE LinkDrops
  <2>1. /\ link' = 0 /\ connected' = [n \in Clients |-> connected[n] /\ n # link]
        /\ UNCHANGED <<pc, mine, phase, out, answers>>
    BY <1>5 DEF LinkDrops, task, io
  <2>2. FlagOK'
    BY <2>1 DEF HInv, FlagOK
  <2> QED
    BY <2>1, <2>2, ClientNumbers DEF HInv, NewOK, SentOK, LinkOK
<1>6. CASE Restart
  <2>1. /\ link' \in {0, Gone} /\ \A n \in Clients: ~connected'[n] /\ phase'[n] = "none"
        /\ \A t \in Threads: pc'[t] = "idle"
    BY <1>6 DEF Restart
  <2> QED
    BY <2>1, ClientNumbers DEF HInv, FlagOK, NewOK, SentOK, LinkOK
<1>7. CASE UNCHANGED vars
  BY <1>7 DEF vars, task, hold, client, io, air, badge, HInv, FlagOK, NewOK, SentOK, LinkOK,
              InStep, Written, Exchange
<1> QED
  BY <1>1, <1>2, <1>3, <1>4, <1>5, <1>6, <1>7 DEF Next

\* In every state a connection that began between two frames is in step with the last
\* request, and the session over it waits for the answer to that one.
THEOREM ExchangeCorrect == Spec => []ExchangeInv
<1>1. Init /\ SessionInv /\ Typed => HInv
  <2> SUFFICES ASSUME Init, SessionInv, Typed PROVE HInv
    OBVIOUS
  <2>1. FlagOK /\ NewOK /\ SentOK /\ LinkOK
    BY ClientNumbers DEF Init, FlagOK, NewOK, SentOK, LinkOK
  <2> QED
    BY <2>1 DEF HInv
<1>2. HInv /\ SessionInv' /\ Typed' /\ [Next]_vars => HInv'
  BY HStep
<1> QED
  BY <1>1, <1>2, HInvIsExchangeInv, InvCorrect, TypedCorrect, PTL DEF Spec

\* On a connection that began with the parser between two frames the badge carries out
\* what it was asked for, whatever the bytes of the data are.
THEOREM FramesCorrect == Spec => []FramesFound
<1>1. ExchangeInv => FramesFound
  BY DEF ExchangeInv, InStep, FramesFound
<1> QED
  BY <1>1, ExchangeCorrect, PTL

\* On a connection that began with the parser between two frames the answer a session
\* takes is that of its last command.  A connection after a request that was cut off in
\* the middle is not one of those.
THEOREM AnswerCorrect == Spec => []AnswerIsMine
<1>1. SessionInv /\ ExchangeInv => AnswerIsMine
  <2> SUFFICES ASSUME SessionInv, ExchangeInv,
                      NEW t \in Threads, mine[t] # 0, link = mine[t], ~skewed
               PROVE  /\ pc[t] \in {"connect", "send"} =>
                           answers[link] = <<>> /\ running = <<>>
                      /\ pc[t] = "answer" => answers[link] \in {<<>>, <<request[link].cmd>>}
    BY DEF AnswerIsMine
  <2>1. link \in Clients
    BY DEF SessionInv, Clients
  <2>2. Exchange(t)
    BY <2>1 DEF ExchangeInv
  <2> QED
    BY <2>2 DEF Exchange
<1> QED
  BY <1>1, InvCorrect, ExchangeCorrect, PTL
=============================================================================
