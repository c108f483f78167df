------------------------- MODULE TimeControl_proofs -------------------------
(***************************************************************************)
(* TimeControl keeps its types, for any times of the hub and however long  *)
(* the badge runs.                                                         *)
(***************************************************************************)
EXTENDS TimeControl, TLAPS

\* Every variable of the time control keeps its type; no instant is in the future.
THEOREM TypeCorrect ==
  ASSUME References \subseteq Nat, MaxUptime \in Nat
  PROVE  Spec => []TypeOK
<1>1. Init => TypeOK
  <2> SUFFICES ASSUME Init PROVE TypeOK
    OBVIOUS
  <2>1. uptime = 0 /\ 0 \in 0..MaxUptime /\ 0 \in 0..uptime
    BY DEF Init
  <2>2. None \in [ref: References \cup {0}, local: 0..uptime]
    BY <2>1 DEF None
  <2>3. NoEntry \in [reference: References \cup {0}, interpolated: Int, internal: 0..uptime]
    BY <2>1 DEF NoEntry
  <2>4. reply \in [ref: References \cup {0}, status: {"NOT_SYNCED", "SYNCED", "ERR"},
                   error: Int]
    BY DEF Init
  <2> QED
    BY <2>1, <2>2, <2>3, <2>4 DEF Init, TypeOK
<1>2. TypeOK /\ [Next]_vars => TypeOK'
  <2> SUFFICES ASSUME TypeOK, [Next]_vars PROVE TypeOK'
    OBVIOUS
  <2>1. CASE Tick
    <3>1. uptime' \in 0..MaxUptime /\ 0..uptime \subseteq 0..uptime'
      BY <2>1 DEF Tick, TypeOK
    <3> QED
      BY <2>1, <3>1 DEF Tick, TypeOK
  <2>2. CASE SetupExperiment \/ Erase
    <3>1. NoEntry \in [reference: References \cup {0}, interpolated: Int, internal: 0..uptime]
      BY DEF TypeOK, NoEntry
    <3> QED
      BY <2>2, <3>1 DEF SetupExperiment, Erase, TypeOK
  <2>3. ASSUME NEW ref \in References, Status(ref) PROVE TypeOK'
    <3> DEFINE instant == [ref |-> ref, local |-> uptime]
    <3>1. base' \in {base, instant} /\ latest' \in {latest, instant}
      BY <2>3 DEF Status, UpdateState
    <3>2. uptime' = uptime /\ uptime \in 0..uptime /\ 0 \in 0..uptime
      BY <2>3 DEF Status, TypeOK
    <3>3. instant \in [ref: References \cup {0}, local: 0..uptime]
      BY <3>2
    <3>4. Interpolated \in Int
      <4>1. base.ref \in Int /\ base.local \in Int /\ uptime \in Int
        <5>1. base \in [ref: References \cup {0}, local: 0..uptime] /\ uptime \in 0..MaxUptime
          BY DEF TypeOK
        <5>2. base.ref \in References \cup {0} /\ base.local \in 0..uptime
          BY <5>1
        <5>3. base.ref \in Int
          <6>1. \A r \in References \cup {0}: r \in Int
            OBVIOUS
          <6> QED
            BY <5>2, <6>1, Zenon
        <5>4. base.local \in Int /\ uptime \in Int
          BY <5>1, <5>2
        <5> QED
          BY <5>3, <5>4
      <4> QED
        BY <4>1 DEF Interpolated
    <3>5. Error(ref) \in Int
      BY <3>4 DEF Error
    <3> QED
      BY <2>3, <3>1, <3>2, <3>3, <3>4, <3>5 DEF Status, TypeOK
  <2>4. CASE UNCHANGED vars
    BY <2>4 DEF vars, TypeOK
  <2> QED
    BY <2>1, <2>2, <2>3, <2>4 DEF Next
<1> QED
  BY <1>1, <1>2, PTL DEF Spec
=============================================================================
