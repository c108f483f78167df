---------------------------- MODULE TimeControl ----------------------------
(***************************************************************************)
(* time_control.c, and the two commands of cmd_processor.c that use it.    *)
(* Every status request carries the hub's time: the badge writes an entry  *)
(* to its SYNC file, with which recordings are dated later, gives the time *)
(* to Zephyr's timeutil, and answers what became of it.  The badge's own   *)
(* clock starts at 0 and is never set.                                     *)
(*                                                                         *)
(* The compiled variant is the one without HEURISTIC_TIME_SYNC.  External: *)
(* storage.c (an entry may fail to be written, and does when no experiment *)
(* is set up) and Zephyr's timeutil.                                       *)
(***************************************************************************)
EXTENDS Integers

CONSTANTS References,  \* bound: times of the hub's clock
          BuildTime,   \* FW_BUILD_TIMESTAMP * 1000
          MaxUptime    \* bound: the badge's clock

VARIABLES
  status,      \* time_control.c's
  base, latest,  \* sync_state
  uptime,      \* external: k_uptime_get
  experiment,  \* external: storage_status.experiment_initialized
  entry,       \* external: the last entry of the SYNC file
  reply        \* the last answer to a status request

vars == <<status, base, latest, uptime, experiment, entry, reply>>

None == [ref |-> 0, local |-> 0]
NoEntry == [reference |-> 0, interpolated |-> 0, internal |-> 0]

\* No instant that the badge keeps is in its future.
TypeOK ==
  /\ status \in {"NOT_SYNCED", "SYNCED", "ERR"}
  /\ base \in [ref: References \cup {0}, local: 0..uptime]
  /\ latest \in [ref: References \cup {0}, local: 0..uptime]
  /\ uptime \in 0..MaxUptime /\ experiment \in BOOLEAN
  /\ entry \in [reference: References \cup {0}, interpolated: Int, internal: 0..uptime]
  /\ reply \in [ref: References \cup {0}, status: {"NOT_SYNCED", "SYNCED", "ERR"}, error: Int]

Init ==
  /\ status = "NOT_SYNCED" /\ base = None /\ latest = None
  /\ uptime = 0 /\ experiment = FALSE /\ entry = NoEntry
  /\ reply = [ref |-> 0, status |-> "NOT_SYNCED", error |-> 0]
-----------------------------------------------------------------------------
\* timeutil_sync_state_update takes the first instant as base, and a later one only when
\* both clocks went on since the base.
Accepts(i) == base = None \/ (i.ref > base.ref /\ i.local > base.local)

UpdateState(i) ==
  IF ~Accepts(i) THEN UNCHANGED <<base, latest>>
  ELSE IF base = None THEN base' = i /\ UNCHANGED latest
  ELSE latest' = i /\ UNCHANGED base

\* time_control_get_timestamp_interp; nobody computes a skew.
Interpolated ==
  IF status = "NOT_SYNCED" \/ base = None THEN 0 ELSE base.ref + uptime - base.local

\* time_control_sync's error_ms
Error(ref) == IF Interpolated < BuildTime THEN ref ELSE ref - Interpolated

\* cmd_status, which is time_control_sync with the hub's time: the entry is written, and
\* then time_control_update gives the instant to timeutil whatever the status is.
Status(ref) ==
  \E written \in BOOLEAN:
    LET instant == [ref |-> ref, local |-> uptime] IN
    /\ written => experiment
    /\ entry' = IF written THEN [reference |-> ref, interpolated |-> Interpolated,
                                 internal |-> uptime]
                ELSE entry
    /\ UpdateState(instant)
    /\ status' = IF Accepts(instant) THEN "SYNCED" ELSE "ERR"
    /\ reply' = [ref |-> ref, status |-> status', error |-> Error(ref)]
    /\ UNCHANGED <<uptime, experiment>>

\* cmd_setup_experiment: when storage_init_experiment succeeds the status is reset, and
\* timeutil keeps its base.  The new folder has no SYNC file.
SetupExperiment ==
  /\ experiment' = TRUE
  /\ status' = "NOT_SYNCED" /\ entry' = NoEntry
  /\ UNCHANGED <<base, latest, uptime, reply>>

\* An erase of the experiment's folder or of the card.
Erase ==
  /\ experiment' = FALSE /\ entry' = NoEntry
  /\ UNCHANGED <<status, base, latest, uptime, reply>>

Tick ==
  /\ uptime < MaxUptime /\ uptime' = uptime + 1
  /\ UNCHANGED <<status, base, latest, experiment, entry, reply>>

Next == Tick \/ SetupExperiment \/ Erase \/ \E ref \in References: Status(ref)

Spec == Init /\ [][Next]_vars
-----------------------------------------------------------------------------
\* docs/design/protocol.md:72-73: the badge records the reference time in the metadata
\* file and then answers the status of the synchronization: one that says it is
\* synchronized has recorded it.
SyncedMeansRecorded ==
  [][\A ref \in References:
       Status(ref) /\ reply'.status = "SYNCED" =>
         entry'.reference = ref /\ entry'.internal = uptime]_vars
=============================================================================
