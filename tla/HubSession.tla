----------------------------- MODULE HubSession -----------------------------
(***************************************************************************)
(* hub.py, connection.py and cmd_processor.c: the sessions in which the    *)
(* hub has a badge carry out commands.                                     *)
(*                                                                         *)
(* A session takes the hub's lock, starts a client (connection.py) in a    *)
(* thread of its own and waits a limited time for it to be connected;      *)
(* sends a command, waits for the answer, as often as it has commands;     *)
(* stops the client and joins its thread, and releases the lock.  Sessions *)
(* are opened by the thread of the command line and by the one that asks   *)
(* for the status now and then (Threads).                                  *)
(*                                                                         *)
(* A request is the tokens of its frame, cut into writes of Mtu tokens.    *)
(* The link delivers writes in order while it lasts and may end at any     *)
(* time.  The badge takes one connection at a time; the state of its       *)
(* parser outlives the connection.  A data byte may have any value, that   *)
(* of a delimiter too.  An answer is the name of the command it answers.   *)
(* External: the radio, the operating system's Bluetooth, asyncio.         *)
(***************************************************************************)
EXTENDS Naturals, Sequences, FiniteSets, SequencesExt

CONSTANTS Cmds,        \* command names
          DataLen,     \* req_data_size of each
          Data,        \* data bytes; some equal a delimiter
          Mtu,         \* tokens of one write
          MaxClients,  \* bound: clients whose threads run at the same time
          MaxSends     \* bound: commands of a session

ASSUME CmdsAssumption == DataLen \in [Cmds -> Nat \ {0}]
ASSUME MtuAssumption == Mtu \in Nat \ {0}
ASSUME BoundsAssumption == MaxClients \in Nat /\ MaxSends \in Nat

VARIABLES
  pc,         \* where each of the hub's threads is
  listing,    \* its session is sd_card_list_files'
  failed,     \* an exception other than MidgeBadgeHubException ends it
  mine,       \* its session's client, or 0
  sends,      \* commands of its session so far
  lock,       \* who holds _client_session_lock
  orphans,    \* history: clients that a listing left without stopping them
  phase,      \* where a client's start() is
  connected,  \* its flag, which start(), stop() and a disconnect set
  request,    \* the last command given to it
  out,        \* tokens of it that are not written yet
  answers,    \* its response queue
  link,       \* external: the client whose connection the badge has, 0 or Gone
  skewed,     \* history: the parser was inside a frame when that connection began
  late,       \* history: its client's session had stopped it before
  parser,     \* the static variables of received()
  running     \* frames the badge has accepted and not yet answered

task == <<listing, failed, mine>>
hold == <<lock, orphans>>
client == <<phase, connected>>
io == <<request, out, answers>>
air == <<link, skewed, late>>
badge == <<parser, running>>
vars == <<pc, task, sends, hold, client, io, air, badge>>

Threads == {"cli", "status"}
Clients == 1..MaxClients
Gone == MaxClients + 1   \* a client of a program that has ended
NoOne == "none"

Requests == UNION {[cmd: {c}, data: [1..DataLen[c] -> Data]]: c \in Cmds}
Frames == [cmd: Cmds, data: Seq(Data \cup Cmds \cup {"SOT", "EOT"})]
NoRequest == [cmd |-> NoOne, data |-> <<>>]
Bytes(f) == <<"SOT", f.cmd>> \o f.data \o <<"EOT">>
AtRest == [st |-> "SOT", cmd |-> NoOne, data |-> <<>>]

InSession(t) == pc[t] \in {"connect", "send", "answer", "join"}

\* The hub is in one session at most, and a client that runs is that session's or was left
\* by a listing that gave up.
TypeOK ==
  /\ pc \in [Threads -> {"idle", "connect", "send", "answer", "join", "crash", "dead"}]
  /\ listing \in [Threads -> BOOLEAN] /\ failed \in [Threads -> BOOLEAN]
  /\ mine \in [Threads -> 0..MaxClients] /\ sends \in [Threads -> 0..MaxSends]
  /\ lock \in Threads \cup {NoOne}
  /\ \A t \in Threads: (lock = t <=> InSession(t)) /\ (mine[t] # 0 <=> InSession(t))
  /\ phase \in [Clients -> {"none", "scan", "connecting", "serving", "done"}]
  /\ orphans = {n \in Clients: phase[n] # "none" /\ \A t \in Threads: mine[t] # n}
  /\ connected \in [Clients -> BOOLEAN]
  /\ request \in [Clients -> Requests \cup {NoRequest}]
  /\ \A n \in Clients: IsSuffix(out[n], Bytes(request[n])) /\ answers[n] \in Seq(Cmds)
  /\ link \in 0..Gone /\ skewed \in BOOLEAN /\ late \in BOOLEAN
  /\ link \in Clients => phase[link] = "serving"
  /\ parser.st \in {"SOT", "CMD", "DATA", "EOT"} /\ running \in Seq(Frames)

Init ==
  /\ pc = [t \in Threads |-> "idle"] /\ mine = [t \in Threads |-> 0]
  /\ listing = [t \in Threads |-> FALSE] /\ failed = [t \in Threads |-> FALSE]
  /\ sends = [t \in Threads |-> 0] /\ lock = NoOne /\ orphans = {}
  /\ phase = [n \in Clients |-> "none"] /\ connected = [n \in Clients |-> FALSE]
  /\ request = [n \in Clients |-> NoRequest] /\ out = [n \in Clients |-> <<>>]
  /\ answers = [n \in Clients |-> <<>>]
  /\ link = 0 /\ skewed = FALSE /\ late = FALSE
  /\ parser = AtRest /\ running = <<>>
-----------------------------------------------------------------------------
\* hub.py

Goto(t, next) == pc' = [pc EXCEPT ![t] = next]
At(t, here) == pc[t] = here /\ lock = t

LockFree_Ignored == TRUE

\* with self._client_session_lock
LockFree == lock = NoOne

\* A MidgeBadgeClient that nothing was sent with.
Fresh(n) == /\ request' = [request EXCEPT ![n] = NoRequest]
            /\ out' = [out EXCEPT ![n] = <<>>] /\ answers' = [answers EXCEPT ![n] = <<>>]

\* __execute_cmds or, for the command line, sd_card_list_files takes the lock and starts
\* a client.
BeginSession(t, list) ==
  /\ pc[t] = "idle" /\ LockFree
  /\ list => t = "cli"
  /\ lock' = t /\ Goto(t, "connect")
  /\ listing' = [listing EXCEPT ![t] = list]
  /\ \E n \in Clients: /\ phase[n] = "none" /\ \A m \in 1..n - 1: phase[m] # "none"
                       /\ mine' = [mine EXCEPT ![t] = n]
                       /\ phase' = [phase EXCEPT ![n] = "scan"]
                       /\ Fresh(n)
  /\ UNCHANGED <<failed, sends, orphans, connected, air, badge>>

SeesConnected(t) ==
  /\ At(t, "connect") /\ connected[mine[t]]
  /\ Goto(t, "send")
  /\ UNCHANGED <<task, sends, hold, client, io, air, badge>>

\* The session is over; its variables are gone.
Release(t, next) ==
  /\ lock' = NoOne /\ Goto(t, next)
  /\ mine' = [mine EXCEPT ![t] = 0] /\ sends' = [sends EXCEPT ![t] = 0]
  /\ listing' = [listing EXCEPT ![t] = FALSE]

\* client.stop(), then thread.join()
StopClient(t) ==
  /\ connected' = [connected EXCEPT ![mine[t]] = FALSE]
  /\ Goto(t, "join")
  /\ UNCHANGED <<listing, mine, sends, hold>>

\* The way out of a session by an exception: __execute_cmds has a finally clause,
\* sd_card_list_files leaves its client as it is.
Leave(t, next) ==
  IF ~listing[t] THEN StopClient(t) /\ UNCHANGED phase
  ELSE /\ Release(t, next) /\ UNCHANGED connected
       /\ IF phase[mine[t]] = "done"
          THEN phase' = [phase EXCEPT ![mine[t]] = "none"] /\ UNCHANGED orphans
          ELSE orphans' = orphans \cup {mine[t]} /\ UNCHANGED phase

GiveUp_NoJoin(t) ==
  /\ At(t, "connect") /\ ~connected[mine[t]]
  /\ Release(t, "idle")
  /\ UNCHANGED <<failed, orphans, client, io, air, badge>>

\* CONNECTION_TIMEOUT_SECONDS have passed.  The command line goes on after
\* sd_card_list_files' MidgeBadgeHubException.
GiveUp(t) ==
  /\ At(t, "connect") /\ ~connected[mine[t]]
  /\ Leave(t, "idle")
  /\ UNCHANGED <<failed, io, air, badge>>

\* send_command; the flag is not looked at again.
Send(t) ==
  /\ At(t, "send") /\ phase[mine[t]] # "done" /\ sends[t] < MaxSends
  /\ sends' = [sends EXCEPT ![t] = @ + 1]
  /\ \E f \in Requests: /\ request' = [request EXCEPT ![mine[t]] = f]
                        /\ out' = [out EXCEPT ![mine[t]] = Bytes(f)]
  /\ Goto(t, "answer")
  /\ UNCHANGED <<task, hold, client, answers, air, badge>>

TakeAnswer(t) ==
  /\ At(t, "answer") /\ answers[mine[t]] # <<>>
  /\ answers' = [answers EXCEPT ![mine[t]] = Tail(@)]
  /\ Goto(t, "send")
  /\ UNCHANGED <<task, sends, hold, client, request, out, air, badge>>

NoAnswer_SendsNext(t) ==
  /\ At(t, "answer") /\ answers[mine[t]] = <<>>
  /\ Goto(t, "send")
  /\ UNCHANGED <<task, sends, hold, client, io, air, badge>>

NoAnswer_NoStop(t) ==
  /\ At(t, "answer") /\ answers[mine[t]] = <<>>
  /\ failed' = [failed EXCEPT ![t] = TRUE]
  /\ Goto(t, "join")
  /\ UNCHANGED <<listing, mine, sends, hold, client, io, air, badge>>

\* Any other exception ends the thread that asks for the status, or the whole program.
Crashes(t) == IF t = "cli" THEN "crash" ELSE "dead"

\* get_response's 120 seconds have passed.
NoAnswer(t) ==
  /\ At(t, "answer") /\ answers[mine[t]] = <<>>
  /\ failed' = [failed EXCEPT ![t] = TRUE]
  /\ Leave(t, Crashes(t))
  /\ UNCHANGED <<io, air, badge>>

\* The client's event loop is closed: send_command raises.
CannotSend(t) ==
  /\ At(t, "send") /\ phase[mine[t]] = "done"
  /\ failed' = [failed EXCEPT ![t] = TRUE]
  /\ Leave(t, Crashes(t))
  /\ UNCHANGED <<io, air, badge>>

\* All commands are answered.
EndSession(t) ==
  /\ At(t, "send") /\ sends[t] > 0
  /\ StopClient(t)
  /\ UNCHANGED <<failed, phase, io, air, badge>>

\* The client's thread has ended; what it left goes with the session.
Join(t) ==
  /\ At(t, "join") /\ phase[mine[t]] = "done"
  /\ Release(t, IF failed[t] THEN Crashes(t) ELSE "idle")
  /\ phase' = [phase EXCEPT ![mine[t]] = "none"]
  /\ Fresh(mine[t])
  /\ UNCHANGED <<failed, orphans, connected, air, badge>>

\* The program ends, which its threads do not survive, though a connection may, and is
\* started again.
Restart ==
  /\ pc["cli"] \in {"idle", "crash"}
  /\ pc' = [t \in Threads |-> "idle"] /\ mine' = [t \in Threads |-> 0]
  /\ listing' = [t \in Threads |-> FALSE] /\ failed' = [t \in Threads |-> FALSE]
  /\ sends' = [t \in Threads |-> 0] /\ lock' = NoOne /\ orphans' = {}
  /\ phase' = [n \in Clients |-> "none"] /\ connected' = [n \in Clients |-> FALSE]
  /\ request' = [n \in Clients |-> NoRequest] /\ out' = [n \in Clients |-> <<>>]
  /\ answers' = [n \in Clients |-> <<>>]
  /\ link' \in {0} \cup (IF link = 0 THEN {} ELSE {Gone})
  /\ UNCHANGED <<skewed, late, badge>>
-----------------------------------------------------------------------------
\* connection.py: MidgeBadgeClient.start

\* The scan finds the badge while it advertises that it can be connected.
Finds(n) ==
  /\ phase[n] = "scan" /\ link = 0
  /\ phase' = [phase EXCEPT ![n] = "connecting"]
  /\ UNCHANGED <<pc, task, sends, hold, connected, io, air, badge>>

\* start() returns; nobody joins the thread of an orphan.
Ends(n) ==
  /\ phase' = [phase EXCEPT ![n] = IF n \in orphans THEN "none" ELSE "done"]
  /\ orphans' = orphans \ {n}

\* The scan's own timeout, or the connection cannot be made.
CannotConnect(n) ==
  /\ phase[n] \in {"scan", "connecting"}
  /\ Ends(n)
  /\ UNCHANGED <<pc, task, sends, lock, connected, io, air, badge>>

\* Connected, services discovered, notifications on.  Whether the hub still waits is not
\* looked at.
Connects(n) ==
  /\ phase[n] = "connecting" /\ link = 0 /\ running = <<>>
  /\ link' = n /\ skewed' = (parser.st # "SOT")
  /\ late' = \E t \in Threads: mine[t] = n /\ pc[t] = "join"
  /\ connected' = [connected EXCEPT ![n] = TRUE]
  /\ phase' = [phase EXCEPT ![n] = "serving"]
  /\ UNCHANGED <<pc, task, sends, hold, io, badge>>

\* One byte of received().
Step_ByDelimiter(s, b) ==
  CASE s.p.st = "SOT" -> [s EXCEPT !.p.st = IF b = "SOT" THEN "CMD" ELSE "SOT"]
    [] s.p.st = "CMD" -> [s EXCEPT !.p = IF b \in Cmds
                            THEN [st |-> "DATA", cmd |-> b, data |-> <<>>] ELSE AtRest]
    [] OTHER -> IF b = "EOT"
                THEN [p |-> AtRest,
                      got |-> Append(s.got, [cmd |-> s.p.cmd, data |-> s.p.data])]
                ELSE [s EXCEPT !.p.data = Append(@, b)]

Step(s, b) ==
  CASE s.p.st = "SOT" -> [s EXCEPT !.p.st = IF b = "SOT" THEN "CMD" ELSE "SOT"]
    [] s.p.st = "CMD" -> [s EXCEPT !.p = IF b \in Cmds
                            THEN [st |-> "DATA", cmd |-> b, data |-> <<>>] ELSE AtRest]
    [] s.p.st = "DATA" -> [s EXCEPT !.p.data = Append(@, b),
                                    !.p.st = IF Len(s.p.data) + 1 < DataLen[s.p.cmd]
                                             THEN "DATA" ELSE "EOT"]
    [] s.p.st = "EOT" -> [p |-> AtRest,
                          got |-> IF b # "EOT" THEN s.got
                                  ELSE Append(s.got, [cmd |-> s.p.cmd, data |-> s.p.data])]

\* received()'s loop over what one write brought.
Received(bytes) ==
  LET after[i \in 0..Len(bytes)] == IF i = 0 THEN [p |-> parser, got |-> <<>>]
                                    ELSE Step(after[i - 1], bytes[i])
  IN  after[Len(bytes)]

\* The loop of start() takes a request as long as the flag is set, and then writes all of
\* it; the badge gets one write.
Write(n) ==
  /\ link = n /\ running = <<>>
  /\ out[n] # <<>>
  /\ connected[n] \/ out[n] # Bytes(request[n])
  /\ LET k == IF Len(out[n]) < Mtu THEN Len(out[n]) ELSE Mtu
         r == Received(SubSeq(out[n], 1, k))
     IN  /\ out' = [out EXCEPT ![n] = SubSeq(@, k + 1, Len(@))]
         /\ parser' = r.p /\ running' = r.got
  /\ UNCHANGED <<pc, task, sends, hold, client, request, answers, air>>

\* The loop ends, and the client disconnects.
ClientEnds(n) ==
  /\ phase[n] = "serving" /\ ~connected[n]
  /\ out[n] \in {<<>>, Bytes(request[n])} \/ link # n
  /\ Ends(n)
  /\ link' = IF link = n THEN 0 ELSE link
  /\ UNCHANGED <<pc, task, sends, lock, connected, io, skewed, late, badge>>

\* The link is lost: __handle_disconnect, and the badge advertises again.
LinkDrops ==
  /\ link # 0
  /\ link' = 0 /\ connected' = [n \in Clients |-> connected[n] /\ n # link]
  /\ UNCHANGED <<pc, task, sends, hold, phase, io, skewed, late, badge>>
-----------------------------------------------------------------------------
\* cmd_processor.c: the command is carried out and its answer sent, to the connection it
\* came from.
BadgeAnswers ==
  /\ running # <<>>
  /\ running' = Tail(running)
  /\ answers' = [n \in Clients |->
                   IF n = link THEN Append(answers[n], Head(running).cmd) ELSE answers[n]]
  /\ UNCHANGED <<pc, task, sends, hold, client, request, out, air, parser>>
-----------------------------------------------------------------------------
Session(t) ==
  \/ SeesConnected(t) \/ GiveUp(t)
  \/ Send(t) \/ TakeAnswer(t) \/ NoAnswer(t) \/ CannotSend(t) \/ EndSession(t)
  \/ Join(t)

Client(n) == Finds(n) \/ CannotConnect(n) \/ Connects(n) \/ Write(n) \/ ClientEnds(n)

Next == \/ \E t \in Threads: Session(t) \/ \E list \in BOOLEAN: BeginSession(t, list)
        \/ \E n \in Clients: Client(n)
        \/ BadgeAnswers \/ LinkDrops \/ Restart

Spec == Init /\ [][Next]_vars

\* The hub's threads, the clients' and the badge's go on; each wait has a timeout but
\* join's.  Nothing makes a link end or a session begin.
FairSpec == /\ Spec
            /\ \A t \in Threads: WF_vars(Session(t))
            /\ \A n \in Clients: WF_vars(Client(n))
            /\ WF_vars(BadgeAnswers)
-----------------------------------------------------------------------------
\* What the next two rest on.

\* How many tokens of its last command a client has written.
Written(n) == Len(Bytes(request[n])) - Len(out[n])

\* The parser after the first k tokens of the frame f.
ParserAt(f, k) ==
  IF k = 0 \/ k = Len(f.data) + 3 THEN AtRest
  ELSE [st |-> IF k = 1 THEN "CMD" ELSE IF k = Len(f.data) + 2 THEN "EOT" ELSE "DATA",
        cmd |-> IF k = 1 THEN NoOne ELSE f.cmd,
        data |-> SubSeq(f.data, 1, k - 2)]

\* A connection whose frames the parser finds: it is as far in the last request as the
\* client has written of it, and the badge has accepted nothing but that.
InStep ==
  /\ parser = ParserAt(request[link], Written(link))
  /\ running = <<>> \/ (running = <<request[link]>> /\ out[link] = <<>>)

\* The exchange of the session t over it: the request is on its way, carried out or
\* answered, and between requests nothing is.
Exchange(t) ==
  LET sending == out[link] # <<>>
      working == running # <<>>
      answered == answers[link] # <<>>
  IN  /\ pc[t] \in {"connect", "send"} => ~sending /\ ~working /\ ~answered
      /\ pc[t] = "answer" => \/ sending /\ ~working /\ ~answered
                             \/ ~sending /\ working /\ ~answered
                             \/ ~sending /\ ~working /\ answers[link] = <<request[link].cmd>>

\* Only the client the badge is connected to has its flag set; one that was not connected
\* yet was not given anything; a session has commands sent only after that; and every
\* exchange over a connection that began between two frames stays in step.
ExchangeInv ==
  /\ \A n \in Clients:
       /\ connected[n] => link = n
       /\ phase[n] \in {"scan", "connecting"} => out[n] = <<>> /\ answers[n] = <<>>
  /\ \A t \in Threads: pc[t] \in {"send", "answer"} => phase[mine[t]] \in {"serving", "done"}
  /\ parser.st = "SOT" => parser = AtRest
  /\ link \in Clients /\ ~skewed =>
       InStep /\ \A t \in Threads: mine[t] = link => Exchange(t)

\* The badge carries out what the hub asked for, whatever bytes are in the data and
\* however often links were lost before, as long as the last one was not lost in the
\* middle of a request: its parser then finds the frames.
FramesFound ==
  (running # <<>> /\ link \in Clients /\ ~skewed) =>
    running = <<request[link]>> /\ out[link] = <<>>

\* On such a connection the answer a session takes is that of its last command: a session
\* that has waited in vain never goes on to another.
AnswerIsMine ==
  \A t \in Threads: (mine[t] # 0 /\ link = mine[t] /\ ~skewed) =>
    /\ pc[t] \in {"connect", "send"} => answers[link] = <<>> /\ running = <<>>
    /\ pc[t] = "answer" => answers[link] \in {<<>>, <<request[link].cmd>>}

\* Only the client of the session under way has the badge.  The exceptions: the client of
\* a listing that gave up, which nobody stops, and what a program that ended leaves.
LinkHasSession ==
  link \in Clients => link \in orphans \/ \E t \in Threads: mine[t] = link /\ lock = t

\* The client got connected after the session had stopped it.
Late(t) == link = mine[t] /\ late

\* A session ends, unless its client is late.
SessionEnds == \A t \in Threads: lock = t ~> lock # t \/ Late(t)

\* hub.py's comments: the client is stopped after the last response, and the join waits
\* for the thread to finish; so every session ends.
EverySessionEnds == \A t \in Threads: lock = t ~> lock # t
=============================================================================
