-------------------------------- MODULE GpsPath --------------------------------
(***************************************************************************)
(* The GPS worker and its receiver: app/gps_worker.c, platform/gps_l96.c   *)
(* and the pairing of domain/gps_nmea.c, down to the snapshot the other    *)
(* workers read.                                                           *)
(*                                                                         *)
(* The worker finds the receiver's baud rate, moves it to Work, configures *)
(* it with three acknowledged commands and then reads its sentences until  *)
(* they stop.  A line is what survives checksum and assembly: a line the   *)
(* wire damages is one that is lost, and so is a command whose write       *)
(* fails.  Lines and commands reach the other side only while both use the *)
(* same baud rate.                                                         *)
(*                                                                         *)
(* External, from how the code uses it: the receiver keeps its order,      *)
(* answers every command once, and may restart on PMTK353 before it        *)
(* acknowledges it.  Everything that goes wrong (a lost, refused or late   *)
(* answer, a restart, silence, a mutex that times out) takes one of the    *)
(* Faults of a behaviour.  Left out: what the worker parses from a pair    *)
(* (position, fix, speed) and its counters, which decide nothing here.     *)
(***************************************************************************)
EXTENDS Integers, Sequences

CONSTANTS
    Bauds,      \* supported_bauds, in their order
    Work,       \* 115200, the baud rate of the configured receiver
    Factory,    \* the baud rate after a loss of power
    Intervals,  \* gps_send_interval_ms
    Default,    \* active_interval_ms when the configuration cannot be copied
    Epochs,     \* bound: epochs the receiver reports
    Room,       \* bound: lines on their way when the next sentence is sent
    Faults,     \* bound: faults in a behaviour
    Changes     \* bound: changes of the configured interval

BaudRates == {Bauds[i] : i \in DOMAIN Bauds}

ASSUME GpsAssumption ==
    /\ {Work, Factory} \subseteq BaudRates /\ 0 \notin BaudRates
    /\ Default \in Intervals /\ {Epochs, Room, Faults, Changes} \subseteq Nat

VARIABLES
    phase,     \* where the worker is, named by what it waits for
    probe,     \* index in supported_bauds
    rate,      \* the baud rate of the UART, None without its driver
    noticed,   \* restart_seen
    active,    \* active_interval_ms
    wanted,    \* config.gps_send_interval_ms of the worker's copy
    known,     \* config_revision of the worker's copy
    pairer,    \* per kind the epoch held, or 0 where have_... is FALSE
    shot,      \* the worker's gps_snapshot_t
    latest,    \* latest_gps of app_resources.c
    stop,      \* APP_EVENT_STOP_REQUEST
    config,    \* the shared configuration: interval and revision
    rx,        \* the receiver: model, baud rate and what it is set to
    sent,      \* the last sentence of the receiver
    cmds,      \* commands on their way to the receiver
    lines,     \* lines on their way to the worker
    restarted, \* history: the receiver restarted by itself in this connection
    overdue,   \* history: this connection began before the receiver had heard
               \* of an interval an earlier one asked for
    faults     \* faults left

worker == <<phase, probe, rate, noticed, active, wanted, known, pairer>>
publics == <<shot, latest>>
wire == <<cmds, lines>>
receiver == <<rx, sent>>
past == <<restarted, overdue>>
gpsVars == <<worker, publics, stop, config, receiver, wire, past, faults>>

None == 0
Kinds == {"RMC", "GGA"}
Nothing == [k \in Kinds |-> None]
Unset == [search |-> FALSE, sentences |-> FALSE, period |-> None]

Command(name, arg) == [name |-> name, arg |-> arg]
Line(name, arg) == [name |-> name, arg |-> arg]
IsSentence(line) == line.name \in Kinds

-----------------------------------------------------------------------------
(* The wire                                                                *)

\* A command the receiver hears at baud rate r.
Heard(queue, command, r) == IF rx.baud = r THEN Append(queue, command) ELSE queue

\* Lines sent at rate r, dropped by a UART that listens at another rate.
Reply(new, r) == lines' = IF r = rate THEN lines \o new ELSE lines

\* An answer is still to come.
Due == cmds # <<>> \/ \E i \in DOMAIN lines : ~IsSentence(lines[i])

\* A deadline passes: nothing is to come any more, or it comes too late.
Patience(left) ==
    \/ ~Due /\ left = faults
    \/ Due /\ faults > 0 /\ left = faults - 1

\* app_resources_publish_gps, which gives up on a busy mutex.
Publish(snapshot, left) ==
    /\ shot' = snapshot
    /\ \/ latest' = snapshot /\ faults' = left
       \/ left > 0 /\ faults' = left - 1 /\ UNCHANGED latest

-----------------------------------------------------------------------------
(* gps_l96.c                                                               *)

\* A command goes out at rate r and its answer is awaited.
Ask(command, r, where) ==
    /\ rate' = r
    /\ cmds' = Heard(cmds, command, r)
    /\ phase' = where

\* Identification at rate r, after a flush.
Probe(i) ==
    /\ Ask(Command("605", None), Bauds[i], "probing")
    /\ probe' = i
    /\ lines' = <<>>

\* What follows an answer, `rest' being the lines behind it.
Configure(rest) ==
    /\ Ask(Command("353", None), rate, "search")
    /\ lines' = rest /\ noticed' = FALSE
    /\ UNCHANGED probe
Confirm(rest) ==
    /\ Ask(Command("605", None), rate, "confirming")
    /\ lines' = rest
    /\ UNCHANGED <<probe, noticed>>
SelectSentences(rest) ==
    /\ Ask(Command("314", None), rate, "output")
    /\ lines' = rest
    /\ UNCHANGED <<probe, noticed>>
SetInterval(interval, where, rest) ==
    /\ Ask(Command("220", interval), rate, where)
    /\ lines' = rest
    /\ UNCHANGED <<probe, noticed>>
Normalise(rest) ==
    /\ Ask(Command("251", Work), rate, "settling")
    /\ lines' = rest
    /\ UNCHANGED <<probe, noticed>>

\* gps_l96_deinit: nothing is received any more, nor kept.
Deinit == rate' = None /\ lines' = <<>> /\ UNCHANGED <<probe, noticed, cmds>>

\* The connection fails or is lost: nothing communicates, try again later.
Lose(left) ==
    /\ Deinit
    /\ phase' = "retry"
    /\ Publish([shot EXCEPT !.communicating = FALSE], left)

Awaits == [probing |-> "705", verifying |-> "705", confirming |-> "705",
           search |-> "353", output |-> "314", period |-> "220", changing |-> "220"]
Waiting == phase \in DOMAIN Awaits

\* Mutant of Answers: an acknowledgement is taken for the one awaited.
AnswersAny(line) ==
    \/ line.name = Awaits[phase]
    \/ {line.name, Awaits[phase]} \subseteq {"353", "314", "220"}

\* The line the wait is for: by its number, never by its place.
Answers(line) == line.name = Awaits[phase]
IsRestartNotice(line) == phase = "search" /\ line.name \in {"011", "010"}

\* identify_l96 has its answer.
Identified(rest) ==
    \/ phase = "probing" /\ rate # Work /\ Normalise(rest)
    \/ phase = "probing" /\ rate = Work /\ Configure(rest)
    \/ phase = "verifying" /\ Configure(rest)
    \/ phase = "confirming" /\ SelectSentences(rest)

\* The third command is acknowledged, and the worker starts to read.
Connected(rest) ==
    /\ phase' = "reading" /\ pairer' = Nothing
    /\ lines' = rest
    /\ Publish([shot EXCEPT !.communicating = TRUE], faults)
    /\ UNCHANGED <<probe, rate, noticed, cmds, active, wanted, known>>

\* An acknowledgement with flag 3.
Acknowledged(rest) ==
    \/ /\ \/ phase = "search" /\ SelectSentences(rest)
          \/ phase = "output" /\ SetInterval(active, "period", rest)
       /\ UNCHANGED <<publics, faults, active, wanted, known, pairer>>
    \/ phase = "period" /\ Connected(rest)
    \/ /\ phase = "changing" /\ phase' = "reading" /\ active' = wanted
       /\ lines' = rest
       /\ UNCHANGED <<publics, faults, probe, rate, noticed, cmds, wanted, known, pairer>>

\* The worker takes the next line while it waits for an answer.
TakeAnswer ==
    /\ Waiting /\ lines # <<>>
    /\ LET line == Head(lines)
           rest == Tail(lines)
       IN \/ /\ Answers(line) /\ Awaits[phase] = "705" /\ line.arg = "L96"
             /\ Identified(rest)
             /\ UNCHANGED <<publics, faults, active, wanted, known, pairer>>
          \/ /\ Answers(line) /\ Awaits[phase] # "705" /\ line.arg = "done"
             /\ Acknowledged(rest)
          \/ /\ Answers(line) /\ line.arg \notin {"L96", "done"}
             /\ Lose(faults)
             /\ UNCHANGED <<active, wanted, known, pairer>>
          \/ /\ IsRestartNotice(line)
             /\ IF line.name = "010" THEN Confirm(rest)
                ELSE /\ noticed' = TRUE /\ lines' = rest
                     /\ UNCHANGED <<phase, probe, rate, cmds>>
             /\ UNCHANGED <<publics, faults, active, wanted, known, pairer>>
          \/ /\ ~Answers(line) /\ ~IsRestartNotice(line)
             /\ lines' = rest
             /\ UNCHANGED <<publics, faults, phase, probe, rate, noticed, cmds,
                            active, wanted, known, pairer>>
    /\ UNCHANGED <<stop, config, receiver, past>>

\* Mutant of ProbeNext: only the first baud rate is tried.
ProbeOnce(left) == Lose(left)

\* The next baud rate, or the end of the list.
ProbeNext(left) ==
    IF probe < Len(Bauds)
    THEN /\ Probe(probe + 1) /\ faults' = left
         /\ UNCHANGED <<publics, noticed>>
    ELSE Lose(left)

\* The deadline of a wait passes.
TimeOut ==
    /\ Waiting
    /\ \E left \in 0..faults :
          /\ Patience(left)
          /\ CASE phase = "probing" -> ProbeNext(left)
               [] phase = "search" /\ noticed ->
                     Confirm(lines) /\ faults' = left /\ UNCHANGED publics
               [] OTHER -> Lose(left)
    /\ UNCHANGED <<active, wanted, known, pairer, stop, config, receiver, past>>

\* GPS_BAUD_SETTLE_MS after PMTK251: the UART follows and asks again.
Settled ==
    /\ phase = "settling"
    /\ \/ cmds = <<>> /\ UNCHANGED faults
       \/ cmds # <<>> /\ faults > 0 /\ faults' = faults - 1
    /\ Ask(Command("605", None), Work, "verifying")
    /\ lines' = <<>>
    /\ UNCHANGED <<probe, noticed, active, wanted, known, pairer, publics, stop,
                   config, receiver, past>>

-----------------------------------------------------------------------------
(* gps_worker.c                                                            *)

\* The worker's copy of the configuration, or the default interval without one.
CopyConfig(left) ==
    \/ /\ wanted' = config.interval /\ active' = config.interval
       /\ known' = config.revision /\ left = faults
    \/ /\ faults > 0 /\ left = faults - 1
       /\ active' = Default /\ UNCHANGED <<wanted, known>>

\* The history of a connection begins with it.
NewConnection ==
    /\ restarted' = FALSE
    /\ overdue' = \E i \in DOMAIN cmds : cmds[i].name = "220"

\* The search begins.
Connect ==
    /\ phase = "start" /\ ~stop
    /\ \E left \in 0..faults : CopyConfig(left) /\ faults' = left
    /\ Probe(1)
    /\ NewConnection
    /\ UNCHANGED <<noticed, pairer, publics, stop, config, receiver>>

\* The UART cannot be installed.
InstallFails ==
    /\ phase = "start" /\ ~stop
    /\ \E left \in 1..faults : CopyConfig(left) /\ Lose(left - 1)
    /\ NewConnection
    /\ UNCHANGED <<pairer, stop, config, receiver>>

\* A new revision: the receiver is told only where the interval differs.
NoticeChange ==
    /\ phase = "reading" /\ ~stop
    /\ known # config.revision
    /\ known' = config.revision /\ wanted' = config.interval
    /\ IF config.interval # active
       THEN SetInterval(config.interval, "changing", lines)
       ELSE UNCHANGED <<phase, probe, rate, noticed, wire>>
    /\ UNCHANGED <<active, pairer, publics, stop, config, receiver, past, faults>>

\* Mutant of Paired: one of each kind is a pair.
PairedByPresence(held) == held["RMC"] # None /\ held["GGA"] # None

\* gps_nmea_pairer_consume: the newest of each kind, paired on equal UTC.
Paired(held) == held["RMC"] # None /\ held["RMC"] = held["GGA"]

\* A change that comes while the worker waits for a line, or that it cannot
\* copy, is noticed only before a later one.
ReadSentence ==
    /\ phase = "reading" /\ ~stop /\ lines # <<>>
    /\ LET line == Head(lines)
           held == IF IsSentence(line)
                   THEN [pairer EXCEPT ![line.name] = line.arg] ELSE pairer
       IN IF IsSentence(line) /\ Paired(held)
          THEN /\ pairer' = Nothing
               /\ Publish([shot EXCEPT !.pair = held, !.sequence = @ + 1], faults)
          ELSE /\ pairer' = held
               /\ UNCHANGED <<publics, faults>>
    /\ lines' = Tail(lines)
    /\ UNCHANGED <<phase, probe, rate, noticed, active, wanted, known, cmds, stop,
                   config, receiver, past>>

\* No sentence for stale_timeout_ms: the receiver is silent or unheard.
Stale ==
    /\ phase = "reading" /\ ~stop
    /\ lines = <<>>
    /\ \/ rx.baud # rate /\ Lose(faults)
       \/ rx.baud = rate /\ faults > 0 /\ Lose(faults - 1)
    /\ UNCHANGED <<active, wanted, known, pairer, stop, config, receiver, past>>

\* wait_retry_or_stop ends.
Retry ==
    /\ phase = "retry" /\ ~stop
    /\ phase' = "start"
    /\ UNCHANGED <<probe, rate, noticed, active, wanted, known, pairer, publics,
                   stop, config, receiver, wire, past, faults>>

\* A stop is seen between two connections or two lines: GPS_ACK follows.
Stops ==
    /\ stop /\ phase \in {"start", "reading", "retry"}
    /\ Deinit
    /\ phase' = "off"
    /\ IF phase = "reading"
       THEN Publish([shot EXCEPT !.communicating = FALSE], faults)
       ELSE UNCHANGED <<publics, faults>>
    /\ UNCHANGED <<active, wanted, known, pairer, stop, config, receiver, past>>

Worker == \/ TakeAnswer \/ TimeOut \/ Settled \/ Connect \/ InstallFails
          \/ NoticeChange \/ ReadSentence \/ Stale \/ Retry \/ Stops

-----------------------------------------------------------------------------
(* The receiver, the wire and the others                                   *)

\* The receiver's answer to the next command, taken or refused.
Execute(command, done) ==
    LET ack == Line(command.name, IF done THEN "done" ELSE "refused")
    IN CASE command.name = "605" ->
                /\ UNCHANGED rx
                /\ Reply(<<Line("705", rx.model)>>, rx.baud)
         [] command.name = "251" ->
                /\ rx' = IF done THEN [rx EXCEPT !.baud = command.arg] ELSE rx
                /\ UNCHANGED lines
         [] command.name = "353" ->
                \/ /\ rx' = IF done THEN [rx EXCEPT !.set.search = TRUE] ELSE rx
                   /\ \/ Reply(<<ack>>, rx.baud)
                      \/ done /\ Reply(<<Line("011", None), ack>>, rx.baud)
                \/ /\ done
                   /\ \E late \in BOOLEAN :
                         rx' = [rx EXCEPT !.set.search = TRUE, !.owes = late]
                   /\ Reply(<<Line("011", None), Line("010", None)>>, rx.baud)
         [] command.name = "314" ->
                /\ rx' = IF done THEN [rx EXCEPT !.set.sentences = TRUE] ELSE rx
                /\ Reply(<<ack>>, rx.baud)
         [] command.name = "220" ->
                /\ rx' = IF done THEN [rx EXCEPT !.set.period = command.arg] ELSE rx
                /\ Reply(<<ack>>, rx.baud)

ReceiverAnswers ==
    /\ cmds # <<>>
    /\ \/ Execute(Head(cmds), TRUE) /\ UNCHANGED faults
       \/ Execute(Head(cmds), FALSE) /\ faults > 0 /\ faults' = faults - 1
    /\ cmds' = Tail(cmds)
    /\ UNCHANGED <<worker, publics, stop, config, sent, past>>

\* After a restart the acknowledgement of PMTK353 may come at any time.
AcknowledgeLate ==
    /\ rx.owes /\ rx' = [rx EXCEPT !.owes = FALSE]
    /\ Reply(<<Line("353", "done")>>, rx.baud)
    /\ UNCHANGED <<worker, publics, stop, config, sent, cmds, past, faults>>

\* The two sentences of an epoch, RMC first; they are equal in UTC.  Those
\* sent before the last command of a connection are all ignored: left out.
ReceiverReports ==
    /\ phase \in {"period", "reading", "changing"} /\ Len(lines) < Room
    /\ \/ /\ sent.kind = "GGA" /\ sent.epoch < Epochs
          /\ sent' = [kind |-> "RMC", epoch |-> sent.epoch + 1]
       \/ /\ sent.kind = "RMC" /\ sent' = [sent EXCEPT !.kind = "GGA"]
    /\ Reply(<<Line(sent'.kind, sent'.epoch)>>, rx.baud)
    /\ UNCHANGED <<worker, publics, stop, config, rx, cmds, past, faults>>

\* The receiver loses its settings, and with its power its baud rate too.
ReceiverRestarts ==
    /\ faults > 0 /\ faults' = faults - 1
    /\ \E baud \in {rx.baud, Factory} :
          rx' = [rx EXCEPT !.baud = baud, !.set = Unset, !.owes = FALSE]
    /\ Reply(<<Line("011", None), Line("010", None)>>, rx'.baud)
    /\ cmds' = <<>> /\ restarted' = TRUE
    /\ UNCHANGED <<worker, publics, stop, config, sent, overdue>>

LoseCommand ==
    /\ cmds # <<>> /\ cmds' = Tail(cmds)
    /\ faults > 0 /\ faults' = faults - 1
    /\ UNCHANGED <<worker, publics, stop, config, receiver, lines, past>>

LoseLine ==
    /\ lines # <<>> /\ lines' = Tail(lines)
    /\ faults > 0 /\ faults' = faults - 1
    /\ UNCHANGED <<worker, publics, stop, config, receiver, cmds, past>>

ChangeInterval ==
    /\ config.revision < Changes
    /\ \E i \in Intervals : config' = [interval |-> i, revision |-> config.revision + 1]
    /\ UNCHANGED <<worker, publics, stop, receiver, wire, past, faults>>

RequestStop ==
    /\ ~stop /\ stop' = TRUE
    /\ UNCHANGED <<worker, publics, config, receiver, wire, past, faults>>

Silent == [communicating |-> FALSE, pair |-> Nothing, sequence |-> 0]

GpsInit ==
    /\ phase = "start" /\ probe = 1 /\ rate = None /\ noticed = FALSE
    /\ active = Default /\ wanted = None /\ known = None /\ pairer = Nothing
    /\ shot = Silent /\ latest = Silent
    /\ stop = FALSE /\ restarted = FALSE /\ overdue = FALSE /\ faults = Faults
    /\ config \in [interval : Intervals, revision : {1}]
    /\ rx \in [model : {"L96", "other"}, baud : BaudRates, set : {Unset}, owes : {FALSE}]
    /\ sent = [kind |-> "GGA", epoch |-> 0]
    /\ cmds = <<>> /\ lines = <<>>

Receiver == ReceiverAnswers \/ AcknowledgeLate \/ ReceiverReports
GpsNext == Worker \/ Receiver \/ ReceiverRestarts \/ LoseCommand \/ LoseLine
           \/ ChangeInterval \/ RequestStop

\* The worker's task runs, and a receiver that hears a command answers it.
Fairness == WF_gpsVars(Worker) /\ WF_gpsVars(ReceiverAnswers)
GpsSpec == GpsInit /\ [][GpsNext]_gpsVars /\ Fairness

-----------------------------------------------------------------------------
(* Properties                                                              *)

\* A worker that reads has a receiver which really obeys: it took all three
\* settings, the interval being the one the worker counts on, unless it has
\* restarted on its own since.  DOC/SW_spec.md asks for each command to be
\* confirmed; an answer must not confirm another command than its own, in
\* whatever order answers and restart notices come (gps_l96.c).
Configured ==
    phase = "reading" /\ ~restarted /\ ~overdue =>
        rx.set = [search |-> TRUE, sentences |-> TRUE, period |-> active]

\* What the others read are the RMC and the GGA of one epoch, and later than
\* any pair they have read before, whatever sentences the wire loses and
\* however often the connection is lost (gps_nmea_pairer_consume).
PairsAdvance ==
    [][latest'.sequence # latest.sequence =>
          /\ latest'.pair["RMC"] = latest'.pair["GGA"]
          /\ latest'.pair["RMC"] > latest.pair["RMC"]
          /\ latest'.sequence > latest.sequence]_gpsVars

\* Once nothing goes wrong any more an L96 is read, at whatever baud rate it
\* was left, and stays so until a stop (gps_l96_connect, gps_worker_task).
GpsRecovers == rx.model = "L96" => []<>(shot.communicating \/ phase = "off")

=============================================================================
