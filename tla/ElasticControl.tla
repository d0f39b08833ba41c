--------------------------- MODULE ElasticControl ---------------------------
(***************************************************************************)
(* The control file of the elastic cache: poll of gemv/expert_elastic.py,  *)
(* which the server calls at layer 0 of a small eager forward, and the     *)
(* client of tools/elastic_sweep.py, which writes a command, pokes the     *)
(* server and takes the next status for the answer.  They are two          *)
(* processes that share two files and know of each other's writes by the   *)
(* files' times, which tell writes of one tick apart no more.              *)
(*                                                                         *)
(* What a command does to the cache is ExpertElastic's matter.             *)
(***************************************************************************)
EXTENDS Naturals

CONSTANTS
  Commands,  \* the client sends 1 .. Commands, one after the other
  MaxTime    \* ticks of the clock

Empty == 0              \* text of a file that was truncated
Stale == Commands + 1   \* a command left over from before the start

VARIABLES
  now,
  ctl,        \* the control file: its text and time
  status,     \* the time of the status file
  seen,       \* self._ctl_mtime
  autofill,   \* self._autofill is set
  poll,       \* where the server stands: "idle" between two polls
  command,    \* the command poll has read
  runs,       \* runs[c]: how often command c was executed, if only to raise an exception
  others,     \* history: an autofill or a regrow has reported
  client,     \* where the client stands
  sent,       \* its last command
  before      \* the time the status file had when it began

files == <<ctl, status>>
server == <<seen, autofill, poll, command, runs, others>>
sweep == <<client, sent, before>>
vars == <<now, files, server, sweep>>

Init ==
  /\ now = 1
  /\ ctl \in {[text |-> Empty, time |-> 0], [text |-> Stale, time |-> 1]}
  /\ status = 0
  /\ seen = ctl.time
  /\ autofill \in BOOLEAN
  /\ poll = "idle" /\ command = Empty /\ runs = [c \in 1 .. Stale |-> 0]
  /\ others = FALSE
  /\ client = "idle" /\ sent = 0 /\ before = 0

Tick ==
  /\ now < MaxTime /\ now' = now + 1
  /\ UNCHANGED <<files, server, sweep>>

-----------------------------------------------------------------------------
(* The client.  It looks at the status file, then opens the control file,  *)
(* which truncates it; the command gets there when the file is closed.     *)
Look ==
  /\ client = "idle" /\ sent < Commands
  /\ client' = "open"
  /\ before' = status
  /\ UNCHANGED <<now, files, server, sent>>

Open ==
  /\ client = "open"
  /\ client' = "write" /\ sent' = sent + 1
  /\ ctl' = [text |-> Empty, time |-> now]
  /\ UNCHANGED <<now, status, server, before>>

Close ==
  /\ client = "write"
  /\ client' = "wait"
  /\ ctl' = [text |-> sent, time |-> now]
  /\ UNCHANGED <<now, status, server, sent, before>>

(* A status newer than the one it began with is the answer; the bench that *)
(* follows ends before the next command.                                   *)
Answered == client = "wait" /\ status > before

TakeAnswer ==
  /\ Answered
  /\ client' = "idle"
  /\ UNCHANGED <<now, files, server, sent, before>>

(* TimeoutError ends the sweep.                                            *)
GiveUp ==
  /\ client = "wait"
  /\ client' = "over"
  /\ UNCHANGED <<now, files, server, sent, before>>

-----------------------------------------------------------------------------
(* The server.  The autofill comes once, and reports; then the file is     *)
(* looked at.                                                              *)
PollBegins ==
  /\ poll = "idle"
  /\ poll' = "stat"
  /\ IF autofill
     THEN \/ /\ autofill' = FALSE /\ others' = TRUE
             /\ status' = now
          \/ UNCHANGED <<autofill, others, status>>  \* not warmed up yet
     ELSE UNCHANGED <<autofill, others, status>>
  /\ UNCHANGED <<now, ctl, seen, command, runs, sweep>>

(* The time is remembered before the file is read: what is written in      *)
(* between is read now and once more at the next poll.                     *)
PollStats ==
  /\ poll = "stat"
  /\ poll' = IF ctl.time > seen THEN "read" ELSE "idle"
  /\ seen' = IF ctl.time > seen THEN ctl.time ELSE seen
  /\ UNCHANGED <<now, files, autofill, command, runs, others, sweep>>

(* Fault: an empty file is reported on like a command.                     *)
PollReadsAndReports ==
  /\ poll = "read"
  /\ poll' = IF ctl.text = Empty THEN "idle" ELSE "run"
  /\ command' = ctl.text
  /\ status' = IF ctl.text = Empty THEN now ELSE status
  /\ UNCHANGED <<now, ctl, seen, autofill, runs, others, sweep>>

(* An empty file is no command, and nothing is reported.                   *)
PollReads ==
  /\ poll = "read"
  /\ poll' = IF ctl.text = Empty THEN "idle" ELSE "run"
  /\ command' = ctl.text
  /\ UNCHANGED <<now, files, seen, autofill, runs, others, sweep>>

(* Fault: the time of the file is remembered when the command is done.     *)
PollRunsAndRemembers ==
  /\ poll = "run"
  /\ poll' = "idle"
  /\ runs' = [runs EXCEPT ![command] = IF @ < 2 THEN @ + 1 ELSE @]
  /\ status' = now
  /\ seen' = ctl.time
  /\ UNCHANGED <<now, ctl, autofill, command, others, sweep>>

(* An exception of the command is logged, and the status written.          *)
PollRuns ==
  /\ poll = "run"
  /\ poll' = "idle"
  /\ runs' = [runs EXCEPT ![command] = IF @ < 2 THEN @ + 1 ELSE @]
  /\ status' = now
  /\ UNCHANGED <<now, ctl, seen, autofill, command, others, sweep>>

(* regrow, which the KV pool calls between two forwards, reports too.      *)
Regrow ==
  /\ poll = "idle"
  /\ status' = now
  /\ others' = TRUE
  /\ UNCHANGED <<now, ctl, seen, autofill, poll, command, runs, sweep>>

Serve == PollBegins \/ PollStats \/ PollReads \/ PollRuns
Next == Tick \/ Look \/ Open \/ Close \/ TakeAnswer \/ GiveUp \/ Serve \/ Regrow

(* Requests keep coming: the client pokes the server until it is answered. *)
Spec == Init /\ [][Next]_vars /\ WF_vars(Serve)

-----------------------------------------------------------------------------
(* As long as no autofill and no regrow reports and the poll executes no   *)
(* command a second time, a sweep does not measure before its command was  *)
(* executed: a poll that found an empty file writes no status              *)
(* (expert_elastic.py:364).                                                *)
AnsweredMeansDone ==
  Answered /\ ~others /\ (\A c \in 1 .. Commands : runs[c] < 2) => runs[sent] > 0

(* A command the file holds with a time the poll has not seen is executed  *)
(* or replaced by the next one, wherever in a poll the write falls: the    *)
(* time is remembered before the file is read (expert_elastic.py:361).     *)
(* Only a command that shares its tick with a look at the emptied file is  *)
(* lost.                                                                   *)
Unseen(c) == ctl.text = c /\ ctl.time > seen
Taken(c) == runs[c] > 0 \/ ctl.text # c
=============================================================================
