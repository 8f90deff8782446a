-------------------------------- MODULE Upkeep ---------------------------------
(***************************************************************************)
(* What runs beside the requests: the access log, its live stream and the  *)
(* dashboard's counters, and the scheduler, which once a day records its   *)
(* tasks, reminds the owners of tokens, rewrites the log, copies the       *)
(* database and once a month mails a summary.                              *)
(*                                                                         *)
(* Files are inodes: the path of the log, the descriptor that logAccess    *)
(* keeps, a stream and a rewrite may each hold another one.  The stream    *)
(* reads bytes, of which a line has two, a buffer at a time.  The          *)
(* scheduler is one goroutine; an action is one KV, file or mail operation *)
(* of its tasks.  A restart may come between any two actions.              *)
(***************************************************************************)
EXTENDS Integers, Sequences, SequencesExt, FiniteSets, FiniteSetsExt, Functions

CONSTANTS
  Workers,       \* goroutines that serve requests
  Streams,       \* open live streams of the log
  Tokens,        \* tokens that have an owner with an address
  Notice,        \* days before the expiry in which the owner is reminded: 3
  FirstExpiry,   \* of every token, as a day
  Renewal,       \* days by which an owner renews a token
  MonthDays,     \* days of a month
  Big,           \* lines of a log of 1 MB
  RetentionDays, \* log.retention_days
  DefaultDays,   \* of a log.retention_days that cannot be read: 30
  Buffer,        \* bytes of the stream's buffer
  Keep,          \* entries task.*: 50
  BackupDays,    \* 7
  Hours,         \* of a day: 24
  Seasons        \* what goes on beside the scheduler, its bounds, and the zone: hours ahead of UTC

AllKinds == {"request", "stream", "renew", "midnight"}

ASSUME NumberAssumption ==
  {Notice, Renewal, MonthDays, Big, RetentionDays, DefaultDays, Buffer, Keep, BackupDays, Hours}
    \subseteq Nat \ {0}
ASSUME ExpiryAssumption == FirstExpiry \in Nat /\ IsFiniteSet(Tokens)
ASSUME SeasonAssumption ==
  \A s \in Seasons : /\ s.kinds \subseteq AllKinds
                     /\ {s.days, s.lines, s.clears, s.restarts, s.faults} \subseteq Nat
                     /\ s.zone \in Int /\ -Hours < s.zone /\ s.zone < Hours

VARIABLES
  season,
  day, ready,        \* the local date; whether the tables have been read since the start
  files,             \* inodes of access.log: sequences of lines, [id, day]
  path,              \* the inode at the path, 0 for none
  logF,              \* the inode logAccess holds, 0 for none
  stream,            \* [on, offset, leftover, file, sent]; file is 0 between ticks
  stat,              \* statDate and statReq
  task,              \* of the goroutines that serve requests
  lastRun, lastMonth, sched, clear,
  records, seq,      \* the KVs task.N, and task.seq, 0 when it is absent
  reminded, expiry,
  backups,           \* of days: whether the file is whole
  lines, faults, restarts,
  logged,            \* history: every line logged
  seen,              \* history: inodes a stream has read
  counted,           \* history: since the start, requests counted by their date, and whether one was late
  results,           \* history: number of results, whose IDs are 1, 2, ...
  disturbed,         \* history: a clear met a record, a KV failed or a restart cut a record since a quiet clear
  mailed, unmarked,  \* history: by token, reminders sent, and marks that were not written or not read
  summaries,         \* history: by month, summaries sent
  stored             \* history: days whose backup was written to the end

vars == <<season, day, ready, files, path, logF, stream, stat, task, lastRun, lastMonth, sched, clear,
          records, seq, reminded, expiry, backups, lines, faults, restarts, logged, seen, counted,
          results, disturbed, mailed, unmarked, summaries, stored>>

logVars   == <<files, path, logF, logged>>
readVars  == <<stream, seen>>
statVars  == <<stat, counted>>
taskVars  == <<records, seq, results, disturbed>>
mailVars  == <<reminded, expiry, mailed, unmarked, summaries>>
fileVars  == <<backups, stored>>
clockVars == <<season, day, ready, lastRun, lastMonth, restarts>>

Idle   == [op |-> "idle"]
NoRead == [on |-> FALSE, offset |-> 0, leftover |-> <<>>, file |-> 0, sent |-> <<>>]
NoStat == [date |-> 0, req |-> 0]
NoClear == [on |-> FALSE, left |-> {}, count |-> 0]

Month(d) == d \div MonthDays

(* A KV or a file is written: a table or a directory with v at x. *)
Put(f, x, v) == [y \in DOMAIN f \union {x} |-> IF y = x THEN v ELSE f[y]]

(* A KV, a file or a mail fails. *)
Fault == faults < season.faults /\ faults' = faults + 1

-------------------------------------------------------------------------------
(* The access log                                                          *)

LogAt(p) == IF p = 0 THEN <<>> ELSE files[p]

(* A request starts; its line bears the time of the start. *)
RequestStart(w) ==
  /\ "request" \in season.kinds /\ ready /\ task[w] = Idle /\ lines < season.lines
  /\ lines' = lines + 1
  /\ task' = [task EXCEPT ![w] = [op |-> "stat", id |-> lines + 1, day |-> day]]
  /\ UNCHANGED <<sched, clear, faults>>
  /\ UNCHANGED logVars /\ UNCHANGED readVars /\ UNCHANGED statVars /\ UNCHANGED taskVars
  /\ UNCHANGED mailVars /\ UNCHANGED fileVars /\ UNCHANGED clockVars

(* recordStats takes the date before the lock. *)
StatDate(w) ==
  /\ task[w].op = "stat"
  /\ task' = [task EXCEPT ![w] = [op |-> "count", id |-> @.id, day |-> @.day, today |-> day]]
  /\ UNCHANGED <<sched, clear, faults, lines>>
  /\ UNCHANGED logVars /\ UNCHANGED readVars /\ UNCHANGED statVars /\ UNCHANGED taskVars
  /\ UNCHANGED mailVars /\ UNCHANGED fileVars /\ UNCHANGED clockVars

(* Slip: the counters of yesterday are kept. *)
RecordedNeverReset(today) == [date |-> today, req |-> stat.req + 1]

Recorded(today) ==
  [date |-> today, req |-> IF stat.date = today THEN stat.req + 1 ELSE 1]

StatAdd(w) ==
  /\ task[w].op = "count"
  /\ stat' = Recorded(task[w].today)
  /\ counted' = [counted EXCEPT !.byDay[task[w].today] = @ + 1,
                                !.late = @ \/ stat.date > task[w].today]
  /\ task' = [task EXCEPT ![w] = [op |-> "log", id |-> @.id, day |-> @.day]]
  /\ UNCHANGED <<sched, clear, faults, lines>>
  /\ UNCHANGED logVars /\ UNCHANGED readVars /\ UNCHANGED taskVars
  /\ UNCHANGED mailVars /\ UNCHANGED fileVars /\ UNCHANGED clockVars

(* logAccess opens the log once and keeps it open. *)
LogAccess(w) ==
  /\ task[w].op = "log"
  /\ LET line  == [id |-> task[w].id, day |-> task[w].day]
         fresh == logF = 0 /\ path = 0
         f     == IF logF # 0 THEN logF ELSE IF fresh THEN Len(files) + 1 ELSE path
     IN  /\ files' = IF fresh THEN Append(files, <<line>>)
                              ELSE [files EXCEPT ![f] = Append(@, line)]
         /\ path' = IF fresh THEN f ELSE path
         /\ logF' = f
         /\ logged' = Append(logged, line)
  /\ task' = [task EXCEPT ![w] = Idle]
  /\ UNCHANGED <<sched, clear, faults, lines>>
  /\ UNCHANGED readVars /\ UNCHANGED statVars /\ UNCHANGED taskVars
  /\ UNCHANGED mailVars /\ UNCHANGED fileVars /\ UNCHANGED clockVars

-------------------------------------------------------------------------------
(* The live stream                                                         *)

(* A line's bytes, the last of which is its newline. *)
Bytes(ls) == [i \in 1 .. 2 * Len(ls) |-> [id |-> ls[(i + 1) \div 2].id, end |-> i % 2 = 0]]

(* The place of the last newline. *)
LastEnd(bs) == Max({0} \union {i \in 1..Len(bs) : bs[i].end})

StreamConnect(s) ==
  /\ "stream" \in season.kinds /\ ready /\ ~stream[s].on
  /\ stream' = [stream EXCEPT ![s] = [NoRead EXCEPT !.on = TRUE]]
  /\ seen' = [seen EXCEPT ![s] = {}]
  /\ UNCHANGED <<task, sched, clear, faults, lines>>
  /\ UNCHANGED logVars /\ UNCHANGED statVars /\ UNCHANGED taskVars
  /\ UNCHANGED mailVars /\ UNCHANGED fileVars /\ UNCHANGED clockVars

(* Every second the stream opens what is at the path; a file shorter than the offset is a new one. *)
StreamOpen(s) ==
  /\ stream[s].on /\ stream[s].file = 0
  /\ stream' = [stream EXCEPT ![s] =
       IF path # 0 /\ Len(Bytes(files[path])) >= @.offset
         THEN [@ EXCEPT !.file = path]
         ELSE [@ EXCEPT !.file = path, !.offset = 0, !.leftover = <<>>]]
  /\ stream' # stream
  /\ seen' = [seen EXCEPT ![s] = @ \union ({path} \ {0})]
  /\ UNCHANGED <<task, sched, clear, faults, lines>>
  /\ UNCHANGED logVars /\ UNCHANGED statVars /\ UNCHANGED taskVars
  /\ UNCHANGED mailVars /\ UNCHANGED fileVars /\ UNCHANGED clockVars

(* Slip: what follows the last newline of a buffer is dropped. *)
DeliverWhole(st, buf) ==
  LET cut == LastEnd(buf)
  IN  [st EXCEPT !.offset = @ + Len(buf),
                 !.sent = @ \o SubSeq(buf, 1, cut),
                 !.leftover = <<>>]

(* The lines that a buffer ends are sent, the rest waits for the next one. *)
Deliver(st, buf) ==
  LET data == st.leftover \o buf
      cut  == LastEnd(data)
  IN  [st EXCEPT !.offset = @ + Len(buf),
                 !.sent = @ \o SubSeq(data, 1, cut),
                 !.leftover = SubSeq(data, cut + 1, Len(data))]

(* A read that does not fill the buffer ends the tick. *)
StreamRead(s) ==
  /\ stream[s].file # 0
  /\ LET bytes == Bytes(files[stream[s].file])
         upTo  == Min({stream[s].offset + Buffer, Len(bytes)})
         buf   == SubSeq(bytes, stream[s].offset + 1, upTo)
         st    == Deliver(stream[s], buf)
     IN  stream' = [stream EXCEPT ![s] = IF Len(buf) = Buffer THEN st ELSE [st EXCEPT !.file = 0]]
  /\ UNCHANGED <<task, sched, clear, faults, lines, seen>>
  /\ UNCHANGED logVars /\ UNCHANGED statVars /\ UNCHANGED taskVars
  /\ UNCHANGED mailVars /\ UNCHANGED fileVars /\ UNCHANGED clockVars

-------------------------------------------------------------------------------
(* The records of the tasks                                                *)

(* The tasks of a day in their order; tokenExpiryReminder records nothing. *)
NextTask == [subscription_grant |-> "channel_health_ping", channel_health_ping |-> "stats_snapshot",
             stats_snapshot |-> "remind", log_retention |-> "db_backup", db_backup |-> "monthly_email",
             monthly_email |-> "idle"]

Reminding == [op |-> "remind", left |-> SetToSeq(Tokens)]

(* The scheduler goes on to the task after t. *)
After(t) == IF NextTask[t] = "remind" THEN Reminding ELSE [op |-> NextTask[t]]

(* recordTask begins. *)
Recording(t) == [op |-> "recSeq", name |-> t]

(* A task.seq that cannot be read is taken for one that is missing. *)
RecordSeq ==
  /\ sched.op = "recSeq"
  /\ \/ /\ sched' = [op |-> "recEntry", name |-> sched.name, n |-> seq + 1]
        /\ disturbed' = (disturbed \/ clear.on) /\ UNCHANGED faults
     \/ /\ sched' = [op |-> "recEntry", name |-> sched.name, n |-> 1]
        /\ Fault /\ disturbed' = TRUE
  /\ UNCHANGED <<task, clear, lines, records, seq, results>>
  /\ UNCHANGED logVars /\ UNCHANGED readVars /\ UNCHANGED statVars
  /\ UNCHANGED mailVars /\ UNCHANGED fileVars /\ UNCHANGED clockVars

(* The IDs of results, and not their text, tell the records apart. *)
RecordEntry ==
  /\ sched.op = "recEntry"
  /\ results' = results + 1
  /\ \/ /\ records' = Put(records, sched.n, results + 1)
        /\ disturbed' = (disturbed \/ clear.on) /\ UNCHANGED faults
     \/ Fault /\ disturbed' = TRUE /\ UNCHANGED records
  /\ sched' = [sched EXCEPT !.op = "recCount"]
  /\ UNCHANGED <<task, clear, lines, seq>>
  /\ UNCHANGED logVars /\ UNCHANGED readVars /\ UNCHANGED statVars
  /\ UNCHANGED mailVars /\ UNCHANGED fileVars /\ UNCHANGED clockVars

RecordCount ==
  /\ sched.op = "recCount"
  /\ \/ seq' = sched.n /\ disturbed' = (disturbed \/ clear.on) /\ UNCHANGED faults
     \/ Fault /\ disturbed' = TRUE /\ UNCHANGED seq
  /\ sched' = [sched EXCEPT !.op = "recTrim"]
  /\ UNCHANGED <<task, clear, lines, records, results>>
  /\ UNCHANGED logVars /\ UNCHANGED readVars /\ UNCHANGED statVars
  /\ UNCHANGED mailVars /\ UNCHANGED fileVars /\ UNCHANGED clockVars

(* Entries task.*, task.seq among them. *)
Entries == Cardinality(DOMAIN records) + (IF seq = 0 THEN 0 ELSE 1)

(* Slip: the newest record goes. *)
TrimmedNewest == Restrict(records, DOMAIN records \ {Max(DOMAIN records)})

Trimmed == Restrict(records, DOMAIN records \ {Min(DOMAIN records)})

RecordTrim ==
  /\ sched.op = "recTrim"
  /\ \/ Entries <= Keep /\ UNCHANGED <<records, faults>>
        /\ disturbed' = (disturbed \/ clear.on)
     \/ Entries > Keep /\ records' = Trimmed /\ UNCHANGED faults
        /\ disturbed' = (disturbed \/ clear.on)
     \/ Entries > Keep /\ Fault /\ disturbed' = TRUE /\ UNCHANGED records
  /\ sched' = After(sched.name)
  /\ UNCHANGED <<task, clear, lines, seq, results>>
  /\ UNCHANGED logVars /\ UNCHANGED readVars /\ UNCHANGED statVars
  /\ UNCHANGED mailVars /\ UNCHANGED fileVars /\ UNCHANGED clockVars

RecordingNow == sched.op \in {"recEntry", "recCount", "recTrim"}

(* DELETE /api/tasks lists the entries and deletes them one by one, then task.seq. *)
ClearStart ==
  /\ ready /\ ~clear.on /\ DOMAIN records # {} /\ clear.count < season.clears
  /\ clear' = [on |-> TRUE, left |-> DOMAIN records \union (IF seq = 0 THEN {} ELSE {0}),
               count |-> clear.count + 1]
  /\ disturbed' = (disturbed \/ RecordingNow)
  /\ UNCHANGED <<task, sched, faults, lines, records, seq, results>>
  /\ UNCHANGED logVars /\ UNCHANGED readVars /\ UNCHANGED statVars
  /\ UNCHANGED mailVars /\ UNCHANGED fileVars /\ UNCHANGED clockVars

(* In the order of a map; 0 stands for task.seq. *)
ClearEntry ==
  /\ clear.left # {}
  /\ \E n \in clear.left :
       /\ clear' = [clear EXCEPT !.left = @ \ {n}]
       /\ records' = Restrict(records, DOMAIN records \ {n})
       /\ seq' = IF n = 0 THEN 0 ELSE seq
  /\ disturbed' = (disturbed \/ RecordingNow)
  /\ UNCHANGED <<task, sched, faults, lines, results>>
  /\ UNCHANGED logVars /\ UNCHANGED readVars /\ UNCHANGED statVars
  /\ UNCHANGED mailVars /\ UNCHANGED fileVars /\ UNCHANGED clockVars

ClearEnd ==
  /\ clear.on /\ clear.left = {}
  /\ clear' = [clear EXCEPT !.on = FALSE]
  /\ seq' = 0
  /\ disturbed' = (DOMAIN records # {} \/ RecordingNow)
  /\ UNCHANGED <<task, sched, faults, lines, records, results>>
  /\ UNCHANGED logVars /\ UNCHANGED readVars /\ UNCHANGED statVars
  /\ UNCHANGED mailVars /\ UNCHANGED fileVars /\ UNCHANGED clockVars

-------------------------------------------------------------------------------
(* The scheduler                                                           *)

schedOnly == <<task, clear, lines, stream, seen, stat, counted, season, day, ready, restarts>>

(* A tick: a day is run once, and is marked before its tasks.  Before the tables are read the first *)
(* task panics, and the recovery ends the day.                                                      *)
DailyTasks ==
  /\ sched = Idle /\ lastRun # day
  /\ lastRun' = day
  /\ sched' = IF ready THEN [op |-> "subscription_grant"] ELSE Idle
  /\ UNCHANGED <<lastMonth, faults>> /\ UNCHANGED schedOnly
  /\ UNCHANGED logVars /\ UNCHANGED taskVars /\ UNCHANGED mailVars /\ UNCHANGED fileVars

(* The tasks of which only the record is modelled here. *)
PlainTask ==
  /\ sched.op \in {"subscription_grant", "channel_health_ping", "stats_snapshot"}
  /\ sched' = Recording(sched.op)
  /\ UNCHANGED <<lastRun, lastMonth, faults>> /\ UNCHANGED schedOnly
  /\ UNCHANGED logVars /\ UNCHANGED taskVars /\ UNCHANGED mailVars /\ UNCHANGED fileVars

Expiring(t) == day < expiry[t] /\ expiry[t] < day + Notice

(* Slip: a mark is not asked for. *)
DueUnmarked(t) == Expiring(t)

Due(t) == Expiring(t) /\ t \notin reminded

Reminded == [sched EXCEPT !.op = "remind", !.left = Tail(@)]

(* A reminder that is not due is passed over, as are all of them without a mail server. *)
RemindNone ==
  /\ sched.op = "remind"
  /\ IF sched.left = <<>> THEN sched' = [op |-> "log_retention"]
                          ELSE ~Due(Head(sched.left)) /\ sched' = Reminded
  /\ UNCHANGED <<lastRun, lastMonth, faults>> /\ UNCHANGED schedOnly
  /\ UNCHANGED logVars /\ UNCHANGED taskVars /\ UNCHANGED mailVars /\ UNCHANGED fileVars

(* A mark that cannot be read is taken for one that is missing. *)
RemindMail ==
  /\ sched.op = "remind" /\ sched.left # <<>>
  /\ LET t    == Head(sched.left)
         Sent == mailed' = [mailed EXCEPT ![t] = @ + 1] /\ sched' = [sched EXCEPT !.op = "mark"]
     IN  \/ Due(t) /\ Sent /\ UNCHANGED <<faults, unmarked>>
         \/ Due(t) /\ Fault /\ sched' = Reminded /\ UNCHANGED <<mailed, unmarked>>
         \/ /\ Expiring(t) /\ t \in reminded /\ Fault /\ Sent
            /\ unmarked' = [unmarked EXCEPT ![t] = @ + 1]
  /\ UNCHANGED <<lastRun, lastMonth, reminded, expiry, summaries>> /\ UNCHANGED schedOnly
  /\ UNCHANGED logVars /\ UNCHANGED taskVars /\ UNCHANGED fileVars

(* The reminder at hand gets no mark; one of an earlier reminder stays. *)
MarkMissed ==
  LET t == Head(sched.left)
  IN  IF t \in reminded THEN unmarked ELSE [unmarked EXCEPT ![t] = @ + 1]

RemindMark ==
  /\ sched.op = "mark"
  /\ \/ reminded' = reminded \union {Head(sched.left)} /\ UNCHANGED <<faults, unmarked>>
     \/ Fault /\ unmarked' = MarkMissed /\ UNCHANGED reminded
  /\ sched' = Reminded
  /\ UNCHANGED <<lastRun, lastMonth, expiry, mailed, summaries>> /\ UNCHANGED schedOnly
  /\ UNCHANGED logVars /\ UNCHANGED taskVars /\ UNCHANGED fileVars

(* An owner puts the expiry off; the mark stays. *)
RenewToken(t) ==
  /\ "renew" \in season.kinds /\ ready /\ expiry[t] = FirstExpiry
  /\ expiry' = [expiry EXCEPT ![t] = @ + Renewal]
  /\ UNCHANGED <<task, sched, clear, faults, lines, reminded, mailed, unmarked, summaries>>
  /\ UNCHANGED logVars /\ UNCHANGED readVars /\ UNCHANGED statVars /\ UNCHANGED taskVars
  /\ UNCHANGED fileVars /\ UNCHANGED clockVars

(* A log of more than 1 MB is rewritten to access.log.tmp: the lines of its days are kept.  The days *)
(* are the default ones when their KV cannot be read.                                                *)
Scan(days, misread) ==
  [op |-> "scan", in |-> path, size |-> Len(files[path]), pos |-> 0, cutoff |-> day - days,
   misread |-> misread, out |-> <<>>, torn |-> FALSE, spoilt |-> {}]

RetainOpen ==
  /\ sched.op = "log_retention"
  /\ \/ path = 0 /\ sched' = Recording("log_retention") /\ UNCHANGED faults
     \/ path # 0 /\ Len(files[path]) <= Big /\ sched' = Recording("log_retention") /\ UNCHANGED faults
     \/ path # 0 /\ Len(files[path]) > Big /\ UNCHANGED faults /\ sched' = Scan(RetentionDays, FALSE)
     \/ path # 0 /\ Len(files[path]) > Big /\ Fault
        /\ sched' \in {Scan(DefaultDays, TRUE), Recording("log_retention")}
  /\ UNCHANGED <<lastRun, lastMonth>> /\ UNCHANGED schedOnly
  /\ UNCHANGED logVars /\ UNCHANGED taskVars /\ UNCHANGED mailVars /\ UNCHANGED fileVars

(* Slip: the day after the cutoff goes as well. *)
GoesEarly(line) == line.day <= sched.cutoff + 1

(* The cutoff is an instant of its day: of that day's lines some go and some stay. *)
Goes(line)  == line.day <= sched.cutoff
Stays(line) == line.day >= sched.cutoff

(* Nobody looks at the errors of the writes.  A line that is not written whole is none, and without *)
(* a newline it spoils the next one too.                                                            *)
RetainLine ==
  /\ sched.op = "scan" /\ sched.pos < Len(files[sched.in])
  /\ LET line == files[sched.in][sched.pos + 1]
         next == [sched EXCEPT !.pos = @ + 1]
     IN  \/ Goes(line) /\ sched' = next /\ UNCHANGED faults
         \/ Stays(line) /\ ~sched.torn /\ UNCHANGED faults
            /\ sched' = [next EXCEPT !.out = Append(@, line)]
         \/ Stays(line) /\ sched.torn /\ UNCHANGED faults
            /\ sched' = [next EXCEPT !.torn = FALSE, !.spoilt = @ \union {line}]
         \/ Stays(line) /\ Fault
            /\ \E torn \in BOOLEAN :
                 sched' = [next EXCEPT !.torn = torn, !.spoilt = @ \union {line}]
  /\ UNCHANGED <<lastRun, lastMonth>> /\ UNCHANGED schedOnly
  /\ UNCHANGED logVars /\ UNCHANGED taskVars /\ UNCHANGED mailVars /\ UNCHANGED fileVars

(* The scan meets the end, whatever was written, or an error for which the copy is given up. *)
RetainEnd ==
  /\ sched.op = "scan"
  /\ \/ sched.pos = Len(files[sched.in]) /\ sched' = [sched EXCEPT !.op = "rename"]
        /\ UNCHANGED faults
     \/ Fault /\ sched' = Recording("log_retention")
  /\ UNCHANGED <<lastRun, lastMonth>> /\ UNCHANGED schedOnly
  /\ UNCHANGED logVars /\ UNCHANGED taskVars /\ UNCHANGED mailVars /\ UNCHANGED fileVars

(* The copy takes the path; logF stays where it is. *)
RetainRename ==
  /\ sched.op = "rename"
  /\ \/ files' = Append(files, sched.out) /\ path' = Len(files) + 1 /\ UNCHANGED faults
     \/ Fault /\ UNCHANGED <<files, path>>
  /\ sched' = Recording("log_retention")
  /\ UNCHANGED <<lastRun, lastMonth, logF, logged>> /\ UNCHANGED schedOnly
  /\ UNCHANGED taskVars /\ UNCHANGED mailVars /\ UNCHANGED fileVars

(* The copy of the database is written over the one of the same day. *)
BackupOpen ==
  /\ sched.op = "db_backup"
  /\ \/ /\ backups' = Put(backups, day, "part") /\ stored' = stored \ {day}
        /\ sched' = [op |-> "backupEnd", day |-> day] /\ UNCHANGED faults
     \/ Fault /\ UNCHANGED <<backups, stored>> /\ sched' = Recording("db_backup")
  /\ UNCHANGED <<lastRun, lastMonth>> /\ UNCHANGED schedOnly
  /\ UNCHANGED logVars /\ UNCHANGED taskVars /\ UNCHANGED mailVars

BackupEnd ==
  /\ sched.op = "backupEnd"
  /\ \/ /\ backups' = Put(backups, sched.day, "whole") /\ stored' = stored \union {sched.day}
        /\ sched' = [op |-> "clean"] /\ UNCHANGED faults
     \/ Fault /\ UNCHANGED <<backups, stored>> /\ sched' = Recording("db_backup")
  /\ UNCHANGED <<lastRun, lastMonth>> /\ UNCHANGED schedOnly
  /\ UNCHANGED logVars /\ UNCHANGED taskVars /\ UNCHANGED mailVars

(* Slip: a week has a day less. *)
OldEarly(d, hour) == d * Hours < (day - BackupDays + 1) * Hours + hour - season.zone

(* The name has the local date, which is read as the start of that day in UTC; it is compared with *)
(* the local time of a week ago: the instants are hours of UTC.                                    *)
Old(d, hour) == d * Hours < (day - BackupDays) * Hours + hour - season.zone

BackupClean ==
  /\ sched.op = "clean"
  /\ \E hour \in 0 .. Hours - 1 :
       backups' = Restrict(backups, {d \in DOMAIN backups : ~Old(d, hour)})
  /\ sched' = Recording("db_backup")
  /\ UNCHANGED <<lastRun, lastMonth, faults, stored>> /\ UNCHANGED schedOnly
  /\ UNCHANGED logVars /\ UNCHANGED taskVars /\ UNCHANGED mailVars

(* A month is marked before its mail. *)
MonthStart ==
  /\ sched.op = "monthly_email"
  /\ lastMonth' = Month(day)
  /\ sched' = IF lastMonth = Month(day) THEN Idle ELSE [op |-> "mail", month |-> Month(day)]
  /\ UNCHANGED <<lastRun, faults>> /\ UNCHANGED schedOnly
  /\ UNCHANGED logVars /\ UNCHANGED taskVars /\ UNCHANGED mailVars /\ UNCHANGED fileVars

MonthMail ==
  /\ sched.op = "mail"
  /\ \/ summaries' = [summaries EXCEPT ![sched.month] = @ + 1] /\ UNCHANGED faults
     \/ Fault /\ UNCHANGED summaries
  /\ sched' = Recording("monthly_email")
  /\ UNCHANGED <<lastRun, lastMonth, reminded, expiry, mailed, unmarked>> /\ UNCHANGED schedOnly
  /\ UNCHANGED logVars /\ UNCHANGED taskVars /\ UNCHANGED fileVars

-------------------------------------------------------------------------------
(* Days and restarts                                                       *)

Days == UNION {0..s.days : s \in Seasons}

Init ==
  /\ season \in Seasons
  /\ day = 0 /\ ready = TRUE
  /\ files = <<>> /\ path = 0 /\ logF = 0
  /\ stream = [s \in Streams |-> NoRead]
  /\ stat = NoStat
  /\ task = [w \in Workers |-> Idle]
  /\ lastRun = -1 /\ lastMonth = -1 /\ sched = Idle /\ clear = NoClear
  /\ records = [n \in {} |-> 0] /\ seq = 0
  /\ reminded = {} /\ expiry = [t \in Tokens |-> FirstExpiry]
  /\ backups = [d \in {} |-> "whole"]
  /\ lines = 0 /\ faults = 0 /\ restarts = 0
  /\ logged = <<>> /\ seen = [s \in Streams |-> {}]
  /\ counted = [byDay |-> [d \in Days |-> 0], late |-> FALSE]
  /\ results = 0 /\ disturbed = FALSE
  /\ mailed = [t \in Tokens |-> 0] /\ unmarked = [t \in Tokens |-> 0]
  /\ summaries = [m \in {Month(d) : d \in Days} |-> 0]
  /\ stored = {}

(* external: midnight, between two steps of whatever runs; in a season without midnight the tasks *)
(* of a day end in it.                                                                             *)
NextDay ==
  /\ day < season.days
  /\ "midnight" \in season.kinds \/ sched = Idle
  /\ day' = day + 1
  /\ UNCHANGED <<season, ready, lastRun, lastMonth, restarts, task, sched, clear, faults, lines>>
  /\ UNCHANGED logVars /\ UNCHANGED readVars /\ UNCHANGED statVars /\ UNCHANGED taskVars
  /\ UNCHANGED mailVars /\ UNCHANGED fileVars

(* The process ends and starts again: files and KVs stay. *)
Restart ==
  /\ restarts < season.restarts
  /\ restarts' = restarts + 1
  /\ ready' = FALSE /\ logF' = 0
  /\ stream' = [s \in Streams |-> NoRead] /\ seen' = [s \in Streams |-> {}]
  /\ stat' = NoStat /\ counted' = [byDay |-> [d \in Days |-> 0], late |-> FALSE]
  /\ task' = [w \in Workers |-> Idle]
  /\ lastRun' = -1 /\ lastMonth' = -1 /\ sched' = Idle /\ clear' = [NoClear EXCEPT !.count = clear.count]
  /\ disturbed' = (disturbed \/ RecordingNow \/ clear.on)
  /\ unmarked' = IF sched.op = "mark" THEN MarkMissed ELSE unmarked
  /\ UNCHANGED <<season, day, files, path, logged, records, seq, results, reminded, expiry, mailed,
                 summaries, backups, stored, faults, lines>>

(* main has read the tables. *)
Ready ==
  /\ ~ready /\ ready' = TRUE
  /\ UNCHANGED <<season, day, lastRun, lastMonth, restarts, task, sched, clear, faults, lines>>
  /\ UNCHANGED logVars /\ UNCHANGED readVars /\ UNCHANGED statVars /\ UNCHANGED taskVars
  /\ UNCHANGED mailVars /\ UNCHANGED fileVars

RecordTask == RecordSeq \/ RecordEntry \/ RecordCount \/ RecordTrim
LogRetention == RetainOpen \/ RetainLine \/ RetainEnd \/ RetainRename
TokenExpiryReminder == RemindNone \/ RemindMail \/ RemindMark
DBBackup == BackupOpen \/ BackupEnd \/ BackupClean

Next ==
  \/ \E w \in Workers : RequestStart(w) \/ StatDate(w) \/ StatAdd(w) \/ LogAccess(w)
  \/ \E s \in Streams : StreamConnect(s) \/ StreamOpen(s) \/ StreamRead(s)
  \/ ClearStart \/ ClearEntry \/ ClearEnd
  \/ DailyTasks \/ PlainTask \/ RecordTask \/ TokenExpiryReminder \/ LogRetention \/ DBBackup
  \/ MonthStart \/ MonthMail
  \/ \E t \in Tokens : RenewToken(t)
  \/ NextDay \/ Restart \/ Ready

Spec == Init /\ [][Next]_vars
-------------------------------------------------------------------------------
(* Properties                                                              *)

(* Types, and what the scheduler may be at. *)
TypeOK ==
  /\ season \in Seasons /\ day \in 0..season.days /\ ready \in BOOLEAN
  /\ path \in 0..Len(files) /\ logF \in 0..Len(files)
  /\ \A f \in 1..Len(files) : \A l \in Range(files[f]) : l \in Range(logged)
  /\ \A s \in Streams : stream[s].offset \in Nat /\ stream[s].file \in 0..Len(files)
  /\ stat \in [date : Days, req : Nat]
  /\ lastRun \in {-1} \union Days /\ lastMonth \in {-1} \union {Month(d) : d \in Days}
  /\ DOMAIN records \subseteq Nat \ {0} /\ seq \in Nat /\ reminded \subseteq Tokens
  /\ DOMAIN backups \union stored \subseteq Days

(* A live stream sends the log's bytes in their order and whole lines only, wherever its buffers cut *)
(* them and however ticks, appends and a rewrite interleave, as long as it has read one file.        *)
(* LogStreamHandler.                                                                                 *)
StreamWhole ==
  \A s \in Streams : stream[s].on =>
    \A f \in seen[s] : seen[s] = {f} =>
      /\ stream[s].sent \o stream[s].leftover = SubSeq(Bytes(files[f]), 1, stream[s].offset)
      /\ stream[s].sent # <<>> => Last(stream[s].sent).end

(* The dashboard's counter is the number of the requests that were counted with its date since the *)
(* start, unless a request that took the date before midnight was counted after one that took it   *)
(* later; even then it is never more.  recordStats.                                                *)
DayCounted ==
  stat # NoStat => /\ stat.req <= counted.byDay[stat.date]
                   /\ ~counted.late => stat.req = counted.byDay[stat.date]

(* A line leaves the log at its path only when it has the days of retention, or when it came after *)
(* a rewrite had begun, or when its write to the copy failed, or that of the newline before it; and *)
(* when the KV of the days could not be read, already with the default days.  A rewrite that fails  *)
(* at the scan or the rename, and a restart, leave the log whole.  logRetention.                    *)
LinesLeaveByAge ==
  [][\A l \in Range(LogAt(path)) \ Range(LogAt(path)') :
       \/ l.day <= day - RetentionDays
       \/ /\ sched.op = "rename"
          /\ \/ l \notin Range(SubSeq(files[sched.in], 1, sched.size))
             \/ l \in sched.spoilt
             \/ sched.misread /\ l.day <= day - DefaultDays]_vars

(* The records of the tasks are bounded: one more than the limit, when task.seq is cleared before   *)
(* the oldest record is deleted, and one for each restart or failure there.  Unless a clear met a   *)
(* record, a KV failed or a restart cut a record, they are consecutive results and the newest of    *)
(* them is the last result.  recordTask and TasksHandler.                                           *)
RecordsAreNewest ==
  /\ Cardinality(DOMAIN records) <= Keep + 1 + restarts + faults
  /\ ~disturbed /\ ~RecordingNow /\ ~clear.on /\ DOMAIN records # {} =>
       /\ DOMAIN records = Min(DOMAIN records)..seq
       /\ \A n \in DOMAIN records : records[n] = results - (seq - n)

(* The owner of a token is reminded once, and again only for a mark that a restart or a failing KV *)
(* kept from being written, or that could not be read; a start mails at most one summary of a      *)
(* month.  tokenExpiryReminder and runMonthlyTaskIfDue.                                            *)
MailedOnce ==
  /\ \A t \in Tokens : mailed[t] <= 1 + unmarked[t]
  /\ \A m \in DOMAIN summaries : summaries[m] <= 1 + restarts

(* Days, today's among them, of which a backup stays: west of UTC the local evening is the next day *)
(* of UTC already, and a run late in the day takes the oldest one of them away.                     *)
KeptDays == IF season.zone < 0 THEN BackupDays - 1 ELSE BackupDays

(* The backups of the last days are whole, but for one that a second run of its day has begun to *)
(* write again.  dbBackup.                                                                        *)
LastBackupsKept == \A d \in stored : d > day - KeptDays => d \in DOMAIN backups /\ backups[d] = "whole"
===============================================================================
