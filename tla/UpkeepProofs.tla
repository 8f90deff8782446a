----------------------------- MODULE UpkeepProofs ------------------------------
(***************************************************************************)
(* What is proved of Upkeep for every number of goroutines, streams,       *)
(* tokens and days and every size of the log: what the scheduler's tasks   *)
(* keep while requests, midnight, restarts and failures run into them.     *)
(***************************************************************************)
EXTENDS Upkeep, Induction

-------------------------------------------------------------------------------
(* Types                                                                   *)

Line   == [id : Nat, day : Days]
Months == {Month(d) : d \in Days}

TaskNames == {"subscription_grant", "channel_health_ping", "stats_snapshot", "log_retention",
              "db_backup", "monthly_email"}

\* What a goroutine that serves a request may be at.
Jobs ==
  [op : {"idle"}]
    \union [op : {"stat"}, id : Nat, day : Days]
    \union [op : {"count"}, id : Nat, day : Days, today : Days]
    \union [op : {"log"}, id : Nat, day : Days]

\* What the scheduler may be at.
PlainSteps   == [op : TaskNames \union {"idle", "clean"}]
RemindSteps  == [op : {"remind"}, left : Seq(Tokens)]
MarkSteps    == [op : {"mark"}, left : Seq(Tokens) \ {<<>>}]
RecordStarts == [op : {"recSeq"}, name : TaskNames]
RecordSteps  == [op : {"recEntry", "recCount", "recTrim"}, name : TaskNames, n : Nat \ {0}]
RetainSteps  == [op : {"scan", "rename"}, in : Nat \ {0}, size : Nat, pos : Nat, cutoff : Int,
                 misread : BOOLEAN, out : Seq(Line), torn : BOOLEAN, spoilt : SUBSET Line]
BackupSteps  == [op : {"backupEnd"}, day : Days]
MailSteps    == [op : {"mail"}, month : Months]

Scheds ==
  PlainSteps \union RemindSteps \union MarkSteps \union RecordStarts \union RecordSteps
    \union RetainSteps \union BackupSteps \union MailSteps

\* A rewrite reads what is at the path.
Rewriting == sched.op \in {"scan", "rename"}

Shape ==
  /\ season \in Seasons /\ day \in 0 .. season.days
  /\ task \in [Workers -> Jobs] /\ lines \in Nat
  /\ files \in Seq(Seq(Line)) /\ path \in 0 .. Len(files) /\ logF \in 0 .. Len(files)
  /\ sched \in Scheds
  /\ Rewriting => path # 0 /\ sched.in = path

LEMMA DayFacts ==
  ASSUME season \in Seasons, day \in 0 .. season.days
  PROVE  season.days \in Nat /\ day \in Days /\ day \in Nat /\ day \in Int
         /\ Days \subseteq Nat /\ 0 \in Days /\ Month(day) \in Months
<1>1. \A s \in Seasons : s.days \in Nat
  BY SeasonAssumption
<1>2. Days \subseteq Nat /\ 0 \in Days /\ day \in Days
  BY <1>1 DEF Days
<1>3. QED
  BY <1>1, <1>2 DEF Months

LEMMA SchedKinds ==
  ASSUME NEW s \in Scheds
  PROVE  /\ s.op = "remind" => s \in RemindSteps
         /\ s.op = "mark" => s \in MarkSteps
         /\ s.op = "recSeq" => s \in RecordStarts
         /\ s.op \in {"recEntry", "recCount", "recTrim"} => s \in RecordSteps
         /\ s.op \in {"scan", "rename"} => s \in RetainSteps
         /\ s.op = "backupEnd" => s \in BackupSteps
         /\ s.op = "mail" => s \in MailSteps
BY DEF Scheds, PlainSteps, RemindSteps, MarkSteps, RecordStarts, RecordSteps, RetainSteps,
       BackupSteps, MailSteps, TaskNames

\* The tokens can be put in an order.
LEMMA TokensInOrder == SetToSeq(Tokens) \in Seq(Tokens)
<1>1. IsFiniteSet(Tokens) /\ Cardinality(Tokens) \in Nat
  BY ExpiryAssumption, FS_CardinalityType
<1>2. PICK f : f \in Bijection(1 .. Cardinality(Tokens), Tokens)
  BY <1>1, FS_NatBijection, FS_CountingElements DEF ExistsBijection
<1>3. f \in [1 .. Cardinality(Tokens) -> Tokens] /\ IsInjective(f)
  BY <1>2 DEF Bijection, Injection, IsInjective
<1>4. SetToSeq(Tokens) \in [1 .. Cardinality(Tokens) -> Tokens]
  BY <1>3 DEF SetToSeq
<1>5. QED
  BY <1>1, <1>4

LEMMA AfterType ==
  ASSUME NEW t \in TaskNames
  PROVE  After(t) \in Scheds
<1>1. Reminding \in Scheds
  BY TokensInOrder DEF Reminding, Scheds, RemindSteps
<1>2. NextTask[t] \in TaskNames \union {"idle", "remind"}
  BY DEF NextTask, TaskNames
<1>3. QED
  BY <1>1, <1>2 DEF After, Scheds, PlainSteps

\* Where a step of the scheduler leaves it.
Scheduled == sched' \in Scheds /\ (Rewriting' => path # 0 /\ sched'.in = path)

LEMMA ScheduledPlain ==
  ASSUME NEW s \in Scheds, sched' = s, s.op \notin {"scan", "rename"}
  PROVE  Scheduled
BY DEF Scheduled, Rewriting

LEMMA RecordingPlain ==
  ASSUME NEW t \in TaskNames
  PROVE  Recording(t) \in Scheds /\ Recording(t).op = "recSeq"
BY DEF Recording, Scheds, RecordStarts

LEMMA PlainOp ==
  ASSUME NEW op \in TaskNames \union {"idle", "clean"}
  PROVE  [op |-> op] \in Scheds /\ [op |-> op].op \notin {"scan", "rename"}
BY DEF Scheds, PlainSteps, TaskNames

LEMMA AfterPlain ==
  ASSUME NEW t \in TaskNames
  PROVE  After(t).op \notin {"scan", "rename"}
BY DEF After, NextTask, TaskNames, Reminding

LEMMA ScheduledRecording ==
  ASSUME NEW t \in TaskNames, sched' = Recording(t)
  PROVE  Scheduled
BY RecordingPlain, ScheduledPlain

LEMMA ScheduledOp ==
  ASSUME NEW op \in TaskNames \union {"idle", "clean"}, sched' = [op |-> op]
  PROVE  Scheduled
BY PlainOp, ScheduledPlain

LEMMA RecordTaskScheduled ==
  ASSUME Shape, seq \in Nat, RecordTask
  PROVE  Scheduled
<1>1. CASE RecordSeq
  <2>0. PICK n \in {seq + 1, 1} : sched' = [op |-> "recEntry", name |-> sched.name, n |-> n]
    BY <1>1 DEF RecordSeq
  <2> DEFINE s == [op |-> "recEntry", name |-> sched.name, n |-> n]
  <2>1. sched \in RecordStarts /\ sched' = s
    BY <1>1, <2>0, SchedKinds DEF RecordSeq, Shape
  <2>2. s \in RecordSteps
    BY <2>1 DEF RecordStarts, RecordSteps
  <2>3. s \in Scheds /\ s.op \notin {"scan", "rename"}
    BY <2>2 DEF Scheds
  <2>4. QED
    BY <2>1, <2>3, ScheduledPlain
<1>2. CASE RecordEntry \/ RecordCount
  <2>1. sched \in RecordSteps
    BY <1>2, SchedKinds DEF RecordEntry, RecordCount, Shape
  <2>2. PICK op \in {"recCount", "recTrim"} : sched' = [sched EXCEPT !.op = op]
    BY <1>2 DEF RecordEntry, RecordCount
  <2>3. [sched EXCEPT !.op = op] \in RecordSteps /\ [sched EXCEPT !.op = op].op = op
    BY <2>1 DEF RecordSteps
  <2>4. [sched EXCEPT !.op = op] \in Scheds
    BY <2>3 DEF Scheds
  <2>5. QED
    BY <2>2, <2>3, <2>4, ScheduledPlain
<1>3. CASE RecordTrim
  <2>1. sched \in RecordSteps /\ sched' = After(sched.name)
    BY <1>3, SchedKinds DEF RecordTrim, Shape
  <2>2. sched.name \in TaskNames
    BY <2>1 DEF RecordSteps
  <2>3. QED
    BY <2>1, <2>2, AfterType, AfterPlain, ScheduledPlain
<1>4. QED
  BY <1>1, <1>2, <1>3 DEF RecordTask

LEMMA ReminderScheduled ==
  ASSUME Shape, TokenExpiryReminder
  PROVE  Scheduled
<1>1. ASSUME sched \in RemindSteps \union MarkSteps, sched.left # <<>>, sched' = Reminded
      PROVE  Scheduled
  <2>1. Reminded \in RemindSteps
    <3>1. sched.left \in Seq(Tokens) /\ sched.left # <<>>
      BY <1>1 DEF RemindSteps, MarkSteps
    <3>2. Tail(sched.left) \in Seq(Tokens)
      BY <3>1
    <3>3. QED
      BY <1>1, <3>2 DEF Reminded, RemindSteps, MarkSteps
  <2>2. Reminded \in Scheds /\ Reminded.op \notin {"scan", "rename"}
    BY <2>1 DEF Scheds, RemindSteps
  <2>3. QED
    BY <1>1, <2>2, ScheduledPlain
<1>2. CASE RemindNone
  <2>1. sched \in RemindSteps
    BY <1>2, SchedKinds DEF RemindNone, Shape
  <2>2. CASE sched.left = <<>>
    BY <1>2, <2>2, ScheduledOp DEF RemindNone, TaskNames
  <2>3. CASE sched.left # <<>>
    BY <1>1, <1>2, <2>1, <2>3 DEF RemindNone
  <2>4. QED
    BY <2>2, <2>3
<1>3. CASE RemindMail
  <2>1. sched \in RemindSteps /\ sched.left # <<>>
    BY <1>3, SchedKinds DEF RemindMail, Shape
  <2>2. CASE sched' = [sched EXCEPT !.op = "mark"]
    <3>1. [sched EXCEPT !.op = "mark"] \in MarkSteps
      BY <2>1 DEF RemindSteps, MarkSteps
    <3>2. /\ [sched EXCEPT !.op = "mark"] \in Scheds
          /\ [sched EXCEPT !.op = "mark"].op \notin {"scan", "rename"}
      BY <3>1 DEF Scheds, MarkSteps
    <3>3. QED
      BY <2>2, <3>2, ScheduledPlain
  <2>3. CASE sched' = Reminded
    BY <1>1, <2>1, <2>3
  <2>4. QED
    BY <1>3, <2>2, <2>3 DEF RemindMail
<1>4. CASE RemindMark
  <2>1. sched \in MarkSteps /\ sched' = Reminded
    BY <1>4, SchedKinds DEF RemindMark, Shape
  <2>2. sched.left # <<>>
    BY <2>1 DEF MarkSteps
  <2>3. QED
    BY <1>1, <2>1, <2>2
<1>5. QED
  BY <1>2, <1>3, <1>4 DEF TokenExpiryReminder

\* The file that a rewrite reads.
LEMMA RewrittenFile ==
  ASSUME Shape, path # 0
  PROVE  /\ path \in 1 .. Len(files) /\ path \in Nat \ {0} /\ files[path] \in Seq(Line)
         /\ Len(files[path]) \in Nat
BY DEF Shape

\* The fields of a rewrite.
LEMMA RewriteFields ==
  ASSUME NEW s \in RetainSteps
  PROVE  /\ DOMAIN s = {"op", "in", "size", "pos", "cutoff", "misread", "out", "torn", "spoilt"}
         /\ s.op \in {"scan", "rename"} /\ s.in \in Nat \ {0} /\ s.size \in Nat /\ s.pos \in Nat
         /\ s.cutoff \in Int /\ s.misread \in BOOLEAN /\ s.out \in Seq(Line)
         /\ s.torn \in BOOLEAN /\ s.spoilt \subseteq Line
BY DEF RetainSteps

\* A step of a rewrite leaves what it does not name.
Onward(s, pos, out, torn, spoilt) ==
  [s EXCEPT !.pos = pos, !.out = out, !.torn = torn, !.spoilt = spoilt]

LEMMA RewriteGoesOn ==
  ASSUME NEW s \in RetainSteps, NEW pos \in Nat, NEW out \in Seq(Line), NEW torn \in BOOLEAN,
         NEW spoilt \in SUBSET Line, NEW t, t = Onward(s, pos, out, torn, spoilt)
  PROVE  /\ t \in RetainSteps /\ t.op = s.op /\ t.in = s.in /\ t.size = s.size /\ t.pos = pos
         /\ t.cutoff = s.cutoff /\ t.misread = s.misread /\ t.out = out /\ t.spoilt = spoilt
<1> DEFINE Out == Seq(Line)
           Spoilt == SUBSET Line
<1>1. /\ DOMAIN s = {"op", "in", "size", "pos", "cutoff", "misread", "out", "torn", "spoilt"}
      /\ s.op \in {"scan", "rename"} /\ s.in \in Nat \ {0} /\ s.size \in Nat
      /\ s.cutoff \in Int /\ s.misread \in BOOLEAN
  BY RewriteFields
<1>2. /\ DOMAIN t = DOMAIN s
      /\ t.op = s.op /\ t.in = s.in /\ t.size = s.size /\ t.pos = pos
      /\ t.cutoff = s.cutoff /\ t.misread = s.misread /\ t.out = out /\ t.torn = torn
      /\ t.spoilt = spoilt
  BY <1>1 DEF Onward
<1>3. t = [op |-> s.op, in |-> s.in, size |-> s.size, pos |-> pos, cutoff |-> s.cutoff,
           misread |-> s.misread, out |-> out, torn |-> torn, spoilt |-> spoilt]
  <2>1. t = [f \in DOMAIN t |-> t[f]]
    BY DEF Onward
  <2>2. QED
    BY <1>1, <1>2, <2>1
<1>4. t \in RetainSteps
  <2>1. out \in Out /\ spoilt \in Spoilt
    OBVIOUS
  <2> HIDE DEF Out, Spoilt
  <2>2. t \in [op : {"scan", "rename"}, in : Nat \ {0}, size : Nat, pos : Nat, cutoff : Int,
               misread : BOOLEAN, out : Out, torn : BOOLEAN, spoilt : Spoilt]
    BY <1>1, <1>3, <2>1
  <2>3. QED
    BY <2>2 DEF RetainSteps, Out, Spoilt
<1>5. QED
  BY <1>2, <1>4

\* What becomes of the line at hand: it is old, it joins the copy, or it is spoilt.
LEMMA LineTaken ==
  ASSUME Shape, RetainLine
  PROVE  /\ sched \in RetainSteps /\ sched.op = "scan" /\ path # 0 /\ sched.in = path
         /\ files[path] \in Seq(Line) /\ sched.pos < Len(files[path])
         /\ sched' \in RetainSteps /\ sched'.op = "scan" /\ sched'.in = path
         /\ sched'.size = sched.size /\ sched'.pos = sched.pos + 1
         /\ sched'.cutoff = sched.cutoff /\ sched'.misread = sched.misread
         /\ LET line == files[path][sched.pos + 1]
            IN  \/ /\ line.day <= sched.cutoff
                   /\ sched'.out = sched.out /\ sched'.spoilt = sched.spoilt
                \/ sched'.out = Append(sched.out, line) /\ sched'.spoilt = sched.spoilt
                \/ sched'.out = sched.out /\ sched'.spoilt = sched.spoilt \union {line}
<1>1. /\ sched \in RetainSteps /\ sched.op = "scan" /\ path # 0 /\ sched.in = path
      /\ sched.pos < Len(files[path])
  BY SchedKinds DEF RetainLine, Shape, Rewriting
<1>2. files[path] \in Seq(Line)
  BY <1>1, RewrittenFile
<1> DEFINE line == files[path][sched.pos + 1]
           Step(out, torn, spoilt) == Onward(sched, sched.pos + 1, out, torn, spoilt)
<1>3. /\ sched.pos + 1 \in Nat /\ sched.out \in Seq(Line) /\ sched.torn \in BOOLEAN
      /\ sched.spoilt \in SUBSET Line
  BY <1>1, RewriteFields
<1>4. line \in Line
  BY <1>1, <1>2, RewriteFields
<1> HIDE DEF line
<1>5. Append(sched.out, line) \in Seq(Line) /\ sched.spoilt \union {line} \in SUBSET Line
  BY <1>3, <1>4
<1>6. \/ line.day <= sched.cutoff /\ sched' = Step(sched.out, sched.torn, sched.spoilt)
      \/ sched' = Step(Append(sched.out, line), sched.torn, sched.spoilt)
      \/ \E torn \in BOOLEAN : sched' = Step(sched.out, torn, sched.spoilt \union {line})
  <2> DEFINE next == [sched EXCEPT !.pos = @ + 1]
  <2>1. DOMAIN sched = {"op", "in", "size", "pos", "cutoff", "misread", "out", "torn", "spoilt"}
    BY <1>1, RewriteFields
  <2>2. /\ next = Step(sched.out, sched.torn, sched.spoilt)
        /\ [next EXCEPT !.out = Append(@, line)]
             = Step(Append(sched.out, line), sched.torn, sched.spoilt)
        /\ \A torn : [next EXCEPT !.torn = torn, !.spoilt = @ \union {line}]
                      = Step(sched.out, torn, sched.spoilt \union {line})
    BY <2>1 DEF Onward
  <2> HIDE DEF Step
  <2>3. QED
    BY <1>1, <2>2 DEF RetainLine, Goes, line
<1>7. ASSUME NEW out \in Seq(Line), NEW torn \in BOOLEAN, NEW spoilt \in SUBSET Line,
             sched' = Step(out, torn, spoilt)
      PROVE  /\ sched' \in RetainSteps /\ sched'.op = "scan" /\ sched'.in = path
             /\ sched'.size = sched.size /\ sched'.pos = sched.pos + 1
             /\ sched'.cutoff = sched.cutoff /\ sched'.misread = sched.misread
             /\ sched'.out = out /\ sched'.spoilt = spoilt
  BY <1>1, <1>3, <1>7, RewriteGoesOn
<1> HIDE DEF Step
<1>8. CASE line.day <= sched.cutoff /\ sched' = Step(sched.out, sched.torn, sched.spoilt)
  BY <1>1, <1>2, <1>3, <1>7, <1>8 DEF line
<1>9. ASSUME sched' = Step(Append(sched.out, line), sched.torn, sched.spoilt)
      PROVE  /\ sched' \in RetainSteps /\ sched'.op = "scan" /\ sched'.in = path
             /\ sched'.size = sched.size /\ sched'.pos = sched.pos + 1
             /\ sched'.cutoff = sched.cutoff /\ sched'.misread = sched.misread
             /\ sched'.out = Append(sched.out, line) /\ sched'.spoilt = sched.spoilt
  <2> DEFINE copy == Append(sched.out, line)
  <2>1. copy \in Seq(Line) /\ sched' = Step(copy, sched.torn, sched.spoilt)
    BY <1>5, <1>9
  <2> HIDE DEF copy
  <2>2. /\ sched' \in RetainSteps /\ sched'.op = "scan" /\ sched'.in = path
        /\ sched'.size = sched.size /\ sched'.pos = sched.pos + 1
        /\ sched'.cutoff = sched.cutoff /\ sched'.misread = sched.misread
        /\ sched'.out = copy /\ sched'.spoilt = sched.spoilt
    BY <1>3, <1>7, <2>1
  <2>3. QED
    BY <2>2 DEF copy
<1>10. ASSUME NEW torn \in BOOLEAN, sched' = Step(sched.out, torn, sched.spoilt \union {line})
       PROVE  /\ sched' \in RetainSteps /\ sched'.op = "scan" /\ sched'.in = path
              /\ sched'.size = sched.size /\ sched'.pos = sched.pos + 1
              /\ sched'.cutoff = sched.cutoff /\ sched'.misread = sched.misread
              /\ sched'.out = sched.out /\ sched'.spoilt = sched.spoilt \union {line}
  <2> DEFINE spoilt == sched.spoilt \union {line}
  <2>1. spoilt \in SUBSET Line /\ sched' = Step(sched.out, torn, spoilt)
    BY <1>5, <1>10
  <2> HIDE DEF spoilt
  <2>2. /\ sched' \in RetainSteps /\ sched'.op = "scan" /\ sched'.in = path
        /\ sched'.size = sched.size /\ sched'.pos = sched.pos + 1
        /\ sched'.cutoff = sched.cutoff /\ sched'.misread = sched.misread
        /\ sched'.out = sched.out /\ sched'.spoilt = spoilt
    BY <1>3, <1>7, <2>1
  <2>3. QED
    BY <2>2 DEF spoilt
<1>11. QED
  BY <1>1, <1>2, <1>6, <1>8, <1>9, <1>10 DEF line

LEMMA RetentionScheduled ==
  ASSUME Shape, RetainOpen \/ RetainLine \/ RetainEnd
  PROVE  Scheduled
<1>1. ASSUME sched' = Recording("log_retention") PROVE Scheduled
  BY <1>1, ScheduledRecording DEF TaskNames
<1>2. ASSUME NEW s \in RetainSteps, sched' = s, path # 0, s.in = path PROVE Scheduled
  BY <1>2 DEF Scheduled, Scheds
<1>3. CASE RetainOpen
  <2>1. ASSUME NEW days \in Nat, NEW misread \in BOOLEAN, path # 0, sched' = Scan(days, misread)
        PROVE  Scheduled
    <3> DEFINE s == Scan(days, misread)
    <3>1. day - days \in Int /\ <<>> \in Seq(Line)
      BY DayFacts DEF Shape
    <3>2. s \in RetainSteps /\ s.in = path
      BY <2>1, <3>1, RewrittenFile DEF RetainSteps, Scan
    <3> HIDE DEF s
    <3>3. QED
      BY <1>2, <2>1, <3>2 DEF s
  <2>2. RetentionDays \in Nat /\ DefaultDays \in Nat
    BY NumberAssumption
  <2>3. QED
    BY <1>1, <1>3, <2>1, <2>2 DEF RetainOpen
<1>4. CASE RetainLine
  BY <1>2, <1>4, LineTaken
<1>5. CASE RetainEnd
  <2>1. sched \in RetainSteps /\ path # 0 /\ sched.in = path
    BY <1>5, SchedKinds DEF RetainEnd, Shape, Rewriting
  <2>2. [sched EXCEPT !.op = "rename"] \in RetainSteps /\ [sched EXCEPT !.op = "rename"].in = path
    BY <2>1 DEF RetainSteps
  <2>3. QED
    BY <1>1, <1>2, <1>5, <2>1, <2>2 DEF RetainEnd
<1>6. QED
  BY <1>3, <1>4, <1>5

LEMMA OthersScheduled ==
  ASSUME Shape, DailyTasks \/ PlainTask \/ DBBackup \/ MonthStart \/ MonthMail
  PROVE  Scheduled
<1>1. /\ "subscription_grant" \in TaskNames /\ "db_backup" \in TaskNames
      /\ "monthly_email" \in TaskNames
      /\ {"subscription_grant", "channel_health_ping", "stats_snapshot"} \subseteq TaskNames
  BY DEF TaskNames
<1>2. CASE DailyTasks
  BY <1>1, <1>2, ScheduledOp DEF DailyTasks, Idle
<1>3. CASE PlainTask
  BY <1>1, <1>3, ScheduledRecording DEF PlainTask
<1>4. CASE DBBackup
  <2> DEFINE s == [op |-> "backupEnd", day |-> day]
  <2>1. s \in Scheds /\ s.op \notin {"scan", "rename"}
    BY DayFacts DEF Shape, Scheds, BackupSteps
  <2>2. sched' = s \/ sched' = Recording("db_backup") \/ sched' = [op |-> "clean"]
    BY <1>4 DEF DBBackup, BackupOpen, BackupEnd, BackupClean
  <2>3. QED
    BY <1>1, <2>1, <2>2, ScheduledPlain, ScheduledRecording, ScheduledOp
<1>5. CASE MonthStart
  <2> DEFINE s == [op |-> "mail", month |-> Month(day)]
  <2>1. s \in Scheds /\ s.op \notin {"scan", "rename"}
    BY DayFacts DEF Shape, Scheds, MailSteps
  <2>2. sched' = s \/ sched' = [op |-> "idle"]
    BY <1>5 DEF MonthStart, Idle
  <2>3. QED
    BY <2>1, <2>2, ScheduledPlain, ScheduledOp
<1>6. CASE MonthMail
  BY <1>1, <1>6, ScheduledRecording DEF MonthMail
<1>7. QED
  BY <1>2, <1>3, <1>4, <1>5, <1>6

\* What the steps of the scheduler leave alone.
SchedulerStep ==
  \/ DailyTasks \/ PlainTask \/ RecordTask \/ TokenExpiryReminder \/ LogRetention \/ DBBackup
  \/ MonthStart \/ MonthMail

LEMMA SchedulerFrame ==
  ASSUME SchedulerStep
  PROVE  /\ UNCHANGED <<season, day, task, lines, logF, logged, stat, counted, stream, seen, restarts,
                        clear, expiry>>
         /\ ~RetainRename => UNCHANGED <<files, path>>
<1>1. CASE RecordTask
  BY <1>1 DEF RecordTask, RecordSeq, RecordEntry, RecordCount, RecordTrim, logVars, readVars,
              statVars, mailVars, fileVars, clockVars
<1>2. CASE TokenExpiryReminder
  BY <1>2 DEF TokenExpiryReminder, RemindNone, RemindMail, RemindMark, schedOnly, logVars,
              taskVars, mailVars, fileVars
<1>3. CASE LogRetention
  BY <1>3 DEF LogRetention, RetainOpen, RetainLine, RetainEnd, RetainRename, schedOnly, logVars,
              taskVars, mailVars, fileVars
<1>4. CASE DBBackup
  BY <1>4 DEF DBBackup, BackupOpen, BackupEnd, BackupClean, schedOnly, logVars, taskVars, mailVars
<1>5. CASE DailyTasks \/ PlainTask \/ MonthStart \/ MonthMail
  BY <1>5 DEF DailyTasks, PlainTask, MonthStart, MonthMail, schedOnly, logVars, taskVars, mailVars,
              fileVars
<1>6. QED
  BY <1>1, <1>2, <1>3, <1>4, <1>5 DEF SchedulerStep

\* The steps that have nothing to do with the scheduler, a request or the clock.
Aside ==
  \/ \E s \in Streams : StreamConnect(s) \/ StreamOpen(s) \/ StreamRead(s)
  \/ ClearStart \/ ClearEntry \/ ClearEnd
  \/ \E t \in Tokens : RenewToken(t)
  \/ Ready

RequestStep == \E w \in Workers : RequestStart(w) \/ StatDate(w) \/ StatAdd(w) \/ LogAccess(w)

LEMMA NextSteps ==
  ASSUME [Next]_vars
  PROVE  RequestStep \/ SchedulerStep \/ Aside \/ NextDay \/ Restart \/ UNCHANGED vars
BY DEF Next, RequestStep, SchedulerStep, Aside

LEMMA AsideFrame ==
  ASSUME Aside \/ UNCHANGED vars
  PROVE  UNCHANGED <<season, day, task, lines, sched, lastRun, lastMonth, restarts, faults,
                     files, path, logF, logged, stat, counted, reminded, mailed, unmarked, summaries,
                     backups, stored>>
<1>1. CASE \E s \in Streams : StreamConnect(s) \/ StreamOpen(s) \/ StreamRead(s)
  BY <1>1 DEF StreamConnect, StreamOpen, StreamRead, logVars, statVars, taskVars, mailVars,
              fileVars, clockVars
<1>2. CASE ClearStart \/ ClearEntry \/ ClearEnd
  BY <1>2 DEF ClearStart, ClearEntry, ClearEnd, logVars, readVars, statVars, mailVars, fileVars,
              clockVars
<1>3. CASE \E t \in Tokens : RenewToken(t)
  BY <1>3 DEF RenewToken, logVars, readVars, statVars, taskVars, fileVars, clockVars
<1>4. CASE Ready
  BY <1>4 DEF Ready, logVars, readVars, statVars, taskVars, mailVars, fileVars
<1>5. CASE UNCHANGED vars
  BY <1>5 DEF vars
<1>6. QED
  BY <1>1, <1>2, <1>3, <1>4, <1>5 DEF Aside

LEMMA RequestFrame ==
  ASSUME RequestStep
  PROVE  /\ UNCHANGED <<season, day, sched, lastRun, lastMonth, restarts, faults, clear, records, seq,
                        results, disturbed, stream, seen, reminded, expiry, mailed, unmarked,
                        summaries, backups, stored>>
BY DEF RequestStep, RequestStart, StatDate, StatAdd, LogAccess, logVars, readVars, statVars, taskVars,
       mailVars, fileVars, clockVars

\* The tasks of a request.
LEMMA JobKinds ==
  ASSUME NEW t \in Jobs
  PROVE  /\ t.op = "stat" => t.id \in Nat /\ t.day \in Days
         /\ t.op = "count" => t.id \in Nat /\ t.day \in Days /\ t.today \in Days
         /\ t.op = "log" => [id |-> t.id, day |-> t.day] \in Line
BY DEF Jobs, Line

LEMMA JobsMove ==
  ASSUME NEW w \in Workers, NEW t \in Jobs, task \in [Workers -> Jobs],
         task' = [task EXCEPT ![w] = t]
  PROVE  task' \in [Workers -> Jobs]
OBVIOUS

\* A line is appended to a file, which may be a new one.
LEMMA Appended ==
  ASSUME Shape, NEW line \in Line, NEW f,
         \/ f \in 1 .. Len(files) /\ files' = [files EXCEPT ![f] = Append(@, line)]
         \/ f = Len(files) + 1 /\ files' = Append(files, <<line>>)
  PROVE  /\ files' \in Seq(Seq(Line)) /\ Len(files') >= Len(files) /\ f \in 1 .. Len(files')
         /\ \A g \in 1 .. Len(files) : files'[g] = files[g] \/ files'[g] = Append(files[g], line)
<1>1. files \in Seq(Seq(Line)) /\ Len(files) \in Nat
  BY DEF Shape
<1>2. CASE f \in 1 .. Len(files) /\ files' = [files EXCEPT ![f] = Append(@, line)]
  <2>1. files[f] \in Seq(Line)
    BY <1>1, <1>2
  <2>2. Append(files[f], line) \in Seq(Line)
    BY <2>1
  <2>3. files' \in Seq(Seq(Line)) /\ Len(files') = Len(files)
    BY <1>1, <1>2, <2>2
  <2>4. \A g \in 1 .. Len(files) : files'[g] = IF g = f THEN Append(files[f], line) ELSE files[g]
    BY <1>1, <1>2
  <2>5. f \in 1 .. Len(files') /\ Len(files') >= Len(files)
    <3>1. f \in 1 .. Len(files)
      BY <1>2
    <3>2. QED
      BY <1>1, <2>3, <3>1
  <2>6. QED
    BY <2>3, <2>4, <2>5
<1>3. CASE f = Len(files) + 1 /\ files' = Append(files, <<line>>)
  <2>1. <<line>> \in Seq(Line)
    OBVIOUS
  <2>2. files' \in Seq(Seq(Line)) /\ Len(files') = Len(files) + 1
    BY <1>1, <1>3, <2>1
  <2>3. QED
    BY <1>1, <1>3, <2>2
<1>4. QED
  BY <1>2, <1>3

\* Which file a request logs to.
LEMMA LoggedTo ==
  ASSUME Shape, NEW w \in Workers, LogAccess(w)
  PROVE  \E line \in Line, f \in 1 .. Len(files) + 1 :
           /\ task[w].op = "log" /\ line = [id |-> task[w].id, day |-> task[w].day]
           /\ logged' = Append(logged, line) /\ logF' = f
           /\ \/ f \in 1 .. Len(files) /\ files' = [files EXCEPT ![f] = Append(@, line)]
                 /\ path' = path
              \/ f = Len(files) + 1 /\ files' = Append(files, <<line>>)
                 /\ path = 0 /\ logF = 0 /\ path' = f
<1> DEFINE line == [id |-> task[w].id, day |-> task[w].day]
<1>1. task[w].op = "log" /\ task[w] \in Jobs
  BY DEF LogAccess, Shape
<1>2. line \in Line
  BY <1>1, JobKinds
<1>3. Len(files) \in Nat /\ path \in 0 .. Len(files) /\ logF \in 0 .. Len(files)
  BY DEF Shape
<1>4. CASE logF = 0 /\ path = 0
  <2>1. /\ files' = Append(files, <<line>>) /\ path' = Len(files) + 1 /\ logF' = Len(files) + 1
        /\ logged' = Append(logged, line)
    BY <1>4 DEF LogAccess
  <2>2. Len(files) + 1 \in 1 .. Len(files) + 1
    BY <1>3
  <2>3. QED
    BY <1>1, <1>2, <1>4, <2>1, <2>2
<1>5. CASE logF # 0
  <2>1. /\ files' = [files EXCEPT ![logF] = Append(@, line)] /\ path' = path /\ logF' = logF
        /\ logged' = Append(logged, line)
    BY <1>5 DEF LogAccess
  <2>2. logF \in 1 .. Len(files) + 1 /\ logF \in 1 .. Len(files)
    BY <1>3, <1>5
  <2>3. QED
    BY <1>1, <1>2, <2>1, <2>2
<1>6. CASE logF = 0 /\ path # 0
  <2>1. /\ files' = [files EXCEPT ![path] = Append(@, line)] /\ path' = path /\ logF' = path
        /\ logged' = Append(logged, line)
    BY <1>6 DEF LogAccess
  <2>2. path \in 1 .. Len(files) + 1 /\ path \in 1 .. Len(files)
    BY <1>3, <1>6
  <2>3. QED
    BY <1>1, <1>2, <2>1, <2>2
<1>7. QED
  BY <1>4, <1>5, <1>6

LEMMA RequestKeepsShape ==
  ASSUME Shape, RequestStep
  PROVE  Shape'
<1>1. UNCHANGED <<season, day, sched>>
  BY RequestFrame
<1>2. PICK w \in Workers : RequestStart(w) \/ StatDate(w) \/ StatAdd(w) \/ LogAccess(w)
  BY DEF RequestStep
<1>3. task \in [Workers -> Jobs] /\ task[w] \in Jobs /\ lines \in Nat /\ lines + 1 \in Nat
  BY DEF Shape
<1>4. CASE RequestStart(w)
  <2>1. [op |-> "stat", id |-> lines + 1, day |-> day] \in Jobs
    BY <1>3, DayFacts DEF Jobs, Shape
  <2>2. task' \in [Workers -> Jobs] /\ lines' \in Nat /\ UNCHANGED <<files, path, logF>>
    BY <1>3, <1>4, <2>1, JobsMove DEF RequestStart, logVars
  <2>3. QED
    BY <1>1, <2>2 DEF Shape, Rewriting
<1>5. CASE StatDate(w)
  <2>1. [op |-> "count", id |-> task[w].id, day |-> task[w].day, today |-> day] \in Jobs
    BY <1>3, <1>5, JobKinds, DayFacts DEF Jobs, Shape, StatDate
  <2>2. task' \in [Workers -> Jobs] /\ UNCHANGED <<lines, files, path, logF>>
    BY <1>3, <1>5, <2>1, JobsMove DEF StatDate, logVars
  <2>3. QED
    BY <1>1, <2>2 DEF Shape, Rewriting
<1>6. CASE StatAdd(w)
  <2>1. [op |-> "log", id |-> task[w].id, day |-> task[w].day] \in Jobs
    BY <1>3, <1>6, JobKinds DEF Jobs, StatAdd
  <2>2. task' \in [Workers -> Jobs] /\ UNCHANGED <<lines, files, path, logF>>
    BY <1>3, <1>6, <2>1, JobsMove DEF StatAdd, logVars
  <2>3. QED
    BY <1>1, <2>2 DEF Shape, Rewriting
<1>7. CASE LogAccess(w)
  <2>1. Idle \in Jobs
    BY DEF Idle, Jobs
  <2>2. task' \in [Workers -> Jobs] /\ UNCHANGED lines
    BY <1>3, <1>7, <2>1, JobsMove DEF LogAccess
  <2>3. PICK line \in Line, f \in 1 .. Len(files) + 1 :
          /\ logF' = f
          /\ \/ f \in 1 .. Len(files) /\ files' = [files EXCEPT ![f] = Append(@, line)]
                /\ path' = path
             \/ f = Len(files) + 1 /\ files' = Append(files, <<line>>)
                /\ path = 0 /\ logF = 0 /\ path' = f
    BY <1>7, LoggedTo
  <2>4. /\ files' \in Seq(Seq(Line)) /\ Len(files') >= Len(files) /\ f \in 1 .. Len(files')
    BY <2>3, Appended
  <2>5. Len(files) \in Nat /\ Len(files') \in Nat
    BY <2>4 DEF Shape
  <2>6. path' \in 0 .. Len(files') /\ logF' \in 0 .. Len(files')
    <3>1. path \in 0 .. Len(files)
      BY DEF Shape
    <3>2. logF' = f /\ (path' = path \/ path' = f)
      BY <2>3
    <3>3. QED
      BY <2>4, <2>5, <3>1, <3>2
  <2>7. Rewriting' => path' # 0 /\ sched'.in = path'
    BY <1>1, <2>3 DEF Shape, Rewriting
  <2>8. QED
    BY <1>1, <2>2, <2>4, <2>6, <2>7 DEF Shape
<1>8. QED
  BY <1>2, <1>4, <1>5, <1>6, <1>7

LEMMA SchedulerKeepsShape ==
  ASSUME Shape, seq \in Nat, SchedulerStep
  PROVE  Shape'
<1>1. UNCHANGED <<season, day, task, lines, logF>>
  BY SchedulerFrame
<1>2. CASE RetainRename
  <2>1. sched \in RetainSteps /\ sched' = Recording("log_retention")
    BY <1>2, SchedKinds DEF RetainRename, Shape
  <2>2. Scheduled
    BY <2>1, ScheduledRecording DEF TaskNames
  <2>3. ~Rewriting'
    BY <2>1, RecordingPlain DEF Rewriting, TaskNames
  <2>4. /\ files' \in Seq(Seq(Line)) /\ path' \in 0 .. Len(files') /\ logF \in 0 .. Len(files')
    <3>1. sched.out \in Seq(Line) /\ files \in Seq(Seq(Line)) /\ Len(files) \in Nat
      BY <2>1 DEF RetainSteps, Shape
    <3>2. CASE files' = Append(files, sched.out) /\ path' = Len(files) + 1
      <4>1. files' \in Seq(Seq(Line)) /\ Len(files') = Len(files) + 1
        BY <3>1, <3>2
      <4>2. QED
        BY <3>1, <3>2, <4>1 DEF Shape
    <3>3. CASE UNCHANGED <<files, path>>
      BY <3>3 DEF Shape
    <3>4. QED
      BY <1>2, <3>2, <3>3 DEF RetainRename
  <2>5. QED
    BY <1>1, <2>2, <2>3, <2>4 DEF Shape, Scheduled
<1>3. CASE ~RetainRename
  <2>1. UNCHANGED <<files, path>>
    BY <1>3, SchedulerFrame
  <2>2. Scheduled
    BY <1>3, RecordTaskScheduled, ReminderScheduled, RetentionScheduled, OthersScheduled
    DEF SchedulerStep, LogRetention
  <2>3. QED
    BY <1>1, <2>1, <2>2 DEF Shape, Scheduled
<1>4. QED
  BY <1>2, <1>3

LEMMA RestartKeepsShape ==
  ASSUME Shape, Restart
  PROVE  Shape'
<1>1. /\ UNCHANGED <<season, day, lines, files, path>> /\ logF' = 0 /\ sched' = Idle
      /\ task' = [w \in Workers |-> Idle]
  BY DEF Restart
<1>2. Idle \in Jobs /\ Idle \in Scheds /\ Idle.op = "idle"
  BY DEF Idle, Jobs, Scheds, PlainSteps
<1>3. Len(files) \in Nat
  BY DEF Shape
<1>4. ~Rewriting' /\ task' \in [Workers -> Jobs] /\ logF' \in 0 .. Len(files)
  BY <1>1, <1>2, <1>3 DEF Rewriting
<1>5. QED
  BY <1>1, <1>2, <1>4 DEF Shape

LEMMA ShapeInductive == Shape /\ seq \in Nat /\ [Next]_vars => Shape'
<1> SUFFICES ASSUME Shape, seq \in Nat, [Next]_vars PROVE Shape'
  OBVIOUS
<1>1. CASE RequestStep
  BY <1>1, RequestKeepsShape
<1>2. CASE SchedulerStep
  BY <1>2, SchedulerKeepsShape
<1>3. CASE Aside \/ UNCHANGED vars
  BY <1>3, AsideFrame DEF Shape, Rewriting
<1>4. CASE Restart
  BY <1>4, RestartKeepsShape
<1>5. CASE NextDay
  <2>1. /\ UNCHANGED <<season, task, lines, sched, files, path, logF>>
        /\ day' = day + 1 /\ day < season.days
    BY <1>5 DEF NextDay, logVars
  <2>2. day' \in 0 .. season.days
    BY <2>1, DayFacts DEF Shape
  <2>3. QED
    BY <2>1, <2>2 DEF Shape, Rewriting
<1>6. QED
  BY <1>1, <1>2, <1>3, <1>4, <1>5, NextSteps

LEMMA StartShape == Init => Shape
<1>1. SUFFICES ASSUME Init PROVE Shape
  OBVIOUS
<1>2. /\ season \in Seasons /\ day = 0 /\ files = <<>> /\ path = 0 /\ logF = 0 /\ lines = 0
      /\ sched = Idle /\ task = [w \in Workers |-> Idle]
  BY <1>1 DEF Init
<1>3. Idle \in Jobs /\ Idle \in Scheds /\ Idle.op = "idle"
  BY DEF Idle, Jobs, Scheds, PlainSteps
<1>4. day \in 0 .. season.days
  BY <1>2, SeasonAssumption
<1>5. QED
  BY <1>2, <1>3, <1>4 DEF Shape, Rewriting

-------------------------------------------------------------------------------
(* The invariants                                                          *)

\* The KVs that a day's tasks write, and the result each of them holds.  While a record is written it
\* may be one too many, and the last one is not counted yet.
Writing == IF sched.op \in {"recCount", "recTrim"} THEN 1 ELSE 0
Newest  == IF sched.op = "recCount" THEN sched.n ELSE seq

RecordsOK ==
  /\ seq \in Nat /\ results \in Int /\ faults \in Nat /\ restarts \in Nat
  /\ DOMAIN records \subseteq Nat \ {0} /\ IsFiniteSet(DOMAIN records)
  /\ clear.left # {} => clear.on
  /\ Cardinality(DOMAIN records) <= Keep + restarts + faults + Writing

RecordsFollow ==
  ~disturbed /\ ~clear.on =>
    /\ sched.op \in {"recEntry", "recCount"} => sched.n = seq + 1
    /\ \E lo \in 1 .. seq + 1 : DOMAIN records = lo .. Newest
    /\ \A n \in DOMAIN records : records[n] = results - (Newest - n)

\* The counters of the dashboard, and a clock that has not gone back since the start.
DayInv ==
  /\ stat \in [date : Days, req : Nat]
  /\ counted \in [byDay : [Days -> Nat], late : BOOLEAN]
  /\ stat.req <= counted.byDay[stat.date]
  /\ ~counted.late => /\ stat.req = counted.byDay[stat.date]
                      /\ \A d \in Days : d > stat.date => counted.byDay[d] = 0

\* A reminder is sent before its mark: between the two it is not known to be lost.
Marking(t) == sched.op = "mark" /\ Head(sched.left) = t

ReminderInv ==
  /\ mailed \in [Tokens -> Nat] /\ unmarked \in [Tokens -> Nat]
  /\ \A t \in Tokens :
       /\ mailed[t] <= unmarked[t] + (IF t \in reminded \/ Marking(t) THEN 1 ELSE 0)

\* A month is marked before its summary.
Mailing(m) == sched.op = "mail" /\ sched.month = m

SummaryInv ==
  /\ summaries \in [Months -> Nat] /\ restarts \in Nat
  /\ lastMonth \in Int /\ lastMonth <= Month(day)
  /\ sched.op = "mail" => sched.month = lastMonth
  /\ \A m \in Months :
       summaries[m] <= restarts + (IF m <= lastMonth /\ ~Mailing(m) THEN 1 ELSE 0)

BackupInv == stored \subseteq Days /\ LastBackupsKept

\* The days of retention as a rewrite has read them.
DaysRead == IF sched.misread THEN DefaultDays ELSE RetentionDays

\* What a rewrite has read of the log is kept, spoilt or old.
Settled(line, s) == line.day <= s.cutoff \/ line \in Range(s.out) \/ line \in s.spoilt

RewriteInv ==
  Rewriting =>
    /\ sched.size <= Len(files[path]) /\ sched.pos <= Len(files[path])
    /\ sched.cutoff <= day - DaysRead
    /\ sched.op = "rename" => sched.size <= sched.pos
    /\ \A i \in 1 .. sched.pos : Settled(files[path][i], sched)

\* What a stream holds of the only file that it has read.
Byte  == [id : Nat, end : BOOLEAN]
Reads == [on : BOOLEAN, offset : Nat, leftover : Seq(Byte), file : Nat, sent : Seq(Byte)]

Holds(st, file) ==
  /\ st.offset <= Len(Bytes(file))
  /\ st.sent \o st.leftover = SubSeq(Bytes(file), 1, st.offset)
  /\ st.sent # <<>> => Last(st.sent).end

Unread(st) == st.offset = 0 /\ st.leftover = <<>> /\ st.sent = <<>>

StreamInv ==
  /\ stream \in [Streams -> Reads] /\ seen \in [Streams -> SUBSET (1 .. Len(files))]
  /\ \A s \in Streams :
       /\ stream[s].file # 0 => /\ stream[s].file \in seen[s]
                                /\ stream[s].offset <= Len(Bytes(files[stream[s].file]))
       /\ seen[s] # {} => path # 0
       /\ seen[s] = {} => Unread(stream[s])
       /\ \A f \in seen[s] : seen[s] = {f} => Holds(stream[s], files[f])

-------------------------------------------------------------------------------
(* The records of the tasks                                                *)

LEMMA RecordStep ==
  ASSUME Shape, NEW op \in {"recCount", "recTrim"}, sched \in RecordSteps,
         sched' = [sched EXCEPT !.op = op]
  PROVE  sched'.op = op /\ sched'.n = sched.n /\ sched.n \in Nat \ {0}
<1>1. /\ [sched EXCEPT !.op = op].op = op /\ [sched EXCEPT !.op = op].n = sched.n
      /\ sched.n \in Nat \ {0}
  BY DEF RecordSteps
<1>2. QED
  BY <1>1, Zenon

\* The order of the scheduler's steps: what each of them may lead to.
LEMMA OpsAfter ==
  ASSUME Shape
  PROVE  /\ DailyTasks => sched'.op \in {"idle", "subscription_grant"}
         /\ PlainTask => sched'.op = "recSeq"
         /\ RecordSeq => sched'.op = "recEntry"
         /\ RecordEntry => sched'.op = "recCount"
         /\ RecordCount => sched'.op = "recTrim"
         /\ RecordTrim => sched'.op \in {"remind", "idle"} \union TaskNames
         /\ RemindNone \/ RemindMark => sched'.op \in {"log_retention", "remind"}
         /\ RemindMail => sched'.op \in {"remind", "mark"}
         /\ RetainOpen => sched'.op \in {"recSeq", "scan"}
         /\ RetainLine => sched'.op = "scan"
         /\ RetainEnd => sched'.op \in {"recSeq", "rename"}
         /\ RetainRename => sched'.op = "recSeq"
         /\ DBBackup => sched'.op \in {"recSeq", "backupEnd", "clean"}
         /\ MonthStart => sched'.op \in {"idle", "mail"}
         /\ MonthMail => sched'.op = "recSeq"
<1>1. \A t : Recording(t).op = "recSeq"
  BY DEF Recording
<1>2. DailyTasks => sched'.op \in {"idle", "subscription_grant"}
  BY DEF DailyTasks, Idle
<1>3. (PlainTask \/ RetainRename \/ MonthMail) => sched'.op = "recSeq"
  <2>1. (PlainTask \/ RetainRename \/ MonthMail) => \E t : sched' = Recording(t)
    BY DEF PlainTask, RetainRename, MonthMail
  <2>2. QED
    BY <1>1, <2>1
<1>4. RecordSeq => sched'.op = "recEntry"
  BY DEF RecordSeq
<1>5. ASSUME NEW op \in {"recCount", "recTrim"}, sched' = [sched EXCEPT !.op = op],
             sched.op \in {"recEntry", "recCount"}
      PROVE  sched'.op = op
  BY <1>5, SchedKinds, RecordStep DEF Shape
<1>6. RecordEntry => sched'.op = "recCount"
  BY <1>5 DEF RecordEntry
<1>7. RecordCount => sched'.op = "recTrim"
  BY <1>5 DEF RecordCount
<1>8. ASSUME RecordTrim PROVE sched'.op \in {"remind", "idle"} \union TaskNames
  <2>1. sched.name \in TaskNames /\ sched' = After(sched.name)
    BY <1>8, SchedKinds DEF RecordTrim, Shape, RecordSteps
  <2>2. After(sched.name).op \in {"remind", "idle"} \union TaskNames
    BY <2>1 DEF After, NextTask, TaskNames, Reminding
  <2>3. QED
    BY <2>1, <2>2
<1>9. ASSUME NEW op,
             sched' = [sched EXCEPT !.op = op] \/ (sched' = Reminded /\ op = "remind"),
             sched.op \in {"remind", "mark"}
      PROVE  sched'.op = op
  <2>1. sched \in RemindSteps \union MarkSteps
    BY <1>9, SchedKinds DEF Shape
  <2>2. [sched EXCEPT !.op = op].op = op /\ Reminded.op = "remind"
    BY <2>1 DEF Reminded, RemindSteps, MarkSteps
  <2>3. QED
    BY <1>9, <2>2, Zenon
<1>10. ASSUME RemindNone \/ RemindMark PROVE sched'.op \in {"log_retention", "remind"}
  <2>1. sched' = Reminded \/ sched' = [op |-> "log_retention"]
    BY <1>10 DEF RemindNone, RemindMark
  <2>2. sched.op \in {"remind", "mark"}
    BY <1>10 DEF RemindNone, RemindMark
  <2>3. CASE sched' = Reminded
    BY <1>9, <2>2, <2>3
  <2>4. CASE sched' = [op |-> "log_retention"]
    BY <2>4
  <2>5. QED
    BY <2>1, <2>3, <2>4
<1>11. RemindMail => sched'.op \in {"remind", "mark"}
  BY <1>9 DEF RemindMail
<1>12. RetainOpen => sched'.op \in {"recSeq", "scan"}
  BY <1>1 DEF RetainOpen, Scan
<1>13. RetainLine => sched'.op = "scan"
  BY LineTaken
<1>14. ASSUME RetainEnd PROVE sched'.op \in {"recSeq", "rename"}
  <2>1. sched \in RetainSteps
    BY <1>14, SchedKinds DEF RetainEnd, Shape
  <2>2. PICK s : /\ sched' = s
                 /\ s = [sched EXCEPT !.op = "rename"] \/ s = Recording("log_retention")
    BY <1>14 DEF RetainEnd
  <2>3. s.op \in {"recSeq", "rename"}
    BY <1>1, <2>1, <2>2 DEF RetainSteps
  <2>4. QED
    BY <2>2, <2>3
<1>15. DBBackup => sched'.op \in {"recSeq", "backupEnd", "clean"}
  BY <1>1 DEF DBBackup, BackupOpen, BackupEnd, BackupClean
<1>16. MonthStart => sched'.op \in {"idle", "mail"}
  BY DEF MonthStart, Idle
<1>17. QED
  BY <1>2, <1>3, <1>4, <1>6, <1>7, <1>8, <1>10, <1>11, <1>12, <1>13, <1>14, <1>15, <1>16

\* Where the scheduler is when it reminds or rewrites.
LEMMA ReminderOps == TokenExpiryReminder => sched.op \in {"remind", "mark"}
BY DEF TokenExpiryReminder, RemindNone, RemindMail, RemindMark

LEMMA RetentionOps == LogRetention => sched.op \in {"log_retention", "scan", "rename"}
BY DEF LogRetention, RetainOpen, RetainLine, RetainEnd, RetainRename

\* The steps of the scheduler that do not write a record.
LEMMA OtherTasks ==
  ASSUME Shape, SchedulerStep, ~RecordTask, faults \in Nat
  PROVE  /\ UNCHANGED <<records, seq, results, disturbed, clear, restarts>>
         /\ faults' \in Nat /\ faults' >= faults
         /\ ~RecordingNow /\ ~RecordingNow'
<1>1. UNCHANGED <<clear, restarts>>
  BY SchedulerFrame
<1>2. Fault => faults' \in Nat /\ faults' >= faults
  BY DEF Fault
<1>3. UNCHANGED <<records, seq, results, disturbed>> /\ (UNCHANGED faults \/ Fault)
  BY DEF SchedulerStep, DailyTasks, PlainTask, TokenExpiryReminder, RemindNone, RemindMail,
         RemindMark, LogRetention, RetainOpen, RetainLine, RetainEnd, RetainRename, DBBackup,
         BackupOpen, BackupEnd, BackupClean, MonthStart, MonthMail, taskVars
<1>4. ~RecordingNow
  BY ReminderOps, RetentionOps
  DEF SchedulerStep, DailyTasks, PlainTask, DBBackup, BackupOpen, BackupEnd, BackupClean, MonthStart,
      MonthMail, RecordingNow, Idle
<1>5. ~RecordingNow'
  BY OpsAfter DEF RecordingNow, TokenExpiryReminder, LogRetention, SchedulerStep
<1>6. QED
  BY <1>1, <1>2, <1>3, <1>4, <1>5

Records == RecordsOK /\ RecordsFollow

LEMMA RecordsAside ==
  ASSUME Records, UNCHANGED <<records, seq, results, disturbed, clear, restarts>>,
         faults' \in Nat, faults' >= faults,
         UNCHANGED sched \/ (~RecordingNow /\ ~RecordingNow')
  PROVE  Records'
<1>1. Writing' = Writing /\ Newest' = Newest
  BY DEF Writing, Newest, RecordingNow
<1>2. Cardinality(DOMAIN records) \in Nat
  BY FS_CardinalityType DEF Records, RecordsOK
<1>3. RecordsOK'
  BY <1>1, <1>2, NumberAssumption DEF Records, RecordsOK, Writing
<1>4. RecordsFollow'
  BY <1>1 DEF Records, RecordsFollow, RecordingNow
<1>5. QED
  BY <1>3, <1>4 DEF Records

LEMMA RecordSeqKeeps ==
  ASSUME Shape, Records, RecordSeq
  PROVE  Records'
<1>1. /\ sched.op = "recSeq" /\ sched'.op = "recEntry"
      /\ UNCHANGED <<clear, records, seq, results, restarts>>
      /\ \/ sched'.n = seq + 1 /\ disturbed' = (disturbed \/ clear.on) /\ UNCHANGED faults
         \/ sched'.n = 1 /\ disturbed' = TRUE /\ faults' = faults + 1
  BY DEF RecordSeq, clockVars, Fault
<1>2. /\ sched'.op = "recEntry" /\ (disturbed' \/ sched'.n = seq + 1)
  BY <1>1
<1>3. Writing = 0 /\ Writing' = 0 /\ Newest = seq /\ Newest' = seq
  BY <1>1, <1>2 DEF Writing, Newest
<1>4. RecordsOK'
  <2>1. Cardinality(DOMAIN records) \in Nat
    BY FS_CardinalityType DEF Records, RecordsOK
  <2>2. QED
    BY <1>1, <1>3, <2>1, NumberAssumption DEF Records, RecordsOK
<1>5. RecordsFollow'
  BY <1>1, <1>2, <1>3 DEF Records, RecordsFollow
<1>6. QED
  BY <1>4, <1>5 DEF Records

LEMMA RecordEntryKeeps ==
  ASSUME Shape, Records, RecordEntry
  PROVE  Records'
<1>1. /\ sched.op = "recEntry" /\ sched' = [sched EXCEPT !.op = "recCount"]
      /\ results' = results + 1 /\ UNCHANGED <<clear, seq, restarts>>
  BY DEF RecordEntry, clockVars
<1>2. sched \in RecordSteps
  BY <1>1, SchedKinds DEF Shape
<1>3. sched'.op = "recCount" /\ sched'.n = sched.n /\ sched.n \in Nat \ {0}
  BY <1>1, <1>2, RecordStep
<1>4. Writing = 0 /\ Writing' = 1 /\ Newest = seq /\ Newest' = sched.n
  BY <1>1, <1>3 DEF Writing, Newest
<1>5. /\ DOMAIN records \subseteq Nat \ {0} /\ IsFiniteSet(DOMAIN records)
      /\ Cardinality(DOMAIN records) \in Nat /\ results \in Int /\ seq \in Nat
      /\ restarts \in Nat /\ faults \in Nat /\ Keep \in Nat
  BY FS_CardinalityType, NumberAssumption DEF Records, RecordsOK
<1>6. CASE records' = Put(records, sched.n, results + 1) /\ UNCHANGED faults
           /\ disturbed' = (disturbed \/ clear.on)
  <2>1. /\ DOMAIN records' = DOMAIN records \union {sched.n}
        /\ \A n \in DOMAIN records' :
             records'[n] = IF n = sched.n THEN results + 1 ELSE records[n]
    <3> DEFINE kvs == Put(records, sched.n, results + 1)
    <3>1. /\ DOMAIN kvs = DOMAIN records \union {sched.n}
          /\ \A y \in DOMAIN records \union {sched.n} :
               kvs[y] = IF y = sched.n THEN results + 1 ELSE records[y]
      BY DEF Put
    <3>2. records' = kvs
      BY <1>6
    <3> HIDE DEF kvs
    <3>3. QED
      BY <3>1, <3>2
  <2>2. /\ IsFiniteSet(DOMAIN records') /\ Cardinality(DOMAIN records') \in Nat
        /\ Cardinality(DOMAIN records') <= Cardinality(DOMAIN records) + 1
    <3> DEFINE S == DOMAIN records
               T == S \union {sched.n}
    <3>1. IsFiniteSet(S) /\ Cardinality(S) \in Nat
      BY <1>5
    <3> HIDE DEF S
    <3>2. IsFiniteSet(T) /\ Cardinality(T) \in {Cardinality(S), Cardinality(S) + 1}
      BY <3>1, FS_AddElement
    <3> HIDE DEF T
    <3>3. Cardinality(T) \in Nat /\ Cardinality(T) <= Cardinality(S) + 1
      BY <3>1, <3>2
    <3>4. DOMAIN records' = T
      BY <2>1 DEF S, T
    <3>5. QED
      BY <3>2, <3>3, <3>4 DEF S
  <2>3. RecordsOK'
    BY <1>1, <1>3, <1>4, <1>5, <1>6, <2>1, <2>2 DEF Records, RecordsOK
  <2>4. RecordsFollow'
    <3>1. SUFFICES ASSUME ~disturbed, ~clear.on
                   PROVE  /\ sched.n = seq + 1
                          /\ \E lo \in 1 .. seq + 1 : DOMAIN records' = lo .. sched.n
                          /\ \A n \in DOMAIN records' :
                               records'[n] = results' - (sched.n - n)
      BY <1>1, <1>3, <1>4, <1>6 DEF RecordsFollow
    <3>2. /\ sched.n = seq + 1 /\ \E lo \in 1 .. seq + 1 : DOMAIN records = lo .. seq
          /\ \A n \in DOMAIN records : records[n] = results - (seq - n)
      BY <1>1, <1>4, <3>1 DEF Records, RecordsFollow
    <3>3. PICK lo \in 1 .. seq + 1 : DOMAIN records = lo .. seq
      BY <3>2
    <3>4. (lo .. seq) \union {seq + 1} = lo .. seq + 1
      BY <1>5, <3>3
    <3>5. \A n \in DOMAIN records' : records'[n] = results' - (sched.n - n)
      <4> SUFFICES ASSUME NEW n \in DOMAIN records' PROVE records'[n] = results' - (sched.n - n)
        OBVIOUS
      <4>1. n \in Nat
        BY <1>3, <1>5, <2>1
      <4>2. CASE n = sched.n
        BY <1>1, <1>3, <1>5, <2>1, <4>2
      <4>3. CASE n # sched.n
        BY <1>1, <1>3, <1>5, <2>1, <3>2, <4>1, <4>3, SMTT(30)
      <4>4. QED
        BY <4>2, <4>3
    <3>6. QED
      BY <2>1, <3>2, <3>3, <3>4, <3>5
  <2>5. QED
    BY <2>3, <2>4 DEF Records
<1>7. CASE Fault /\ disturbed' = TRUE /\ UNCHANGED records
  <2>1. faults' = faults + 1
    BY <1>7 DEF Fault
  <2>2. RecordsOK'
    BY <1>1, <1>4, <1>5, <1>7, <2>1 DEF Records, RecordsOK
  <2>3. RecordsFollow'
    BY <1>7 DEF RecordsFollow
  <2>4. QED
    BY <2>2, <2>3 DEF Records
<1>8. QED
  BY <1>6, <1>7 DEF RecordEntry

LEMMA RecordCountKeeps ==
  ASSUME Shape, Records, RecordCount
  PROVE  Records'
<1>1. /\ sched.op = "recCount" /\ sched' = [sched EXCEPT !.op = "recTrim"]
      /\ UNCHANGED <<clear, records, results, restarts>>
  BY DEF RecordCount, clockVars
<1>2. sched \in RecordSteps
  BY <1>1, SchedKinds DEF Shape
<1>3. sched'.op = "recTrim" /\ sched'.n = sched.n /\ sched.n \in Nat \ {0}
  BY <1>1, <1>2, RecordStep
<1>4. Writing = 1 /\ Writing' = 1 /\ Newest = sched.n /\ Newest' = seq'
  BY <1>1, <1>3 DEF Writing, Newest
<1>5. /\ Cardinality(DOMAIN records) \in Nat /\ seq \in Nat
      /\ restarts \in Nat /\ faults \in Nat /\ Keep \in Nat
  BY FS_CardinalityType, NumberAssumption DEF Records, RecordsOK
<1>6. CASE seq' = sched.n /\ disturbed' = (disturbed \/ clear.on) /\ UNCHANGED faults
  <2>1. RecordsOK'
    BY <1>1, <1>3, <1>4, <1>6 DEF Records, RecordsOK
  <2>2. RecordsFollow'
    <3>1. SUFFICES ASSUME ~disturbed, ~clear.on
                   PROVE  /\ \E lo \in 1 .. seq' + 1 : DOMAIN records' = lo .. seq'
                          /\ \A n \in DOMAIN records' : records'[n] = results' - (seq' - n)
      BY <1>1, <1>3, <1>4, <1>6 DEF RecordsFollow
    <3>2. /\ sched.n = seq + 1 /\ \E lo \in 1 .. seq + 1 : DOMAIN records = lo .. sched.n
          /\ \A n \in DOMAIN records : records[n] = results - (sched.n - n)
      BY <1>1, <1>4, <3>1 DEF Records, RecordsFollow
    <3>3. 1 .. seq + 1 \subseteq 1 .. seq' + 1
      BY <1>5, <1>6, <3>2
    <3>4. QED
      BY <1>1, <1>6, <3>2, <3>3
  <2>3. QED
    BY <2>1, <2>2 DEF Records
<1>7. CASE Fault /\ disturbed' = TRUE /\ UNCHANGED seq
  <2>1. faults' = faults + 1
    BY <1>7 DEF Fault
  <2>2. RecordsOK'
    BY <1>1, <1>4, <1>5, <1>7, <2>1 DEF Records, RecordsOK
  <2>3. RecordsFollow'
    BY <1>7 DEF RecordsFollow
  <2>4. QED
    BY <2>2, <2>3 DEF Records
<1>8. QED
  BY <1>6, <1>7 DEF RecordCount

LEMMA MinOf ==
  ASSUME NEW S \in SUBSET Nat, S # {}
  PROVE  Min(S) \in S /\ \A y \in S : Min(S) <= y
BY LeastMember DEF Min

LEMMA RestrictTo ==
  ASSUME NEW f, NEW S
  PROVE  DOMAIN Restrict(f, S) = S /\ \A x \in S : Restrict(f, S)[x] = f[x]
BY DEF Restrict

LEMMA RecordTrimKeeps ==
  ASSUME Shape, Records, RecordTrim
  PROVE  Records'
<1>1. /\ sched.op = "recTrim" /\ sched' = After(sched.name)
      /\ UNCHANGED <<clear, seq, results, restarts>>
  BY DEF RecordTrim, clockVars
<1>2. sched \in RecordSteps
  BY <1>1, SchedKinds DEF Shape
<1>3. ~RecordingNow'
  <2>1. sched.name \in TaskNames
    BY <1>2 DEF RecordSteps
  <2>2. After(sched.name).op \notin {"recEntry", "recCount", "recTrim"}
    BY <2>1 DEF After, NextTask, TaskNames, Reminding
  <2>3. QED
    BY <1>1, <2>2 DEF RecordingNow
<1>4. Writing = 1 /\ Writing' = 0 /\ Newest = seq /\ Newest' = seq
  BY <1>1, <1>3 DEF Writing, Newest, RecordingNow
<1>5. /\ DOMAIN records \subseteq Nat \ {0} /\ IsFiniteSet(DOMAIN records)
      /\ Cardinality(DOMAIN records) \in Nat /\ seq \in Nat /\ results \in Int
      /\ restarts \in Nat /\ faults \in Nat /\ Keep \in Nat \ {0}
      /\ Cardinality(DOMAIN records) <= Keep + restarts + faults + 1
  BY <1>4, FS_CardinalityType, NumberAssumption DEF Records, RecordsOK
<1>6. CASE Entries <= Keep /\ UNCHANGED <<records, faults>> /\ disturbed' = (disturbed \/ clear.on)
  <2>1. Cardinality(DOMAIN records) <= Keep
    BY <1>5, <1>6 DEF Entries
  <2>2. RecordsOK'
    BY <1>1, <1>4, <1>5, <1>6, <2>1 DEF Records, RecordsOK
  <2>3. RecordsFollow'
    BY <1>1, <1>3, <1>4, <1>6 DEF Records, RecordsFollow, RecordingNow
  <2>4. QED
    BY <2>2, <2>3 DEF Records
<1>7. CASE Entries > Keep /\ records' = Trimmed /\ UNCHANGED faults
           /\ disturbed' = (disturbed \/ clear.on)
  <2> DEFINE S == DOMAIN records
             least == Min(S)
  <2>1. S \in SUBSET Nat /\ S # {}
    <3>1. Cardinality(S) >= 1
      BY <1>5, <1>7 DEF Entries
    <3>2. QED
      BY <1>5, <3>1, FS_EmptySet
  <2>2. least \in S /\ \A y \in S : least <= y
    BY <2>1, MinOf
  <2>3. DOMAIN records' = S \ {least} /\ \A n \in S \ {least} : records'[n] = records[n]
    BY <1>7, RestrictTo DEF Trimmed
  <2> HIDE DEF least
  <2>4. IsFiniteSet(S \ {least}) /\ Cardinality(S \ {least}) = Cardinality(S) - 1
    <3> HIDE DEF S
    <3>1. IsFiniteSet(S)
      BY <1>5 DEF S
    <3>2. QED
      BY <2>2, <3>1, FS_RemoveElement
  <2>5. RecordsOK'
    <3>1. Cardinality(DOMAIN records') <= Keep + restarts + faults
      BY <1>5, <2>3, <2>4
    <3>2. IsFiniteSet(DOMAIN records') /\ DOMAIN records' \subseteq Nat \ {0}
      BY <1>5, <2>3, <2>4
    <3>3. QED
      BY <1>1, <1>4, <1>5, <1>7, <3>1, <3>2 DEF Records, RecordsOK
  <2>6. RecordsFollow'
    <3>1. SUFFICES ASSUME ~disturbed, ~clear.on
                   PROVE  /\ \E lo \in 1 .. seq + 1 : DOMAIN records' = lo .. seq
                          /\ \A n \in DOMAIN records' : records'[n] = results - (seq - n)
      BY <1>1, <1>3, <1>4, <1>7 DEF RecordsFollow, RecordingNow
    <3>2. /\ \E lo \in 1 .. seq + 1 : S = lo .. seq
          /\ \A n \in S : records[n] = results - (seq - n)
      BY <1>4, <3>1 DEF Records, RecordsFollow
    <3>3. PICK lo \in 1 .. seq + 1 : S = lo .. seq
      BY <3>2
    <3>4. least = lo /\ lo + 1 \in 1 .. seq + 1
      <4>1. lo \in S /\ least \in Nat /\ lo \in Nat
        BY <1>5, <2>1, <2>2, <3>3
      <4>2. least <= lo /\ lo <= least /\ lo <= seq
        BY <1>5, <2>2, <3>3, <4>1
      <4>3. QED
        BY <1>5, <4>1, <4>2
    <3>5. S \ {least} = lo + 1 .. seq
      BY <1>5, <3>3, <3>4
    <3>6. QED
      BY <2>3, <3>2, <3>4, <3>5
  <2>7. QED
    BY <2>5, <2>6 DEF Records
<1>8. CASE Fault /\ disturbed' = TRUE /\ UNCHANGED records
  <2>1. faults' = faults + 1
    BY <1>8 DEF Fault
  <2>2. RecordsOK'
    BY <1>1, <1>4, <1>5, <1>8, <2>1 DEF Records, RecordsOK
  <2>3. RecordsFollow'
    BY <1>8 DEF RecordsFollow
  <2>4. QED
    BY <2>2, <2>3 DEF Records
<1>9. QED
  BY <1>6, <1>7, <1>8 DEF RecordTrim

LEMMA ClearKeeps ==
  ASSUME Shape, Records, ClearStart \/ ClearEntry \/ ClearEnd
  PROVE  Records'
<1>1. /\ UNCHANGED <<sched, faults, results, restarts>>
  BY DEF ClearStart, ClearEntry, ClearEnd, clockVars
<1>2. Writing' = Writing
  BY <1>1 DEF Writing
<1>3. /\ DOMAIN records \subseteq Nat \ {0} /\ IsFiniteSet(DOMAIN records)
      /\ Cardinality(DOMAIN records) \in Nat /\ seq \in Nat /\ results \in Int
      /\ restarts \in Nat /\ faults \in Nat /\ Keep \in Nat \ {0} /\ Writing \in Nat
      /\ Cardinality(DOMAIN records) <= Keep + restarts + faults + Writing
  BY FS_CardinalityType, NumberAssumption DEF Records, RecordsOK, Writing
<1>4. CASE ClearStart
  <2>1. clear'.on /\ UNCHANGED <<records, seq>>
    BY <1>4 DEF ClearStart
  <2>2. QED
    BY <1>1, <1>2, <2>1 DEF Records, RecordsOK, RecordsFollow
<1>5. CASE ClearEntry
  <2>1. PICK n \in clear.left :
          /\ clear' = [clear EXCEPT !.left = @ \ {n}]
          /\ records' = Restrict(records, DOMAIN records \ {n})
          /\ seq' = IF n = 0 THEN 0 ELSE seq
    BY <1>5 DEF ClearEntry
  <2>2. clear.on /\ clear'.on
    BY <1>5, <2>1 DEF ClearEntry, Records, RecordsOK
  <2>3. DOMAIN records' = DOMAIN records \ {n}
    BY <2>1, RestrictTo
  <2>4. /\ IsFiniteSet(DOMAIN records') /\ DOMAIN records' \subseteq Nat \ {0} /\ seq' \in Nat
        /\ Cardinality(DOMAIN records') <= Cardinality(DOMAIN records)
        /\ Cardinality(DOMAIN records') \in Nat
    <3> DEFINE S == DOMAIN records
               T == S \ {n}
    <3>1. IsFiniteSet(S) /\ T \in SUBSET S
      BY <1>3
    <3> HIDE DEF S, T
    <3>2. IsFiniteSet(T) /\ Cardinality(T) \in Nat /\ Cardinality(T) <= Cardinality(S)
      BY <3>1, FS_Subset, FS_CardinalityType
    <3>3. DOMAIN records' = T
      BY <2>3 DEF S, T
    <3>4. QED
      BY <1>3, <2>1, <3>1, <3>2, <3>3 DEF S
  <2>5. RecordsOK' /\ RecordsFollow'
    BY <1>1, <1>2, <1>3, <2>2, <2>4 DEF RecordsOK, RecordsFollow
  <2>6. QED
    BY <2>5 DEF Records
<1>6. CASE ClearEnd
  <2>1. /\ UNCHANGED records /\ clear.left = {} /\ clear' = [clear EXCEPT !.on = FALSE]
        /\ seq' = 0 /\ disturbed' = (DOMAIN records # {} \/ RecordingNow)
    BY <1>6 DEF ClearEnd
  <2>2. clear'.left = {}
    BY <2>1
  <2>3. RecordsOK'
    BY <1>1, <1>2, <1>3, <2>1, <2>2 DEF RecordsOK
  <2>4. RecordsFollow'
    <3>1. SUFFICES ASSUME DOMAIN records = {}, ~RecordingNow
                   PROVE  \E lo \in 1 .. seq' + 1 : DOMAIN records' = lo .. seq'
      BY <1>1, <2>1 DEF RecordsFollow, RecordingNow, Newest
    <3>2. 1 \in 1 .. seq' + 1 /\ DOMAIN records' = 1 .. seq'
      BY <2>1, <3>1
    <3>3. QED
      BY <3>2
  <2>5. QED
    BY <2>3, <2>4 DEF Records
<1>7. QED
  BY <1>4, <1>5, <1>6

LEMMA RestartKeepsRecords ==
  ASSUME Shape, Records, Restart
  PROVE  Records'
<1>1. /\ UNCHANGED <<records, seq, results, faults>> /\ restarts' = restarts + 1 /\ sched' = Idle
      /\ clear' = [NoClear EXCEPT !.count = clear.count]
      /\ disturbed' = (disturbed \/ RecordingNow \/ clear.on)
  BY DEF Restart
<1>2. ~RecordingNow' /\ clear'.left = {}
  BY <1>1 DEF Idle, RecordingNow, NoClear
<1>3. Writing' = 0 /\ Newest' = seq
  BY <1>1, <1>2 DEF Writing, Newest, RecordingNow
<1>4. /\ Cardinality(DOMAIN records) \in Nat /\ restarts \in Nat /\ faults \in Nat /\ Keep \in Nat
      /\ Cardinality(DOMAIN records) <= Keep + restarts + faults + 1
  BY FS_CardinalityType, NumberAssumption DEF Records, RecordsOK, Writing
<1>5. RecordsOK'
  BY <1>1, <1>2, <1>3, <1>4 DEF Records, RecordsOK
<1>6. RecordsFollow'
  <2>1. SUFFICES ASSUME ~disturbed, ~RecordingNow, ~clear.on
                 PROVE  /\ \E lo \in 1 .. seq + 1 : DOMAIN records = lo .. seq
                        /\ \A n \in DOMAIN records : records[n] = results - (seq - n)
    BY <1>1, <1>2, <1>3 DEF RecordsFollow, RecordingNow
  <2>2. Newest = seq
    BY <2>1 DEF Newest, RecordingNow
  <2>3. QED
    BY <2>1, <2>2 DEF Records, RecordsFollow
<1>7. QED
  BY <1>5, <1>6 DEF Records

LEMMA StartRecords == Init => Records
<1>1. SUFFICES ASSUME Init PROVE Records
  OBVIOUS
<1>2. /\ DOMAIN records = {} /\ seq = 0 /\ results = 0 /\ faults = 0 /\ restarts = 0
      /\ clear.left = {} /\ sched.op = "idle"
  BY <1>1 DEF Init, NoClear, Idle
<1>3. Writing = 0 /\ Newest = 0
  BY <1>2 DEF Writing, Newest
<1>4. RecordsOK
  BY <1>2, <1>3, FS_EmptySet, NumberAssumption DEF RecordsOK
<1>5. RecordsFollow
  <2>1. 1 \in 1 .. seq + 1 /\ DOMAIN records = 1 .. Newest
    BY <1>2, <1>3
  <2>2. QED
    BY <1>2, <2>1 DEF RecordsFollow
<1>6. QED
  BY <1>4, <1>5 DEF Records

\* The invariant of the scheduler, on which those of its tasks rest.
Inv == Shape /\ Records

LEMMA RecordsInductive == Inv /\ [Next]_vars => Records'
<1> SUFFICES ASSUME Inv, [Next]_vars PROVE Records'
  OBVIOUS
<1>1. Shape /\ Records /\ faults \in Nat
  BY DEF Inv, Records, RecordsOK
<1>2. CASE RecordTask
  BY <1>1, <1>2, RecordSeqKeeps, RecordEntryKeeps, RecordCountKeeps, RecordTrimKeeps DEF RecordTask
<1>3. CASE SchedulerStep /\ ~RecordTask
  BY <1>1, <1>3, OtherTasks, RecordsAside
<1>4. CASE ClearStart \/ ClearEntry \/ ClearEnd
  BY <1>1, <1>4, ClearKeeps
<1>5. CASE Restart
  BY <1>1, <1>5, RestartKeepsRecords
<1>6. CASE RequestStep
  BY <1>1, <1>6, RequestFrame, RecordsAside
<1>7. CASE \/ \E s \in Streams : StreamConnect(s) \/ StreamOpen(s) \/ StreamRead(s)
           \/ \E t \in Tokens : RenewToken(t)
           \/ Ready \/ NextDay \/ UNCHANGED vars
  <2>1. UNCHANGED <<records, seq, results, disturbed, clear, restarts, faults, sched>>
    BY <1>7 DEF StreamConnect, StreamOpen, StreamRead, RenewToken, Ready, NextDay, vars, taskVars,
                clockVars
  <2>2. QED
    BY <1>1, <2>1, RecordsAside
<1>8. QED
  BY <1>2, <1>3, <1>4, <1>5, <1>6, <1>7, NextSteps DEF Aside

THEOREM Invariant == Spec => []Inv
<1>1. Init => Inv
  BY StartShape, StartRecords DEF Inv
<1>2. Inv /\ [Next]_vars => Inv'
  BY ShapeInductive, RecordsInductive DEF Inv, Records, RecordsOK
<1>3. QED
  BY <1>1, <1>2, PTL DEF Spec

\* The records of the tasks stay within the limit, but for one, and one for each restart and each
\* failure; undisturbed, they are the last results in a row.  recordTask and TasksHandler.
THEOREM TaskRecords == Spec => []RecordsAreNewest
<1>1. Inv => RecordsAreNewest
  <2>1. SUFFICES ASSUME Inv PROVE RecordsAreNewest
    OBVIOUS
  <2>2. /\ Cardinality(DOMAIN records) <= Keep + restarts + faults + Writing
        /\ Cardinality(DOMAIN records) \in Nat /\ Keep \in Nat /\ restarts \in Nat /\ faults \in Nat
        /\ Writing \in {0, 1} /\ seq \in Nat
    BY <2>1, FS_CardinalityType, NumberAssumption DEF Inv, Records, RecordsOK, Writing
  <2>3. ASSUME ~disturbed, ~RecordingNow, ~clear.on, DOMAIN records # {}
        PROVE  /\ DOMAIN records = Min(DOMAIN records) .. seq
               /\ \A n \in DOMAIN records : records[n] = results - (seq - n)
    <3>1. Newest = seq
      BY <2>3 DEF Newest, RecordingNow
    <3>2. /\ \E lo \in 1 .. seq + 1 : DOMAIN records = lo .. seq
          /\ \A n \in DOMAIN records : records[n] = results - (seq - n)
      BY <2>1, <2>3, <3>1 DEF Inv, Records, RecordsFollow
    <3>3. PICK lo \in 1 .. seq + 1 : DOMAIN records = lo .. seq
      BY <3>2
    <3> DEFINE least == Min(DOMAIN records)
    <3>4. DOMAIN records \in SUBSET Nat
      BY <2>1 DEF Inv, Records, RecordsOK
    <3>5. least \in DOMAIN records /\ \A y \in DOMAIN records : least <= y
      BY <2>3, <3>4, MinOf
    <3> HIDE DEF least
    <3>6. lo \in DOMAIN records /\ least \in Nat /\ lo \in Nat
      BY <2>2, <2>3, <3>3, <3>4, <3>5
    <3>7. least = lo
      BY <3>3, <3>5, <3>6
    <3>8. QED
      BY <3>2, <3>3, <3>7 DEF least
  <2>4. QED
    BY <2>2, <2>3 DEF RecordsAreNewest
<1>2. QED
  BY <1>1, Invariant, PTL

-------------------------------------------------------------------------------
(* The dashboard's counters                                                *)

LEMMA DaysAreNumbers == Days \subseteq Nat
<1>1. \A s \in Seasons : s.days \in Nat
  BY SeasonAssumption
<1>2. QED
  BY <1>1 DEF Days

LEMMA StatAddKeeps ==
  ASSUME Shape, DayInv, NEW w \in Workers, StatAdd(w)
  PROVE  DayInv'
<1> DEFINE today == task[w].today
<1>1. today \in Days
  BY JobKinds DEF StatAdd, Shape
<1>2. /\ stat' = [date |-> today, req |-> IF stat.date = today THEN stat.req + 1 ELSE 1]
      /\ counted' = [counted EXCEPT !.byDay[today] = @ + 1, !.late = @ \/ stat.date > today]
  BY DEF StatAdd, Recorded
<1> HIDE DEF today
<1>3. /\ stat.date \in Days /\ stat.req \in Nat /\ counted.byDay \in [Days -> Nat]
      /\ counted.late \in BOOLEAN /\ DOMAIN counted = {"byDay", "late"}
  BY DEF DayInv
<1>4. PICK late \in BOOLEAN : late = (counted.late \/ stat.date > today)
  OBVIOUS
<1> DEFINE byDay == [counted.byDay EXCEPT ![today] = @ + 1]
<1>5. byDay \in [Days -> Nat] /\ \A d \in Days : byDay[d] = counted.byDay[d] + IF d = today THEN 1 ELSE 0
  <2>1. counted.byDay[today] + 1 \in Nat
    BY <1>1, <1>3
  <2>2. byDay \in [Days -> Nat]
    BY <1>3, <2>1
  <2>3. ASSUME NEW d \in Days PROVE byDay[d] = counted.byDay[d] + IF d = today THEN 1 ELSE 0
    BY <1>1, <1>3
  <2>4. QED
    BY <2>2, <2>3
<1>6. counted' = [byDay |-> byDay, late |-> late]
  <2>1. counted = [byDay |-> counted.byDay, late |-> counted.late]
    BY DEF DayInv
  <2>2. QED
    BY <1>2, <1>3, <1>4, <2>1
<1> HIDE DEF byDay
<1>7. counted' \in [byDay : [Days -> Nat], late : BOOLEAN] /\ counted'.byDay = byDay /\ counted'.late = late
  BY <1>5, <1>6
<1>8. stat' \in [date : Days, req : Nat] /\ stat'.date = today
      /\ stat'.req = IF stat.date = today THEN stat.req + 1 ELSE 1
  BY <1>1, <1>2, <1>3
<1>9. stat'.req <= byDay[today]
  BY <1>1, <1>3, <1>5, <1>8 DEF DayInv
<1>10. ASSUME ~late
       PROVE  stat'.req = byDay[today] /\ \A d \in Days : d > today => byDay[d] = 0
  <2>1. /\ ~counted.late /\ ~(stat.date > today) /\ stat.date \in Nat /\ today \in Nat
        /\ Days \subseteq Nat
    BY <1>1, <1>3, <1>4, <1>10, DaysAreNumbers
  <2>2. /\ stat.req = counted.byDay[stat.date]
        /\ \A d \in Days : d > stat.date => counted.byDay[d] = 0
    BY <2>1 DEF DayInv
  <2>3. \A d \in Days : d > today => byDay[d] = 0
    <3> SUFFICES ASSUME NEW d \in Days, d > today PROVE byDay[d] = 0
      OBVIOUS
    <3>1. d > stat.date /\ d # today
      BY <2>1
    <3>2. QED
      BY <1>3, <1>5, <2>2, <3>1
  <2>4. CASE stat.date = today
    BY <1>1, <1>3, <1>5, <1>8, <2>2, <2>3, <2>4
  <2>5. CASE stat.date # today
    <3>1. counted.byDay[today] = 0
      BY <1>1, <2>1, <2>2, <2>5
    <3>2. QED
      BY <1>1, <1>3, <1>5, <1>8, <2>3, <2>5, <3>1
  <2>6. QED
    BY <2>4, <2>5
<1>11. QED
  BY <1>7, <1>8, <1>9, <1>10 DEF DayInv

LEMMA DayFromZero ==
  ASSUME 0 \in Days, stat' = NoStat, counted' = [byDay |-> [d \in Days |-> 0], late |-> FALSE]
  PROVE  DayInv'
<1>1. /\ stat' \in [date : Days, req : Nat] /\ stat'.date = 0 /\ stat'.req = 0
  BY DEF NoStat
<1>2. /\ counted' \in [byDay : [Days -> Nat], late : BOOLEAN]
      /\ \A d \in Days : counted'.byDay[d] = 0
  OBVIOUS
<1>3. QED
  BY <1>1, <1>2 DEF DayInv

\* The dashboard counts the requests of the date, and no more even when one of them comes late.
\* recordStats.
THEOREM Dashboard == Spec => []DayCounted
<1>1. Init => DayInv
  <2>1. SUFFICES ASSUME Init PROVE DayInv
    OBVIOUS
  <2>2. stat = NoStat /\ counted = [byDay |-> [d \in Days |-> 0], late |-> FALSE] /\ 0 \in Days
    BY <2>1, StartShape, DayFacts DEF Init, Shape
  <2>3. /\ stat \in [date : Days, req : Nat] /\ stat.date = 0 /\ stat.req = 0
    BY <2>2 DEF NoStat
  <2>4. /\ counted \in [byDay : [Days -> Nat], late : BOOLEAN]
        /\ \A d \in Days : counted.byDay[d] = 0
    BY <2>2
  <2>5. QED
    BY <2>3, <2>4 DEF DayInv
<1>2. Inv /\ DayInv /\ [Next]_vars => DayInv'
  <2> SUFFICES ASSUME Inv, DayInv, [Next]_vars PROVE DayInv'
    OBVIOUS
  <2>1. Shape
    BY DEF Inv
  <2>2. CASE \E w \in Workers : StatAdd(w)
    BY <2>1, <2>2, StatAddKeeps
  <2>3. CASE Restart
    <3>1. 0 \in Days
      BY <2>1, DayFacts DEF Shape
    <3>2. QED
      BY <2>3, <3>1, DayFromZero DEF Restart
  <2>4. CASE RequestStep /\ ~\E w \in Workers : StatAdd(w)
    BY <2>4 DEF RequestStep, RequestStart, StatDate, LogAccess, statVars, DayInv
  <2>5. CASE SchedulerStep \/ Aside \/ UNCHANGED vars
    BY <2>5, SchedulerFrame, AsideFrame DEF DayInv
  <2>6. CASE NextDay
    BY <2>6 DEF NextDay, statVars, DayInv
  <2>7. QED
    BY <2>2, <2>3, <2>4, <2>5, <2>6, NextSteps
<1>3. DayInv => DayCounted
  BY DEF DayInv, DayCounted
<1>4. QED
  BY <1>1, <1>2, <1>3, Invariant, PTL DEF Spec

-------------------------------------------------------------------------------
(* The copies of the database                                              *)

\* The copy of a day that is written over, or left in part, is not one of those that are promised.
LEMMA BackupWritten ==
  ASSUME BackupInv, NEW d \in Days, NEW v, UNCHANGED <<day, season>>,
         backups' = Put(backups, d, v),
         \/ v = "part" /\ stored' = stored \ {d}
         \/ v = "whole" /\ stored' = stored \union {d}
  PROVE  BackupInv'
<1> DEFINE b == Put(backups, d, v)
<1>1. /\ DOMAIN b = DOMAIN backups \union {d}
      /\ \A y \in DOMAIN backups \union {d} : b[y] = IF y = d THEN v ELSE backups[y]
  BY DEF Put
<1>2. backups' = b
  OBVIOUS
<1> HIDE DEF b
<1>3. stored' \subseteq Days
  BY DEF BackupInv
<1>0. KeptDays' = KeptDays
  BY DEF KeptDays
<1>4. ASSUME NEW e \in stored', e > day - KeptDays
      PROVE  e \in DOMAIN backups' /\ backups'[e] = "whole"
  <2>1. CASE e = d
    BY <1>1, <1>2, <1>4, <2>1
  <2>2. CASE e # d
    <3>1. e \in stored
      BY <1>4, <2>2
    <3>2. e \in DOMAIN backups /\ backups[e] = "whole"
      BY <1>4, <3>1 DEF BackupInv, LastBackupsKept
    <3>3. QED
      BY <1>1, <1>2, <2>2, <3>2
  <2>3. QED
    BY <2>1, <2>2
<1>5. QED
  BY <1>0, <1>3, <1>4 DEF BackupInv, LastBackupsKept

LEMMA KeptDaysNumber == KeptDays \in Int /\ KeptDays <= BackupDays /\ BackupDays \in Nat
BY NumberAssumption DEF KeptDays

LEMMA BackupSteady ==
  ASSUME BackupInv, UNCHANGED <<backups, stored, season>>, UNCHANGED day \/ day' = day + 1,
         day \in Nat
  PROVE  BackupInv'
<1>0. KeptDays' = KeptDays
  BY DEF KeptDays
<1> SUFFICES ASSUME NEW d \in stored, d > day' - KeptDays
             PROVE  d \in DOMAIN backups /\ backups[d] = "whole"
  BY <1>0 DEF BackupInv, LastBackupsKept
<1>1. d \in Nat /\ KeptDays \in Int
  BY DaysAreNumbers, KeptDaysNumber DEF BackupInv
<1>2. d > day - KeptDays
  BY <1>1
<1>3. QED
  BY <1>2 DEF BackupInv, LastBackupsKept

\* Of the days that are kept none is before the instant of a week ago, whatever the hour: west of
\* UTC that instant is less than two days after the start of its day in UTC, elsewhere less than one.
LEMMA KeptAreYoung ==
  ASSUME NEW d \in Nat, NEW now \in Nat, NEW week \in Nat, NEW H \in Nat \ {0},
         NEW hour \in 0 .. H - 1, NEW zone \in Int, -H < zone, zone < H,
         d > now - (IF zone < 0 THEN week - 1 ELSE week)
  PROVE  ~(d * H < (now - week) * H + hour - zone)
<1>1. (now - week + 1) * H = (now - week) * H + H /\ (now - week + 2) * H = (now - week) * H + 2 * H
  OBVIOUS
<1>2. CASE zone < 0
  <2>1. d >= now - week + 2
    BY <1>2
  <2>2. d * H >= (now - week + 2) * H
    <3> DEFINE k == d - (now - week + 2)
    <3>1. k \in Nat /\ d = (now - week + 2) + k
      BY <2>1
    <3>2. k * H >= 0 /\ d * H = (now - week + 2) * H + k * H
      BY <3>1
    <3>3. QED
      BY <3>2
  <2>3. hour - zone < 2 * H
    BY <1>2
  <2>4. QED
    BY <1>1, <2>2, <2>3
<1>3. CASE zone >= 0
  <2>1. d >= now - week + 1
    BY <1>3
  <2>2. d * H >= (now - week + 1) * H
    <3> DEFINE k == d - (now - week + 1)
    <3>1. k \in Nat /\ d = (now - week + 1) + k
      BY <2>1
    <3>2. k * H >= 0 /\ d * H = (now - week + 1) * H + k * H
      BY <3>1
    <3>3. QED
      BY <3>2
  <2>3. hour - zone < H
    BY <1>3
  <2>4. QED
    BY <1>1, <2>2, <2>3
<1>4. QED
  BY <1>2, <1>3

LEMMA BackupCleaned ==
  ASSUME Shape, BackupInv, BackupClean
  PROVE  BackupInv'
<1>1. UNCHANGED <<day, season, stored>>
  BY DEF BackupClean, schedOnly
<1>2. PICK hour \in 0 .. Hours - 1 :
         backups' = Restrict(backups, {d \in DOMAIN backups : ~Old(d, hour)})
  BY DEF BackupClean
<1>3. /\ DOMAIN backups' = {d \in DOMAIN backups : ~Old(d, hour)}
      /\ \A d \in {d \in DOMAIN backups : ~Old(d, hour)} : backups'[d] = backups[d]
  BY <1>2, RestrictTo
<1>4. KeptDays' = KeptDays
  BY <1>1 DEF KeptDays
<1>5. ASSUME NEW d \in stored, d > day - KeptDays
      PROVE  d \in DOMAIN backups' /\ backups'[d] = "whole"
  <2>1. d \in DOMAIN backups /\ backups[d] = "whole"
    BY <1>5 DEF BackupInv, LastBackupsKept
  <2>2. d \in Nat /\ day \in Nat /\ BackupDays \in Nat /\ Hours \in Nat \ {0}
    BY DaysAreNumbers, DayFacts, NumberAssumption DEF BackupInv, Shape
  <2>3. season.zone \in Int /\ -Hours < season.zone /\ season.zone < Hours
    BY SeasonAssumption DEF Shape
  <2>4. ~Old(d, hour)
    BY <1>5, <2>2, <2>3, KeptAreYoung DEF Old, KeptDays
  <2>5. QED
    BY <1>3, <2>1, <2>4
<1>6. QED
  BY <1>1, <1>4, <1>5 DEF BackupInv, LastBackupsKept

\* A copy that was written to the end stays whole for the days it is to be kept, one day less west of
\* UTC, while others are written, fail, are cut by a restart or are cleaned away at any hour.  dbBackup.
THEOREM Backups == Spec => []LastBackupsKept
<1>1. Init => BackupInv
  BY DEF Init, BackupInv, LastBackupsKept
<1>2. Inv /\ BackupInv /\ [Next]_vars => BackupInv'
  <2> SUFFICES ASSUME Inv, BackupInv, [Next]_vars PROVE BackupInv'
    OBVIOUS
  <2>1. Shape /\ day \in Nat /\ day \in Days
    BY DayFacts DEF Inv, Shape
  <2>2. CASE DBBackup
    <3>1. UNCHANGED <<day, season>>
      BY <2>2, SchedulerFrame DEF SchedulerStep
    <3>2. CASE UNCHANGED <<backups, stored>>
      BY <2>1, <3>1, <3>2, BackupSteady
    <3>3. CASE BackupOpen /\ backups' = Put(backups, day, "part") /\ stored' = stored \ {day}
      BY <2>1, <3>1, <3>3, BackupWritten
    <3>4. CASE BackupEnd /\ backups' = Put(backups, sched.day, "whole")
               /\ stored' = stored \union {sched.day}
      <4>1. sched.day \in Days
        BY <2>1, <3>4, SchedKinds DEF BackupEnd, BackupSteps, Shape
      <4>2. QED
        BY <3>1, <3>4, <4>1, BackupWritten
    <3>5. CASE BackupClean
      BY <2>1, <3>5, BackupCleaned
    <3>6. QED
      BY <2>2, <3>2, <3>3, <3>4, <3>5 DEF DBBackup, BackupOpen, BackupEnd
  <2>3. CASE SchedulerStep /\ ~DBBackup
    <3>1. UNCHANGED <<backups, stored>>
      BY <2>3 DEF SchedulerStep, DailyTasks, PlainTask, RecordTask, RecordSeq, RecordEntry,
         RecordCount, RecordTrim, TokenExpiryReminder, RemindNone, RemindMail, RemindMark,
         LogRetention, RetainOpen, RetainLine, RetainEnd, RetainRename, MonthStart, MonthMail,
         fileVars
    <3>2. UNCHANGED <<day, season>>
      BY <2>3, SchedulerFrame
    <3>3. QED
      BY <2>1, <3>1, <3>2, BackupSteady
  <2>4. CASE RequestStep \/ Aside \/ UNCHANGED vars
    BY <2>1, <2>4, RequestFrame, AsideFrame, BackupSteady
  <2>5. CASE NextDay \/ Restart
    BY <2>1, <2>5, BackupSteady DEF NextDay, Restart, fileVars
  <2>6. QED
    BY <2>2, <2>3, <2>4, <2>5, NextSteps
<1>3. BackupInv => LastBackupsKept
  BY DEF BackupInv
<1>4. QED
  BY <1>1, <1>2, <1>3, Invariant, PTL DEF Spec

-------------------------------------------------------------------------------
(* The mails                                                               *)

\* The steps of the scheduler that are not about the reminders.
LEMMA NotReminders ==
  ASSUME Shape, SchedulerStep, ~TokenExpiryReminder
  PROVE  UNCHANGED <<reminded, mailed, unmarked>> /\ sched.op # "mark" /\ sched'.op # "mark"
<1>1. UNCHANGED <<reminded, mailed, unmarked>>
  BY DEF SchedulerStep, DailyTasks, PlainTask, RecordTask, RecordSeq, RecordEntry, RecordCount,
         RecordTrim, LogRetention, RetainOpen, RetainLine, RetainEnd, RetainRename, DBBackup,
         BackupOpen, BackupEnd, BackupClean, MonthStart, MonthMail, mailVars
<1>2. sched.op # "mark"
  BY RetentionOps
  DEF SchedulerStep, DailyTasks, PlainTask, RecordTask, RecordSeq, RecordEntry, RecordCount,
      RecordTrim, DBBackup, BackupOpen, BackupEnd, BackupClean, MonthStart, MonthMail, Idle
<1>3. sched'.op # "mark"
  BY OpsAfter DEF SchedulerStep, RecordTask, LogRetention, TaskNames
<1>4. QED
  BY <1>1, <1>2, <1>3

LEMMA RemindersSteady ==
  ASSUME ReminderInv, UNCHANGED <<reminded, mailed, unmarked>>,
         UNCHANGED sched \/ (sched.op # "mark" /\ sched'.op # "mark")
  PROVE  ReminderInv'
<1>1. \A t \in Tokens : Marking(t)' = Marking(t)
  BY DEF Marking
<1>2. QED
  BY <1>1 DEF ReminderInv

\* A number of a token goes up.
LEMMA OneMore ==
  ASSUME NEW f \in [Tokens -> Nat], NEW u \in Tokens
  PROVE  LET g == [f EXCEPT ![u] = @ + 1]
         IN  g \in [Tokens -> Nat] /\ \A t \in Tokens : g[t] = IF t = u THEN f[t] + 1 ELSE f[t]
<1> DEFINE g == [f EXCEPT ![u] = @ + 1]
<1>1. f[u] + 1 \in Nat
  OBVIOUS
<1>2. g \in [Tokens -> Nat]
  BY <1>1
<1>3. \A t \in Tokens : g[t] = IF t = u THEN f[t] + 1 ELSE f[t]
  OBVIOUS
<1>4. QED
  BY <1>2, <1>3

\* A mail of a token that is marked is one whose mark was not read.
LEMMA RemindMailKeeps ==
  ASSUME Shape, ReminderInv, RemindMail
  PROVE  ReminderInv'
<1> DEFINE u == Head(sched.left)
<1>1. sched \in RemindSteps /\ sched.op = "remind" /\ sched.left # <<>>
  BY SchedKinds DEF RemindMail, Shape
<1>2. u \in Tokens /\ UNCHANGED reminded
  BY <1>1 DEF RemindMail, RemindSteps
<1>3. CASE UNCHANGED <<mailed, unmarked>> /\ sched' = Reminded
  <2>1. Reminded.op = "remind"
    BY <1>1 DEF Reminded, RemindSteps
  <2>2. sched'.op = "remind"
    BY <1>3, <2>1
  <2>3. QED
    BY <1>1, <1>2, <1>3, <2>2, RemindersSteady
<1>4. CASE /\ mailed' = [mailed EXCEPT ![u] = @ + 1] /\ sched' = [sched EXCEPT !.op = "mark"]
           /\ \/ u \notin reminded /\ UNCHANGED unmarked
              \/ u \in reminded /\ unmarked' = [unmarked EXCEPT ![u] = @ + 1]
  <2>1. /\ [sched EXCEPT !.op = "mark"].op = "mark"
        /\ [sched EXCEPT !.op = "mark"].left = sched.left
    BY <1>1 DEF RemindSteps
  <2>2. sched'.op = "mark" /\ Head(sched'.left) = u
    BY <1>4, <2>1, Zenon
  <2> HIDE DEF u
  <2>3. \A t \in Tokens : Marking(t)' <=> t = u
    BY <2>2 DEF Marking
  <2>4. mailed \in [Tokens -> Nat] /\ unmarked \in [Tokens -> Nat]
    BY DEF ReminderInv
  <2>5. /\ mailed' \in [Tokens -> Nat]
        /\ \A t \in Tokens : mailed'[t] = IF t = u THEN mailed[t] + 1 ELSE mailed[t]
    BY <1>2, <1>4, <2>4, OneMore
  <2>6. /\ unmarked' \in [Tokens -> Nat]
        /\ \A t \in Tokens : unmarked'[t] = IF t = u /\ u \in reminded THEN unmarked[t] + 1
                                                                     ELSE unmarked[t]
    BY <1>2, <1>4, <2>4, OneMore
  <2>7. \A t \in Tokens : ~Marking(t)
    BY <1>1 DEF Marking
  <2>8. ASSUME NEW t \in Tokens
        PROVE  mailed'[t] <= unmarked'[t] + (IF t \in reminded \/ t = u THEN 1 ELSE 0)
    <3>1. mailed[t] <= unmarked[t] + (IF t \in reminded THEN 1 ELSE 0)
      BY <2>7 DEF ReminderInv
    <3>2. mailed[t] \in Nat /\ unmarked[t] \in Nat
      BY <2>4
    <3>3. QED
      BY <2>5, <2>6, <3>1, <3>2
  <2>9. QED
    BY <1>2, <2>3, <2>5, <2>6, <2>8 DEF ReminderInv
<1>5. QED
  BY <1>3, <1>4 DEF RemindMail, Due

\* The mark of a reminder is written, or is lost to a failure or a restart.
LEMMA MarkDone ==
  ASSUME Shape, ReminderInv, sched.op = "mark", sched'.op # "mark", UNCHANGED mailed,
         \/ reminded' = reminded \union {Head(sched.left)} /\ UNCHANGED unmarked
         \/ unmarked' = MarkMissed /\ UNCHANGED reminded
  PROVE  ReminderInv'
<1> DEFINE u == Head(sched.left)
<1>1. u \in Tokens
  <2>1. sched.left \in Seq(Tokens) /\ sched.left # <<>>
    BY SchedKinds DEF Shape, MarkSteps
  <2>2. QED
    BY <2>1
<1>2. \A t \in Tokens : (Marking(t) <=> t = u) /\ ~Marking(t)'
  BY DEF Marking
<1>3. mailed \in [Tokens -> Nat] /\ unmarked \in [Tokens -> Nat]
  BY DEF ReminderInv
<1>4. \/ reminded' = reminded \union {u} /\ UNCHANGED unmarked
      \/ u \in reminded /\ UNCHANGED <<reminded, unmarked>>
      \/ unmarked' = [unmarked EXCEPT ![u] = @ + 1] /\ UNCHANGED reminded
  BY DEF MarkMissed
<1> HIDE DEF u
<1>5. \A t \in Tokens : mailed[t] <= unmarked[t] + (IF t \in reminded \/ t = u THEN 1 ELSE 0)
  BY <1>2 DEF ReminderInv
<1>6. CASE \/ reminded' = reminded \union {u} /\ UNCHANGED unmarked
           \/ u \in reminded /\ UNCHANGED <<reminded, unmarked>>
  BY <1>2, <1>3, <1>5, <1>6 DEF ReminderInv
<1>7. CASE unmarked' = [unmarked EXCEPT ![u] = @ + 1] /\ UNCHANGED reminded
  <2>1. /\ unmarked' \in [Tokens -> Nat]
        /\ \A t \in Tokens : unmarked'[t] = IF t = u THEN unmarked[t] + 1 ELSE unmarked[t]
    BY <1>1, <1>3, <1>7, OneMore
  <2>2. ASSUME NEW t \in Tokens
        PROVE  mailed[t] <= unmarked'[t] + (IF t \in reminded THEN 1 ELSE 0)
    <3>1. mailed[t] \in Nat /\ unmarked[t] \in Nat
      BY <1>3
    <3>2. QED
      BY <1>5, <2>1, <3>1
  <2>3. QED
    BY <1>2, <1>3, <1>7, <2>1, <2>2 DEF ReminderInv
<1>8. QED
  BY <1>4, <1>6, <1>7

LEMMA RemindersInductive == Inv /\ ReminderInv /\ [Next]_vars => ReminderInv'
<1> SUFFICES ASSUME Inv, ReminderInv, [Next]_vars PROVE ReminderInv'
  OBVIOUS
<1>1. Shape
  BY DEF Inv
<1>2. CASE SchedulerStep /\ ~TokenExpiryReminder
  BY <1>1, <1>2, NotReminders, RemindersSteady
<1>3. CASE RemindNone
  BY <1>1, <1>3, OpsAfter, RemindersSteady DEF RemindNone, mailVars
<1>4. CASE RemindMail
  BY <1>1, <1>4, RemindMailKeeps
<1>5. CASE RemindMark
  <2>1. sched.op = "mark" /\ UNCHANGED mailed /\ sched'.op # "mark"
    BY <1>1, <1>5, OpsAfter DEF RemindMark
  <2>2. QED
    BY <1>1, <1>5, <2>1, MarkDone DEF RemindMark
<1>6. CASE Restart
  <2>1. sched'.op # "mark" /\ UNCHANGED <<mailed, reminded>>
    BY <1>6 DEF Restart, Idle
  <2>2. CASE sched.op = "mark"
    BY <1>1, <1>6, <2>1, <2>2, MarkDone DEF Restart
  <2>3. CASE sched.op # "mark"
    BY <1>6, <2>1, <2>3, RemindersSteady DEF Restart
  <2>4. QED
    BY <2>2, <2>3
<1>7. CASE RequestStep \/ Aside \/ UNCHANGED vars
  BY <1>7, RequestFrame, AsideFrame, RemindersSteady
<1>8. CASE NextDay
  BY <1>8, RemindersSteady DEF NextDay, mailVars
<1>9. QED
  BY <1>2, <1>3, <1>4, <1>5, <1>6, <1>7, <1>8, NextSteps DEF TokenExpiryReminder

\* Months are numbers, and later days are in later ones.
LEMMA MonthsInOrder ==
  ASSUME NEW d \in Nat
  PROVE  /\ Month(d) \in Nat /\ Month(d + 1) \in Nat
         /\ Month(d) <= Month(d + 1)
<1>1. MonthDays \in Nat \ {0}
  BY NumberAssumption
<1>2. \A m \in Nat \ {0}, e, f \in Nat : e \div m \in Nat /\ (e <= f => e \div m <= f \div m)
  OBVIOUS
<1>3. QED
  BY <1>1, <1>2 DEF Month

\* The steps of the scheduler that are not about the summary.
LEMMA NotSummaries ==
  ASSUME Shape, SchedulerStep, ~MonthStart, ~MonthMail
  PROVE  UNCHANGED <<summaries, lastMonth>> /\ sched.op # "mail" /\ sched'.op # "mail"
<1>1. UNCHANGED <<summaries, lastMonth>>
  BY DEF SchedulerStep, DailyTasks, PlainTask, RecordTask, RecordSeq, RecordEntry, RecordCount,
         RecordTrim, TokenExpiryReminder, RemindNone, RemindMail, RemindMark, LogRetention,
         RetainOpen, RetainLine, RetainEnd, RetainRename, DBBackup, BackupOpen, BackupEnd,
         BackupClean, mailVars, clockVars
<1>2. sched.op # "mail"
  BY ReminderOps, RetentionOps
  DEF SchedulerStep, DailyTasks, PlainTask, RecordTask, RecordSeq, RecordEntry, RecordCount,
      RecordTrim, DBBackup, BackupOpen, BackupEnd, BackupClean, Idle
<1>3. sched'.op # "mail"
  BY OpsAfter DEF SchedulerStep, RecordTask, TokenExpiryReminder, LogRetention, TaskNames
<1>4. QED
  BY <1>1, <1>2, <1>3

LEMMA SummariesSteady ==
  ASSUME Shape, SummaryInv, UNCHANGED <<summaries, lastMonth, restarts>>,
         UNCHANGED day \/ day' = day + 1,
         UNCHANGED sched \/ (sched.op # "mail" /\ sched'.op # "mail")
  PROVE  SummaryInv'
<1>1. \A m : Mailing(m)' = Mailing(m)
  BY DEF Mailing
<1>2. lastMonth <= Month(day')
  <2>1. lastMonth \in Int /\ lastMonth <= Month(day)
    BY DEF SummaryInv
  <2>2. day \in Nat /\ Month(day) \in Nat /\ Month(day + 1) \in Nat /\ Month(day) <= Month(day + 1)
    BY DayFacts, MonthsInOrder DEF Shape
  <2>3. QED
    BY <2>1, <2>2
<1>3. sched'.op = "mail" => sched'.month = lastMonth
  BY DEF SummaryInv
<1>4. \A m \in Months :
        summaries[m] <= restarts + (IF m <= lastMonth /\ ~Mailing(m)' THEN 1 ELSE 0)
  BY <1>1 DEF SummaryInv
<1>5. QED
  BY <1>2, <1>3, <1>4 DEF SummaryInv

LEMMA MonthStartKeeps ==
  ASSUME Shape, SummaryInv, MonthStart
  PROVE  SummaryInv'
<1> DEFINE now == Month(day)
<1>1. /\ sched.op = "monthly_email" /\ lastMonth' = now /\ UNCHANGED <<day, restarts, summaries>>
      /\ sched' = IF lastMonth = now THEN Idle ELSE [op |-> "mail", month |-> now]
  BY DEF MonthStart, schedOnly, mailVars
<1>2. now \in Nat /\ Months \subseteq Nat
  BY DayFacts, DaysAreNumbers, MonthsInOrder DEF Shape, Months
<1>3. lastMonth \in Int /\ lastMonth <= now /\ restarts \in Nat /\ summaries \in [Months -> Nat]
  BY DEF SummaryInv
<1>4. \A m \in Months : summaries[m] <= restarts + (IF m <= lastMonth THEN 1 ELSE 0)
  BY <1>1 DEF SummaryInv, Mailing
<1> HIDE DEF now
<1>5. CASE lastMonth = now
  <2>1. sched'.op = "idle"
    BY <1>1, <1>5 DEF Idle
  <2>2. QED
    BY <1>1, <1>2, <1>3, <1>4, <1>5, <2>1 DEF SummaryInv, Mailing, now
<1>6. CASE lastMonth # now
  <2>1. sched'.op = "mail" /\ sched'.month = now
    BY <1>1, <1>6
  <2>2. ASSUME NEW m \in Months
        PROVE  summaries[m] <= restarts + (IF m <= now /\ m # now THEN 1 ELSE 0)
    <3>1. m \in Nat /\ summaries[m] \in Nat
      BY <1>2, <1>3
    <3>2. m <= lastMonth => m <= now /\ m # now
      BY <1>2, <1>3, <1>6, <3>1
    <3>3. QED
      BY <1>3, <1>4, <3>1, <3>2
  <2>3. \A m \in Months : Mailing(m)' = (m = now)
    BY <2>1 DEF Mailing
  <2>4. \A m \in Months : summaries'[m] <= restarts' + (IF m <= lastMonth' /\ ~Mailing(m)' THEN 1 ELSE 0)
    BY <1>1, <2>2, <2>3
  <2>5. lastMonth' \in Int /\ lastMonth' <= Month(day)' /\ sched'.month = lastMonth'
    BY <1>1, <1>2, <2>1 DEF now
  <2>6. QED
    BY <1>1, <1>3, <2>4, <2>5 DEF SummaryInv
<1>7. QED
  BY <1>5, <1>6

LEMMA MonthMailKeeps ==
  ASSUME Shape, SummaryInv, MonthMail
  PROVE  SummaryInv'
<1>1. PICK month \in Months : month = sched.month /\ sched.op = "mail" /\ lastMonth = month
  BY SchedKinds DEF MonthMail, Shape, MailSteps, SummaryInv
<1>2. /\ summaries' = [summaries EXCEPT ![month] = @ + 1] \/ UNCHANGED summaries
      /\ UNCHANGED <<day, restarts, lastMonth>>
  BY <1>1 DEF MonthMail, schedOnly
<1>3. sched'.op # "mail"
  BY OpsAfter
<1>4. Months \subseteq Nat
  BY DaysAreNumbers, MonthsInOrder DEF Months
<1>5. /\ summaries \in [Months -> Nat] /\ restarts \in Nat /\ lastMonth \in Int
      /\ lastMonth <= Month(day)
  BY DEF SummaryInv
<1>6. \A m \in Months : summaries[m] <= restarts + (IF m <= month /\ m # month THEN 1 ELSE 0)
  BY <1>1 DEF SummaryInv, Mailing
<1>7. /\ summaries' \in [Months -> Nat]
      /\ \A m \in Months : summaries'[m] = summaries[m] \/ (m = month /\ summaries'[m] = summaries[m] + 1)
  <2>1. CASE summaries' = [summaries EXCEPT ![month] = @ + 1]
    <3>1. summaries[month] + 1 \in Nat
      BY <1>5
    <3>2. QED
      BY <1>5, <2>1, <3>1
  <2>2. QED
    BY <1>2, <1>5, <2>1
<1>8. ASSUME NEW m \in Months
      PROVE  summaries'[m] <= restarts + (IF m <= month THEN 1 ELSE 0)
  <2>1. m \in Nat /\ month \in Nat /\ summaries[m] \in Nat
    BY <1>4, <1>5
  <2>2. CASE m = month
    BY <1>5, <1>6, <1>7, <2>1, <2>2
  <2>3. CASE m # month
    BY <1>5, <1>6, <1>7, <2>1, <2>3
  <2>4. QED
    BY <2>2, <2>3
<1>9. QED
  BY <1>1, <1>2, <1>3, <1>5, <1>7, <1>8 DEF SummaryInv, Mailing

LEMMA RestartKeepsSummaries ==
  ASSUME Shape, SummaryInv, Restart
  PROVE  SummaryInv'
<1>1. /\ UNCHANGED <<summaries, day>> /\ restarts' = restarts + 1 /\ lastMonth' = -1
      /\ sched'.op = "idle"
  BY DEF Restart, Idle
<1>2. summaries \in [Months -> Nat] /\ restarts \in Nat /\ Month(day) \in Nat
  BY DayFacts, MonthsInOrder DEF Shape, SummaryInv
<1>3. ASSUME NEW m \in Months PROVE summaries[m] <= restarts + 1
  BY <1>2 DEF SummaryInv
<1>4. \A m \in Months : ~Mailing(m)' /\ m \in Nat
  BY <1>1, DaysAreNumbers, MonthsInOrder DEF Mailing, Months
<1>5. QED
  BY <1>1, <1>2, <1>3, <1>4 DEF SummaryInv

LEMMA SummariesInductive == Inv /\ SummaryInv /\ [Next]_vars => SummaryInv'
<1> SUFFICES ASSUME Inv, SummaryInv, [Next]_vars PROVE SummaryInv'
  OBVIOUS
<1>1. Shape
  BY DEF Inv
<1>2. CASE SchedulerStep /\ ~MonthStart /\ ~MonthMail
  BY <1>1, <1>2, NotSummaries, SchedulerFrame, SummariesSteady
<1>3. CASE MonthStart
  BY <1>1, <1>3, MonthStartKeeps
<1>4. CASE MonthMail
  BY <1>1, <1>4, MonthMailKeeps
<1>5. CASE Restart
  BY <1>1, <1>5, RestartKeepsSummaries
<1>6. CASE RequestStep \/ Aside \/ UNCHANGED vars
  BY <1>1, <1>6, RequestFrame, AsideFrame, SummariesSteady
<1>7. CASE NextDay
  BY <1>1, <1>7, SummariesSteady DEF NextDay, mailVars
<1>8. QED
  BY <1>2, <1>3, <1>4, <1>5, <1>6, <1>7, NextSteps

\* The owner of a token is reminded once, but for the marks that were not written or not read; a
\* start mails at most one summary of a month.  tokenExpiryReminder and runMonthlyTaskIfDue.
THEOREM Mails == Spec => []MailedOnce
<1>1. Init => ReminderInv
  BY DEF Init, ReminderInv, Marking, Idle
<1>2. Init => SummaryInv
  <2>1. SUFFICES ASSUME Init PROVE SummaryInv
    OBVIOUS
  <2>2. /\ summaries = [m \in Months |-> 0] /\ restarts = 0 /\ lastMonth = -1 /\ sched.op = "idle"
    BY <2>1 DEF Init, Idle, Months
  <2>3. Month(day) \in Nat
    BY <2>1, StartShape, DayFacts, MonthsInOrder DEF Shape
  <2>4. \A m \in Months : m \in Nat
    BY DaysAreNumbers, MonthsInOrder DEF Months
  <2>5. QED
    BY <2>2, <2>3, <2>4 DEF SummaryInv
<1>3. ReminderInv /\ SummaryInv => MailedOnce
  <2>1. SUFFICES ASSUME ReminderInv, SummaryInv PROVE MailedOnce
    OBVIOUS
  <2>2. ASSUME NEW t \in Tokens PROVE mailed[t] <= 1 + unmarked[t]
    <3>1. mailed[t] \in Nat /\ unmarked[t] \in Nat
      BY <2>1 DEF ReminderInv
    <3>2. QED
      BY <2>1, <3>1 DEF ReminderInv
  <2>3. ASSUME NEW m \in Months PROVE summaries[m] <= 1 + restarts
    <3>1. summaries[m] \in Nat /\ restarts \in Nat
      BY <2>1 DEF SummaryInv
    <3>2. QED
      BY <2>1, <3>1 DEF SummaryInv
  <2>4. DOMAIN summaries = Months
    BY <2>1 DEF SummaryInv
  <2>5. QED
    BY <2>2, <2>3, <2>4 DEF MailedOnce
<1>4. QED
  BY <1>1, <1>2, <1>3, RemindersInductive, SummariesInductive, Invariant, PTL DEF Spec

-------------------------------------------------------------------------------
(* The retention of the log                                                *)

LEMMA RangeOfAppend ==
  ASSUME NEW s \in Seq(Line), NEW l \in Line
  PROVE  /\ Range(s) \subseteq Range(Append(s, l)) /\ l \in Range(Append(s, l))
<1>1. /\ Append(s, l) \in Seq(Line) /\ Len(Append(s, l)) = Len(s) + 1 /\ Len(s) \in Nat
      /\ Append(s, l)[Len(s) + 1] = l
      /\ \A i \in 1 .. Len(s) : Append(s, l)[i] = s[i]
  OBVIOUS
<1>2. DOMAIN Append(s, l) = 1 .. Len(s) + 1 /\ DOMAIN s = 1 .. Len(s)
  BY <1>1
<1> DEFINE t == Append(s, l)
<1> HIDE DEF t
<1>3. ASSUME NEW i \in DOMAIN s PROVE s[i] \in Range(t)
  <2>1. i \in DOMAIN t /\ t[i] = s[i]
    BY <1>1, <1>2 DEF t
  <2>2. QED
    BY <2>1 DEF Range
<1>4. l \in Range(t)
  <2>1. Len(s) + 1 \in DOMAIN t /\ t[Len(s) + 1] = l
    BY <1>1, <1>2 DEF t
  <2>2. QED
    BY <2>1 DEF Range
<1>5. QED
  BY <1>3, <1>4 DEF Range, t

\* The log at the path only grows while the path stays.
LEMMA LogGrows ==
  ASSUME Shape, Shape', path # 0, UNCHANGED path,
         UNCHANGED files \/ \E w \in Workers : LogAccess(w)
  PROVE  /\ Len(files[path]) \in Nat /\ Len(files'[path]) \in Nat
         /\ Len(files'[path]) >= Len(files[path])
         /\ \A i \in 1 .. Len(files[path]) : files'[path][i] = files[path][i]
<1>1. path \in 1 .. Len(files) /\ files[path] \in Seq(Line) /\ Len(files[path]) \in Nat
  BY RewrittenFile
<1>2. CASE UNCHANGED files
  BY <1>1, <1>2
<1>3. CASE \E w \in Workers : LogAccess(w)
  <2>1. PICK line \in Line : files'[path] = files[path] \/ files'[path] = Append(files[path], line)
    <3>1. PICK line \in Line, f \in 1 .. Len(files) + 1 :
            \/ f \in 1 .. Len(files) /\ files' = [files EXCEPT ![f] = Append(@, line)]
            \/ f = Len(files) + 1 /\ files' = Append(files, <<line>>)
      BY <1>3, LoggedTo
    <3>2. QED
      BY <1>1, <3>1, Appended
  <2>2. CASE files'[path] = files[path]
    BY <1>1, <2>2
  <2>3. CASE files'[path] = Append(files[path], line)
    <3> DEFINE old == files[path]
               new == files'[path]
    <3>1. old \in Seq(Line) /\ new = Append(old, line)
      BY <1>1, <2>3
    <3> HIDE DEF old, new
    <3>2. Len(new) = Len(old) + 1 /\ Len(old) \in Nat /\ \A i \in 1 .. Len(old) : new[i] = old[i]
      BY <3>1
    <3>3. QED
      BY <3>2 DEF old, new
  <2>4. QED
    BY <2>1, <2>2, <2>3
<1>4. QED
  BY <1>2, <1>3

LEMMA DaysReadNumber ==
  ASSUME Shape PROVE DaysRead \in Nat /\ day \in Nat /\ RetentionDays \in Nat /\ DefaultDays \in Nat
BY DayFacts, NumberAssumption DEF Shape, DaysRead

LEMMA RewriteSteady ==
  ASSUME Shape, Shape', RewriteInv, UNCHANGED sched,
         Rewriting => UNCHANGED path,
         UNCHANGED files \/ \E w \in Workers : LogAccess(w),
         UNCHANGED day \/ day' = day + 1
  PROVE  RewriteInv'
<1>0. DaysRead' = DaysRead
  BY DEF DaysRead
<1> SUFFICES ASSUME Rewriting
             PROVE  /\ sched.size <= Len(files'[path]) /\ sched.pos <= Len(files'[path])
                    /\ sched.cutoff <= day' - DaysRead
                    /\ sched.op = "rename" => sched.size <= sched.pos
                    /\ \A i \in 1 .. sched.pos : Settled(files'[path][i], sched)
  BY <1>0 DEF RewriteInv, Rewriting
<1>1. path # 0 /\ UNCHANGED path
  BY DEF Shape
<1>2. /\ Len(files[path]) \in Nat /\ Len(files'[path]) \in Nat
      /\ Len(files'[path]) >= Len(files[path])
      /\ \A i \in 1 .. Len(files[path]) : files'[path][i] = files[path][i]
  BY <1>1, LogGrows
<1>3. sched.size \in Nat /\ sched.pos \in Nat /\ sched.cutoff \in Int
  BY SchedKinds, RewriteFields DEF Shape, Rewriting
<1>4. /\ sched.size <= Len(files[path]) /\ sched.pos <= Len(files[path])
      /\ sched.cutoff <= day - DaysRead
      /\ sched.op = "rename" => sched.size <= sched.pos
      /\ \A i \in 1 .. sched.pos : Settled(files[path][i], sched)
  BY DEF RewriteInv
<1>5. sched.cutoff <= day' - DaysRead
  BY <1>3, <1>4, DaysReadNumber
<1>6. 1 .. sched.pos \subseteq 1 .. Len(files[path])
  BY <1>2, <1>3, <1>4
<1>7. sched.size <= Len(files'[path]) /\ sched.pos <= Len(files'[path])
  BY <1>2, <1>3, <1>4
<1>8. ASSUME NEW i \in 1 .. sched.pos PROVE Settled(files'[path][i], sched)
  BY <1>2, <1>4, <1>6
<1>9. QED
  BY <1>4, <1>5, <1>7, <1>8

LEMMA RetainOpenKeeps ==
  ASSUME Shape, RewriteInv, RetainOpen
  PROVE  RewriteInv'
<1>1. CASE path # 0 /\ sched' \in {Scan(RetentionDays, FALSE), Scan(DefaultDays, TRUE)}
  <2>1. UNCHANGED <<files, path, day>>
    BY DEF RetainOpen, logVars, schedOnly
  <2>2. PICK days \in {RetentionDays, DefaultDays} :
           /\ sched'.op = "scan" /\ sched'.size = Len(files[path]) /\ sched'.pos = 0
           /\ sched'.cutoff = day - days
           /\ days = IF sched'.misread THEN DefaultDays ELSE RetentionDays
    BY <1>1 DEF Scan
  <2>3. Len(files[path]) \in Nat
    BY <1>1, RewrittenFile
  <2>4. day - days \in Int
    BY DaysReadNumber
  <2>5. DaysRead' = days
    BY <2>2 DEF DaysRead
  <2>6. QED
    BY <2>1, <2>2, <2>3, <2>4, <2>5 DEF RewriteInv
<1>2. CASE sched' = Recording("log_retention")
  BY <1>2 DEF RewriteInv, Rewriting, Recording
<1>3. QED
  BY <1>1, <1>2 DEF RetainOpen

LEMMA RetainLineKeeps ==
  ASSUME Shape, RewriteInv, RetainLine
  PROVE  RewriteInv'
<1>1. UNCHANGED <<files, path, day>>
  BY DEF RetainLine, logVars, schedOnly
<1> DEFINE line == files[path][sched.pos + 1]
<1>2. /\ sched \in RetainSteps /\ sched.op = "scan" /\ files[path] \in Seq(Line)
      /\ sched.pos < Len(files[path])
      /\ sched'.op = "scan" /\ sched'.size = sched.size /\ sched'.pos = sched.pos + 1
      /\ sched'.cutoff = sched.cutoff /\ sched'.misread = sched.misread
  BY LineTaken
<1>3. \/ /\ line.day <= sched.cutoff
         /\ sched'.out = sched.out /\ sched'.spoilt = sched.spoilt
      \/ sched'.out = Append(sched.out, line) /\ sched'.spoilt = sched.spoilt
      \/ sched'.out = sched.out /\ sched'.spoilt = sched.spoilt \union {line}
  BY LineTaken
<1>4. /\ sched.pos \in Nat /\ sched.out \in Seq(Line) /\ sched.size \in Nat
      /\ Len(files[path]) \in Nat
  BY <1>2, RewriteFields
<1>5. line \in Line
  BY <1>2, <1>4
<1>6. /\ sched.size <= Len(files[path]) /\ sched.cutoff <= day - DaysRead
      /\ \A i \in 1 .. sched.pos : Settled(files[path][i], sched)
  BY <1>2 DEF RewriteInv, Rewriting
<1> HIDE DEF line
<1>7. /\ Range(sched.out) \subseteq Range(sched'.out) /\ sched.spoilt \subseteq sched'.spoilt
      /\ line.day <= sched.cutoff \/ line \in Range(sched'.out) \/ line \in sched'.spoilt
  <2>1. CASE sched'.out = Append(sched.out, line) /\ sched'.spoilt = sched.spoilt
    BY <1>4, <1>5, <2>1, RangeOfAppend
  <2>2. CASE sched'.out = sched.out
    BY <1>3, <2>2
  <2>3. QED
    BY <1>3, <2>1, <2>2
<1>8. ASSUME NEW i \in 1 .. sched.pos + 1 PROVE Settled(files[path][i], sched')
  <2>1. CASE i \in 1 .. sched.pos
    BY <1>2, <1>6, <1>7, <2>1 DEF Settled
  <2>2. CASE i = sched.pos + 1
    BY <1>2, <1>7, <2>2 DEF Settled, line
  <2>3. QED
    BY <1>4, <2>1, <2>2
<1>9. DaysRead' = DaysRead
  BY <1>2 DEF DaysRead
<1>10. QED
  BY <1>1, <1>2, <1>4, <1>6, <1>8, <1>9 DEF RewriteInv

LEMMA RetainEndKeeps ==
  ASSUME Shape, RewriteInv, RetainEnd
  PROVE  RewriteInv'
<1>1. /\ UNCHANGED <<files, path, day>> /\ sched.op = "scan" /\ path # 0 /\ sched.in = path
      /\ sched \in RetainSteps
  BY SchedKinds DEF RetainEnd, logVars, schedOnly, Shape, Rewriting
<1>2. CASE sched.pos = Len(files[path]) /\ sched' = [sched EXCEPT !.op = "rename"]
  <2> DEFINE s == [sched EXCEPT !.op = "rename"]
  <2>1. /\ s.op = "rename" /\ s.size = sched.size /\ s.pos = sched.pos /\ s.cutoff = sched.cutoff
        /\ s.out = sched.out /\ s.spoilt = sched.spoilt /\ s.misread = sched.misread
    BY <1>1, RewriteFields
  <2>2. sched' = s
    BY <1>2
  <2> HIDE DEF s
  <2>3. /\ sched'.op = "rename" /\ sched'.size = sched.size /\ sched'.pos = sched.pos
        /\ sched'.cutoff = sched.cutoff /\ DaysRead' = DaysRead
        /\ sched'.out = sched.out /\ sched'.spoilt = sched.spoilt
    BY <2>1, <2>2 DEF DaysRead
  <2>4. /\ sched.size <= Len(files[path]) /\ sched.pos <= Len(files[path])
        /\ sched.cutoff <= day - DaysRead
        /\ \A i \in 1 .. sched.pos : Settled(files[path][i], sched)
    BY <1>1 DEF RewriteInv, Rewriting
  <2>5. \A i \in 1 .. sched.pos : Settled(files[path][i], sched')
    BY <2>3, <2>4 DEF Settled
  <2>6. QED
    BY <1>1, <1>2, <2>3, <2>4, <2>5 DEF RewriteInv
<1>3. CASE sched' = Recording("log_retention")
  BY <1>3 DEF RewriteInv, Rewriting, Recording
<1>4. QED
  BY <1>1, <1>2, <1>3 DEF RetainEnd

LEMMA RewritesInductive == Inv /\ Inv' /\ RewriteInv /\ [Next]_vars => RewriteInv'
<1> SUFFICES ASSUME Inv, Inv', RewriteInv, [Next]_vars PROVE RewriteInv'
  OBVIOUS
<1>1. Shape /\ Shape'
  BY DEF Inv
<1>2. CASE RetainOpen
  BY <1>1, <1>2, RetainOpenKeeps
<1>3. CASE RetainLine
  BY <1>1, <1>3, RetainLineKeeps
<1>4. CASE RetainEnd
  BY <1>1, <1>4, RetainEndKeeps
<1>5. CASE SchedulerStep /\ ~RetainOpen /\ ~RetainLine /\ ~RetainEnd
  <2>1. sched'.op \notin {"scan", "rename"}
    BY <1>1, <1>5, OpsAfter DEF SchedulerStep, RecordTask, LogRetention, TokenExpiryReminder,
       TaskNames
  <2>2. QED
    BY <2>1 DEF RewriteInv, Rewriting
<1>6. CASE \E w \in Workers : LogAccess(w)
  <2>1. UNCHANGED <<sched, day>>
    BY <1>6, RequestFrame DEF RequestStep
  <2>2. Rewriting => UNCHANGED path
    BY <1>1, <1>6, LoggedTo DEF Shape
  <2>3. QED
    BY <1>1, <1>6, <2>1, <2>2, RewriteSteady
<1>7. CASE \E w \in Workers : RequestStart(w) \/ StatDate(w) \/ StatAdd(w)
  <2>1. UNCHANGED <<sched, day, files, path>>
    BY <1>7 DEF RequestStart, StatDate, StatAdd, logVars, clockVars
  <2>2. QED
    BY <1>1, <2>1, RewriteSteady
<1>8. CASE Aside \/ UNCHANGED vars
  BY <1>1, <1>8, AsideFrame, RewriteSteady
<1>9. CASE NextDay
  BY <1>1, <1>9, RewriteSteady DEF NextDay, logVars
<1>10. CASE Restart
  BY <1>10 DEF Restart, RewriteInv, Rewriting, Idle
<1>11. QED
  BY <1>2, <1>3, <1>4, <1>5, <1>6, <1>7, <1>8, <1>9, <1>10, NextSteps DEF RequestStep

\* What a step may take away from the log at its path.
LinesLeave ==
  \A l \in Range(LogAt(path)) \ Range(LogAt(path)') :
    \/ l.day <= day - RetentionDays
    \/ /\ sched.op = "rename"
       /\ \/ l \notin Range(SubSeq(files[sched.in], 1, sched.size))
          \/ l \in sched.spoilt
          \/ sched.misread /\ l.day <= day - DefaultDays

\* A log that only grows loses nothing.
LEMMA NothingLeaves ==
  ASSUME Shape, Shape', path # 0, UNCHANGED path,
         UNCHANGED files \/ \E w \in Workers : LogAccess(w)
  PROVE  LinesLeave
<1> DEFINE old == files[path]
           new == files'[path]
<1>1. LogAt(path) = old /\ LogAt(path)' = new
  BY DEF LogAt
<1>2. /\ Len(old) \in Nat /\ Len(new) \in Nat /\ Len(new) >= Len(old)
      /\ \A i \in 1 .. Len(old) : new[i] = old[i]
  BY LogGrows
<1>3. old \in Seq(Line)
  BY RewrittenFile
<1>4. new \in Seq(Line)
  <2>1. files' \in Seq(Seq(Line)) /\ path' \in 0 .. Len(files') /\ path' = path
    BY DEF Shape
  <2>2. path \in 1 .. Len(files')
    BY <2>1
  <2>3. QED
    BY <2>1, <2>2
<1> HIDE DEF old, new
<1>5. DOMAIN old = 1 .. Len(old) /\ DOMAIN new = 1 .. Len(new)
  BY <1>3, <1>4
<1>6. ASSUME NEW i \in DOMAIN old PROVE old[i] \in Range(new)
  <2>1. i \in DOMAIN new /\ new[i] = old[i]
    BY <1>2, <1>5
  <2>2. QED
    BY <2>1 DEF Range
<1>7. Range(old) \ Range(new) = {}
  BY <1>6 DEF Range
<1>8. QED
  BY <1>1, <1>7 DEF LinesLeave

LEMMA NothingToLeave ==
  ASSUME path = 0
  PROVE  LinesLeave
<1>1. Range(LogAt(path)) = {}
  BY DEF LogAt, Range
<1>2. QED
  BY <1>1 DEF LinesLeave

\* The copy lacks only lines that are old or spoilt, or that came after the rewrite had begun.
LEMMA RenamedLog ==
  ASSUME Shape, RewriteInv, sched.op = "rename", files' = Append(files, sched.out),
         path' = Len(files) + 1
  PROVE  LinesLeave
<1> DEFINE old == files[path]
<1>1. path # 0 /\ sched.in = path /\ sched \in RetainSteps
  BY SchedKinds DEF Shape, Rewriting
<1>2. LogAt(path) = old /\ old \in Seq(Line)
  BY <1>1, RewrittenFile DEF LogAt
<1>3. LogAt(path)' = sched.out
  <2>1. files \in Seq(Seq(Line)) /\ Len(files) \in Nat /\ sched.out \in Seq(Line)
    BY <1>1 DEF Shape, RetainSteps
  <2>2. Append(files, sched.out)[Len(files) + 1] = sched.out
    BY <2>1
  <2>3. Len(files) + 1 # 0
    BY <2>1
  <2>4. QED
    BY <2>2, <2>3 DEF LogAt
<1>4. /\ sched.size <= Len(old) /\ sched.cutoff <= day - DaysRead /\ sched.size <= sched.pos
      /\ \A i \in 1 .. sched.pos : Settled(old[i], sched)
  BY DEF RewriteInv, Rewriting
<1> HIDE DEF old
<1>5. /\ sched.size \in Nat /\ sched.pos \in Nat /\ sched.cutoff \in Int
      /\ day \in Nat /\ RetentionDays \in Nat /\ DefaultDays \in Nat /\ sched.misread \in BOOLEAN
  BY <1>1, DaysReadNumber, RewriteFields
<1>6. ASSUME NEW i \in 1 .. Len(old), old[i] \notin Range(sched.out), old[i] \notin sched.spoilt,
             ~(old[i].day <= day - DaysRead)
      PROVE  old[i] \notin Range(SubSeq(old, 1, sched.size))
  <2>1. SUFFICES ASSUME NEW j \in DOMAIN SubSeq(old, 1, sched.size),
                        SubSeq(old, 1, sched.size)[j] = old[i]
                 PROVE  FALSE
    BY DEF Range
  <2>2. /\ DOMAIN SubSeq(old, 1, sched.size) = 1 .. sched.size
        /\ \A k \in 1 .. sched.size : SubSeq(old, 1, sched.size)[k] = old[k]
    BY <1>2, <1>4, <1>5
  <2>3. j \in 1 .. sched.pos /\ old[j] = old[i]
    BY <1>4, <1>5, <2>1, <2>2
  <2>4. old[i] \in Line
    BY <1>2
  <2>5. old[i].day \in Nat
    BY <2>4, DaysAreNumbers DEF Line
  <2>6. old[i].day <= sched.cutoff
    BY <1>4, <1>6, <2>3 DEF Settled
  <2>7. QED
    BY <1>4, <1>5, <1>6, <2>5, <2>6, DaysReadNumber
<1>7. DOMAIN old = 1 .. Len(old)
  BY <1>2
<1>8. files[sched.in] = old
  BY <1>1 DEF old
<1>9. ASSUME NEW l \in Range(old), l \notin Range(sched.out)
      PROVE  \/ l.day <= day - RetentionDays
             \/ l \notin Range(SubSeq(old, 1, sched.size))
             \/ l \in sched.spoilt
             \/ sched.misread /\ l.day <= day - DefaultDays
  <2>1. PICK i \in 1 .. Len(old) : l = old[i]
    BY <1>7 DEF Range
  <2>2. CASE l.day <= day - DaysRead
    BY <1>5, <2>2 DEF DaysRead
  <2>3. CASE ~(l.day <= day - DaysRead)
    BY <1>6, <1>9, <2>1, <2>3
  <2>4. QED
    BY <2>2, <2>3
<1>10. QED
  BY <1>2, <1>3, <1>8, <1>9 DEF LinesLeave

\* A line leaves the log at its path only when it is old, came after a rewrite had begun or was spoilt
\* by a write that failed, however requests, midnight, failures and restarts come between the steps
\* of the rewrite.  logRetention.
THEOREM Retention == Spec => LinesLeaveByAge
<1>1. Init => RewriteInv
  BY DEF Init, RewriteInv, Rewriting, Idle
<1>2. Inv /\ Inv' /\ RewriteInv /\ [Next]_vars => LinesLeave
  <2> SUFFICES ASSUME Inv, Inv', RewriteInv, [Next]_vars PROVE LinesLeave
    OBVIOUS
  <2>1. Shape /\ Shape'
    BY DEF Inv
  <2>2. CASE path = 0
    BY <2>2, NothingToLeave
  <2>3. CASE path # 0 /\ ~RetainRename
    <3>1. UNCHANGED path /\ (UNCHANGED files \/ \E w \in Workers : LogAccess(w))
      <4>1. CASE SchedulerStep
        BY <2>3, <4>1, SchedulerFrame
      <4>2. CASE \E w \in Workers : LogAccess(w)
        BY <2>1, <2>3, <4>2, LoggedTo
      <4>3. CASE \E w \in Workers : RequestStart(w) \/ StatDate(w) \/ StatAdd(w)
        BY <4>3 DEF RequestStart, StatDate, StatAdd, logVars
      <4>4. CASE Aside \/ UNCHANGED vars
        BY <4>4, AsideFrame
      <4>5. CASE NextDay \/ Restart
        BY <4>5 DEF NextDay, Restart, logVars
      <4>6. QED
        BY <4>1, <4>2, <4>3, <4>4, <4>5, NextSteps DEF RequestStep
    <3>2. QED
      BY <2>1, <2>3, <3>1, NothingLeaves
  <2>4. CASE path # 0 /\ RetainRename
    <3>1. CASE UNCHANGED <<files, path>>
      BY <2>1, <2>4, <3>1, NothingLeaves
    <3>2. CASE files' = Append(files, sched.out) /\ path' = Len(files) + 1
      BY <2>1, <2>4, <3>2, RenamedLog DEF RetainRename
    <3>3. QED
      BY <2>4, <3>1, <3>2 DEF RetainRename
  <2>5. QED
    BY <2>2, <2>3, <2>4
<1>3. LinesLeaveByAge <=> [][LinesLeave]_vars
  BY PTL DEF LinesLeaveByAge, LinesLeave
<1>4. QED
  BY <1>1, <1>2, <1>3, RewritesInductive, Invariant, PTL DEF Spec

-------------------------------------------------------------------------------
(* The live stream                                                         *)

LEMMA BytesOf ==
  ASSUME NEW ls \in Seq(Line)
  PROVE  /\ Bytes(ls) \in Seq(Byte) /\ Len(Bytes(ls)) = 2 * Len(ls) /\ Len(ls) \in Nat
         /\ Len(Bytes(ls)) \in Nat
<1>1. Len(ls) \in Nat /\ 2 * Len(ls) \in Nat
  OBVIOUS
<1>2. ASSUME NEW i \in 1 .. 2 * Len(ls)
      PROVE  [id |-> ls[(i + 1) \div 2].id, end |-> i % 2 = 0] \in Byte
  <2>1. (i + 1) \div 2 \in 1 .. Len(ls)
    BY <1>1
  <2>2. ls[(i + 1) \div 2] \in Line
    BY <2>1
  <2>3. ls[(i + 1) \div 2].id \in Nat
    BY <2>2 DEF Line
  <2>4. (i % 2 = 0) \in BOOLEAN
    OBVIOUS
  <2>5. QED
    BY <2>3, <2>4 DEF Byte
<1>3. Bytes(ls) \in [1 .. 2 * Len(ls) -> Byte]
  BY <1>2 DEF Bytes
<1>4. QED
  BY <1>1, <1>3

LEMMA BytesKept ==
  ASSUME NEW ls \in Seq(Line), NEW l \in Line, NEW n \in 0 .. Len(Bytes(ls))
  PROVE  /\ Len(Bytes(Append(ls, l))) >= Len(Bytes(ls))
         /\ SubSeq(Bytes(Append(ls, l)), 1, n) = SubSeq(Bytes(ls), 1, n)
<1> DEFINE ms == Append(ls, l)
           b == Bytes(ls)
           c == Bytes(ms)
<1>1. ms \in Seq(Line) /\ Len(ms) = Len(ls) + 1 /\ \A i \in 1 .. Len(ls) : ms[i] = ls[i]
  OBVIOUS
<1> HIDE DEF ms
<1>2. /\ b \in Seq(Byte) /\ Len(b) = 2 * Len(ls) /\ Len(ls) \in Nat
      /\ c \in Seq(Byte) /\ Len(c) = 2 * Len(ms)
  BY <1>1, BytesOf
<1>3. ASSUME NEW i \in 1 .. Len(b) PROVE c[i] = b[i]
  <2>1. (i + 1) \div 2 \in 1 .. Len(ls)
    BY <1>2
  <2>2. i \in 1 .. 2 * Len(ls) /\ i \in 1 .. 2 * Len(ms)
    BY <1>1, <1>2
  <2>3. ms[(i + 1) \div 2] = ls[(i + 1) \div 2]
    BY <1>1, <2>1
  <2>4. QED
    BY <2>2, <2>3 DEF Bytes
<1> HIDE DEF b, c
<1>4. Len(c) >= Len(b) /\ Len(b) \in Nat /\ n \in 0 .. Len(b)
  BY <1>1, <1>2 DEF b
<1>5. /\ SubSeq(c, 1, n) \in Seq(Byte) /\ Len(SubSeq(c, 1, n)) = n
      /\ \A i \in 1 .. n : SubSeq(c, 1, n)[i] = c[i]
      /\ SubSeq(b, 1, n) \in Seq(Byte) /\ Len(SubSeq(b, 1, n)) = n
      /\ \A i \in 1 .. n : SubSeq(b, 1, n)[i] = b[i]
  BY <1>2, <1>4
<1>6. SubSeq(c, 1, n) = SubSeq(b, 1, n)
  BY <1>3, <1>4, <1>5
<1>7. QED
  BY <1>4, <1>6 DEF b, c, ms

\* Sequences put together.
LEMMA Regrouped ==
  ASSUME NEW s \in Seq(Byte), NEW t \in Seq(Byte), NEW u \in Seq(Byte)
  PROVE  s \o (t \o u) = (s \o t) \o u
OBVIOUS

LEMMA Extended ==
  ASSUME NEW b \in Seq(Byte), NEW m \in 0 .. Len(b), NEW n \in m .. Len(b)
  PROVE  SubSeq(b, 1, m) \o SubSeq(b, m + 1, n) = SubSeq(b, 1, n)
OBVIOUS

LEMMA Rejoined ==
  ASSUME NEW s \in Seq(Byte), NEW data \in Seq(Byte), NEW cut \in 0 .. Len(data)
  PROVE  (s \o SubSeq(data, 1, cut)) \o SubSeq(data, cut + 1, Len(data)) = s \o data
<1>1. Len(data) \in cut .. Len(data)
  OBVIOUS
<1>2. SubSeq(data, 1, cut) \o SubSeq(data, cut + 1, Len(data)) = SubSeq(data, 1, Len(data))
  BY <1>1, Extended
<1>3. SubSeq(data, 1, Len(data)) = data
  OBVIOUS
<1>4. SubSeq(data, 1, cut) \in Seq(Byte) /\ SubSeq(data, cut + 1, Len(data)) \in Seq(Byte)
  OBVIOUS
<1> DEFINE t == SubSeq(data, 1, cut)
           u == SubSeq(data, cut + 1, Len(data))
<1>5. t \in Seq(Byte) /\ u \in Seq(Byte) /\ t \o u = data
  BY <1>2, <1>3, <1>4
<1> HIDE DEF t, u
<1>6. (s \o t) \o u = s \o data
  BY <1>5, Regrouped, ZenonT(60)
<1>7. QED
  BY <1>6 DEF t, u

\* The place of the last newline, or none.
LEMMA LastEndIs ==
  ASSUME NEW b \in Seq(Byte)
  PROVE  LastEnd(b) \in 0 .. Len(b) /\ (LastEnd(b) # 0 => b[LastEnd(b)].end)
<1> DEFINE S == {0} \union {i \in 1 .. Len(b) : b[i].end}
           T == {Len(b) - i : i \in S}
<1>1. Len(b) \in Nat /\ S \subseteq 0 .. Len(b) /\ 0 \in S
  OBVIOUS
<1>2. \E m \in S : \A y \in S : m >= y
  <2> HIDE DEF S
  <2>1. T \subseteq Nat /\ T # {}
    BY <1>1
  <2>2. PICK t \in T : \A u \in T : t <= u
    BY <2>1, LeastMember
  <2>3. PICK m \in S : t = Len(b) - m
    OBVIOUS
  <2>4. ASSUME NEW y \in S PROVE m >= y
    <3>1. Len(b) - m <= Len(b) - y
      BY <2>2, <2>3
    <3>2. QED
      BY <1>1, <3>1
  <2>5. QED
    BY <2>4
<1>3. LastEnd(b) \in S
  <2>1. LastEnd(b) = CHOOSE m \in S : \A y \in S : m >= y
    BY DEF LastEnd, Max
  <2> HIDE DEF S
  <2>2. QED
    BY <1>2, <2>1
<1>4. QED
  BY <1>1, <1>3

\* What a stream holds after a buffer.
LEMMA Delivered ==
  ASSUME NEW st \in Reads, NEW buf \in Seq(Byte)
  PROVE  LET new == Deliver(st, buf)
         IN  /\ new \in Reads /\ new.file = st.file /\ new.offset = st.offset + Len(buf)
             /\ new.sent \o new.leftover = (st.sent \o st.leftover) \o buf
             /\ (st.sent # <<>> => Last(st.sent).end) => (new.sent # <<>> => Last(new.sent).end)
<1> DEFINE data == st.leftover \o buf
           cut == LastEnd(data)
           sent == st.sent \o SubSeq(data, 1, cut)
           left == SubSeq(data, cut + 1, Len(data))
           new == Deliver(st, buf)
<1>1. /\ st.on \in BOOLEAN /\ st.offset \in Nat /\ st.leftover \in Seq(Byte) /\ st.file \in Nat
      /\ st.sent \in Seq(Byte) /\ DOMAIN st = {"on", "offset", "leftover", "file", "sent"}
  BY DEF Reads
<1>2. data \in Seq(Byte) /\ Len(data) \in Nat /\ Len(buf) \in Nat
  BY <1>1
<1> HIDE DEF data
<1>3. cut \in 0 .. Len(data) /\ (cut # 0 => data[cut].end)
  BY <1>2, LastEndIs
<1> HIDE DEF cut
<1>4. /\ SubSeq(data, 1, cut) \in Seq(Byte) /\ Len(SubSeq(data, 1, cut)) = cut
      /\ sent \in Seq(Byte) /\ left \in Seq(Byte)
  BY <1>1, <1>2, <1>3
<1>5. new = [st EXCEPT !.offset = @ + Len(buf), !.sent = sent, !.leftover = left]
  BY DEF Deliver, data, cut
<1>6. sent \o left = st.sent \o data
  BY <1>1, <1>2, <1>3, Rejoined
<1>7. st.sent \o data = (st.sent \o st.leftover) \o buf
  BY <1>1, Regrouped DEF data
<1>8. ASSUME st.sent # <<>> => Last(st.sent).end, sent # <<>>
      PROVE  Last(sent).end
  <2>1. CASE cut = 0
    <3>1. sent = st.sent
      BY <1>1, <1>2, <1>4, <2>1
    <3>2. QED
      BY <1>8, <3>1
  <2>2. CASE cut # 0
    <3>1. Len(sent) = Len(st.sent) + cut /\ Len(st.sent) \in Nat /\ cut \in Nat
      BY <1>1, <1>3, <1>4
    <3>2. sent[Len(sent)] = data[cut]
      BY <1>1, <1>2, <1>3, <1>4, <2>2, <3>1
    <3>3. QED
      BY <1>3, <2>2, <3>2 DEF Last
  <2>3. QED
    BY <2>1, <2>2
<1> HIDE DEF sent, left
<1>9. /\ DOMAIN new = DOMAIN st /\ new.on = st.on /\ new.offset = st.offset + Len(buf)
      /\ new.leftover = left /\ new.file = st.file /\ new.sent = sent
  BY <1>1, <1>5
<1>10. new \in Reads
  <2>1. new = [on |-> st.on, offset |-> st.offset + Len(buf), leftover |-> left,
               file |-> st.file, sent |-> sent]
    <3>1. new = [f \in DOMAIN new |-> new[f]]
      BY <1>5
    <3> HIDE DEF new
    <3>2. QED
      BY <1>1, <1>9, <3>1
  <2> HIDE DEF new
  <2>2. st.offset + Len(buf) \in Nat
    BY <1>1, <1>2
  <2>3. QED
    BY <1>1, <1>4, <2>1, <2>2 DEF Reads
<1>11. QED
  BY <1>6, <1>7, <1>8, <1>9, <1>10

\* Files are only added and appended to, and a log stays at its path.
Grown ==
  /\ Len(files) \in Nat /\ Len(files') \in Nat /\ Len(files') >= Len(files)
  /\ \A f \in 1 .. Len(files) :
       /\ files[f] \in Seq(Line)
       /\ files'[f] = files[f] \/ \E l \in Line : files'[f] = Append(files[f], l)
  /\ path # 0 => path' # 0

LEMMA FilesGrow ==
  ASSUME Shape, [Next]_vars
  PROVE  Grown
<1>1. /\ files \in Seq(Seq(Line)) /\ Len(files) \in Nat
      /\ \A f \in 1 .. Len(files) : files[f] \in Seq(Line)
  BY DEF Shape
<1>2. CASE UNCHANGED <<files, path>>
  BY <1>1, <1>2 DEF Grown
<1>3. CASE \E w \in Workers : LogAccess(w)
  <2>1. PICK line \in Line, f \in 1 .. Len(files) + 1 :
          \/ f \in 1 .. Len(files) /\ files' = [files EXCEPT ![f] = Append(@, line)]
             /\ path' = path
          \/ f = Len(files) + 1 /\ files' = Append(files, <<line>>) /\ path = 0
    BY <1>3, LoggedTo
  <2>2. /\ files' \in Seq(Seq(Line)) /\ Len(files') >= Len(files)
        /\ \A g \in 1 .. Len(files) : files'[g] = files[g] \/ files'[g] = Append(files[g], line)
    BY <2>1, Appended
  <2>3. path # 0 => path' # 0
    BY <2>1
  <2>4. QED
    <3>1. Len(files') \in Nat
      BY <2>2
    <3>2. \A g \in 1 .. Len(files) :
            files'[g] = files[g] \/ \E l \in Line : files'[g] = Append(files[g], l)
      BY <2>2, Zenon
    <3>3. QED
      BY <1>1, <2>2, <2>3, <3>1, <3>2, Zenon DEF Grown
<1>4. CASE files' = Append(files, sched.out) /\ path' = Len(files) + 1 /\ RetainRename
  <2>1. sched.out \in Seq(Line)
    BY <1>4, SchedKinds DEF Shape, RetainRename, RetainSteps
  <2>2. /\ Len(files') = Len(files) + 1 /\ \A f \in 1 .. Len(files) : files'[f] = files[f]
    BY <1>1, <1>4, <2>1
  <2>3. QED
    BY <1>1, <1>4, <2>2 DEF Grown
<1>5. CASE RequestStep /\ ~\E w \in Workers : LogAccess(w)
  BY <1>2, <1>5 DEF RequestStep, RequestStart, StatDate, StatAdd, logVars
<1>6. CASE SchedulerStep
  BY <1>2, <1>4, <1>6, SchedulerFrame DEF RetainRename
<1>7. CASE Aside \/ UNCHANGED vars
  BY <1>2, <1>7, AsideFrame
<1>8. CASE NextDay \/ Restart
  BY <1>2, <1>8 DEF NextDay, Restart, logVars
<1>9. QED
  BY <1>3, <1>5, <1>6, <1>7, <1>8, NextSteps

LEMMA HoldsOn ==
  ASSUME NEW st \in Reads, NEW file \in Seq(Line), NEW new,
         new = file \/ \E l \in Line : new = Append(file, l)
  PROVE  /\ Holds(st, file) => Holds(st, new)
         /\ st.offset <= Len(Bytes(file)) => st.offset <= Len(Bytes(new))
<1>1. CASE new = file
  BY <1>1
<1>2. ASSUME NEW l \in Line, new = Append(file, l), st.offset <= Len(Bytes(file))
      PROVE  /\ st.offset <= Len(Bytes(new))
             /\ SubSeq(Bytes(new), 1, st.offset) = SubSeq(Bytes(file), 1, st.offset)
  <2>1. Len(Bytes(file)) \in Nat /\ st.offset \in 0 .. Len(Bytes(file))
    BY <1>2, BytesOf DEF Reads
  <2>2. new \in Seq(Line)
    BY <1>2
  <2>3. Len(Bytes(new)) \in Nat
    BY <2>2, BytesOf
  <2>4. /\ Len(Bytes(new)) >= Len(Bytes(file))
        /\ SubSeq(Bytes(new), 1, st.offset) = SubSeq(Bytes(file), 1, st.offset)
    BY <1>2, <2>1, BytesKept
  <2>5. QED
    BY <2>1, <2>3, <2>4
<1>3. QED
  BY <1>1, <1>2 DEF Holds

\* What a stream is at stays true of it while files grow.
LEMMA StreamStays ==
  ASSUME StreamInv, Grown, NEW s \in Streams, stream'[s] = stream[s], seen'[s] = seen[s]
  PROVE  /\ stream'[s] \in Reads /\ seen'[s] \in SUBSET (1 .. Len(files'))
         /\ stream'[s].file # 0 =>
              /\ stream'[s].file \in seen'[s]
              /\ stream'[s].offset <= Len(Bytes(files'[stream'[s].file]))
         /\ seen'[s] # {} => path' # 0
         /\ seen'[s] = {} => Unread(stream'[s])
         /\ \A f \in seen'[s] : seen'[s] = {f} => Holds(stream'[s], files'[f])
<1> DEFINE st == stream[s]
<1>1. /\ st \in Reads /\ seen[s] \in SUBSET (1 .. Len(files))
      /\ st.file # 0 => st.file \in seen[s] /\ st.offset <= Len(Bytes(files[st.file]))
      /\ seen[s] # {} => path # 0
      /\ seen[s] = {} => Unread(st)
      /\ \A f \in seen[s] : seen[s] = {f} => Holds(st, files[f])
  BY DEF StreamInv
<1>2. stream'[s] = st
  OBVIOUS
<1> HIDE DEF st
<1>3. seen[s] \in SUBSET (1 .. Len(files')) /\ (path # 0 => path' # 0)
  BY <1>1 DEF Grown
<1>4. ASSUME NEW f \in seen[s]
      PROVE  /\ Holds(st, files[f]) => Holds(st, files'[f])
             /\ st.offset <= Len(Bytes(files[f])) => st.offset <= Len(Bytes(files'[f]))
  <2>1. f \in 1 .. Len(files)
    BY <1>1
  <2>2. files[f] \in Seq(Line) /\ (files'[f] = files[f] \/ \E l \in Line : files'[f] = Append(files[f], l))
    BY <2>1 DEF Grown
  <2>3. QED
    BY <1>1, <2>2, HoldsOn
<1>5. QED
  BY <1>1, <1>2, <1>3, <1>4

\* A stream that has read nothing.
LEMMA NothingRead == NoRead \in Reads /\ Unread(NoRead) /\ NoRead.file = 0
<1>1. <<>> \in Seq(Byte)
  OBVIOUS
<1>2. QED
  BY <1>1 DEF Reads, Unread, NoRead

LEMMA Connected ==
  LET st == [NoRead EXCEPT !.on = TRUE] IN st \in Reads /\ Unread(st) /\ st.file = 0
<1>1. NoRead \in Reads
  BY NothingRead
<1>2. [NoRead EXCEPT !.on = TRUE] \in Reads
  BY <1>1 DEF Reads
<1>3. QED
  BY <1>2, NothingRead DEF NoRead, Unread

\* A step moves one stream.
LEMMA OneStream ==
  ASSUME StreamInv, Grown, NEW s \in Streams, NEW st \in Reads, NEW files2 \in SUBSET (1 .. Len(files')),
         stream' = [stream EXCEPT ![s] = st], seen' = [seen EXCEPT ![s] = files2],
         st.file # 0 => st.file \in files2 /\ st.offset <= Len(Bytes(files'[st.file])),
         files2 # {} => path' # 0,
         files2 = {} => Unread(st),
         \A f \in files2 : files2 = {f} => Holds(st, files'[f])
  PROVE  StreamInv'
<1>1. stream \in [Streams -> Reads] /\ seen \in [Streams -> SUBSET (1 .. Len(files))]
  BY DEF StreamInv
<1>2. stream' \in [Streams -> Reads] /\ stream'[s] = st /\ seen'[s] = files2
      /\ \A t \in Streams \ {s} : stream'[t] = stream[t] /\ seen'[t] = seen[t]
  BY <1>1
<1>3. seen' \in [Streams -> SUBSET (1 .. Len(files'))]
  <2>1. \A t \in Streams : seen'[t] \in SUBSET (1 .. Len(files'))
    BY <1>2, StreamStays
  <2>2. seen' = [t \in Streams |-> seen'[t]]
    BY <1>1
  <2>3. QED
    BY <2>1, <2>2
<1>4. ASSUME NEW t \in Streams
      PROVE  /\ stream'[t].file # 0 =>
                  /\ stream'[t].file \in seen'[t]
                  /\ stream'[t].offset <= Len(Bytes(files'[stream'[t].file]))
             /\ seen'[t] # {} => path' # 0
             /\ seen'[t] = {} => Unread(stream'[t])
             /\ \A f \in seen'[t] : seen'[t] = {f} => Holds(stream'[t], files'[f])
  <2>1. CASE t = s
    BY <1>2, <2>1
  <2>2. CASE t # s
    BY <1>2, <2>2, StreamStays
  <2>3. QED
    BY <2>1, <2>2
<1>5. QED
  BY <1>2, <1>3, <1>4 DEF StreamInv

LEMMA ConnectKeeps ==
  ASSUME Shape, StreamInv, NEW s \in Streams, StreamConnect(s)
  PROVE  StreamInv'
<1> DEFINE st == [NoRead EXCEPT !.on = TRUE]
           none == {}
<1>1. stream' = [stream EXCEPT ![s] = st] /\ seen' = [seen EXCEPT ![s] = none]
      /\ UNCHANGED <<files, path>>
  BY DEF StreamConnect, logVars
<1>2. st \in Reads /\ Unread(st) /\ st.file = 0
  BY Connected
<1>3. Grown
  BY <1>1 DEF Grown, Shape
<1>4. none \in SUBSET (1 .. Len(files')) /\ none = {}
  OBVIOUS
<1> HIDE DEF st, none
<1>5. QED
  BY <1>1, <1>2, <1>3, <1>4, OneStream

LEMMA OpenKeeps ==
  ASSUME Shape, StreamInv, NEW s \in Streams, StreamOpen(s)
  PROVE  StreamInv'
<1> DEFINE st == stream[s]
           long == path # 0 /\ Len(Bytes(files[path])) >= st.offset
           new == IF long THEN [st EXCEPT !.file = path]
                          ELSE [st EXCEPT !.file = path, !.offset = 0, !.leftover = <<>>]
           read == seen[s] \union ({path} \ {0})
<1>1. stream' = [stream EXCEPT ![s] = new] /\ seen' = [seen EXCEPT ![s] = read]
      /\ UNCHANGED <<files, path>>
  BY DEF StreamOpen, logVars
<1>2. Grown
  BY <1>1 DEF Grown, Shape
<1>3. /\ st \in Reads /\ seen[s] \in SUBSET (1 .. Len(files))
      /\ seen[s] # {} => path # 0
      /\ seen[s] = {} => Unread(st)
      /\ \A f \in seen[s] : seen[s] = {f} => Holds(st, files[f])
  BY DEF StreamInv
<1>4. /\ st.on \in BOOLEAN /\ st.offset \in Nat /\ st.leftover \in Seq(Byte) /\ st.file \in Nat
      /\ st.sent \in Seq(Byte) /\ DOMAIN st = {"on", "offset", "leftover", "file", "sent"}
      /\ path \in 0 .. Len(files) /\ path \in Nat
  BY <1>3, SMTT(30) DEF Reads, Shape
<1> HIDE DEF st
<1>5. path # 0 => /\ files[path] \in Seq(Line) /\ Len(Bytes(files[path])) \in Nat
                  /\ Bytes(files[path]) \in Seq(Byte) /\ path \in 1 .. Len(files)
  BY RewrittenFile, BytesOf
<1>6. read \in SUBSET (1 .. Len(files')) /\ (read # {} => path # 0) /\ (read = {} => seen[s] = {} /\ path = 0)
  BY <1>1, <1>3, <1>4, <1>5
<1>7. ASSUME NEW f \in read, read = {f} PROVE f = path /\ (seen[s] = {} \/ seen[s] = {path})
  BY <1>3, <1>4, <1>6, <1>7
<1>8. CASE long
  <2>1. new = [st EXCEPT !.file = path]
    BY <1>8
  <2>2. /\ new \in Reads /\ new.file = path /\ new.offset = st.offset /\ new.sent = st.sent
        /\ new.leftover = st.leftover
    BY <1>3, <1>4, <2>1 DEF Reads
  <2> HIDE DEF new
  <2>3. ASSUME NEW f \in read, read = {f} PROVE Holds(new, files[f])
    <3>1. f = path /\ (seen[s] = {} \/ seen[s] = {path})
      BY <1>7, <2>3
    <3>2. CASE seen[s] = {path}
      BY <1>3, <2>2, <3>1, <3>2 DEF Holds
    <3>3. CASE seen[s] = {}
      <4>1. st.offset = 0 /\ st.sent = <<>> /\ st.leftover = <<>>
        BY <1>3, <3>3 DEF Unread
      <4>2. <<>> \o <<>> = SubSeq(Bytes(files[path]), 1, 0)
        BY <1>5, <1>8
      <4>3. QED
        BY <1>5, <1>8, <2>2, <3>1, <4>1, <4>2 DEF Holds
    <3>4. QED
      BY <3>1, <3>2, <3>3
  <2>4. path \in read /\ new.offset <= Len(Bytes(files[path])) /\ read # {}
    BY <1>4, <1>5, <1>8, <2>2
  <2> HIDE DEF read
  <2>5. QED
    BY <1>1, <1>2, <1>6, <1>8, <2>2, <2>3, <2>4, OneStream
<1>9. CASE ~long
  <2>1. new = [st EXCEPT !.file = path, !.offset = 0, !.leftover = <<>>]
    BY <1>9
  <2>2. new = [on |-> st.on, offset |-> 0, leftover |-> <<>>, file |-> path, sent |-> st.sent]
    <3>1. new = [f \in DOMAIN new |-> new[f]]
      BY <2>1
    <3>2. /\ DOMAIN new = DOMAIN st /\ new.on = st.on /\ new.offset = 0 /\ new.leftover = <<>>
          /\ new.file = path /\ new.sent = st.sent
      BY <1>4, <2>1
    <3> HIDE DEF new
    <3>3. QED
      BY <1>4, <3>1, <3>2
  <2> HIDE DEF new
  <2>3. /\ new \in Reads /\ new.file = path /\ new.offset = 0 /\ new.sent = st.sent
        /\ new.leftover = <<>>
    BY <1>4, <2>2 DEF Reads
  <2>4. ASSUME NEW f \in read, read = {f} PROVE FALSE
    <3>1. f = path /\ path # 0 /\ (seen[s] = {} \/ seen[s] = {path})
      BY <1>6, <1>7, <2>4
    <3>2. st.offset > Len(Bytes(files[path])) /\ Len(Bytes(files[path])) \in Nat
      BY <1>4, <1>5, <1>9, <3>1
    <3>3. seen[s] # {}
      BY <1>3, <3>2 DEF Unread
    <3>4. st.offset <= Len(Bytes(files[path]))
      BY <1>3, <3>1, <3>3 DEF Holds
    <3>5. QED
      BY <1>4, <3>2, <3>4
  <2>5. read = {} => Unread(new)
    BY <1>3, <1>6, <2>3 DEF Unread
  <2>6. path # 0 => path \in read /\ new.offset <= Len(Bytes(files[path]))
    BY <1>5, <2>3
  <2> HIDE DEF read
  <2>7. QED
    BY <1>1, <1>2, <1>6, <2>3, <2>4, <2>5, <2>6, OneStream
<1>10. QED
  BY <1>8, <1>9

\* What is read is what comes next in the file.
LEMMA ReadOn ==
  ASSUME NEW bytes \in Seq(Byte), NEW offset \in 0 .. Len(bytes)
  PROVE  LET upTo == Min({offset + Buffer, Len(bytes)})
             buf  == SubSeq(bytes, offset + 1, upTo)
         IN  /\ buf \in Seq(Byte) /\ offset + Len(buf) = upTo /\ upTo \in offset .. Len(bytes)
             /\ SubSeq(bytes, 1, offset) \o buf = SubSeq(bytes, 1, offset + Len(buf))
<1> DEFINE S == {offset + Buffer, Len(bytes)}
           upTo == Min(S)
           buf == SubSeq(bytes, offset + 1, upTo)
<1>1. Buffer \in Nat /\ Len(bytes) \in Nat /\ offset \in Nat
  BY NumberAssumption
<1>2. S \in SUBSET Nat /\ S # {} /\ Len(bytes) \in S
  BY <1>1
<1> HIDE DEF S
<1>3. upTo \in S /\ upTo <= Len(bytes)
  BY <1>2, MinOf
<1>4. upTo \in offset .. Len(bytes)
  BY <1>1, <1>3 DEF S
<1> HIDE DEF upTo
<1>5. buf \in Seq(Byte) /\ Len(buf) = upTo - offset
  BY <1>1, <1>4
<1>6. SubSeq(bytes, 1, offset) \o buf = SubSeq(bytes, 1, upTo)
  BY <1>4, Extended
<1> HIDE DEF buf
<1>7. offset + Len(buf) = upTo
  BY <1>1, <1>4, <1>5
<1>8. QED
  BY <1>4, <1>5, <1>6, <1>7 DEF buf, upTo, S

LEMMA Closed ==
  ASSUME NEW st \in Reads
  PROVE  LET new == [st EXCEPT !.file = 0]
         IN  /\ new \in Reads /\ new.file = 0 /\ new.offset = st.offset /\ new.sent = st.sent
             /\ new.leftover = st.leftover
BY DEF Reads

LEMMA ReadKeeps ==
  ASSUME Shape, StreamInv, NEW s \in Streams, StreamRead(s)
  PROVE  StreamInv'
<1> DEFINE st == stream[s]
           file == files[st.file]
           bytes == Bytes(file)
           upTo == Min({st.offset + Buffer, Len(bytes)})
           buf == SubSeq(bytes, st.offset + 1, upTo)
           read == Deliver(st, buf)
           new == IF Len(buf) = Buffer THEN read ELSE [read EXCEPT !.file = 0]
           fs == seen[s]
<1>1. stream' = [stream EXCEPT ![s] = new] /\ UNCHANGED <<seen, files, path>> /\ st.file # 0
  BY DEF StreamRead, logVars
<1>2. seen' = [seen EXCEPT ![s] = fs]
  BY <1>1 DEF StreamInv
<1>3. Grown
  BY <1>1 DEF Grown, Shape
<1>4. /\ st \in Reads /\ fs \in SUBSET (1 .. Len(files)) /\ st.file \in fs
      /\ st.offset <= Len(bytes) /\ path # 0 /\ (fs = {st.file} => Holds(st, file))
  BY <1>1 DEF StreamInv
<1>5. file \in Seq(Line)
  BY <1>4 DEF Shape
<1>6. bytes \in Seq(Byte) /\ Len(bytes) \in Nat
  BY <1>5, BytesOf
<1>7. st.offset \in 0 .. Len(bytes)
  BY <1>4, <1>6 DEF Reads
<1>8. /\ buf \in Seq(Byte) /\ st.offset + Len(buf) \in 0 .. Len(bytes)
      /\ SubSeq(bytes, 1, st.offset) \o buf = SubSeq(bytes, 1, st.offset + Len(buf))
  <2> HIDE DEF bytes, st
  <2>1. /\ buf \in Seq(Byte) /\ st.offset + Len(buf) = upTo /\ upTo \in st.offset .. Len(bytes)
        /\ SubSeq(bytes, 1, st.offset) \o buf = SubSeq(bytes, 1, st.offset + Len(buf))
    BY <1>6, <1>7, ReadOn
  <2> HIDE DEF buf, upTo
  <2>2. QED
    BY <1>6, <1>7, <2>1
<1> HIDE DEF st, file, bytes, buf, upTo
<1>9. /\ read \in Reads /\ read.file = st.file /\ read.offset = st.offset + Len(buf)
      /\ read.sent \o read.leftover = (st.sent \o st.leftover) \o buf
      /\ (st.sent # <<>> => Last(st.sent).end) => (read.sent # <<>> => Last(read.sent).end)
  BY <1>4, <1>8, Delivered
<1> HIDE DEF read
<1>10. /\ new \in Reads /\ new.file \in {0, st.file} /\ new.offset = read.offset
       /\ new.sent = read.sent /\ new.leftover = read.leftover
  BY <1>9, Closed
<1> HIDE DEF new
<1>11. new.offset <= Len(bytes) /\ (fs = {st.file} => Holds(new, file))
  <2>1. new.offset <= Len(bytes)
    BY <1>6, <1>8, <1>9, <1>10
  <2>2. ASSUME Holds(st, file) PROVE Holds(new, file)
    <3>1. /\ st.sent \o st.leftover = SubSeq(bytes, 1, st.offset)
          /\ st.sent # <<>> => Last(st.sent).end
      BY <2>2 DEF Holds, bytes
    <3>2. new.sent \o new.leftover = SubSeq(bytes, 1, new.offset)
      BY <1>8, <1>9, <1>10, <3>1
    <3>3. new.sent # <<>> => Last(new.sent).end
      BY <1>9, <1>10, <3>1
    <3>4. QED
      BY <2>1, <3>2, <3>3 DEF Holds, bytes
  <2>3. QED
    BY <1>4, <2>1, <2>2
<1>12. file = files'[st.file] /\ bytes = Bytes(files'[st.file])
  BY <1>1 DEF file, bytes
<1>13. fs \in SUBSET (1 .. Len(files')) /\ path' # 0 /\ fs # {}
  BY <1>1, <1>4
<1> HIDE DEF fs
<1>14. new.file # 0 => new.file \in fs /\ new.offset <= Len(Bytes(files'[new.file]))
  BY <1>4, <1>10, <1>11, <1>12
<1>15. ASSUME NEW f \in fs, fs = {f} PROVE Holds(new, files'[f])
  <2>1. f = st.file
    BY <1>4, <1>15
  <2>2. QED
    BY <1>11, <1>12, <1>15, <2>1
<1>16. QED
  BY <1>1, <1>2, <1>3, <1>10, <1>13, <1>14, <1>15, OneStream

LEMMA StreamRestart ==
  ASSUME StreamInv, Restart
  PROVE  StreamInv'
<1>1. stream' = [s \in Streams |-> NoRead] /\ seen' = [s \in Streams |-> {}]
  BY DEF Restart
<1>2. QED
  BY <1>1, NothingRead DEF StreamInv

LEMMA StreamsInductive == Inv /\ StreamInv /\ [Next]_vars => StreamInv'
<1> SUFFICES ASSUME Inv, StreamInv, [Next]_vars PROVE StreamInv'
  OBVIOUS
<1>1. Shape /\ Grown
  BY FilesGrow DEF Inv
<1>2. CASE \E s \in Streams : StreamConnect(s) \/ StreamOpen(s) \/ StreamRead(s)
  BY <1>1, <1>2, ConnectKeeps, OpenKeeps, ReadKeeps
<1>3. CASE Restart
  BY <1>3, StreamRestart
<1>4. CASE UNCHANGED <<stream, seen>>
  <2>1. \A s \in Streams :
          /\ stream'[s] \in Reads /\ seen'[s] \in SUBSET (1 .. Len(files'))
          /\ stream'[s].file # 0 =>
               /\ stream'[s].file \in seen'[s]
               /\ stream'[s].offset <= Len(Bytes(files'[stream'[s].file]))
          /\ seen'[s] # {} => path' # 0
          /\ seen'[s] = {} => Unread(stream'[s])
          /\ \A f \in seen'[s] : seen'[s] = {f} => Holds(stream'[s], files'[f])
    BY <1>1, <1>4, StreamStays
  <2>2. stream' \in [Streams -> Reads] /\ seen' = [s \in Streams |-> seen'[s]]
    BY <1>4 DEF StreamInv
  <2>3. seen' \in [Streams -> SUBSET (1 .. Len(files'))]
    BY <2>1, <2>2
  <2>4. QED
    BY <2>1, <2>2, <2>3 DEF StreamInv
<1>5. CASE RequestStep \/ SchedulerStep
  BY <1>4, <1>5, RequestFrame, SchedulerFrame
<1>6. CASE \/ ClearStart \/ ClearEntry \/ ClearEnd \/ \E t \in Tokens : RenewToken(t)
           \/ Ready \/ NextDay \/ UNCHANGED vars
  BY <1>4, <1>6 DEF ClearStart, ClearEntry, ClearEnd, RenewToken, Ready, NextDay, readVars, vars
<1>7. QED
  BY <1>2, <1>3, <1>5, <1>6, NextSteps DEF Aside

\* What a stream has sent and holds back is the beginning of the log, and what it has sent ends with
\* a line, as long as it has read one file.  LogStreamHandler.
THEOREM LiveStream == Spec => []StreamWhole
<1>1. Init => StreamInv
  <2>1. SUFFICES ASSUME Init PROVE StreamInv
    OBVIOUS
  <2>2. stream = [s \in Streams |-> NoRead] /\ seen = [s \in Streams |-> {}]
    BY <2>1 DEF Init
  <2>3. QED
    BY <2>2, NothingRead DEF StreamInv
<1>2. StreamInv => StreamWhole
  BY DEF StreamInv, StreamWhole, Holds
<1>3. QED
  BY <1>1, <1>2, StreamsInductive, Invariant, PTL DEF Spec
===============================================================================
