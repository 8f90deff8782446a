--------------------------------- MODULE Redis ---------------------------------
(***************************************************************************)
(* Sessions in Redis: the client of redisc.go with its pool of idle        *)
(* connections, as CreateSession, GetSession and DeleteSession of          *)
(* model/user.go use it.                                                   *)
(*                                                                         *)
(* A command goes out on a connection taken from the pool, or a new one;   *)
(* if that connection breaks or stays silent it is closed and the command  *)
(* is sent once more on a new one.  Redis may still serve what it was      *)
(* asked on a connection that was given up.                                *)
(***************************************************************************)
EXTENDS Integers, Sequences, SequencesExt, FiniteSets, FiniteSetsExt

CONSTANTS
  Workers,     \* goroutines that serve requests
  Sessions,    \* session tokens; randToken never returns one twice
  Owner,       \* whose session it is, by token
  MaxIdle,     \* maxIdle
  MaxCalls,    \* bound: calls in a behaviour
  MaxFaults    \* bound: errors, silences, breaks, losses and restarts in a behaviour

ASSUME OwnerAssumption == DOMAIN Owner = Sessions
ASSUME IdleAssumption  == MaxIdle \in Nat
ASSUME BoundAssumption == {MaxCalls, MaxFaults} \subseteq Nat

VARIABLES
  redis,       \* the sess: keys that Redis has
  conn,        \* the connections, by number
  pool,        \* pool: numbers of idle connections, the last one is taken first
  late,        \* commands on connections that were closed, which Redis may still serve
  task,        \* what each goroutine is doing
  calls, faults,
  acked,       \* history: what do returned without error last did to a session
  stray        \* history: sessions whose SET was sent and given up

vars    == <<redis, conn, pool, late, task, calls, faults, acked, stray>>
history == <<acked, stray>>

-------------------------------------------------------------------------------
(* State                                                                   *)

Conns == 1..(Cardinality(Workers) + MaxIdle)

\* asked: commands Redis has not served; said: replies nobody has read.
NewConn == [open |-> TRUE, cut |-> FALSE, asked |-> <<>>, said |-> <<>>]
NoConn  == [NewConn EXCEPT !.open = FALSE]

Idle == [op |-> "idle"]

At(w, op) == task[w].op = op

Become(w, t) == task' = [task EXCEPT ![w] = t]

GoTo(w, op) == Become(w, [task[w] EXCEPT !.op = op])

Fault == faults < MaxFaults /\ faults' = faults + 1

\* What readReply returns as an error: "$-1" and a line that begins with "-".
IsError(reply) == reply \in {"nil", "error"}

-------------------------------------------------------------------------------
(* The calls                                                               *)

Begin(w, verb, s) ==
  /\ At(w, "idle") /\ calls < MaxCalls
  /\ calls' = calls + 1
  /\ Become(w, [op |-> "getConn", verb |-> verb, session |-> s, conn |-> 0, try |-> 1, reply |-> "none"])
  /\ UNCHANGED <<redis, conn, pool, late, faults, stray>>

CreateSession(w, s) ==
  /\ acked[s] = "new" /\ Begin(w, "SET", s)
  /\ acked' = [acked EXCEPT ![s] = "creating"]

\* A token is shown by whoever CreateSession gave it to, or by anybody who guesses.
GetSession(w, s) == Begin(w, "GET", s) /\ UNCHANGED acked

DeleteSession(w, s) ==
  /\ acked[s] \notin {"new", "creating", "lost"} /\ Begin(w, "DEL", s)
  /\ acked' = [acked EXCEPT ![s] = IF @ = "in" THEN "unsure" ELSE @]

\* The caller goes on.  Both drop the error of Set and of Del; here is noted what it was.
Return(w) ==
  /\ At(w, "return")
  /\ LET ok == ~IsError(task[w].reply)
         s  == task[w].session
     IN  acked' = [acked EXCEPT ![s] =
           CASE task[w].verb = "SET"        -> IF ok /\ @ = "creating" THEN "in" ELSE "unsure"
             [] task[w].verb = "DEL" /\ ok  -> "out"
             [] OTHER                       -> @]
  /\ Become(w, Idle)
  /\ UNCHANGED <<redis, conn, pool, late, calls, faults, stray>>

-------------------------------------------------------------------------------
(* do                                                                      *)

GetConn(w) ==
  /\ At(w, "getConn")
  /\ IF pool # <<>>
     THEN /\ Become(w, [task[w] EXCEPT !.op = "write", !.conn = Last(pool)])
          /\ pool' = Front(pool)
     ELSE GoTo(w, "dial") /\ UNCHANGED pool
  /\ UNCHANGED <<redis, conn, late, calls, faults, history>>

\* Connecting, AUTH and PING: what fails there closes the new connection.
Dial(w) ==
  /\ At(w, "dial")
  /\ \/ \E c \in Conns :
          /\ ~conn[c].open /\ \A d \in 1..(c - 1) : conn[d].open
          /\ conn' = [conn EXCEPT ![c] = NewConn]
          /\ Become(w, [task[w] EXCEPT !.op = "write", !.conn = c])
          /\ UNCHANGED faults
     \/ /\ Fault
        /\ Become(w, [task[w] EXCEPT !.op = "return", !.reply = "error"])
        /\ UNCHANGED conn
  /\ UNCHANGED <<redis, pool, late, calls, history>>

\* Slip: a logout does not wait for its reply.
WriteUnread(w) ==
  /\ At(w, "write")
  /\ LET cmd == [verb |-> task[w].verb, session |-> task[w].session]
     IN  conn' = [conn EXCEPT ![task[w].conn].asked = IF conn[task[w].conn].cut THEN @ ELSE Append(@, cmd)]
  /\ IF task[w].verb = "DEL"
     THEN /\ pool' = Append(pool, task[w].conn)
          /\ Become(w, [task[w] EXCEPT !.op = "return", !.reply = "OK"])
     ELSE GoTo(w, "read") /\ UNCHANGED pool
  /\ UNCHANGED <<redis, late, calls, faults, history>>

\* A write to a broken connection succeeds as well, into the buffer of the kernel.
Write(w) ==
  /\ At(w, "write")
  /\ LET cmd == [verb |-> task[w].verb, session |-> task[w].session]
     IN  conn' = [conn EXCEPT ![task[w].conn].asked = IF conn[task[w].conn].cut THEN @ ELSE Append(@, cmd)]
  /\ GoTo(w, "read")
  /\ UNCHANGED <<redis, pool, late, calls, faults, history>>

\* Slip: a connection that failed goes back to the pool.
CloseKept(c) ==
  /\ pool' = Append(pool, c)
  /\ UNCHANGED <<conn, late, stray>>

\* Close: Redis may have received what was written.
Close(c) ==
  /\ late' = late \union Range(conn[c].asked)
  /\ stray' = stray \union {m.session : m \in {n \in Range(conn[c].asked) : n.verb = "SET"}}
  /\ conn' = [conn EXCEPT ![c] = NoConn]
  /\ UNCHANGED pool

\* A new bufio.Reader for each command: what it read beyond the reply is lost with it.
PutConn(c) ==
  IF Len(pool) < MaxIdle
  THEN /\ pool' = Append(pool, c)
       /\ conn' = [conn EXCEPT ![c].said = <<>>]
       /\ UNCHANGED <<late, stray>>
  ELSE Close(c)

\* The first try puts the connection back whatever the reply is; the second closes it
\* if the reply is an error.
Read(w) ==
  /\ At(w, "read") /\ conn[task[w].conn].said # <<>>
  /\ LET reply == Head(conn[task[w].conn].said)
     IN  /\ IF task[w].try = 1 \/ ~IsError(reply) THEN PutConn(task[w].conn) ELSE Close(task[w].conn)
         /\ Become(w, [task[w] EXCEPT !.op = "return", !.reply = reply])
  /\ UNCHANGED <<redis, calls, faults, acked>>

\* The deadline of 5 seconds passes, or the connection is broken: the connection is
\* closed, and the first try is followed by a second on a new one.
ReadFails(w) ==
  /\ At(w, "read")
  /\ IF conn[task[w].conn].cut THEN UNCHANGED faults ELSE Fault
  /\ Close(task[w].conn)
  /\ Become(w, IF task[w].try = 1 THEN [task[w] EXCEPT !.op = "dial", !.try = 2]
               ELSE [task[w] EXCEPT !.op = "return", !.reply = "error"])
  /\ UNCHANGED <<redis, calls, acked>>

-------------------------------------------------------------------------------
(* Redis and the network                                                   *)

\* external: what a command does and what it is answered.
Effect(cmd) ==
  CASE cmd.verb = "SET" -> redis \union {cmd.session}
    [] cmd.verb = "GET" -> redis
    [] cmd.verb = "DEL" -> redis \ {cmd.session}

Answer(cmd) ==
  CASE cmd.verb = "SET" -> "OK"
    [] cmd.verb = "GET" -> IF cmd.session \in redis THEN Owner[cmd.session] ELSE "nil"
    [] cmd.verb = "DEL" -> IF cmd.session \in redis THEN "1" ELSE "0"

\* external: Redis serves the next command of a connection, or refuses it.
Serve(c) ==
  /\ conn[c].asked # <<>>
  /\ LET cmd == Head(conn[c].asked)
         Reply(r) == conn' = [conn EXCEPT ![c].asked = Tail(@), ![c].said = Append(@, r)]
     IN  \/ redis' = Effect(cmd) /\ Reply(Answer(cmd)) /\ UNCHANGED faults
         \/ Fault /\ Reply("error") /\ UNCHANGED redis
  /\ UNCHANGED <<pool, late, task, calls, history>>

\* external: a command of a connection that was given up arrives, or never does.
ServeLate ==
  \E cmd \in late :
    /\ redis' \in {redis, Effect(cmd)}
    /\ late' = late \ {cmd}
    /\ UNCHANGED <<conn, pool, task, calls, faults, history>>

\* external: a connection breaks, in the pool or in use.
Cut(c) ==
  /\ conn[c].open /\ ~conn[c].cut /\ Fault
  /\ late' = late \union Range(conn[c].asked)
  /\ stray' = stray \union {m.session : m \in {n \in Range(conn[c].asked) : n.verb = "SET"}}
  /\ conn' = [conn EXCEPT ![c] = [@ EXCEPT !.cut = TRUE, !.asked = <<>>, !.said = <<>>]]
  /\ UNCHANGED <<redis, pool, task, calls, acked>>

\* external: a session reaches its seven days, or a restart loses it.
Lose(s) ==
  /\ s \in redis /\ Fault
  /\ redis' = redis \ {s}
  /\ acked' = [acked EXCEPT ![s] = CASE @ = "in" -> "unsure" [] @ = "creating" -> "lost" [] OTHER -> @]
  /\ UNCHANGED <<conn, pool, late, task, calls, stray>>

\* The gateway ends and starts again, with an empty pool; sessions survive it.
Restart ==
  /\ Fault
  /\ late' = late \union UNION {Range(conn[c].asked) : c \in Conns}
  /\ stray' = stray \union {s \in Sessions : \E c \in Conns : [verb |-> "SET", session |-> s] \in Range(conn[c].asked)}
  /\ conn' = [c \in Conns |-> NoConn] /\ pool' = <<>>
  /\ task' = [w \in Workers |-> Idle]
  /\ acked' = [s \in Sessions |-> IF acked[s] \in {"creating", "lost"} THEN "unsure" ELSE acked[s]]
  /\ UNCHANGED <<redis, calls>>

-------------------------------------------------------------------------------
Init ==
  /\ redis = {} /\ conn = [c \in Conns |-> NoConn] /\ pool = <<>> /\ late = {}
  /\ task = [w \in Workers |-> Idle] /\ calls = 0 /\ faults = 0
  /\ acked = [s \in Sessions |-> "new"] /\ stray = {}

Do(w) == GetConn(w) \/ Dial(w) \/ Write(w) \/ Read(w) \/ ReadFails(w) \/ Return(w)

Next ==
  \/ \E w \in Workers : \/ Do(w)
                        \/ \E s \in Sessions : CreateSession(w, s) \/ GetSession(w, s) \/ DeleteSession(w, s)
  \/ \E c \in Conns : Serve(c) \/ Cut(c)
  \/ \E s \in Sessions : Lose(s)
  \/ ServeLate \/ Restart

Spec == Init /\ [][Next]_vars

-------------------------------------------------------------------------------
(* Properties                                                              *)

\* A connection is used for one command at a time and, when it breaks or stays silent,
\* never again: however goroutines share the pool, a session is never taken for that of
\* another user because a reply was left over from another command.  do and readReply.
NobodyElse ==
  \A w \in Workers :
    At(w, "return") /\ task[w].verb = "GET" /\ ~IsError(task[w].reply) =>
      task[w].reply = Owner[task[w].session]

\* A Set that returned without error made a session, until a logout began; a Del that
\* returned without error ended it, unless the Set of that session had once been given
\* up and reached Redis after it.
SessionsAgree ==
  \A s \in Sessions :
    /\ acked[s] = "in" => s \in redis
    /\ acked[s] = "out" => s \notin redis \/ s \in stray

================================================================================
