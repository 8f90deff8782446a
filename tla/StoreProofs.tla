------------------------------ MODULE StoreProofs ------------------------------
(***************************************************************************)
(* What Store and Documents promise, for every instance: rows, settings,   *)
(* documents and journals survive saves that fail and crashes.  The        *)
(* specification is the one of a whole process, ProcessSpec.               *)
(***************************************************************************)
EXTENDS Documents, Induction

processVars == <<vars, docVars, logVars>>

-------------------------------------------------------------------------------
(* Types                                                                   *)

\* The process: the stores are initialised one after the other, and then it serves.
ProcessOK ==
  /\ deployment \in Deployments
  /\ phase \in {"boot", "up", "fatal"}
  /\ boot \subseteq deployment.tables /\ (phase = "up" => boot = {})
  /\ importing \in {"no", "saved", "over"} /\ (importing # "no" => phase = "boot")

\* A file keeps what it holds, and is renamed at most once.
FilesOK ==
  /\ file \in [DOMAIN deployment.files ->
                 [at : {"json", "bak", "none"},
                  rows : {deployment.files[u].rows : u \in DOMAIN deployment.files}]]
  /\ \A u \in DOMAIN file :
       /\ file[u].rows = deployment.files[u].rows
       /\ file[u].at = "json" => deployment.files[u].at = "json"

SlicesOK ==
  /\ mem \in [Tables -> Seq(Row)] /\ disk \in [Tables -> Seq(Row)]
  /\ next \in [Tables -> Nat \ {0}]

SettingsOK ==
  /\ setting \in [columns : Nat, unit : Units] /\ latest \in [columns : Nat, unit : Units]
  /\ row \in Nat \union {NoRow} /\ settingsCut \in BOOLEAN

CountersOK ==
  /\ stamp \in Found .. MaxEdits /\ faults \in 0 .. MaxFaults /\ crashes \in 0 .. MaxCrashes

\* Nothing was said of a row that is not there yet.
PromisesOK ==
  /\ promised \in [1 .. MaxEdits -> Int]
  /\ \A b \in 1 .. MaxEdits : b > stamp => promised[b] = Nothing

Typing ==
  ProcessOK /\ FilesOK /\ SlicesOK /\ SettingsOK /\ CountersOK /\ PromisesOK

-------------------------------------------------------------------------------
(* Rows                                                                    *)

Held(t) == Range(mem[t]) \union Range(disk[t])

\* Each row has a stamp of its own since it was born, in its table as on its disk.
BirthsOK ==
  \A t \in Tables :
    /\ \A r \in Held(t) : r.born \in 1 .. r.stamp /\ r.stamp <= stamp
    /\ Distinct(mem[t]) /\ Distinct(disk[t])

\* A table that was not loaded has nothing in memory.
Unloaded ==
  \A t \in Tables : t \in boot \/ t \notin deployment.tables => mem[t] = <<>>

\* A row is of one table.
Home ==
  \A t, u \in Stored :
    \A r \in Held(t) \union Filed(file[t]), s \in Held(u) \union Filed(file[u]) :
      r.born = s.born => t = u

\* The file of table t is on disk, and not renamed yet.
Copied(t) == importing = "saved" /\ First(t)

CopiedOK ==
  /\ \A t \in Tables : Copied(t) => disk[t] = file[t].rows
  /\ Copied("settings") => row # NoRow

\* What a file still has to give is not in its table, and was not deleted from it.
Waiting ==
  \A t \in Stored \ halfway : \A f \in Filed(file[t]) :
    /\ promised[f.born] # Gone
    /\ ~Copied(t) => \A r \in Held(t) : r.born # f.born

\* rows have row b as of stamp s, or later.
Newer(rows, b, s) == \E r \in Range(rows) : r.born = b /\ r.stamp >= s

\* Memory has what the disk has to keep: the next save of the table does not lose it.
Reaches ==
  \A t \in Stored \ boot : \A b \in 1 .. MaxEdits :
    promised[b] > 0 /\ Newer(disk[t], b, promised[b]) => Newer(mem[t], b, promised[b])

RowsInv == BirthsOK /\ Unloaded /\ Home /\ CopiedOK /\ Waiting /\ Reaches /\ KeptRows /\ DeletedRows

-------------------------------------------------------------------------------
(* Tables that are not poisoned                                            *)

Numbered == {"channels", "users"}

\* What was saved can be saved again; the next ID is free, and so is the next code.
SavableInv ==
  /\ \A t \in Tables : Savable(t, disk[t])
  /\ \A t \in Stored \intersect Numbered : Savable(t, mem[t]) /\ \A r \in Range(mem[t]) : r.id < next[t]
  /\ "redemptions" \in deployment.tables =>
       /\ Savable("redemptions", mem["redemptions"])
       /\ \A r \in Held("redemptions") : Coded(r)

-------------------------------------------------------------------------------
(* Settings                                                                *)

Saving == {w \in Workers : task[w].op = "save"}

\* Whoever saves has the settings in memory, which are those last changed.
SaversOK ==
  /\ Pending # {} => phase = "up" /\ "settings" \in deployment.tables
  /\ \A w \in Savers : task[w].columns = setting.columns
  /\ "settings" \in deployment.tables \ boot => setting.columns = latest.columns

\* Once nobody is to save any more, the row is what was last changed, or about to be put back.
RowOK ==
  ~settingsCut /\ Saving = {} =>
    row = latest.columns \/ (row = NoRow /\ Savers # {})

SettingsInv == SaversOK /\ RowOK

-------------------------------------------------------------------------------
(* Goroutines                                                              *)

\* A goroutine that adds tokens or writes channels back does so in a table in use.
TasksOK ==
  /\ task = [w \in Workers |-> task[w]]
  /\ \A w \in Workers : /\ "op" \in DOMAIN task[w]
                        /\ task[w].op = "batch" => "tokens" \in Stored
                        /\ task[w].op = "sync" => "channels" \in Stored

\* A step leaves alone whatever is at one of these operations, and begins none.
Leaves(ops) ==
  \A w \in Workers : task'[w] = task[w] \/ (task[w].op \notin ops /\ task'[w].op \notin ops)

SettingsOps == {"save", "insert"}

-------------------------------------------------------------------------------
(* Documents                                                               *)

LockedOps == {"look", "migrate", "saveDoc", "insertDoc", "rename"}
DocOps    == LockedOps \union {"merge"}

DocTask == [op : DocOps, put : BOOLEAN, adds : SUBSET Items, value : SUBSET Items,
            file : BOOLEAN, fresh : BOOLEAN]

\* A request that uses the document, one of them under its mutex.
DocTasksOK ==
  /\ \A w \in Workers : task[w].op \in DocOps => IsDocument /\ phase = "up" /\ task[w] \in DocTask
  /\ \A v, w \in Workers : task[v].op \in LockedOps /\ task[w].op \in LockedOps => v = w
  /\ docMem \in SUBSET Items /\ (docRow = NoDoc \/ docRow \in SUBSET Items)
  /\ \A w \in Workers :
       /\ task[w].op \in {"look", "migrate"} => ~docLoaded /\ ~task[w].put
       /\ task[w].op \in LockedOps /\ task[w].put => ~task[w].file
       /\ task[w].op \in {"saveDoc", "insertDoc", "rename"} => docLoaded
  /\ docLoaded \in BOOLEAN /\ excused \in BOOLEAN /\ expected \in SUBSET Items

\* Where the document is, while nothing failed.
DocInv ==
  ~excused /\ IsDocument =>
    /\ (\A w \in Workers : task[w].op # "insertDoc") => DocOnDisk = expected
    /\ ~Putting /\ docLoaded => docMem = docRow
    /\ \A w \in Workers :
         /\ task[w].op = "migrate" => docRow = NoDoc
         /\ task[w].op \in {"saveDoc", "insertDoc"} /\ ~task[w].put => docMem = expected /\ docRow = NoDoc

\* Prices that are imported are added to what the document is, unless someone saved meanwhile.
MergesInv ==
  IsDocument =>
    /\ ~excused => \A w \in Workers :
         /\ task[w].op = "merge" /\ task[w].fresh => task[w].value = expected
         /\ task[w].op \in {"saveDoc", "insertDoc"} /\ task[w].put /\ task[w].adds # {} /\ task[w].fresh
              => docMem = expected \union task[w].adds
    /\ \A v, w \in Workers :
         task[v].op \in {"saveDoc", "insertDoc"} /\ task[v].put /\ task[w].op = "merge" => ~task[w].fresh

DocumentsInv == DocTasksOK /\ DocInv /\ MergesInv

-------------------------------------------------------------------------------
(* Journals                                                                *)

LogOps == {"count", "import", "append", "clear"}
HeldOps == {"count", "import", "append"}

LogTasksOK ==
  /\ \A w \in Workers :
       task[w].op \in LogOps => IsJournal /\ phase = "up"
  /\ \A v, w \in Workers : task[v].op \in HeldOps /\ task[w].op \in HeldOps => v = w
  /\ journal \in Seq(Nat) /\ Range(journal) \union written \union cleared \subseteq 1 .. stamp
  /\ once \in BOOLEAN

\* An import goes through the file, and has come so far.
ImportOK ==
  \A w \in Workers :
    task[w].op = "import" =>
      /\ "left" \in DOMAIN task[w]
      /\ task[w].left \in Seq(1 .. Found) /\ Ascending(task[w].left)
      /\ \A i \in Range(journal), j \in Range(task[w].left) : i < j
      /\ Range(task[w].left) \subseteq Range(Old.rows) /\ Old.at = "json"

\* A file that was not imported has nothing that was written.
OldOK ==
  ~excused /\ Kind \notin halfway /\ Old.at = "json" =>
    /\ Range(Old.rows) \intersect cleared = {}
    /\ (\A w \in Workers : task[w].op # "import") => Range(Old.rows) \intersect Range(journal) = {}

JournalInv == IsJournal => ImportOK /\ OldOK /\ JournalKept

-------------------------------------------------------------------------------
(* Sequences                                                               *)

\* What a sequence holds.
LEMMA RangeOf ==
  ASSUME NEW S, NEW s \in Seq(S)
  PROVE  /\ Len(s) \in Nat /\ DOMAIN s = 1 .. Len(s)
         /\ \A i \in DOMAIN s : s[i] \in Range(s) /\ s[i] \in S
         /\ \A x \in Range(s) : x \in S /\ \E i \in DOMAIN s : s[i] = x
BY DEF Range

\* An empty sequence holds nothing.
LEMMA RangeOfNone == Range(<<>>) = {}
BY DEF Range

\* One more at the end.
LEMMA Appended ==
  ASSUME NEW S, NEW s \in Seq(S), NEW x \in S
  PROVE  /\ Append(s, x) \in Seq(S) /\ Range(Append(s, x)) = Range(s) \union {x}
         /\ DOMAIN Append(s, x) = 1 .. Len(s) + 1
         /\ \A i \in 1 .. Len(s) : Append(s, x)[i] = s[i]
         /\ Append(s, x)[Len(s) + 1] = x
<1> DEFINE t == Append(s, x)
<1>1. /\ t \in Seq(S) /\ DOMAIN t = 1 .. Len(s) + 1 /\ DOMAIN s = 1 .. Len(s) /\ Len(s) \in Nat
      /\ \A i \in 1 .. Len(s) : t[i] = s[i]
      /\ t[Len(s) + 1] = x
  OBVIOUS
<1> HIDE DEF t
<1>2. Range(t) = Range(s) \union {x}
  <2>1. ASSUME NEW y \in Range(t) PROVE y \in Range(s) \union {x}
    BY <1>1 DEF Range
  <2>2. ASSUME NEW y \in Range(s) PROVE y \in Range(t)
    BY <1>1 DEF Range
  <2>3. x \in Range(t)
    BY <1>1 DEF Range
  <2>4. QED
    BY <2>1, <2>2, <2>3
<1>3. QED
  BY <1>1, <1>2 DEF t

\* One changed.
LEMMA Rewritten ==
  ASSUME NEW S, NEW s \in Seq(S), NEW i \in DOMAIN s, NEW x \in S
  PROVE  /\ [s EXCEPT ![i] = x] \in Seq(S) /\ DOMAIN [s EXCEPT ![i] = x] = DOMAIN s
         /\ [s EXCEPT ![i] = x][i] = x
         /\ \A j \in DOMAIN s \ {i} : [s EXCEPT ![i] = x][j] = s[j]
OBVIOUS

\* Both, one after the other.
LEMMA Joined ==
  ASSUME NEW S, NEW s \in Seq(S), NEW t \in Seq(S)
  PROVE  /\ s \o t \in Seq(S) /\ Range(s \o t) = Range(s) \union Range(t)
         /\ DOMAIN (s \o t) = 1 .. Len(s) + Len(t)
         /\ \A i \in 1 .. Len(s) : (s \o t)[i] = s[i]
         /\ \A i \in 1 .. Len(t) : (s \o t)[Len(s) + i] = t[i]
<1> DEFINE u == s \o t
<1>1. /\ u \in Seq(S) /\ DOMAIN u = 1 .. Len(s) + Len(t) /\ DOMAIN s = 1 .. Len(s)
      /\ DOMAIN t = 1 .. Len(t) /\ Len(s) \in Nat /\ Len(t) \in Nat
      /\ \A i \in 1 .. Len(s) : u[i] = s[i]
      /\ \A i \in 1 .. Len(t) : u[Len(s) + i] = t[i]
  OBVIOUS
<1>2. \A i \in Len(s) + 1 .. Len(s) + Len(t) : i - Len(s) \in 1 .. Len(t) /\ Len(s) + (i - Len(s)) = i
  BY <1>1
<1> HIDE DEF u
<1>3. Range(u) = Range(s) \union Range(t)
  <2>1. ASSUME NEW y \in Range(u) PROVE y \in Range(s) \union Range(t)
    <3>1. PICK i \in 1 .. Len(s) + Len(t) : y = u[i]
      BY <1>1 DEF Range
    <3>2. CASE i \in 1 .. Len(s)
      BY <1>1, <3>1, <3>2 DEF Range
    <3>3. CASE i \in Len(s) + 1 .. Len(s) + Len(t)
      <4>1. u[Len(s) + (i - Len(s))] = t[i - Len(s)]
        BY <1>1, <1>2, <3>3
      <4>2. QED
        BY <1>1, <1>2, <3>1, <3>3, <4>1 DEF Range
    <3>4. QED
      BY <1>1, <3>1, <3>2, <3>3
  <2>2. ASSUME NEW y \in Range(s) PROVE y \in Range(u)
    BY <1>1 DEF Range
  <2>3. ASSUME NEW y \in Range(t) PROVE y \in Range(u)
    <3>1. PICK i \in 1 .. Len(t) : y = t[i]
      BY <1>1, <2>3 DEF Range
    <3>2. Len(s) + i \in DOMAIN u /\ y = u[Len(s) + i]
      BY <1>1, <3>1
    <3>3. QED
      BY <3>2 DEF Range
  <2>4. QED
    BY <2>1, <2>2, <2>3
<1>4. QED
  BY <1>1, <1>3 DEF u

\* One taken out.
LEMMA Removed ==
  ASSUME NEW S, NEW s \in Seq(S), NEW i \in DOMAIN s
  PROVE  /\ RemoveAt(s, i) \in Seq(S)
         /\ \A j \in DOMAIN RemoveAt(s, i) :
              /\ (j < i => j \in DOMAIN s /\ RemoveAt(s, i)[j] = s[j])
              /\ (j >= i => j + 1 \in DOMAIN s /\ RemoveAt(s, i)[j] = s[j + 1])
         /\ \A k \in DOMAIN s \ {i} : \E j \in DOMAIN RemoveAt(s, i) : RemoveAt(s, i)[j] = s[k]
<1>1. Len(s) \in Nat /\ DOMAIN s = 1 .. Len(s) /\ i \in 1 .. Len(s)
  OBVIOUS
<1> DEFINE a == SubSeq(s, 1, i - 1)
           b == SubSeq(s, i + 1, Len(s))
           t == RemoveAt(s, i)
<1>2. a \in Seq(S) /\ Len(a) = i - 1 /\ \A j \in 1 .. i - 1 : a[j] = s[j]
  BY <1>1
<1>3. b \in Seq(S) /\ Len(b) = Len(s) - i /\ \A j \in 1 .. Len(s) - i : b[j] = s[i + j]
  BY <1>1
<1>4. t = a \o b
  BY DEF RemoveAt
<1> HIDE DEF a, b, t
<1>j. /\ t \in Seq(S) /\ DOMAIN t = 1 .. Len(a) + Len(b)
      /\ \A j \in 1 .. Len(a) : t[j] = a[j]
      /\ \A j \in 1 .. Len(b) : t[Len(a) + j] = b[j]
  <2>1. a \in Seq(S) /\ b \in Seq(S)
    BY <1>2, <1>3
  <2>2. /\ a \o b \in Seq(S) /\ DOMAIN (a \o b) = 1 .. Len(a) + Len(b)
        /\ \A j \in 1 .. Len(a) : (a \o b)[j] = a[j]
        /\ \A j \in 1 .. Len(b) : (a \o b)[Len(a) + j] = b[j]
    BY <2>1, Joined, SMTT(30)
  <2>3. QED
    BY <1>4, <2>2
<1>k. \A j \in i .. Len(s) - 1 : j - (i - 1) \in 1 .. Len(b) /\ Len(a) + (j - (i - 1)) = j
  BY <1>1, <1>2, <1>3
<1>5. /\ t \in Seq(S) /\ DOMAIN t = 1 .. Len(s) - 1
      /\ \A j \in 1 .. i - 1 : t[j] = a[j]
      /\ \A j \in i .. Len(s) - 1 : t[j] = b[j - (i - 1)]
  <2>1. DOMAIN t = 1 .. Len(s) - 1 /\ \A j \in 1 .. i - 1 : t[j] = a[j]
    BY <1>1, <1>2, <1>3, <1>j
  <2>2. ASSUME NEW j \in i .. Len(s) - 1 PROVE t[j] = b[j - (i - 1)]
    <3>1. t[Len(a) + (j - (i - 1))] = b[j - (i - 1)]
      BY <1>j, <1>k
    <3>2. QED
      BY <1>k, <3>1
  <2>3. QED
    BY <1>j, <2>1, <2>2
<1>6. ASSUME NEW j \in DOMAIN t
      PROVE  /\ (j < i => j \in DOMAIN s /\ t[j] = s[j])
             /\ (j >= i => j + 1 \in DOMAIN s /\ t[j] = s[j + 1])
  <2>1. CASE j < i
    BY <1>1, <1>2, <1>5, <2>1
  <2>2. CASE j >= i
    <3>1. j - (i - 1) \in 1 .. Len(s) - i /\ i + (j - (i - 1)) = j + 1
      BY <1>1, <1>5, <2>2
    <3>2. t[j] = b[j - (i - 1)] /\ b[j - (i - 1)] = s[i + (j - (i - 1))]
      BY <1>1, <1>3, <1>5, <2>2, <3>1
    <3>3. QED
      BY <1>1, <1>5, <2>2, <3>1, <3>2
  <2>3. QED
    BY <1>1, <1>5, <2>1, <2>2
<1>7. ASSUME NEW k \in DOMAIN s \ {i} PROVE \E j \in DOMAIN t : t[j] = s[k]
  <2>1. CASE k < i
    BY <1>1, <1>5, <1>6, <2>1
  <2>2. CASE k > i
    <3>1. k - 1 \in DOMAIN t /\ k - 1 >= i /\ k - 1 + 1 = k
      BY <1>1, <1>5, <2>2
    <3>2. t[k - 1] = s[k]
      BY <1>6, <3>1
    <3>3. QED
      BY <3>1, <3>2
  <2>3. QED
    BY <1>1, <2>1, <2>2
<1>8. QED
  BY <1>5, <1>6, <1>7 DEF t

\* The same, by where each element comes from.
LEMMA RemovedFrom ==
  ASSUME NEW S, NEW s \in Seq(S), NEW i \in DOMAIN s
  PROVE  \E from \in [DOMAIN RemoveAt(s, i) -> DOMAIN s \ {i}] :
           /\ \A j \in DOMAIN RemoveAt(s, i) : RemoveAt(s, i)[j] = s[from[j]]
           /\ \A j, k \in DOMAIN RemoveAt(s, i) : from[j] = from[k] => j = k
<1> DEFINE t    == RemoveAt(s, i)
           from == [j \in DOMAIN t |-> IF j < i THEN j ELSE j + 1]
<1>1. DOMAIN s = 1 .. Len(s) /\ i \in Int
  OBVIOUS
<1>2. /\ t \in Seq(S)
      /\ \A j \in DOMAIN t :
           /\ (j < i => j \in DOMAIN s /\ t[j] = s[j])
           /\ (j >= i => j + 1 \in DOMAIN s /\ t[j] = s[j + 1])
  BY Removed
<1> HIDE DEF t
<1>3. \A j \in DOMAIN t : j \in Int
  BY <1>2
<1>4. ASSUME NEW j \in DOMAIN t PROVE from[j] \in DOMAIN s \ {i} /\ t[j] = s[from[j]]
  <2>1. CASE j < i
    BY <1>1, <1>2, <1>3, <2>1
  <2>2. CASE ~(j < i)
    <3>1. j >= i /\ j + 1 # i /\ from[j] = j + 1
      BY <1>1, <1>3, <2>2
    <3>2. QED
      BY <1>2, <3>1
  <2>3. QED
    BY <2>1, <2>2
<1>5. ASSUME NEW j \in DOMAIN t, NEW k \in DOMAIN t, from[j] = from[k] PROVE j = k
  BY <1>1, <1>3, <1>5
<1>6. from \in [DOMAIN t -> DOMAIN s \ {i}]
  BY <1>4
<1> HIDE DEF from
<1>7. QED
  BY <1>4, <1>5, <1>6 DEF t

-------------------------------------------------------------------------------
(* The order of the start, and the next ID                                 *)

\* One store is initialised at a time.
LEMMA OneFirst ==
  ASSUME boot \subseteq Tables \union {"settings"}, NEW t, NEW u, First(t), First(u)
  PROVE  t = u
<1>1. \A x \in Tables \union {"settings"} : \E i \in 1 .. 6 : BootOrder[i] = x
  BY DEF Tables, BootOrder
<1>2. DOMAIN BootOrder = 1 .. 6
  BY DEF BootOrder
<1>3. \A x \in Tables \union {"settings"} : Place(x) \in 1 .. 6 /\ BootOrder[Place(x)] = x
  BY <1>1, <1>2 DEF Place
<1>4. Place(t) = Place(u)
  BY <1>3 DEF First
<1>5. QED
  BY <1>3, <1>4 DEF First

\* The next ID is above those that were loaded.
LEMMA NextIdAbove ==
  ASSUME NEW rows \in Seq(Row)
  PROVE  NextId(rows) \in Nat \ {0} /\ \A r \in Range(rows) : r.id < NextId(rows)
<1> DEFINE n == Len(rows)
           f == [i \in 1 .. n |-> rows[i].id]
           S == IdsOf(rows) \union {0}
<1>1. n \in Nat /\ DOMAIN rows = 1 .. n /\ \A i \in 1 .. n : rows[i] \in Row
  BY RangeOf
<1>2. \A i \in 1 .. n : rows[i].id \in Nat
  BY <1>1 DEF Row
<1>3. f \in [1 .. n -> Nat] /\ \A i \in 1 .. n : f[i] = rows[i].id
  BY <1>2
<1>4. S = {0} \union {f[i] : i \in 1 .. n}
  BY <1>1, <1>3 DEF IdsOf, Range
<1> HIDE DEF n, f, S
<1>5. PICK m \in {0} \union {f[i] : i \in 1 .. n} : \A i \in 1 .. n : f[i] <= m
  BY <1>1, <1>3, GreatestValue
<1>6. m \in S /\ \A y \in S : m >= y /\ y \in Nat
  BY <1>3, <1>4, <1>5
<1>7. Max(S) \in S /\ \A y \in S : Max(S) >= y
  BY <1>6 DEF Max
<1> DEFINE top == Max(S)
<1>8. NextId(rows) = top + 1
  BY DEF NextId, S
<1>9. \A r \in Range(rows) : r.id \in S
  BY DEF S, IdsOf
<1>10. top \in Nat /\ \A y \in S : y \in Nat /\ y <= top
  BY <1>6, <1>7
<1> HIDE DEF top
<1>11. QED
  BY <1>8, <1>9, <1>10

-------------------------------------------------------------------------------
(* Rows: what every edit keeps                                             *)

\* What is in a file was found there.
LEMMA FilesFound ==
  ASSUME Typing, NEW t \in Stored
  PROVE  /\ t \in Tables /\ t \in DOMAIN file
         /\ file[t].rows \in Seq(Row) /\ Distinct(file[t].rows)
         /\ Filed(file[t]) \subseteq FoundIn(deployment, t)
         /\ \A f \in Filed(file[t]) : f \in Row /\ f.born \in 1 .. f.stamp /\ f.stamp <= Found /\ f.stamp <= stamp
<1>1. deployment \in Deployments
  BY DEF Typing, ProcessOK
<1>2. t \in Tables /\ t \in DOMAIN deployment.files /\ FoundTable(deployment, t)
  BY <1>1, DeploymentAssumption DEF Stored
<1>3. /\ t \in DOMAIN file /\ file[t].rows = deployment.files[t].rows
      /\ file[t].at = "json" => deployment.files[t].at = "json"
  BY <1>2 DEF Typing, FilesOK
<1>4. Filed(file[t]) \subseteq Filed(deployment.files[t])
  BY <1>3 DEF Filed
<1>5. file[t].rows \in Seq(Row) /\ Distinct(file[t].rows)
  BY <1>2, <1>3 DEF FoundTable
<1>6. Filed(file[t]) \subseteq Row
  BY <1>5, RangeOf DEF Filed
<1>7. ASSUME NEW f \in Filed(file[t])
      PROVE  f.born \in 1 .. f.stamp /\ f.stamp <= Found
  BY <1>2, <1>4 DEF FoundTable, Stamped
<1>8. ASSUME NEW f \in Filed(file[t]) PROVE f.stamp <= stamp
  <2>1. f.stamp \in Nat /\ f.stamp <= Found /\ Found \in Nat /\ stamp \in Nat /\ Found <= stamp
    BY <1>6, <1>7, BoundAssumption DEF Row, Typing, CountersOK
  <2>2. QED
    BY <2>1
<1>9. QED
  BY <1>2, <1>3, <1>4, <1>5, <1>6, <1>7, <1>8 DEF FoundIn

\* Rows on record are rows, with a birth and a stamp.
LEMMA RowsFound ==
  ASSUME Typing, BirthsOK, NEW t \in Tables, NEW r \in Held(t)
  PROVE  /\ r \in Row /\ r.born \in Nat /\ r.stamp \in Nat /\ r.born >= 1 /\ r.born <= r.stamp
         /\ r.stamp <= stamp /\ r.born <= stamp /\ r.born \in 1 .. MaxEdits
<1>1. mem[t] \in Seq(Row) /\ disk[t] \in Seq(Row)
  BY DEF Typing, SlicesOK
<1>2. r \in Row
  BY <1>1, RangeOf DEF Held
<1>3. r.born \in Nat /\ r.stamp \in Nat
  BY <1>2 DEF Row
<1>4. r.born \in 1 .. r.stamp /\ r.stamp <= stamp
  BY DEF BirthsOK
<1>5. stamp \in Nat /\ MaxEdits \in Nat /\ stamp <= MaxEdits
  BY BoundAssumption DEF Typing, CountersOK
<1>6. QED
  BY <1>2, <1>3, <1>4, <1>5

\* What becomes of the promise about row b when rows is the new slice of table t.
Told(t, rows, ok, b) ==
  \/ /\ promised'[b] = promised[b]
     /\ Newer(mem[t], b, promised[b]) => Newer(rows, b, promised[b])
  \/ /\ b \in BornsOf(mem[t]) \union stamp + 1 .. stamp'
     /\ \/ promised'[b] = Nothing
        \/ ok /\ promised'[b] # Gone /\ Newer(rows, b, promised'[b])
        \/ ok /\ promised'[b] = Gone /\ b \notin BornsOf(rows)

\* An edit of table t, saved or not.
EditOf(t, rows, ok) ==
  /\ rows \in Seq(Row) /\ Distinct(rows)
  /\ mem' = [mem EXCEPT ![t] = rows]
  /\ disk' = [disk EXCEPT ![t] = IF ok THEN rows ELSE disk[t]]
  /\ ok => Savable(t, rows)
  /\ stamp' \in stamp .. MaxEdits
  /\ \A r \in Range(rows) : /\ r.born \in 1 .. r.stamp /\ r.stamp <= stamp'
                            /\ r.born > stamp \/ r.born \in BornsOf(mem[t])
  /\ promised' \in [1 .. MaxEdits -> Int]
  /\ \A b \in 1 .. MaxEdits : Told(t, rows, ok, b)

\* Promises are about rows there are.
LEMMA EditPromises ==
  ASSUME Typing, BirthsOK, NEW t \in Stored, NEW rows, NEW ok, EditOf(t, rows, ok)
  PROVE  PromisesOK'
<1>1. t \in Tables /\ promised' \in [1 .. MaxEdits -> Int] /\ stamp' \in stamp .. MaxEdits
  BY FilesFound DEF EditOf
<1>2. stamp \in Nat /\ stamp' \in Nat /\ stamp <= stamp'
  BY <1>1, BoundAssumption DEF Typing, CountersOK
<1>3. ASSUME NEW b \in 1 .. MaxEdits, b > stamp' PROVE promised'[b] = Nothing
  <2>1. Told(t, rows, ok, b)
    BY DEF EditOf
  <2>2. b > stamp /\ b \notin stamp + 1 .. stamp'
    BY <1>2, <1>3
  <2>3. b \notin BornsOf(mem[t])
    <3>1. SUFFICES ASSUME NEW r \in Range(mem[t]), r.born = b PROVE FALSE
      BY DEF BornsOf
    <3>2. r.born <= stamp
      BY <1>1, RowsFound DEF Held
    <3>3. QED
      BY <1>2, <2>2, <3>1, <3>2
  <2>4. promised[b] = Nothing
    BY <2>2 DEF Typing, PromisesOK
  <2>5. QED
    BY <2>1, <2>2, <2>3, <2>4 DEF Told
<1>4. QED
  BY <1>1, <1>3 DEF PromisesOK

\* What an edit leaves of memory and disk.
LEMMA EditSlices ==
  ASSUME Typing, NEW t \in Stored, NEW rows, NEW ok, EditOf(t, rows, ok)
  PROVE  /\ t \in Tables
         /\ mem' \in [Tables -> Seq(Row)] /\ disk' \in [Tables -> Seq(Row)]
         /\ mem'[t] = rows /\ disk'[t] = (IF ok THEN rows ELSE disk[t])
         /\ \A u \in Tables \ {t} : mem'[u] = mem[u] /\ disk'[u] = disk[u]
         /\ stamp \in Nat /\ stamp' \in Nat /\ stamp <= stamp'
<1>1. t \in Tables
  BY FilesFound
<1>2. /\ mem \in [Tables -> Seq(Row)] /\ disk \in [Tables -> Seq(Row)] /\ rows \in Seq(Row)
      /\ mem' = [mem EXCEPT ![t] = rows]
      /\ disk' = [disk EXCEPT ![t] = IF ok THEN rows ELSE disk[t]]
  BY DEF Typing, SlicesOK, EditOf
<1>3. stamp \in Nat /\ stamp' \in Nat /\ stamp <= stamp'
  BY BoundAssumption DEF Typing, CountersOK, EditOf
<1>4. QED
  BY <1>1, <1>2, <1>3

\* Births stay as they are.
LEMMA EditBirths ==
  ASSUME Typing, BirthsOK, NEW t \in Stored, NEW rows, NEW ok, EditOf(t, rows, ok)
  PROVE  BirthsOK'
<1> DEFINE Old1 == /\ t \in Tables
                   /\ mem'[t] = rows /\ disk'[t] = (IF ok THEN rows ELSE disk[t])
                   /\ \A u \in Tables \ {t} : mem'[u] = mem[u] /\ disk'[u] = disk[u]
                   /\ stamp \in Nat /\ stamp' \in Nat /\ stamp <= stamp'
<1>1. Old1
  BY EditSlices
<1>2. \A r \in Range(rows) : r.born \in 1 .. r.stamp /\ r.stamp <= stamp'
  BY DEF EditOf
<1>3. ASSUME NEW u \in Tables, NEW r \in Held(u) PROVE r.born \in 1 .. r.stamp /\ r.stamp <= stamp'
  <2>1. r.born \in 1 .. r.stamp /\ r.stamp <= stamp /\ r.stamp \in Nat
    BY <1>3, RowsFound DEF BirthsOK
  <2>2. QED
    BY <1>1, <2>1
<1>4. ASSUME NEW u \in Tables, NEW r \in Held(u)' PROVE r.born \in 1 .. r.stamp /\ r.stamp <= stamp'
  <2>1. Held(u)' \subseteq Held(u) \/ (u = t /\ Held(u)' \subseteq Held(u) \union Range(rows))
    BY <1>1 DEF Held
  <2>2. QED
    BY <1>2, <1>3, <2>1
<1>5. ASSUME NEW u \in Tables PROVE Distinct(mem'[u]) /\ Distinct(disk'[u])
  BY <1>1 DEF BirthsOK, EditOf
<1>6. QED
  BY <1>4, <1>5 DEF BirthsOK

\* What is left alone by an edit of table t, or by the first account, with which it is loaded.
EditFrame(t) ==
  /\ importing # "saved" /\ importing' = "no"
  /\ boot' = boot \ {t} /\ (t \notin boot \/ disk[t] = <<>>)
  /\ UNCHANGED <<deployment, file, halfway>>

\* A row there is after an edit was born in the same table before, or by the edit.
LEMMA EditBorn ==
  ASSUME Typing, BirthsOK, NEW t \in Stored, NEW rows, NEW ok, EditOf(t, rows, ok), EditFrame(t),
         NEW u \in Stored, NEW r \in Held(u)' \union Filed(file[u])
  PROVE  \/ \E s \in Held(u) \union Filed(file[u]) : s.born = r.born
         \/ u = t /\ r.born > stamp
<1>1. /\ u \in Tables /\ mem'[t] = rows /\ disk'[t] = (IF ok THEN rows ELSE disk[t])
      /\ \A x \in Tables \ {t} : mem'[x] = mem[x] /\ disk'[x] = disk[x]
  BY EditSlices, FilesFound
<1>2. CASE r \in Held(u) \union Filed(file[u])
  BY <1>2
<1>3. CASE u = t /\ r \in Range(rows)
  <2>1. r.born > stamp \/ r.born \in BornsOf(mem[t])
    BY <1>3 DEF EditOf
  <2>2. QED
    BY <1>3, <2>1 DEF BornsOf, Held
<1>4. QED
  BY <1>1, <1>2, <1>3 DEF Held

\* An edit: rows stay of one table.
LEMMA EditHome ==
  ASSUME Typing, BirthsOK, Home, NEW t \in Stored, NEW rows, NEW ok, EditOf(t, rows, ok), EditFrame(t)
  PROVE  Home'
<1>1. ASSUME NEW u \in Stored, NEW s \in Held(u) \union Filed(file[u]) PROVE s.born <= stamp /\ s.born \in Nat
  <2>1. u \in Tables
    BY FilesFound
  <2>2. CASE s \in Held(u)
    BY <2>1, <2>2, RowsFound
  <2>3. CASE s \in Filed(file[u])
    <3>1. s.born \in 1 .. s.stamp /\ s.stamp <= stamp /\ s \in Row
      BY <2>3, FilesFound
    <3>2. stamp \in Nat /\ s.stamp \in Nat
      BY <3>1, EditSlices DEF Row
    <3>3. QED
      BY <3>1, <3>2
  <2>4. QED
    BY <1>1, <2>2, <2>3
<1>2. Stored' = Stored /\ stamp \in Nat
  BY EditSlices DEF Stored, EditFrame
<1>3. ASSUME NEW u \in Stored, NEW v \in Stored,
             NEW r \in Held(u)' \union Filed(file[u]), NEW s \in Held(v)' \union Filed(file[v]),
             r.born = s.born
      PROVE  u = v
  <2>1. \/ \E x \in Held(u) \union Filed(file[u]) : x.born = r.born
        \/ u = t /\ r.born > stamp
    BY EditBorn
  <2>2. \/ \E x \in Held(v) \union Filed(file[v]) : x.born = s.born
        \/ v = t /\ s.born > stamp
    BY EditBorn
  <2>3. CASE (\E x \in Held(u) \union Filed(file[u]) : x.born = r.born) /\ (\E x \in Held(v) \union Filed(file[v]) : x.born = s.born)
    BY <1>3, <2>3 DEF Home
  <2>4. CASE r.born > stamp
    BY <1>1, <1>2, <1>3, <2>1, <2>2, <2>4
  <2>5. CASE s.born > stamp
    BY <1>1, <1>2, <1>3, <2>1, <2>2, <2>5
  <2>6. QED
    BY <2>1, <2>2, <2>3, <2>4, <2>5
<1>4. file' = file
  BY DEF EditFrame
<1>5. QED
  BY <1>2, <1>3, <1>4 DEF Home

\* An edit: a table that was not loaded stays empty in memory.
LEMMA EditUnloaded ==
  ASSUME Typing, Unloaded, NEW t \in Stored, NEW rows, NEW ok, EditOf(t, rows, ok), EditFrame(t)
  PROVE  Unloaded'
<1>1. \A u \in Tables \ {t} : mem'[u] = mem[u]
  BY EditSlices
<1>2. t \in deployment.tables /\ t \notin boot' /\ boot' = boot \ {t} /\ deployment' = deployment
  BY DEF Stored, EditFrame
<1>3. QED
  BY <1>1, <1>2 DEF Unloaded

\* No row that is in a file was born by an edit, and none that is in another table is in this one.
LEMMA EditKnown ==
  ASSUME Typing, BirthsOK, Home, NEW t \in Stored, EditFrame(t),
         NEW u \in Stored, NEW r \in Held(u) \union Filed(file[u]),
         r.born \in BornsOf(mem[t]) \union stamp + 1 .. stamp'
  PROVE  u = t /\ r.born \in BornsOf(mem[t])
<1>1. u \in Tables /\ t \in Tables /\ stamp \in Nat
  BY FilesFound, BoundAssumption DEF Typing, CountersOK
<1>2. r.born <= stamp /\ r.born \in Nat
  <2>2. CASE r \in Held(u)
    BY <1>1, <2>2, RowsFound
  <2>3. CASE r \in Filed(file[u])
    <3>1. r.born \in 1 .. r.stamp /\ r.stamp <= stamp /\ r \in Row
      BY <2>3, FilesFound
    <3>2. stamp \in Nat /\ r.stamp \in Nat
      BY <1>1, <3>1 DEF Row
    <3>3. QED
      BY <3>1, <3>2
  <2>4. QED
    BY <2>2, <2>3
<1>3. r.born \in BornsOf(mem[t])
  BY <1>1, <1>2
<1>4. PICK m \in Range(mem[t]) : m.born = r.born
  BY <1>3 DEF BornsOf
<1>5. m \in Held(t) \union Filed(file[t])
  BY <1>4 DEF Held
<1>6. QED
  BY <1>3, <1>4, <1>5 DEF Home

\* An edit: the rows that wait in a file are still those of nobody.
LEMMA EditWaiting ==
  ASSUME Typing, BirthsOK, Home, Waiting, CopiedOK, NEW t \in Stored, NEW rows, NEW ok, EditOf(t, rows, ok),
         EditFrame(t)
  PROVE  Waiting' /\ CopiedOK'
<1>1. /\ \A u \in Stored : ~Copied(u) /\ ~Copied(u)'
      /\ CopiedOK'
  BY DEF EditFrame, Copied, CopiedOK
<1>2. Stored' = Stored /\ halfway' = halfway /\ file' = file
  BY DEF EditFrame, Stored
<1>3. ASSUME NEW u \in Stored \ halfway, NEW f \in Filed(file[u])
      PROVE  promised'[f.born] # Gone /\ \A r \in Held(u)' : r.born # f.born
  <2>1. promised[f.born] # Gone /\ \A r \in Held(u) : r.born # f.born
    BY <1>1 DEF Waiting
  <2>2. f.born \notin BornsOf(mem[t]) \union stamp + 1 .. stamp'
    <3>1. SUFFICES ASSUME f.born \in BornsOf(mem[t]) \union stamp + 1 .. stamp' PROVE FALSE
      OBVIOUS
    <3>2. u = t /\ f.born \in BornsOf(mem[t])
      BY <3>1, EditKnown
    <3>3. QED
      BY <2>1, <3>2 DEF BornsOf, Held
  <2>3. f.born \in 1 .. MaxEdits
    <3>1. f \in Row /\ f.born \in 1 .. f.stamp /\ f.stamp <= Found
      BY FilesFound
    <3>2. f.stamp \in Nat /\ Found \in Nat /\ MaxEdits \in Nat /\ Found <= MaxEdits
      BY <3>1, BoundAssumption DEF Row
    <3>3. QED
      BY <3>1, <3>2
  <2>4. promised'[f.born] = promised[f.born]
    BY <2>2, <2>3 DEF EditOf, Told
  <2>5. ASSUME NEW r \in Held(u)', r.born = f.born PROVE FALSE
    <3>1. u \in Tables /\ mem'[t] = rows /\ disk'[t] = (IF ok THEN rows ELSE disk[t])
          /\ (\A x \in Tables \ {t} : mem'[x] = mem[x] /\ disk'[x] = disk[x])
      BY EditSlices, FilesFound
    <3>2. r \in Held(u) \/ (u = t /\ r \in Range(rows))
      BY <3>1 DEF Held
    <3>3. r \in Range(rows)
      BY <2>1, <2>5, <3>2
    <3>4. r.born > stamp \/ r.born \in BornsOf(mem[t])
      BY <3>3 DEF EditOf
    <3>5. r.born \in stamp + 1 .. stamp'
      <4>1. r.born > stamp /\ r.born \in 1 .. r.stamp /\ r.stamp <= stamp' /\ r \in Row
        BY <2>2, <2>5, <3>3, <3>4, RangeOf DEF EditOf
      <4>2. stamp \in Nat /\ stamp' \in Nat /\ r.stamp \in Nat
        BY <4>1, EditSlices DEF Row
      <4>3. QED
        BY <4>1, <4>2
    <3>6. QED
      BY <2>2, <2>5, <3>5
  <2>6. QED
    BY <2>1, <2>4, <2>5
<1>4. QED
  BY <1>1, <1>2, <1>3 DEF Waiting

\* An edit: memory has what the disk has to keep.
LEMMA EditReaches ==
  ASSUME Typing, BirthsOK, Home, Reaches, NEW t \in Stored, NEW rows, NEW ok, EditOf(t, rows, ok),
         EditFrame(t)
  PROVE  Reaches'
<1>1. /\ t \in Tables /\ mem'[t] = rows /\ disk'[t] = (IF ok THEN rows ELSE disk[t])
      /\ \A x \in Tables \ {t} : mem'[x] = mem[x] /\ disk'[x] = disk[x]
  BY EditSlices
<1>2. Stored' = Stored /\ boot' = boot \ {t} /\ (t \notin boot \/ disk[t] = <<>>)
  BY DEF EditFrame, Stored
<1>3. ASSUME NEW u \in Stored \ boot', NEW b \in 1 .. MaxEdits, promised'[b] > 0,
             Newer(disk'[u], b, promised'[b])
      PROVE  Newer(mem'[u], b, promised'[b])
  <2>1. Told(t, rows, ok, b)
    BY DEF EditOf
  <2>2. CASE u = t /\ ok
    BY <1>1, <1>3, <2>2
  <2>3. CASE u = t /\ ~ok
    <3>1. promised'[b] = promised[b] /\ (Newer(mem[t], b, promised[b]) => Newer(rows, b, promised[b]))
      BY <1>3, <2>1, <2>3 DEF Told, Nothing
    <3>2. disk'[t] = disk[t] /\ Newer(disk[t], b, promised[b])
      BY <1>1, <1>3, <2>3, <3>1
    <3>3. disk[t] # <<>>
      BY <3>2, RangeOfNone DEF Newer
    <3>4. t \in Stored \ boot /\ promised[b] > 0
      BY <1>2, <1>3, <3>1, <3>3
    <3>5. Newer(mem[t], b, promised[b])
      BY <3>2, <3>4 DEF Reaches
    <3>6. QED
      BY <1>1, <2>3, <3>1, <3>5
  <2>4. CASE u # t
    <3>1. u \in Stored \ boot /\ u \in Tables \ {t}
      BY <1>2, <1>3, <2>4, FilesFound
    <3>2. mem'[u] = mem[u] /\ disk'[u] = disk[u]
      BY <1>1, <3>1
    <3>3. PICK r \in Range(disk[u]) : r.born = b
      BY <1>3, <3>2 DEF Newer
    <3>4. r \in Held(u)
      BY <3>3 DEF Held
    <3>5. b \notin BornsOf(mem[t]) \union stamp + 1 .. stamp'
      BY <2>4, <3>1, <3>3, <3>4, EditKnown
    <3>6. promised'[b] = promised[b]
      BY <2>1, <3>5 DEF Told
    <3>7. QED
      BY <1>3, <3>1, <3>2, <3>6 DEF Reaches
  <2>5. QED
    BY <2>2, <2>3, <2>4
<1>4. QED
  BY <1>2, <1>3 DEF Reaches

\* An edit: what was said to be saved is on record.
LEMMA EditKept ==
  ASSUME Typing, BirthsOK, Reaches, KeptRows, NEW t \in Stored, NEW rows, NEW ok, EditOf(t, rows, ok),
         EditFrame(t)
  PROVE  KeptRows'
<1>1. /\ t \in Tables /\ mem'[t] = rows /\ disk'[t] = (IF ok THEN rows ELSE disk[t])
      /\ \A x \in Tables \ {t} : mem'[x] = mem[x] /\ disk'[x] = disk[x]
  BY EditSlices
<1>2. /\ Stored' = Stored /\ file' = file /\ (t \notin boot \/ disk[t] = <<>>)
      /\ DOMAIN promised' = 1 .. MaxEdits /\ DOMAIN promised = 1 .. MaxEdits
  BY DEF EditFrame, Stored, EditOf, Typing, PromisesOK
<1>3. ASSUME NEW b \in 1 .. MaxEdits, ok, Newer(rows, b, promised'[b])
      PROVE  \E u \in Stored : \E r \in OnRecord(u)' : r.born = b /\ r.stamp >= promised'[b]
  <2>1. \E r \in OnRecord(t)' : r.born = b /\ r.stamp >= promised'[b]
    BY <1>1, <1>3 DEF Newer, OnRecord
  <2>2. QED
    BY <2>1
<1>4. ASSUME NEW b \in 1 .. MaxEdits, promised'[b] > 0
      PROVE  \E u \in Stored : \E r \in OnRecord(u)' : r.born = b /\ r.stamp >= promised'[b]
  <2>1. Told(t, rows, ok, b)
    BY DEF EditOf
  <2>2. CASE promised'[b] # promised[b] \/ ~(Newer(mem[t], b, promised[b]) => Newer(rows, b, promised[b]))
    <3>1. ok /\ Newer(rows, b, promised'[b])
      BY <1>4, <2>1, <2>2 DEF Told, Nothing, Gone
    <3>2. QED
      BY <1>3, <3>1
  <2>3. CASE promised'[b] = promised[b] /\ (Newer(mem[t], b, promised[b]) => Newer(rows, b, promised[b]))
    <3>0. PICK u \in Stored : \E r \in OnRecord(u) : r.born = b /\ r.stamp >= promised[b]
      BY <1>2, <1>4, <2>3 DEF KeptRows
    <3>1. PICK r \in OnRecord(u) : r.born = b /\ r.stamp >= promised[b]
      BY <3>0
    <3>2. u \in Tables
      BY FilesFound
    <3>3. CASE r \in Filed(file[u]) \/ u # t \/ ~ok
      <4>1. r \in OnRecord(u)'
        BY <1>1, <1>2, <3>1, <3>2, <3>3 DEF OnRecord
      <4>2. QED
        BY <2>3, <3>1, <4>1
    <3>4. CASE u = t /\ r \in Range(disk[t]) /\ ok
      <4>1. disk[t] # <<>> /\ Newer(disk[t], b, promised[b])
        BY <3>1, <3>4, RangeOfNone DEF Newer
      <4>2. Newer(mem[t], b, promised[b])
        BY <1>2, <1>4, <2>3, <4>1 DEF Reaches
      <4>3. QED
        BY <1>3, <2>3, <3>4, <4>2
    <3>5. QED
      BY <3>1, <3>3, <3>4 DEF OnRecord
  <2>4. QED
    BY <2>2, <2>3
<1>5. QED
  BY <1>2, <1>4 DEF KeptRows

\* An edit: what was said to be deleted is nowhere.
LEMMA EditDeleted ==
  ASSUME Typing, BirthsOK, Home, DeletedRows, NEW t \in Stored, NEW rows, NEW ok, EditOf(t, rows, ok),
         EditFrame(t)
  PROVE  DeletedRows'
<1>1. /\ t \in Tables /\ mem'[t] = rows /\ disk'[t] = (IF ok THEN rows ELSE disk[t])
      /\ \A x \in Tables \ {t} : mem'[x] = mem[x] /\ disk'[x] = disk[x]
  BY EditSlices
<1>2. Stored' = Stored /\ halfway' = halfway
  BY DEF EditFrame, Stored
<1>3. ASSUME NEW u \in Stored \ halfway, NEW r \in Held(u)' PROVE promised'[r.born] # Gone
  <2>1. SUFFICES ASSUME promised'[r.born] = Gone PROVE FALSE
    OBVIOUS
  <2>2. r \in Held(u) \/ (u = t /\ r \in Range(rows))
    BY <1>1, FilesFound DEF Held
  <2>3. r.born \in 1 .. MaxEdits
    <3>1. CASE r \in Held(u)
      BY <3>1, RowsFound, FilesFound
    <3>2. CASE r \in Range(rows)
      <4>1. r \in Row /\ r.born \in 1 .. r.stamp /\ r.stamp <= stamp' /\ stamp' \in stamp .. MaxEdits
        BY <3>2, RangeOf DEF EditOf
      <4>2. r.stamp \in Nat /\ stamp' \in Nat /\ MaxEdits \in Nat
        BY <4>1, EditSlices, BoundAssumption DEF Row
      <4>3. QED
        BY <4>1, <4>2
    <3>3. QED
      BY <2>2, <3>1, <3>2
  <2>4. Told(t, rows, ok, r.born)
    BY <2>3 DEF EditOf
  <2>5. CASE promised'[r.born] = promised[r.born]
    <3>1. r \notin Held(u)
      BY <2>1, <2>5 DEF DeletedRows, Held
    <3>2. u = t /\ r \in Range(rows)
      BY <2>2, <3>1
    <3>3. r.born > stamp \/ r.born \in BornsOf(mem[t])
      BY <3>2 DEF EditOf
    <3>4. CASE r.born > stamp
      BY <2>1, <2>3, <2>5, <3>4 DEF Typing, PromisesOK, Nothing, Gone
    <3>5. CASE r.born \in BornsOf(mem[t])
      <4>1. PICK m \in Range(mem[t]) : m.born = r.born
        BY <3>5 DEF BornsOf
      <4>2. promised[m.born] # Gone
        BY <3>2, <4>1 DEF DeletedRows
      <4>3. QED
        BY <2>1, <2>5, <4>1, <4>2
    <3>6. QED
      BY <3>3, <3>4, <3>5
  <2>6. CASE promised'[r.born] # promised[r.born]
    <3>1. /\ r.born \in BornsOf(mem[t]) \union stamp + 1 .. stamp'
          /\ ok /\ r.born \notin BornsOf(rows)
      BY <2>1, <2>4, <2>6 DEF Told, Nothing, Gone
    <3>2. r \notin Range(rows)
      BY <3>1 DEF BornsOf
    <3>3. r \in Held(u)
      BY <2>2, <3>2
    <3>4. u = t
      BY <3>1, <3>3, EditKnown
    <3>5. QED
      BY <1>1, <1>3, <3>1, <3>2, <3>4 DEF Held
  <2>7. QED
    BY <2>5, <2>6
<1>4. QED
  BY <1>2, <1>3 DEF DeletedRows, Held

\* All that an edit of one table keeps.
LEMMA EditRows ==
  ASSUME Typing, RowsInv, NEW t \in Stored, NEW rows, NEW ok, EditOf(t, rows, ok), EditFrame(t)
  PROVE  RowsInv' /\ PromisesOK'
<1>1. BirthsOK /\ Unloaded /\ Home /\ CopiedOK /\ Waiting /\ Reaches /\ KeptRows /\ DeletedRows
  BY DEF RowsInv
<1>2. BirthsOK' /\ Unloaded'
  BY <1>1, EditBirths, EditUnloaded
<1>3. Home' /\ CopiedOK' /\ Waiting'
  BY <1>1, EditHome, EditWaiting
<1>4. Reaches' /\ KeptRows' /\ DeletedRows'
  BY <1>1, EditReaches, EditKept, EditDeleted
<1>5. PromisesOK'
  BY <1>1, EditPromises
<1>6. QED
  BY <1>2, <1>3, <1>4, <1>5 DEF RowsInv

-------------------------------------------------------------------------------
(* Rows: the edits                                                         *)

\* The slice of a table, its rows, and the stamp that an edit takes.
LEMMA SliceOf ==
  ASSUME Typing, BirthsOK, NEW t \in Stored
  PROVE  /\ t \in Tables /\ mem[t] \in Seq(Row) /\ Distinct(mem[t])
         /\ stamp \in Nat /\ MaxEdits \in Nat /\ stamp <= MaxEdits /\ stamp >= Found /\ Found \in Nat
         /\ mem \in [Tables -> Seq(Row)] /\ disk \in [Tables -> Seq(Row)]
         /\ promised \in [1 .. MaxEdits -> Int]
         /\ \A r \in Range(mem[t]) : /\ r \in Row /\ r.born \in 1 .. r.stamp /\ r.stamp <= stamp
                                     /\ r.born \in 1 .. MaxEdits /\ r.born <= stamp
<1>1. t \in Tables
  BY FilesFound
<1>2. \A r \in Range(mem[t]) : r \in Held(t)
  BY DEF Held
<1>3. /\ stamp \in Nat /\ MaxEdits \in Nat /\ stamp <= MaxEdits /\ stamp >= Found /\ Found \in Nat
      /\ mem \in [Tables -> Seq(Row)] /\ disk \in [Tables -> Seq(Row)]
      /\ promised \in [1 .. MaxEdits -> Int]
  BY BoundAssumption DEF Typing, CountersOK, SlicesOK, PromisesOK
<1>4. \A r \in Range(mem[t]) : r \in Row /\ r.born \in 1 .. r.stamp /\ r.stamp <= stamp
                               /\ r.born \in 1 .. MaxEdits /\ r.born <= stamp
  BY <1>1, <1>2, RowsFound DEF BirthsOK
<1>5. mem[t] \in Seq(Row) /\ Distinct(mem[t])
  BY <1>1, <1>3 DEF BirthsOK
<1>6. QED
  BY <1>1, <1>3, <1>4, <1>5

\* A save that fails is one fault more, or one that cannot be helped.
LEMMA SaveFaults ==
  ASSUME Typing, NEW t, NEW rows, NEW ok, Save(t, rows, ok)
  PROVE  faults' \in 0 .. MaxFaults
<1>1. faults' = faults \/ (faults < MaxFaults /\ faults' = faults + 1)
  BY DEF Save, CanFail
<1>2. QED
  BY <1>1, BoundAssumption DEF Typing, CountersOK

\* The key column takes keys, none, or a number made up.
KeyColumn == Keys \union {NoKey} \union Nat

NewRow(id, key) == [id |-> id, key |-> key, born |-> Stamp, stamp |-> Stamp]

\* A new row.
LEMMA InsertIsEdit ==
  ASSUME Typing, BirthsOK, NEW t \in Stored, NEW id \in Nat \ {0}, NEW key \in KeyColumn, CanEdit,
         Append1(t, id, key)
  PROVE  \E ok \in BOOLEAN : EditOf(t, Append(mem[t], NewRow(id, key)), ok) /\ faults' \in 0 .. MaxFaults
<1> DEFINE new  == NewRow(id, key)
           rows == Append(mem[t], new)
<1>1. /\ t \in Tables /\ mem[t] \in Seq(Row) /\ Distinct(mem[t])
      /\ stamp \in Nat /\ MaxEdits \in Nat /\ stamp < MaxEdits
      /\ promised \in [1 .. MaxEdits -> Int]
      /\ \A r \in Range(mem[t]) : /\ r \in Row /\ r.born \in 1 .. r.stamp /\ r.stamp <= stamp
                                  /\ r.born \in 1 .. MaxEdits /\ r.born <= stamp
  BY SliceOf DEF CanEdit
<1>2. PICK ok \in BOOLEAN : Save(t, rows, ok) /\ Tell(Stamp, Stamp, ok)
  BY DEF Append1, NewRow
<1>3. stamp' = Stamp /\ Stamp = stamp + 1 /\ Stamp \in 1 .. MaxEdits
  BY <1>1 DEF Append1, Stamp
<1>4. new \in Row /\ new.born = Stamp /\ new.stamp = Stamp
  BY <1>1, <1>3 DEF NewRow, Row, KeyColumn
<1> HIDE DEF new
<1>5. /\ rows \in Seq(Row) /\ Range(rows) = Range(mem[t]) \union {new}
      /\ DOMAIN rows = 1 .. Len(mem[t]) + 1 /\ rows[Len(mem[t]) + 1] = new
      /\ \A i \in 1 .. Len(mem[t]) : rows[i] = mem[t][i]
  BY <1>1, <1>4, Appended
<1>6. /\ DOMAIN mem[t] = 1 .. Len(mem[t]) /\ Len(mem[t]) \in Nat
      /\ \A i \in 1 .. Len(mem[t]) : mem[t][i] \in Range(mem[t])
  BY <1>1, RangeOf
<1> DEFINE n == Len(mem[t])
<1> HIDE DEF rows, n
<1>7. Distinct(rows)
  <2>1. SUFFICES ASSUME NEW i \in 1 .. n + 1, NEW j \in 1 .. n + 1, rows[i].born = rows[j].born
                 PROVE  i = j
    BY <1>5 DEF Distinct, n
  <2>2. /\ n \in Nat /\ DOMAIN mem[t] = 1 .. n /\ rows[n + 1] = new
        /\ \A k \in 1 .. n : rows[k] = mem[t][k] /\ rows[k].born # Stamp
    BY <1>1, <1>3, <1>5, <1>6 DEF n
  <2>3. CASE i = n + 1 \/ j = n + 1
    BY <1>4, <2>1, <2>2, <2>3
  <2>4. CASE i \in 1 .. n /\ j \in 1 .. n
    BY <1>1, <2>1, <2>2, <2>4 DEF Distinct
  <2>5. QED
    BY <2>2, <2>3, <2>4
<1>8. ASSUME NEW r \in Range(rows)
      PROVE  /\ r.born \in 1 .. r.stamp /\ r.stamp <= stamp'
             /\ r.born > stamp \/ r.born \in BornsOf(mem[t])
  <2>1. CASE r = new
    BY <1>1, <1>3, <1>4, <2>1
  <2>2. CASE r \in Range(mem[t])
    <3>1. r.born \in 1 .. r.stamp /\ r.stamp <= stamp /\ r.stamp \in Nat
      BY <1>1, <2>2 DEF Row
    <3>2. QED
      BY <1>1, <1>3, <2>2, <3>1 DEF BornsOf
  <2>3. QED
    BY <1>5, <2>1, <2>2
<1>9. promised' = [promised EXCEPT ![Stamp] = IF ok THEN Stamp ELSE Nothing]
  BY <1>2 DEF Tell
<1>10. promised' \in [1 .. MaxEdits -> Int]
  BY <1>1, <1>3, <1>9 DEF Nothing
<1>11. ASSUME NEW b \in 1 .. MaxEdits PROVE Told(t, rows, ok, b)
  <2>1. CASE b = Stamp
    <3>1. promised'[b] = IF ok THEN Stamp ELSE Nothing
      BY <1>1, <1>3, <1>9, <2>1
    <3>2. b \in stamp + 1 .. stamp' /\ Newer(rows, b, Stamp) /\ Stamp # Gone
      BY <1>1, <1>3, <1>4, <1>5, <2>1 DEF Newer, Gone
    <3>3. QED
      BY <3>1, <3>2 DEF Told
  <2>2. CASE b # Stamp
    <3>1. promised'[b] = promised[b]
      BY <1>1, <1>3, <1>9, <2>2
    <3>2. Newer(mem[t], b, promised[b]) => Newer(rows, b, promised[b])
      BY <1>5 DEF Newer
    <3>3. QED
      BY <3>1, <3>2 DEF Told
  <2>3. QED
    BY <2>1, <2>2
<1>12. /\ mem' = [mem EXCEPT ![t] = rows] /\ disk' = [disk EXCEPT ![t] = IF ok THEN rows ELSE disk[t]]
       /\ ok => Savable(t, rows)
  BY <1>2 DEF Save
<1>13. stamp' \in stamp .. MaxEdits
  BY <1>1, <1>3
<1>14. EditOf(t, rows, ok)
  BY <1>5, <1>7, <1>8, <1>10, <1>11, <1>12, <1>13 DEF EditOf
<1>15. faults' \in 0 .. MaxFaults
  BY <1>2, SaveFaults
<1>16. QED
  BY <1>14, <1>15 DEF rows, new

\* A new stamp.
LEMMA Restamped ==
  ASSUME NEW r \in Row, NEW n \in Nat
  PROVE  /\ [r EXCEPT !.stamp = n] \in Row
         /\ [r EXCEPT !.stamp = n].born = r.born /\ [r EXCEPT !.stamp = n].stamp = n
         /\ [r EXCEPT !.stamp = n].id = r.id /\ [r EXCEPT !.stamp = n].key = r.key
BY DEF Row

\* Row i written again, with a new stamp.
LEMMA RowWritten ==
  ASSUME Typing, BirthsOK, NEW t \in Stored, NEW i \in DOMAIN mem[t], NEW x \in Row, CanEdit,
         stamp' = Stamp, x.born = mem[t][i].born, x.stamp = Stamp
  PROVE  /\ mem[t][i] \in Range(mem[t]) /\ [mem[t] EXCEPT ![i] = x] \in Seq(Row)
         /\ Distinct([mem[t] EXCEPT ![i] = x])
         /\ stamp' \in stamp .. MaxEdits
         /\ \A r \in Range([mem[t] EXCEPT ![i] = x]) :
              /\ r.born \in 1 .. r.stamp /\ r.stamp <= stamp'
              /\ r.born > stamp \/ r.born \in BornsOf(mem[t])
         /\ Newer([mem[t] EXCEPT ![i] = x], mem[t][i].born, Stamp)
         /\ \A b \in 1 .. MaxEdits :
              Newer(mem[t], b, promised[b]) => Newer([mem[t] EXCEPT ![i] = x], b, promised[b])
<1> DEFINE rows == [mem[t] EXCEPT ![i] = x]
           old  == mem[t][i]
<1>1. /\ t \in Tables /\ mem[t] \in Seq(Row) /\ Distinct(mem[t])
      /\ stamp \in Nat /\ MaxEdits \in Nat /\ stamp < MaxEdits
      /\ promised \in [1 .. MaxEdits -> Int]
      /\ \A r \in Range(mem[t]) : /\ r \in Row /\ r.born \in 1 .. r.stamp /\ r.stamp <= stamp
                                  /\ r.born \in 1 .. MaxEdits /\ r.born <= stamp
  BY SliceOf DEF CanEdit
<1>2. Stamp = stamp + 1 /\ Stamp \in 1 .. MaxEdits /\ stamp' \in stamp .. MaxEdits
  BY <1>1 DEF Stamp
<1>3. /\ rows \in Seq(Row) /\ DOMAIN rows = DOMAIN mem[t] /\ rows[i] = x
      /\ \A j \in DOMAIN mem[t] \ {i} : rows[j] = mem[t][j]
  BY <1>1, Rewritten
<1>4. /\ \A j \in DOMAIN mem[t] : mem[t][j] \in Range(mem[t])
      /\ \A r \in Range(mem[t]) : \E j \in DOMAIN mem[t] : r = mem[t][j]
      /\ \A r \in Range(rows) : r \in Row /\ \E j \in DOMAIN rows : r = rows[j]
      /\ \A j \in DOMAIN rows : rows[j] \in Range(rows)
  <2>1. rows \in Seq(Row)
    BY <1>3
  <2> HIDE DEF rows
  <2>2. \A r \in Range(rows) : r \in Row
    BY <2>1, RangeOf
  <2>3. QED
    BY <2>2 DEF Range
<1>5. old \in Range(mem[t]) /\ x.born = old.born
  BY <1>4
<1> HIDE DEF rows, old
<1>6. \A j \in DOMAIN mem[t] : rows[j].born = mem[t][j].born
  BY <1>3, <1>5 DEF old
<1>7. Distinct(rows)
  BY <1>1, <1>3, <1>6 DEF Distinct
<1>8. ASSUME NEW r \in Range(rows)
      PROVE  /\ r.born \in 1 .. r.stamp /\ r.stamp <= stamp'
             /\ r.born > stamp \/ r.born \in BornsOf(mem[t])
  <2>1. PICK j \in DOMAIN mem[t] : r = rows[j] /\ r \in Row
    BY <1>3, <1>4
  <2>2. r.born = mem[t][j].born /\ mem[t][j] \in Range(mem[t])
    BY <1>4, <1>6, <2>1
  <2>3. r.born \in BornsOf(mem[t])
    BY <2>2 DEF BornsOf
  <2>4. /\ mem[t][j].born \in 1 .. mem[t][j].stamp /\ mem[t][j].stamp <= stamp
        /\ mem[t][j].stamp \in Nat
    BY <1>1, <2>2 DEF Row
  <2>5. CASE j = i
    BY <1>1, <1>2, <1>3, <2>1, <2>2, <2>3, <2>4, <2>5
  <2>6. CASE j # i
    BY <1>1, <1>2, <1>3, <2>1, <2>2, <2>3, <2>4, <2>6
  <2>7. QED
    BY <2>5, <2>6
<1>9. Newer(rows, old.born, Stamp)
  <2>1. x \in Range(rows) /\ x.born = old.born /\ x.stamp >= Stamp
    BY <1>1, <1>2, <1>3, <1>4, <1>5
  <2>2. QED
    BY <2>1 DEF Newer
<1>10. ASSUME NEW b \in 1 .. MaxEdits, Newer(mem[t], b, promised[b])
       PROVE  Newer(rows, b, promised[b])
  <2>1. PICK r \in Range(mem[t]) : r.born = b /\ r.stamp >= promised[b]
    BY <1>10 DEF Newer
  <2>2. PICK j \in DOMAIN mem[t] : r = mem[t][j]
    BY <1>4
  <2>3. CASE j # i
    BY <1>3, <1>4, <2>1, <2>2, <2>3 DEF Newer
  <2>4. CASE j = i
    <3>1. r = old /\ b = old.born
      BY <2>1, <2>2, <2>4 DEF old
    <3>2. promised[b] \in Int /\ promised[b] <= Stamp
      <4>1. r.stamp \in Nat /\ r.stamp <= stamp
        BY <1>1, <2>1 DEF Row
      <4>2. QED
        BY <1>1, <1>2, <2>1, <4>1
    <3>3. x \in Range(rows) /\ x.born = b /\ x.stamp >= promised[b]
      BY <1>2, <1>3, <1>4, <1>5, <3>1, <3>2
    <3>4. QED
      BY <3>3 DEF Newer
  <2>5. QED
    BY <2>3, <2>4
<1>11. QED
  BY <1>2, <1>3, <1>5, <1>7, <1>8, <1>9, <1>10 DEF rows, old

\* New columns.
LEMMA ReplaceIsEdit ==
  ASSUME Typing, BirthsOK, NEW t \in Stored, NEW i \in DOMAIN mem[t], NEW key \in KeyColumn, CanEdit,
         Replace(t, i, key)
  PROVE  \E ok \in BOOLEAN :
           /\ EditOf(t, [mem[t] EXCEPT ![i] = [mem[t][i] EXCEPT !.key = key, !.stamp = Stamp]], ok)
           /\ faults' \in 0 .. MaxFaults
<1> DEFINE old  == mem[t][i]
           x    == [old EXCEPT !.key = key, !.stamp = Stamp]
           rows == [mem[t] EXCEPT ![i] = x]
<1>1. /\ t \in Tables /\ mem[t] \in Seq(Row)
      /\ stamp \in Nat /\ MaxEdits \in Nat /\ stamp < MaxEdits
      /\ promised \in [1 .. MaxEdits -> Int]
      /\ \A r \in Range(mem[t]) : r \in Row /\ r.born \in 1 .. MaxEdits
  BY SliceOf DEF CanEdit
<1>2. old \in Range(mem[t]) /\ old \in Row /\ old.born \in 1 .. MaxEdits
  BY <1>1, RangeOf
<1>3. PICK ok \in BOOLEAN : Save(t, rows, ok) /\ Tell(old.born, Stamp, ok)
  BY DEF Replace
<1>4. stamp' = Stamp /\ Stamp \in Nat /\ Stamp \in 1 .. MaxEdits
  BY <1>1 DEF Replace, Stamp
<1>x. x = [old EXCEPT !.key = key, !.stamp = Stamp]
  OBVIOUS
<1> HIDE DEF x
<1>5. x \in Row /\ x.born = old.born /\ x.stamp = Stamp
  <2> HIDE DEF old
  <2>1. old \in Row /\ Stamp \in Nat
    BY <1>2, <1>4
  <2>2. QED
    BY <1>x, <2>1 DEF Row, KeyColumn
<1>6. /\ rows \in Seq(Row) /\ Distinct(rows) /\ stamp' \in stamp .. MaxEdits
      /\ \A r \in Range(rows) : /\ r.born \in 1 .. r.stamp /\ r.stamp <= stamp'
                                /\ r.born > stamp \/ r.born \in BornsOf(mem[t])
      /\ Newer(rows, old.born, Stamp)
      /\ \A b \in 1 .. MaxEdits : Newer(mem[t], b, promised[b]) => Newer(rows, b, promised[b])
  BY <1>4, <1>5, RowWritten
<1> HIDE DEF rows, old
<1>7. promised' = [promised EXCEPT ![old.born] = IF ok THEN Stamp ELSE Nothing]
  BY <1>3 DEF Tell
<1>8. promised' \in [1 .. MaxEdits -> Int]
  BY <1>1, <1>2, <1>4, <1>7 DEF Nothing
<1>9. ASSUME NEW b \in 1 .. MaxEdits PROVE Told(t, rows, ok, b)
  <2>1. CASE b = old.born
    <3>1. promised'[b] = IF ok THEN Stamp ELSE Nothing
      BY <1>1, <1>7, <2>1
    <3>2. b \in BornsOf(mem[t]) /\ Newer(rows, b, Stamp) /\ Stamp # Gone
      BY <1>2, <1>4, <1>6, <2>1 DEF BornsOf, Gone
    <3>3. QED
      BY <3>1, <3>2 DEF Told
  <2>2. CASE b # old.born
    <3>1. promised'[b] = promised[b]
      BY <1>1, <1>7, <2>2
    <3>2. QED
      BY <1>6, <2>2, <3>1 DEF Told
  <2>3. QED
    BY <2>1, <2>2
<1>10. /\ mem' = [mem EXCEPT ![t] = rows] /\ disk' = [disk EXCEPT ![t] = IF ok THEN rows ELSE disk[t]]
       /\ ok => Savable(t, rows)
  BY <1>3 DEF Save
<1>11. EditOf(t, rows, ok)
  BY <1>6, <1>8, <1>9, <1>10 DEF EditOf
<1>12. faults' \in 0 .. MaxFaults
  BY <1>3, SaveFaults
<1>13. QED
  BY <1>11, <1>12 DEF rows, x, old

\* A charge, of which nobody is told.
LEMMA ChargeIsEdit ==
  ASSUME Typing, BirthsOK, NEW t \in Stored, CanEdit, Charge(t)
  PROVE  \E i \in DOMAIN mem[t], ok \in BOOLEAN :
           /\ EditOf(t, [mem[t] EXCEPT ![i] = [mem[t][i] EXCEPT !.stamp = Stamp]], ok)
           /\ faults' \in 0 .. MaxFaults
<1>1. /\ t \in Tables /\ mem[t] \in Seq(Row)
      /\ stamp \in Nat /\ MaxEdits \in Nat /\ stamp < MaxEdits
      /\ promised \in [1 .. MaxEdits -> Int]
      /\ \A r \in Range(mem[t]) : r \in Row /\ r.born \in 1 .. MaxEdits
  BY SliceOf DEF CanEdit
<1>2. PICK i \in DOMAIN mem[t], ok \in BOOLEAN : Save(t, [mem[t] EXCEPT ![i].stamp = Stamp], ok)
  BY DEF Charge
<1> DEFINE old  == mem[t][i]
           x    == [old EXCEPT !.stamp = Stamp]
           rows == [mem[t] EXCEPT ![i] = x]
<1>3. Save(t, rows, ok) /\ stamp' = Stamp /\ promised' = promised
  BY <1>2 DEF Charge
<1>4. old \in Range(mem[t]) /\ old \in Row /\ old.born \in 1 .. MaxEdits
  BY <1>1, RangeOf
<1>s. Stamp \in Nat
  BY <1>1 DEF Stamp
<1>5. x \in Row /\ x.born = old.born /\ x.stamp = Stamp
  BY <1>4, <1>s, Restamped
<1> HIDE DEF x
<1>6. /\ rows \in Seq(Row) /\ Distinct(rows) /\ stamp' \in stamp .. MaxEdits
      /\ \A r \in Range(rows) : /\ r.born \in 1 .. r.stamp /\ r.stamp <= stamp'
                                /\ r.born > stamp \/ r.born \in BornsOf(mem[t])
      /\ \A b \in 1 .. MaxEdits : Newer(mem[t], b, promised[b]) => Newer(rows, b, promised[b])
  BY <1>3, <1>5, RowWritten
<1> HIDE DEF rows, old
<1>7. ASSUME NEW b \in 1 .. MaxEdits PROVE Told(t, rows, ok, b)
  BY <1>3, <1>6 DEF Told
<1>8. /\ mem' = [mem EXCEPT ![t] = rows] /\ disk' = [disk EXCEPT ![t] = IF ok THEN rows ELSE disk[t]]
      /\ ok => Savable(t, rows)
  BY <1>3 DEF Save
<1>9. promised' \in [1 .. MaxEdits -> Int]
  BY <1>1, <1>3
<1>10. EditOf(t, rows, ok)
  BY <1>6, <1>7, <1>8, <1>9 DEF EditOf
<1>11. faults' \in 0 .. MaxFaults
  BY <1>3, SaveFaults
<1>12. QED
  BY <1>10, <1>11 DEF rows, x, old

\* A row taken out.
LEMMA DeleteIsEdit ==
  ASSUME Typing, BirthsOK, NEW t \in Stored, CanEdit, DeleteRow(t)
  PROVE  \E i \in DOMAIN mem[t], ok \in BOOLEAN :
           EditOf(t, RemoveAt(mem[t], i), ok) /\ faults' \in 0 .. MaxFaults
<1>1. /\ t \in Tables /\ mem[t] \in Seq(Row) /\ Distinct(mem[t])
      /\ stamp \in Nat /\ MaxEdits \in Nat /\ stamp < MaxEdits
      /\ promised \in [1 .. MaxEdits -> Int]
      /\ \A r \in Range(mem[t]) : /\ r \in Row /\ r.born \in 1 .. r.stamp /\ r.stamp <= stamp
                                  /\ r.born \in 1 .. MaxEdits
  BY SliceOf DEF CanEdit
<1>2. PICK i \in DOMAIN mem[t], ok \in BOOLEAN :
        Save(t, RemoveAt(mem[t], i), ok) /\ Tell(mem[t][i].born, Gone, ok)
  BY DEF DeleteRow
<1> DEFINE old  == mem[t][i]
           rows == RemoveAt(mem[t], i)
<1>3. stamp' = stamp + 1 /\ stamp' \in stamp .. MaxEdits
  BY <1>1 DEF DeleteRow, Stamp
<1>4. /\ Len(mem[t]) \in Nat /\ DOMAIN mem[t] = 1 .. Len(mem[t])
      /\ \A j \in DOMAIN mem[t] : mem[t][j] \in Range(mem[t])
      /\ \A r \in Range(mem[t]) : \E j \in DOMAIN mem[t] : mem[t][j] = r
  BY <1>1, RangeOf
<1>5. /\ rows \in Seq(Row)
      /\ \A k \in DOMAIN mem[t] \ {i} : \E j \in DOMAIN rows : rows[j] = mem[t][k]
  BY <1>1, Removed
<1>f. PICK from \in [DOMAIN rows -> DOMAIN mem[t] \ {i}] :
        /\ \A j \in DOMAIN rows : rows[j] = mem[t][from[j]]
        /\ \A j, k \in DOMAIN rows : from[j] = from[k] => j = k
  BY <1>1, RemovedFrom
<1>6. old \in Range(mem[t]) /\ old.born \in 1 .. MaxEdits
  BY <1>1, <1>4
<1> HIDE DEF rows
<1>7. /\ \A j \in DOMAIN rows : rows[j] \in Range(rows)
      /\ \A r \in Range(rows) : \E j \in DOMAIN rows : rows[j] = r
  BY <1>5, RangeOf
<1>9. Distinct(rows)
  BY <1>1, <1>f DEF Distinct
<1>10. ASSUME NEW r \in Range(rows) PROVE r \in Range(mem[t]) /\ r.born # old.born
  <2>1. PICK j \in DOMAIN rows : rows[j] = r
    BY <1>7
  <2>2. from[j] \in DOMAIN mem[t] /\ from[j] # i /\ r = mem[t][from[j]]
    BY <1>f, <2>1
  <2>3. QED
    BY <1>1, <1>4, <2>2 DEF Distinct
<1> HIDE DEF old
<1>11. ASSUME NEW r \in Range(mem[t]), r.born # old.born PROVE r \in Range(rows)
  <2>1. PICK k \in DOMAIN mem[t] : mem[t][k] = r
    BY <1>4
  <2>2. k \in DOMAIN mem[t] \ {i}
    BY <1>11, <2>1 DEF old
  <2>3. QED
    BY <1>5, <1>7, <2>1, <2>2
<1>12. ASSUME NEW r \in Range(rows)
       PROVE  /\ r.born \in 1 .. r.stamp /\ r.stamp <= stamp'
              /\ r.born > stamp \/ r.born \in BornsOf(mem[t])
  <2>1. r.born \in 1 .. r.stamp /\ r.stamp <= stamp /\ r.stamp \in Nat
    BY <1>1, <1>10 DEF Row
  <2>2. QED
    BY <1>1, <1>3, <1>10, <2>1 DEF BornsOf
<1>13. promised' = [promised EXCEPT ![old.born] = IF ok THEN Gone ELSE Nothing]
  BY <1>2 DEF Tell, old
<1>14. promised' \in [1 .. MaxEdits -> Int]
  BY <1>1, <1>6, <1>13 DEF Nothing, Gone
<1>15. ASSUME NEW b \in 1 .. MaxEdits PROVE Told(t, rows, ok, b)
  <2>1. CASE b = old.born
    <3>1. promised'[b] = IF ok THEN Gone ELSE Nothing
      BY <1>1, <1>13, <2>1
    <3>2. b \in BornsOf(mem[t]) /\ b \notin BornsOf(rows)
      BY <1>6, <1>10, <2>1 DEF BornsOf
    <3>3. QED
      BY <3>1, <3>2 DEF Told
  <2>2. CASE b # old.born
    <3>1. promised'[b] = promised[b]
      BY <1>1, <1>13, <2>2
    <3>2. Newer(mem[t], b, promised[b]) => Newer(rows, b, promised[b])
      BY <1>11, <2>2 DEF Newer
    <3>3. QED
      BY <3>1, <3>2 DEF Told
  <2>3. QED
    BY <2>1, <2>2
<1>16. /\ mem' = [mem EXCEPT ![t] = rows] /\ disk' = [disk EXCEPT ![t] = IF ok THEN rows ELSE disk[t]]
       /\ ok => Savable(t, rows)
  BY <1>2 DEF Save, rows
<1>17. EditOf(t, rows, ok)
  BY <1>3, <1>5, <1>9, <1>12, <1>14, <1>15, <1>16 DEF EditOf
<1>18. faults' \in 0 .. MaxFaults
  BY <1>2, SaveFaults
<1>19. QED
  BY <1>17, <1>18 DEF rows

\* The codes made by one request.
NewCodes(count) == [i \in 1 .. count |-> [id |-> stamp + i, key |-> stamp + i,
                                          born |-> stamp + i, stamp |-> stamp + i]]

\* A dozen of new rows.
LEMMA CodesAreEdit ==
  ASSUME Typing, BirthsOK, "redemptions" \in Stored, CreateRedemptions
  PROVE  \E count \in 1 .. 2, ok \in BOOLEAN :
           /\ EditOf("redemptions", mem["redemptions"] \o NewCodes(count), ok)
           /\ faults' \in 0 .. MaxFaults /\ stamp' = stamp + count
<1> DEFINE t == "redemptions"
<1>1. /\ t \in Tables /\ mem[t] \in Seq(Row) /\ Distinct(mem[t])
      /\ stamp \in Nat /\ MaxEdits \in Nat /\ stamp + 2 <= MaxEdits
      /\ promised \in [1 .. MaxEdits -> Int]
      /\ \A r \in Range(mem[t]) : /\ r \in Row /\ r.born \in 1 .. r.stamp /\ r.stamp <= stamp
                                  /\ r.born \in 1 .. MaxEdits /\ r.born <= stamp
  BY SliceOf DEF CreateRedemptions
<1>2. PICK count \in 1 .. 2, ok \in BOOLEAN :
        /\ stamp' = stamp + count
        /\ Save(t, mem[t] \o NewCodes(count), ok)
        /\ promised' = [b \in DOMAIN promised |->
                          IF ok /\ b \in BornsOf(NewCodes(count)) THEN b ELSE promised[b]]
  BY DEF CreateRedemptions, NewCodes
<1> DEFINE new  == NewCodes(count)
           rows == mem[t] \o new
           n    == Len(mem[t])
<1>3. stamp' \in stamp .. MaxEdits /\ stamp' = stamp + count /\ count \in Nat
  BY <1>1, <1>2
<1>4. /\ new \in Seq(Row) /\ Len(new) = count
      /\ \A i \in 1 .. count : new[i].born = stamp + i /\ new[i].stamp = stamp + i
  <2>1. \A i \in 1 .. count : [id |-> stamp + i, key |-> stamp + i, born |-> stamp + i, stamp |-> stamp + i] \in Row
    BY <1>1, <1>3 DEF Row
  <2>2. QED
    BY <1>3, <2>1 DEF NewCodes
<1> HIDE DEF new
<1>5. /\ rows \in Seq(Row) /\ Range(rows) = Range(mem[t]) \union Range(new)
      /\ DOMAIN rows = 1 .. n + count
      /\ \A i \in 1 .. n : rows[i] = mem[t][i]
      /\ \A i \in 1 .. count : rows[n + i] = new[i]
  BY <1>1, <1>4, Joined
<1>6. /\ DOMAIN mem[t] = 1 .. n /\ n \in Nat
      /\ \A i \in 1 .. n : mem[t][i] \in Range(mem[t])
      /\ \A r \in Range(new) : \E i \in 1 .. count : r = new[i]
      /\ \A i \in 1 .. count : new[i] \in Range(new)
  <2>1. n \in Nat /\ DOMAIN mem[t] = 1 .. n
    BY <1>1, RangeOf
  <2>2. DOMAIN new = 1 .. count
    BY <1>4, RangeOf
  <2>3. QED
    BY <2>1, <2>2 DEF Range
<1> HIDE DEF rows, n, t
<1>7. Distinct(rows)
  <2>1. SUFFICES ASSUME NEW i \in 1 .. n + count, NEW j \in 1 .. n + count, rows[i].born = rows[j].born
                 PROVE  i = j
    BY <1>5 DEF Distinct
  <2>2. \A k \in 1 .. n : rows[k] = mem[t][k] /\ rows[k].born <= stamp /\ rows[k].born \in Nat
    BY <1>1, <1>5, <1>6
  <2>3. \A k \in n + 1 .. n + count : rows[k].born = stamp + (k - n)
    <3>1. SUFFICES ASSUME NEW k \in n + 1 .. n + count PROVE rows[k].born = stamp + (k - n)
      OBVIOUS
    <3>2. k - n \in 1 .. count /\ n + (k - n) = k
      BY <1>3, <1>6
    <3>3. rows[n + (k - n)] = new[k - n]
      BY <1>5, <3>2
    <3>4. QED
      BY <1>4, <3>2, <3>3
  <2>4. CASE i \in 1 .. n /\ j \in 1 .. n
    BY <1>1, <1>6, <2>1, <2>2, <2>4 DEF Distinct
  <2>5. CASE i \in n + 1 .. n + count /\ j \in n + 1 .. n + count
    BY <1>1, <1>3, <1>6, <2>1, <2>3, <2>5
  <2>6. CASE i \in 1 .. n /\ j \in n + 1 .. n + count
    BY <1>1, <1>3, <1>6, <2>1, <2>2, <2>3, <2>6
  <2>7. CASE j \in 1 .. n /\ i \in n + 1 .. n + count
    BY <1>1, <1>3, <1>6, <2>1, <2>2, <2>3, <2>7
  <2>8. QED
    BY <1>3, <1>6, <2>4, <2>5, <2>6, <2>7
<1>8. ASSUME NEW r \in Range(new) PROVE r.born \in stamp + 1 .. stamp' /\ r.stamp = r.born
  BY <1>1, <1>3, <1>4, <1>6
<1>9. ASSUME NEW r \in Range(rows)
      PROVE  /\ r.born \in 1 .. r.stamp /\ r.stamp <= stamp'
             /\ r.born > stamp \/ r.born \in BornsOf(mem[t])
  <2>1. CASE r \in Range(new)
    BY <1>1, <1>3, <1>8, <2>1
  <2>2. CASE r \in Range(mem[t])
    <3>1. r.born \in 1 .. r.stamp /\ r.stamp <= stamp /\ r.stamp \in Nat
      BY <1>1, <2>2 DEF Row
    <3>2. QED
      BY <1>1, <1>3, <2>2, <3>1 DEF BornsOf
  <2>3. QED
    BY <1>5, <2>1, <2>2
<1>10. promised' = [b \in 1 .. MaxEdits |-> IF ok /\ b \in BornsOf(new) THEN b ELSE promised[b]]
  BY <1>1, <1>2 DEF new
<1>11. promised' \in [1 .. MaxEdits -> Int]
  BY <1>1, <1>10
<1>12. ASSUME NEW b \in 1 .. MaxEdits PROVE Told(t, rows, ok, b)
  <2>1. CASE ok /\ b \in BornsOf(new)
    <3>1. promised'[b] = b
      BY <1>10, <2>1
    <3>2. PICK r \in Range(new) : r.born = b
      BY <2>1 DEF BornsOf
    <3>3. b \in stamp + 1 .. stamp' /\ b # Gone /\ r.stamp >= b
      BY <1>1, <1>3, <1>8, <3>2 DEF Gone
    <3>4. Newer(rows, b, b)
      BY <1>5, <3>2, <3>3 DEF Newer
    <3>5. QED
      BY <2>1, <3>1, <3>3, <3>4 DEF Told
  <2>2. CASE ~(ok /\ b \in BornsOf(new))
    <3>1. promised'[b] = promised[b]
      BY <1>10, <2>2
    <3>2. Newer(mem[t], b, promised[b]) => Newer(rows, b, promised[b])
      BY <1>5 DEF Newer
    <3>3. QED
      BY <3>1, <3>2 DEF Told
  <2>3. QED
    BY <2>1, <2>2
<1>13. /\ mem' = [mem EXCEPT ![t] = rows] /\ disk' = [disk EXCEPT ![t] = IF ok THEN rows ELSE disk[t]]
       /\ ok => Savable(t, rows)
  BY <1>2 DEF Save, rows, new, t
<1>14. EditOf(t, rows, ok)
  BY <1>3, <1>5, <1>7, <1>9, <1>11, <1>12, <1>13 DEF EditOf
<1>15. faults' \in 0 .. MaxFaults
  BY <1>2, SaveFaults
<1>16. QED
  BY <1>3, <1>14, <1>15 DEF rows, new, t

-------------------------------------------------------------------------------
(* Tables that are not poisoned: the edits                                 *)

\* rows can be saved where IDs and keys are looked up, and n is a free ID.
Fresh(t, rows, n) ==
  /\ t \in Numbered => Savable(t, rows) /\ \A r \in Range(rows) : r.id < n
  /\ t = "redemptions" => Savable(t, rows) /\ \A r \in Range(rows) : Coded(r)

\* What the slice of a table in use has, that the next save needs.
LEMMA StoredFresh ==
  ASSUME SavableInv, NEW t \in Stored
  PROVE  Fresh(t, mem[t], next[t])
BY DEF SavableInv, Fresh, Stored, Held

\* An edit: what can be written again still can.
LEMMA EditSavable ==
  ASSUME Typing, SavableInv, NEW t \in Stored, NEW rows, NEW ok, EditOf(t, rows, ok),
         Fresh(t, rows, next'[t]), \A u \in Tables \ {t} : next'[u] = next[u], deployment' = deployment
  PROVE  SavableInv'
<1>1. /\ t \in Tables /\ mem'[t] = rows /\ disk'[t] = (IF ok THEN rows ELSE disk[t])
      /\ \A x \in Tables \ {t} : mem'[x] = mem[x] /\ disk'[x] = disk[x]
  BY EditSlices
<1>2. \A u \in Stored : u \in Tables
  BY FilesFound
<1>3. Stored' = Stored
  BY DEF Stored
<1>4. ASSUME NEW u \in Tables PROVE Savable(u, disk'[u])
  BY <1>1 DEF EditOf, SavableInv
<1>5. ASSUME NEW u \in Stored \intersect Numbered
      PROVE  Savable(u, mem'[u]) /\ \A r \in Range(mem'[u]) : r.id < next'[u]
  BY <1>1, <1>2 DEF SavableInv, Fresh
<1>6. ASSUME "redemptions" \in deployment.tables
      PROVE  /\ Savable("redemptions", mem'["redemptions"])
             /\ \A r \in Held("redemptions")' : Coded(r)
  <2>1. "redemptions" \in Tables
    BY DEF Tables
  <2>2. CASE t = "redemptions"
    BY <1>1, <1>6, <2>2 DEF SavableInv, Fresh, Held
  <2>3. CASE t # "redemptions"
    BY <1>1, <1>6, <2>1, <2>3 DEF SavableInv, Held
  <2>4. QED
    BY <2>2, <2>3
<1>7. QED
  BY <1>3, <1>4, <1>5, <1>6 DEF SavableInv

\* A new row with a free ID, and a key that nobody has.
LEMMA FreshInsert ==
  ASSUME Typing, SavableInv, NEW t \in Stored, NEW n \in Nat, NEW r \in Row,
         \A x \in Range(mem[t]) : t \in Numbered => x.id < r.id /\ r.id < n,
         t \in Numbered => r.id < n,
         t = "users" => \A x \in Range(mem[t]) : x.key # r.key,
         t # "redemptions"
  PROVE  Fresh(t, Append(mem[t], r), n)
<1> DEFINE rows == Append(mem[t], r)
           m == Len(mem[t])
<1>1. /\ mem[t] \in Seq(Row) /\ t \in Tables /\ Fresh(t, mem[t], next[t])
  BY FilesFound, StoredFresh DEF Typing, SlicesOK
<1>2. /\ rows \in Seq(Row) /\ Range(rows) = Range(mem[t]) \union {r}
      /\ DOMAIN rows = 1 .. m + 1 /\ rows[m + 1] = r
      /\ \A i \in 1 .. m : rows[i] = mem[t][i]
  BY <1>1, Appended
<1>3. /\ DOMAIN mem[t] = 1 .. m /\ m \in Nat
      /\ \A i \in 1 .. m : mem[t][i] \in Range(mem[t])
      /\ \A x \in Range(mem[t]) : x \in Row
  BY <1>1, RangeOf
<1> HIDE DEF rows, m
<1>4. ASSUME t \in Numbered PROVE Savable(t, rows) /\ \A x \in Range(rows) : x.id < n
  <2>1. \A x \in Range(mem[t]) : x.id < r.id /\ x.id \in Nat
    BY <1>3, <1>4 DEF Row
  <2>2. r.id \in Nat /\ r.id < n
    BY <1>4 DEF Row
  <2>3. \A x \in Range(rows) : x.id < n
    BY <1>2, <2>1, <2>2
  <2>4. ASSUME NEW i \in 1 .. m + 1, NEW j \in 1 .. m + 1, i # j
        PROVE  rows[i].id # rows[j].id /\ (t = "channels" \/ rows[i].key # rows[j].key)
    <3>1. t = "channels" \/ t = "users"
      BY <1>4 DEF Numbered
    <3>2. \A k \in 1 .. m : /\ rows[k].id < r.id /\ rows[k].id \in Nat
                            /\ t = "users" => rows[k].key # r.key
      BY <1>2, <1>3, <2>1
    <3>3. CASE i = m + 1
      BY <1>2, <1>3, <2>2, <2>4, <3>1, <3>2, <3>3
    <3>4. CASE j = m + 1
      BY <1>2, <1>3, <2>2, <2>4, <3>1, <3>2, <3>4
    <3>5. CASE i \in 1 .. m /\ j \in 1 .. m
      <4>1. mem[t][i].id # mem[t][j].id /\ (t = "channels" \/ mem[t][i].key # mem[t][j].key)
        BY <1>1, <1>3, <1>4, <2>4, <3>5 DEF Fresh, Savable
      <4>2. QED
        BY <1>2, <3>5, <4>1
    <3>6. QED
      BY <1>3, <3>3, <3>4, <3>5
  <2>5. QED
    BY <1>2, <2>3, <2>4 DEF Savable
<1>5. QED
  BY <1>4 DEF Fresh, rows

\* A row written again, with its ID, and a key that no other has.
LEMMA FreshWritten ==
  ASSUME Typing, SavableInv, NEW t \in Stored, NEW i \in DOMAIN mem[t], NEW x \in Row,
         x.id = mem[t][i].id,
         t = "users" => \A j \in DOMAIN mem[t] \ {i} : mem[t][j].key # x.key,
         t = "redemptions" => x.key = mem[t][i].key /\ x.born = mem[t][i].born
  PROVE  Fresh(t, [mem[t] EXCEPT ![i] = x], next[t])
<1> DEFINE rows == [mem[t] EXCEPT ![i] = x]
<1>1. /\ mem[t] \in Seq(Row) /\ t \in Tables /\ Fresh(t, mem[t], next[t])
  BY FilesFound, StoredFresh DEF Typing, SlicesOK
<1>2. /\ rows \in Seq(Row) /\ DOMAIN rows = DOMAIN mem[t] /\ rows[i] = x
      /\ \A j \in DOMAIN mem[t] \ {i} : rows[j] = mem[t][j]
  BY <1>1, Rewritten
<1>3. \A j \in DOMAIN mem[t] : mem[t][j] \in Range(mem[t])
  BY DEF Range
<1> HIDE DEF rows
<1>4. \A r \in Range(rows) : \E j \in DOMAIN mem[t] : r = rows[j]
  BY <1>2 DEF Range
<1>5. \A j \in DOMAIN mem[t] : rows[j].id = mem[t][j].id
  BY <1>2
<1>6. ASSUME t \in Numbered PROVE Savable(t, rows) /\ \A r \in Range(rows) : r.id < next[t]
  <2>1. \A r \in Range(rows) : r.id < next[t]
    BY <1>1, <1>3, <1>4, <1>5, <1>6 DEF Fresh
  <2>2. \A j, k \in DOMAIN mem[t] : j # k => mem[t][j].id # mem[t][k].id /\ (t = "channels" \/ mem[t][j].key # mem[t][k].key)
    BY <1>1, <1>6 DEF Fresh, Savable
  <2>3. ASSUME NEW j \in DOMAIN mem[t], NEW k \in DOMAIN mem[t], j # k
        PROVE  rows[j].id # rows[k].id /\ (t = "channels" \/ rows[j].key # rows[k].key)
    <3>1. t = "channels" \/ t = "users"
      BY <1>6 DEF Numbered
    <3>2. QED
      BY <1>2, <1>5, <2>2, <2>3, <3>1
  <2>4. QED
    BY <1>2, <2>1, <2>3 DEF Savable
<1>7. ASSUME t = "redemptions" PROVE Savable(t, rows) /\ \A r \in Range(rows) : Coded(r)
  <2>1. \A j \in DOMAIN mem[t] : rows[j].key = mem[t][j].key /\ rows[j].born = mem[t][j].born
    BY <1>2, <1>7
  <2>2. \A r \in Range(rows) : Coded(r)
    BY <1>1, <1>3, <1>4, <1>5, <1>7, <2>1 DEF Fresh, Coded
  <2>3. Savable(t, rows)
    BY <1>1, <1>2, <1>5, <1>7, <2>1 DEF Fresh, Savable
  <2>4. QED
    BY <2>2, <2>3
<1>8. QED
  BY <1>6, <1>7 DEF Fresh, rows

\* A row taken out.
LEMMA FreshRemoved ==
  ASSUME Typing, SavableInv, NEW t \in Stored, NEW i \in DOMAIN mem[t]
  PROVE  Fresh(t, RemoveAt(mem[t], i), next[t])
<1> DEFINE rows == RemoveAt(mem[t], i)
<1>1. /\ mem[t] \in Seq(Row) /\ t \in Tables /\ Fresh(t, mem[t], next[t])
  BY FilesFound, StoredFresh DEF Typing, SlicesOK
<1>2. PICK from \in [DOMAIN rows -> DOMAIN mem[t] \ {i}] :
        /\ \A j \in DOMAIN rows : rows[j] = mem[t][from[j]]
        /\ \A j, k \in DOMAIN rows : from[j] = from[k] => j = k
  BY <1>1, RemovedFrom
<1> HIDE DEF rows
<1>3. \A r \in Range(rows) : r \in Range(mem[t])
  BY <1>2 DEF Range
<1>4. ASSUME Savable(t, mem[t]) PROVE Savable(t, rows)
  BY <1>2, <1>4 DEF Savable
<1>5. QED
  BY <1>1, <1>3, <1>4 DEF Fresh, rows

\* New codes.
LEMMA FreshCodes ==
  ASSUME Typing, BirthsOK, SavableInv, "redemptions" \in Stored, NEW count \in 1 .. 2, NEW n
  PROVE  Fresh("redemptions", mem["redemptions"] \o NewCodes(count), n)
<1> DEFINE t    == "redemptions"
           new  == NewCodes(count)
           rows == mem[t] \o new
           m    == Len(mem[t])
<1>1. /\ mem[t] \in Seq(Row) /\ Fresh(t, mem[t], next[t]) /\ stamp \in Nat /\ count \in Nat
      /\ \A r \in Range(mem[t]) : r \in Row /\ r.born <= stamp /\ r.born \in 1 .. MaxEdits
  BY SliceOf, StoredFresh
<1>2. /\ new \in Seq(Row) /\ Len(new) = count
      /\ \A i \in 1 .. count : new[i].id = stamp + i /\ new[i].key = stamp + i /\ new[i].born = stamp + i
  <2>1. \A i \in 1 .. count : [id |-> stamp + i, key |-> stamp + i, born |-> stamp + i, stamp |-> stamp + i] \in Row
    BY <1>1 DEF Row
  <2>2. QED
    BY <1>1, <2>1 DEF NewCodes
<1> HIDE DEF new
<1>3. /\ rows \in Seq(Row) /\ Range(rows) = Range(mem[t]) \union Range(new)
      /\ DOMAIN rows = 1 .. m + count
      /\ \A i \in 1 .. m : rows[i] = mem[t][i]
      /\ \A i \in 1 .. count : rows[m + i] = new[i]
  BY <1>1, <1>2, Joined
<1>4. /\ DOMAIN mem[t] = 1 .. m /\ m \in Nat
      /\ \A i \in 1 .. m : mem[t][i] \in Range(mem[t])
      /\ \A r \in Range(new) : \E i \in 1 .. count : r = new[i]
  <2>1. m \in Nat /\ DOMAIN mem[t] = 1 .. m
    BY <1>1, RangeOf
  <2>2. DOMAIN new = 1 .. count
    BY <1>2, RangeOf
  <2>3. QED
    BY <2>1, <2>2 DEF Range
<1> HIDE DEF rows, m, t
<1>5. /\ \A r \in Range(mem[t]) : Coded(r)
      /\ \A i, j \in 1 .. m : i # j => mem[t][i].id # mem[t][j].id /\ mem[t][i].key # mem[t][j].key
  BY <1>1, <1>4 DEF Fresh, Savable, t
<1>6. \A r \in Range(rows) : Coded(r)
  <2>1. \A r \in Range(new) : Coded(r)
    BY <1>1, <1>2, <1>4 DEF Coded
  <2>2. QED
    BY <1>3, <1>5, <2>1
<1>7. \A k \in 1 .. m : /\ rows[k] = mem[t][k] /\ rows[k].id <= stamp /\ rows[k].id \in Nat
                        /\ rows[k].key \in Nat => rows[k].key <= stamp
  BY <1>1, <1>3, <1>4, <1>5 DEF Coded
<1>8. \A k \in m + 1 .. m + count : rows[k].id = stamp + (k - m) /\ rows[k].key = stamp + (k - m)
  <2>1. SUFFICES ASSUME NEW k \in m + 1 .. m + count
                 PROVE  rows[k].id = stamp + (k - m) /\ rows[k].key = stamp + (k - m)
    OBVIOUS
  <2>2. k - m \in 1 .. count /\ m + (k - m) = k
    BY <1>1, <1>4
  <2>3. rows[m + (k - m)] = new[k - m]
    BY <1>3, <2>2
  <2>4. QED
    BY <1>2, <2>2, <2>3
<1>9. ASSUME NEW i \in 1 .. m + count, NEW j \in 1 .. m + count, i # j
      PROVE  rows[i].id # rows[j].id /\ rows[i].key # rows[j].key
  <2>1. CASE i \in 1 .. m /\ j \in 1 .. m
    BY <1>5, <1>7, <1>9, <2>1
  <2>2. CASE i \in m + 1 .. m + count /\ j \in m + 1 .. m + count
    BY <1>1, <1>4, <1>8, <1>9, <2>2
  <2>3. CASE i \in 1 .. m /\ j \in m + 1 .. m + count
    <3>1. stamp + (j - m) \in Nat /\ stamp + (j - m) > stamp
      BY <1>1, <1>4, <2>3
    <3>2. QED
      BY <1>1, <1>7, <1>8, <2>3, <3>1
  <2>4. CASE j \in 1 .. m /\ i \in m + 1 .. m + count
    <3>1. stamp + (i - m) \in Nat /\ stamp + (i - m) > stamp
      BY <1>1, <1>4, <2>4
    <3>2. QED
      BY <1>1, <1>7, <1>8, <2>4, <3>1
  <2>5. QED
    BY <1>1, <1>4, <2>1, <2>2, <2>3, <2>4
<1>10. Savable(t, rows)
  BY <1>3, <1>9 DEF Savable
<1>11. QED
  BY <1>6, <1>10 DEF Fresh, Numbered, rows, new, t

\* An edit while the gateway serves.
LEMMA Edited ==
  ASSUME Typing, RowsInv, SavableInv, NEW t \in Stored, phase = "up", Frame,
         NEW rows, NEW ok, EditOf(t, rows, ok), faults' \in 0 .. MaxFaults,
         next' \in [Tables -> Nat \ {0}], \A u \in Tables \ {t} : next'[u] = next[u],
         Fresh(t, rows, next'[t])
  PROVE  Typing' /\ RowsInv' /\ SavableInv'
<1>1. boot = {} /\ importing = "no"
  BY DEF Typing, ProcessOK
<1>2. EditFrame(t)
  BY <1>1 DEF Frame, EditFrame
<1>3. RowsInv' /\ PromisesOK'
  BY <1>2, EditRows
<1>4. SavableInv'
  BY EditSavable DEF Frame
<1>5. ProcessOK' /\ FilesOK' /\ SettingsOK'
  <2>1. ProcessOK'
    BY DEF Typing, ProcessOK, Frame
  <2>2. FilesOK'
    BY DEF Typing, FilesOK, Frame
  <2>3. SettingsOK'
    BY DEF Typing, SettingsOK, Frame
  <2>4. QED
    BY <2>1, <2>2, <2>3
<1>6. SlicesOK'
  BY EditSlices DEF SlicesOK
<1>7. CountersOK'
  <2>1. stamp' \in stamp .. MaxEdits /\ stamp \in Found .. MaxEdits /\ crashes' = crashes
    BY DEF EditOf, Typing, CountersOK, Frame
  <2>2. QED
    BY <2>1, BoundAssumption DEF Typing, CountersOK
<1>8. QED
  BY <1>3, <1>4, <1>5, <1>6, <1>7 DEF Typing

\* A table in use is one whose rows are kept.
LEMMA ServingStored ==
  ASSUME NEW t \in Tables, Serving(t)
  PROVE  t \in Stored /\ phase = "up"
BY DEF Serving, Stored, Tables

\* A new row while the gateway serves, with an ID that is free and a key that nobody has.
LEMMA InsertStep ==
  ASSUME Typing, RowsInv, SavableInv, NEW t \in Stored \ {"redemptions"}, phase = "up", Frame, CanEdit,
         NEW id \in Nat \ {0}, NEW key \in KeyColumn, Append1(t, id, key),
         next' \in [Tables -> Nat \ {0}], \A u \in Tables \ {t} : next'[u] = next[u],
         t \in Numbered => id = next[t] /\ next'[t] = next[t] + 1,
         t = "users" => \A r \in Range(mem[t]) : r.key # key
  PROVE  Typing' /\ RowsInv' /\ SavableInv'
<1>1. BirthsOK
  BY DEF RowsInv
<1>2. PICK ok \in BOOLEAN : EditOf(t, Append(mem[t], NewRow(id, key)), ok) /\ faults' \in 0 .. MaxFaults
  BY <1>1, InsertIsEdit
<1> DEFINE new == NewRow(id, key)
<1>3. new \in Row /\ new.id = id /\ new.key = key
  <2>1. Stamp \in Nat
    BY <1>1, SliceOf DEF Stamp
  <2>2. QED
    BY <2>1 DEF NewRow, Row, KeyColumn
<1> HIDE DEF new
<1>4. t \in Tables /\ next'[t] \in Nat
  BY FilesFound
<1>5. ASSUME t \in Numbered PROVE new.id < next'[t] /\ \A r \in Range(mem[t]) : r.id < new.id
  BY <1>3, <1>5 DEF SavableInv
<1>6. Fresh(t, Append(mem[t], new), next'[t])
  BY <1>3, <1>4, <1>5, FreshInsert
<1>7. QED
  BY <1>2, <1>6, Edited DEF new

\* A row written again while the gateway serves.
LEMMA ReplaceStep ==
  ASSUME Typing, RowsInv, SavableInv, NEW t \in Stored, phase = "up", Frame, CanEdit, next' = next,
         NEW i \in DOMAIN mem[t], NEW key \in KeyColumn, Replace(t, i, key),
         t = "users" => \A j \in DOMAIN mem[t] \ {i} : mem[t][j].key # key,
         t = "redemptions" => key = mem[t][i].key
  PROVE  Typing' /\ RowsInv' /\ SavableInv'
<1> DEFINE old == mem[t][i]
           x   == [old EXCEPT !.key = key, !.stamp = Stamp]
<1>1. BirthsOK
  BY DEF RowsInv
<1>2. PICK ok \in BOOLEAN : EditOf(t, [mem[t] EXCEPT ![i] = x], ok) /\ faults' \in 0 .. MaxFaults
  BY <1>1, ReplaceIsEdit
<1>x. x = [old EXCEPT !.key = key, !.stamp = Stamp]
  OBVIOUS
<1> HIDE DEF x
<1>3. x \in Row /\ x.id = old.id /\ x.key = key /\ x.born = old.born
  <2>1. mem[t] \in Seq(Row) /\ Stamp \in Nat
    BY <1>1, SliceOf DEF Stamp
  <2>2. old \in Row
    BY <2>1
  <2> HIDE DEF old
  <2>3. QED
    BY <1>x, <2>1, <2>2 DEF Row, KeyColumn
<1>4. Fresh(t, [mem[t] EXCEPT ![i] = x], next[t])
  BY <1>3, FreshWritten
<1>5. next' \in [Tables -> Nat \ {0}]
  BY DEF Typing, SlicesOK
<1>6. QED
  BY <1>2, <1>4, <1>5, Edited

\* An administrator or the holder changes a row; the name of an account is looked up.
LEMMA UpdateStep ==
  ASSUME Typing, RowsInv, SavableInv, NEW t \in Tables, Update(t)
  PROVE  Typing' /\ RowsInv' /\ SavableInv'
<1>1. /\ t \in Stored /\ phase = "up" /\ CanEdit /\ next' = next /\ Frame
  BY ServingStored DEF Update
<1>2. PICK i \in DOMAIN mem[t] : \E k \in NewKeys(t, mem[t][i]) : Replace(t, i, k)
  BY DEF Update
<1> DEFINE old == mem[t][i]
<1>3. PICK k \in NewKeys(t, old) : Replace(t, i, k)
  BY <1>2
<1>4. mem[t] \in Seq(Row)
  BY <1>1, SliceOf DEF RowsInv
<1>5. old \in Row /\ old.key \in KeyColumn
  <2>1. old \in Row
    BY <1>4
  <2>2. QED
    BY <2>1 DEF Row, KeyColumn
<1>6. k \in Keys \union {old.key} /\ (t \in {"channels", "redemptions"} => k = old.key)
      /\ (t = "users" => ~NameIsTaken(k, old.id))
  BY <1>3 DEF NewKeys, Tables
<1>7. ASSUME t = "users", NEW j \in DOMAIN mem[t] \ {i} PROVE mem[t][j].key # k
  <2>1. mem[t][j] \in Range(mem["users"])
    BY <1>4, <1>7, RangeOf
  <2>2. mem[t][j].id # old.id
    BY <1>1, <1>7, StoredFresh DEF Fresh, Numbered, Savable
  <2>3. QED
    BY <1>6, <1>7, <2>1, <2>2 DEF NameIsTaken
<1>8. k \in KeyColumn
  BY <1>5, <1>6 DEF KeyColumn
<1> HIDE DEF old
<1>9. QED
  BY <1>1, <1>3, <1>6, <1>7, <1>8, ReplaceStep DEF old

\* A charge.
LEMMA ChargeStep ==
  ASSUME Typing, RowsInv, SavableInv, NEW t \in Tables, Charge(t)
  PROVE  Typing' /\ RowsInv' /\ SavableInv'
<1>1. /\ t \in Stored /\ phase = "up" /\ CanEdit /\ next' = next /\ Frame /\ BirthsOK
  BY ServingStored DEF Charge, RowsInv
<1>2. PICK i \in DOMAIN mem[t], ok \in BOOLEAN :
        /\ EditOf(t, [mem[t] EXCEPT ![i] = [mem[t][i] EXCEPT !.stamp = Stamp]], ok)
        /\ faults' \in 0 .. MaxFaults
  BY <1>1, ChargeIsEdit
<1> DEFINE old == mem[t][i]
           x   == [old EXCEPT !.stamp = Stamp]
<1>3. mem[t] \in Seq(Row) /\ Stamp \in Nat
  BY <1>1, SliceOf DEF Stamp
<1>4. old \in Row
  BY <1>3
<1>5. x \in Row /\ x.id = old.id /\ x.key = old.key /\ x.born = old.born
  BY <1>3, <1>4, Restamped
<1>6. t = "users" => \A j \in DOMAIN mem[t] \ {i} : mem[t][j].key # old.key
  BY <1>1, StoredFresh DEF Fresh, Numbered, Savable
<1> HIDE DEF x
<1>7. Fresh(t, [mem[t] EXCEPT ![i] = x], next[t])
  BY <1>1, <1>5, <1>6, FreshWritten
<1>8. next' \in [Tables -> Nat \ {0}]
  BY <1>1 DEF Typing, SlicesOK
<1>9. QED
  BY <1>1, <1>2, <1>7, <1>8, Edited DEF x

\* A deletion.
LEMMA DeleteStep ==
  ASSUME Typing, RowsInv, SavableInv, NEW t \in Tables, DeleteRow(t)
  PROVE  Typing' /\ RowsInv' /\ SavableInv'
<1>1. /\ t \in Stored /\ phase = "up" /\ CanEdit /\ next' = next /\ Frame /\ BirthsOK
  BY ServingStored DEF DeleteRow, RowsInv
<1>2. PICK i \in DOMAIN mem[t], ok \in BOOLEAN :
        EditOf(t, RemoveAt(mem[t], i), ok) /\ faults' \in 0 .. MaxFaults
  BY <1>1, DeleteIsEdit
<1>3. Fresh(t, RemoveAt(mem[t], i), next[t])
  BY <1>1, FreshRemoved
<1>4. next' \in [Tables -> Nat \ {0}]
  BY <1>1 DEF Typing, SlicesOK
<1>5. QED
  BY <1>1, <1>2, <1>3, <1>4, Edited

\* Codes.
LEMMA CodesStep ==
  ASSUME Typing, RowsInv, SavableInv, CreateRedemptions
  PROVE  Typing' /\ RowsInv' /\ SavableInv'
<1>1. /\ "redemptions" \in Stored /\ phase = "up" /\ next' = next /\ Frame /\ BirthsOK
  BY ServingStored DEF CreateRedemptions, RowsInv, Tables
<1>2. PICK count \in 1 .. 2, ok \in BOOLEAN :
        /\ EditOf("redemptions", mem["redemptions"] \o NewCodes(count), ok)
        /\ faults' \in 0 .. MaxFaults
  BY <1>1, CodesAreEdit
<1>3. Fresh("redemptions", mem["redemptions"] \o NewCodes(count), next["redemptions"])
  BY <1>1, FreshCodes
<1>4. next' \in [Tables -> Nat \ {0}]
  BY <1>1 DEF Typing, SlicesOK
<1>5. QED
  BY <1>1, <1>2, <1>3, <1>4, Edited

\* The next ID is used up.
LEMMA NextUsed ==
  ASSUME Typing, NEW t \in Tables, next' = [next EXCEPT ![t] = @ + 1]
  PROVE  /\ next' \in [Tables -> Nat \ {0}] /\ next'[t] = next[t] + 1 /\ next[t] \in Nat \ {0}
         /\ \A u \in Tables \ {t} : next'[u] = next[u]
BY DEF Typing, SlicesOK

\* The rows of the edits, one by one.
LEMMA EditStep ==
  ASSUME Typing, RowsInv, SavableInv, Edit
  PROVE  Typing' /\ RowsInv' /\ SavableInv'
<1>k. Keys \subseteq KeyColumn /\ NoKey \in KeyColumn
  BY DEF KeyColumn
<1>t. {"routes", "tokens", "channels", "users", "redemptions"} = Tables
  BY DEF Tables
<1>n. /\ "routes" \notin Numbered /\ "tokens" \notin Numbered
      /\ next \in [Tables -> Nat \ {0}]
  BY DEF Numbered, Typing, SlicesOK
<1>1. CASE InsertRoute
  <2>1. "routes" \in Stored /\ phase = "up" /\ CanEdit /\ Frame
    BY <1>1, <1>t, ServingStored DEF InsertRoute
  <2>2. PICK k \in Keys : Append1("routes", next["routes"], k)
    BY <1>1 DEF InsertRoute
  <2>3. /\ next' \in [Tables -> Nat \ {0}] /\ next["routes"] \in Nat \ {0}
        /\ \A u \in Tables \ {"routes"} : next'[u] = next[u]
    BY <1>1, <1>t, NextUsed DEF InsertRoute
  <2>4. QED
    BY <1>k, <1>n, <2>1, <2>2, <2>3, InsertStep
<1>2. CASE InsertChannel
  <2>1. "channels" \in Stored /\ phase = "up" /\ CanEdit /\ Frame
    BY <1>2, <1>t, ServingStored DEF InsertChannel
  <2>2. Append1("channels", next["channels"], NoKey)
    BY <1>2 DEF InsertChannel
  <2>3. /\ next' \in [Tables -> Nat \ {0}] /\ next["channels"] \in Nat \ {0}
        /\ next'["channels"] = next["channels"] + 1
        /\ \A u \in Tables \ {"channels"} : next'[u] = next[u]
    BY <1>2, <1>t, NextUsed DEF InsertChannel
  <2>4. QED
    BY <1>k, <2>1, <2>2, <2>3, InsertStep
<1>3. CASE CreateUser
  <2>1. "users" \in Stored /\ phase = "up" /\ CanEdit /\ Frame /\ BirthsOK
    BY <1>3, <1>t, ServingStored DEF CreateUser, RowsInv
  <2>2. PICK k \in Keys : ~NameIsTaken(k, 0) /\ Append1("users", next["users"], k)
    BY <1>3 DEF CreateUser
  <2>3. /\ next' \in [Tables -> Nat \ {0}] /\ next["users"] \in Nat \ {0}
        /\ next'["users"] = next["users"] + 1
        /\ \A u \in Tables \ {"users"} : next'[u] = next[u]
    BY <1>3, <1>t, NextUsed DEF CreateUser
  <2>4. ASSUME NEW r \in Range(mem["users"]) PROVE r.key # k
    <3>1. r \in Row
      BY <2>1, SliceOf
    <3>2. r.id # 0
      BY <3>1 DEF Row
    <3>3. QED
      BY <2>2, <3>2 DEF NameIsTaken
  <2>5. QED
    BY <1>k, <2>1, <2>2, <2>3, <2>4, InsertStep
<1>4. CASE CreateToken
  <2>1. "tokens" \in Stored /\ phase = "up" /\ CanEdit /\ Frame /\ next' = next /\ BirthsOK
    BY <1>4, <1>t, ServingStored DEF CreateToken, RowsInv
  <2>2. PICK k \in Keys \union {Stamp} : InsertToken(k)
    BY <1>4 DEF CreateToken
  <2>3. Stamp \in Nat \ {0}
    BY <2>1, SliceOf DEF Stamp
  <2>4. k \in KeyColumn /\ Append1("tokens", Stamp, k)
    BY <2>2, <2>3 DEF KeyColumn, InsertToken
  <2>5. QED
    BY <1>n, <2>1, <2>3, <2>4, InsertStep
<1>5. CASE UpdateRoute \/ UpdateToken \/ UpdateChannel \/ UpdateUser \/ Redeem
  <2>1. \E t \in Tables : Update(t)
    BY <1>5, <1>t DEF UpdateRoute, UpdateToken, UpdateChannel, UpdateUser, Redeem
  <2>2. QED
    BY <2>1, UpdateStep
<1>6. CASE UseToken \/ AddUserUsed
  <2>1. \E t \in Tables : Charge(t)
    BY <1>6, <1>t DEF UseToken, AddUserUsed
  <2>2. QED
    BY <2>1, ChargeStep
<1>7. CASE DeleteRoute \/ DeleteToken \/ DeleteChannel \/ DeleteUser
  <2>1. \E t \in Tables : DeleteRow(t)
    BY <1>7, <1>t DEF DeleteRoute, DeleteToken, DeleteChannel, DeleteUser
  <2>2. QED
    BY <2>1, DeleteStep
<1>8. CASE CreateRedemptions
  BY <1>8, CodesStep
<1>9. QED
  BY <1>1, <1>2, <1>3, <1>4, <1>5, <1>6, <1>7, <1>8 DEF Edit

\* A token of a batch.
LEMMA BatchInsertStep ==
  ASSUME Typing, RowsInv, SavableInv, NEW w \in Workers, BatchInsert(w),
         "tokens" \in Stored
  PROVE  Typing' /\ RowsInv' /\ SavableInv'
<1>1. phase = "up" /\ CanEdit /\ Frame /\ next' = next /\ BirthsOK
  BY DEF BatchInsert, RowsInv
<1>2. Append1("tokens", Stamp, Stamp)
  BY DEF BatchInsert, Append1
<1>3. Stamp \in Nat \ {0} /\ Stamp \in KeyColumn
  BY <1>1, SliceOf DEF Stamp, KeyColumn
<1>4. next' \in [Tables -> Nat \ {0}] /\ "tokens" \notin Numbered
  BY <1>1 DEF Typing, SlicesOK, Numbered
<1>5. QED
  BY <1>1, <1>2, <1>3, <1>4, InsertStep

\* A channel written back.
LEMMA PutChannelStep ==
  ASSUME Typing, RowsInv, SavableInv, "channels" \in Stored, phase = "up", Frame, CanEdit, next' = next,
         NEW c, PutChannel(c), c.id \in IdsOf(mem["channels"])
  PROVE  Typing' /\ RowsInv' /\ SavableInv'
<1> DEFINE i == CHOOSE j \in DOMAIN mem["channels"] : mem["channels"][j].id = c.id
<1>1. \E j \in DOMAIN mem["channels"] : mem["channels"][j].id = c.id
  BY DEF IdsOf, Range
<1>2. i \in DOMAIN mem["channels"]
  BY <1>1
<1>3. Replace("channels", i, NoKey)
  BY DEF PutChannel
<1> HIDE DEF i
<1>4. QED
  BY <1>2, <1>3, ReplaceStep DEF KeyColumn

-------------------------------------------------------------------------------
(* Rows: what leaves them alone                                            *)

\* Steps that change neither slices nor disk, and no file of a table.
LEMMA RowsFrame ==
  ASSUME RowsInv, UNCHANGED <<deployment, boot, importing, mem, disk, promised>>,
         stamp \in Int, stamp' \in Int, stamp <= stamp', Typing,
         \A t \in Stored : file'[t] = file[t], halfway \subseteq halfway',
         row # NoRow => row' # NoRow \/ importing # "saved"
  PROVE  RowsInv'
<1>1. Stored' = Stored /\ \A t : Held(t)' = Held(t)
  BY DEF Stored, Held
<1>2. BirthsOK'
  <2>1. ASSUME NEW t \in Tables, NEW r \in Held(t) PROVE r.born \in 1 .. r.stamp /\ r.stamp <= stamp'
    <3>1. r.stamp \in Nat /\ r.stamp <= stamp /\ r.born \in 1 .. r.stamp
      BY <2>1, RowsFound DEF RowsInv, BirthsOK
    <3>2. QED
      BY <3>1
  <2>2. QED
    BY <1>1, <2>1 DEF RowsInv, BirthsOK
<1>3. Unloaded'
  BY DEF RowsInv, Unloaded
<1>4. Home'
  BY <1>1 DEF RowsInv, Home
<1>5. \A t : Copied(t)' = Copied(t)
  BY DEF Copied, First
<1>6. CopiedOK'
  <2>1. ASSUME NEW t \in Tables, Copied(t) PROVE file'[t] = file[t]
    <3>1. t \in Stored
      BY <2>1 DEF Copied, First, Stored, Tables, Typing, ProcessOK
    <3>2. QED
      BY <3>1
  <2>2. Copied("settings") => row' # NoRow
    BY DEF RowsInv, CopiedOK, Copied
  <2>3. QED
    BY <1>5, <2>1, <2>2 DEF RowsInv, CopiedOK
<1>7. Waiting'
  BY <1>1, <1>5 DEF RowsInv, Waiting
<1>8. Reaches'
  BY <1>1 DEF RowsInv, Reaches
<1>9. KeptRows'
  BY <1>1 DEF RowsInv, KeptRows, OnRecord
<1>10. DeletedRows'
  BY <1>1 DEF RowsInv, DeletedRows, Held
<1>11. QED
  BY <1>2, <1>3, <1>4, <1>6, <1>7, <1>8, <1>9, <1>10 DEF RowsInv

\* Slices, disks and next IDs as they were.
LEMMA SavableFrame ==
  ASSUME SavableInv, UNCHANGED <<deployment, mem, disk, next>>
  PROVE  SavableInv'
BY DEF SavableInv, Stored, Held

-------------------------------------------------------------------------------
(* Rows: the start                                                         *)

\* A step in the start of store t: it may be imported, or what was imported renamed, or loaded.
StartOf(t) ==
  /\ First(t)
  /\ UNCHANGED <<deployment, promised, stamp>>
  /\ boot' = boot \/ boot' = boot \ {t}
  /\ halfway \subseteq halfway'
  /\ \A u \in Tables \ {t} : mem'[u] = mem[u] /\ disk'[u] = disk[u]
  /\ \A u \in Stored \ {t} : file'[u] = file[u]
  /\ file'[t].rows = file[t].rows /\ (file'[t].at = "json" => file[t].at = "json")
  /\ importing' = "saved" =>
       /\ boot' = boot /\ importing # "saved"
       /\ IF t = "settings" THEN row' # NoRow ELSE disk'[t] = file[t].rows
  /\ t \in Tables =>
       /\ IF t \in boot' THEN mem'[t] = mem[t] ELSE mem'[t] = disk'[t]
       /\ \/ disk'[t] = disk[t]
          \/ disk[t] = <<>> /\ disk'[t] = file[t].rows /\ file[t].at = "json" /\ importing' = "saved"
       /\ IF importing = "saved" THEN file'[t].at # "json" \/ t \in halfway' ELSE file'[t] = file[t]

\* Nothing appears that was not there, and nothing goes.
LEMMA StartKeeps ==
  ASSUME Typing, RowsInv, NEW t, StartOf(t), NEW u \in Tables
  PROVE  /\ Held(u)' \subseteq Held(u) \union (IF u \in Stored THEN Filed(file[u]) ELSE {})
         /\ u \in Stored => /\ Filed(file'[u]) \subseteq Filed(file[u])
                            /\ OnRecord(u) \subseteq OnRecord(u)'
<1>1. t \in boot /\ boot \subseteq deployment.tables
  BY DEF StartOf, First, Typing, ProcessOK
<1>2. CASE u # t
  <2>1. mem'[u] = mem[u] /\ disk'[u] = disk[u] /\ (u \in Stored => file'[u] = file[u])
    BY <1>2 DEF StartOf
  <2>2. QED
    BY <2>1 DEF Held, OnRecord
<1>3. CASE u = t
  <2>1. u \in Stored
    BY <1>1, <1>3 DEF Stored, Tables
  <2>2. Range(disk'[u]) \subseteq Range(disk[u]) \union Filed(file[u])
    BY <1>3 DEF StartOf, Filed
  <2>3. mem'[u] = mem[u] \/ mem'[u] = disk'[u]
    BY <1>3 DEF StartOf
  <2>4. Filed(file'[u]) \subseteq Filed(file[u])
    BY <1>3 DEF StartOf, Filed
  <2>5. Range(disk[u]) \subseteq Range(disk'[u])
    BY <1>3, RangeOfNone DEF StartOf
  <2>6. Filed(file[u]) \subseteq OnRecord(u)'
    <3>1. CASE importing = "saved"
      <4>1. disk[u] = file[u].rows
        BY <1>3, <3>1 DEF StartOf, RowsInv, CopiedOK, Copied
      <4>2. QED
        BY <2>5, <4>1 DEF Filed, OnRecord
    <3>2. CASE importing # "saved"
      BY <1>3, <3>2 DEF StartOf, OnRecord, Filed
    <3>3. QED
      BY <3>1, <3>2
  <2>7. Held(u)' \subseteq Held(u) \union Filed(file[u])
    BY <2>2, <2>3 DEF Held
  <2>8. OnRecord(u) \subseteq OnRecord(u)'
    BY <2>5, <2>6 DEF OnRecord
  <2>9. QED
    BY <2>1, <2>4, <2>7, <2>8
<1>4. QED
  BY <1>2, <1>3

\* A start of one store leaves the rows as the invariants have them.
LEMMA StartRows ==
  ASSUME Typing, RowsInv, NEW t, StartOf(t)
  PROVE  RowsInv'
<1>1. /\ t \in boot /\ boot \subseteq deployment.tables /\ Stored' = Stored
      /\ boot \subseteq Tables \union {"settings"} /\ stamp' = stamp /\ promised' = promised
      /\ deployment' = deployment
  BY DeploymentAssumption DEF StartOf, First, Typing, ProcessOK, Stored
<1>2. \A u \in Stored : u \in Tables
  BY FilesFound
<1>3. ASSUME NEW u \in Tables
      PROVE  /\ Held(u)' \subseteq Held(u) \union (IF u \in Stored THEN Filed(file[u]) ELSE {})
             /\ u \in Stored => /\ Filed(file'[u]) \subseteq Filed(file[u])
                                /\ OnRecord(u) \subseteq OnRecord(u)'
  BY StartKeeps
<1>4. BirthsOK'
  <2>1. ASSUME NEW u \in Tables, NEW r \in Held(u)' PROVE r.born \in 1 .. r.stamp /\ r.stamp <= stamp
    <3>1. CASE r \in Held(u)
      BY <3>1 DEF RowsInv, BirthsOK
    <3>2. CASE u \in Stored /\ r \in Filed(file[u])
      BY <3>2, FilesFound
    <3>3. QED
      BY <1>3, <2>1, <3>1, <3>2
  <2>2. ASSUME NEW u \in Tables PROVE Distinct(mem'[u]) /\ Distinct(disk'[u])
    <3>1. CASE u = t
      <4>1. u \in Stored
        BY <1>1, <3>1 DEF Stored, Tables
      <4>2. Distinct(file[u].rows) /\ Distinct(mem[u]) /\ Distinct(disk[u])
        BY <4>1, FilesFound DEF RowsInv, BirthsOK
      <4>3. Distinct(disk'[u]) /\ (mem'[u] = mem[u] \/ mem'[u] = disk'[u])
        BY <3>1, <4>2 DEF StartOf
      <4>4. QED
        BY <4>2, <4>3
    <3>2. CASE u # t
      BY <3>2 DEF StartOf, RowsInv, BirthsOK
    <3>3. QED
      BY <3>1, <3>2
  <2>3. QED
    BY <1>1, <2>1, <2>2 DEF BirthsOK
<1>5. Unloaded'
  BY <1>1 DEF StartOf, RowsInv, Unloaded
<1>6. Home'
  <2>1. ASSUME NEW u \in Stored
        PROVE  Held(u)' \union Filed(file'[u]) \subseteq Held(u) \union Filed(file[u])
    BY <1>2, <1>3
  <2>2. QED
    BY <1>1, <2>1 DEF RowsInv, Home
<1>7. \A u : Copied(u)' => u = t /\ importing' = "saved"
  BY <1>1, OneFirst DEF Copied, First, StartOf
<1>8. \A u : Copied(u) => u = t
  BY <1>1, OneFirst DEF Copied, StartOf
<1>9. CopiedOK'
  <2>1. "settings" \notin Tables
    BY DEF Tables
  <2>2. QED
    BY <1>7, <2>1 DEF CopiedOK, StartOf
<1>10. Waiting'
  <2>1. ASSUME NEW u \in Stored \ halfway', NEW f \in Filed(file'[u])
        PROVE  promised[f.born] # Gone /\ (~Copied(u)' => \A r \in Held(u)' : r.born # f.born)
    <3>1. u \in Stored \ halfway /\ f \in Filed(file[u]) /\ u \in Tables
      BY <1>2, <1>3, <2>1 DEF StartOf
    <3>2. promised[f.born] # Gone /\ (~Copied(u) => \A r \in Held(u) : r.born # f.born)
      BY <3>1 DEF RowsInv, Waiting
    <3>3. ASSUME ~Copied(u)' PROVE \A r \in Held(u)' : r.born # f.born
      <4>1. CASE u # t
        <5>1. ~Copied(u) /\ mem'[u] = mem[u] /\ disk'[u] = disk[u]
          BY <1>8, <3>1, <4>1 DEF StartOf
        <5>2. QED
          BY <3>2, <5>1 DEF Held
      <4>2. CASE u = t
        <5>1. importing # "saved"
          <6>1. f \in Filed(file'[t]) /\ t \notin halfway' /\ t \in Tables
            BY <2>1, <3>1, <4>2
          <6>2. file'[t].at = "json"
            BY <6>1 DEF Filed
          <6>3. QED
            BY <6>1, <6>2 DEF StartOf
        <5>2. importing' # "saved"
          BY <3>3, <4>2 DEF StartOf, Copied, First
        <5>3. disk'[u] = disk[u] /\ (mem'[u] = mem[u] \/ mem'[u] = disk'[u])
          BY <3>1, <4>2, <5>2 DEF StartOf
        <5>4. QED
          BY <3>2, <5>1, <5>3 DEF Held, Copied
      <4>3. QED
        BY <4>1, <4>2
    <3>4. QED
      BY <3>2, <3>3
  <2>2. QED
    BY <1>1, <2>1 DEF Waiting
<1>11. Reaches'
  <2>1. ASSUME NEW u \in Stored \ boot' PROVE mem'[u] = disk'[u] \/ (u \notin boot /\ mem'[u] = mem[u] /\ disk'[u] = disk[u])
    <3>1. u \in Tables
      BY <1>2
    <3>2. QED
      BY <2>1, <3>1 DEF StartOf
  <2>2. QED
    BY <1>1, <2>1 DEF RowsInv, Reaches
<1>12. KeptRows'
  BY <1>1, <1>2, <1>3 DEF RowsInv, KeptRows
<1>13. DeletedRows'
  <2>1. ASSUME NEW u \in Stored \ halfway', NEW r \in Held(u)' PROVE promised[r.born] # Gone
    <3>1. u \in Stored \ halfway /\ u \in Tables
      BY <1>2, <2>1 DEF StartOf
    <3>2. CASE r \in Held(u)
      BY <3>1, <3>2 DEF RowsInv, DeletedRows, Held
    <3>3. CASE r \in Filed(file[u])
      BY <3>1, <3>3 DEF RowsInv, Waiting
    <3>4. QED
      BY <1>3, <2>1, <3>1, <3>2, <3>3
  <2>2. QED
    BY <1>1, <2>1 DEF DeletedRows, Held
<1>14. QED
  BY <1>4, <1>5, <1>6, <1>9, <1>10, <1>11, <1>12, <1>13 DEF RowsInv

\* A start of one store loads what was saved.
LEMMA StartSavable ==
  ASSUME Typing, RowsInv, SavableInv, NEW t, StartOf(t), SlicesOK',
         \A u \in Tables \ {t} : next'[u] = next[u],
         t \in Tables => /\ next'[t] = (IF t \in boot' THEN next[t] ELSE NextId(mem'[t]))
                         /\ Savable(t, disk'[t])
  PROVE  SavableInv'
<1>1. t \in deployment.tables /\ Stored' = Stored /\ deployment' = deployment
  BY DEF StartOf, First, Typing, ProcessOK, Stored
<1>2. \A u \in Stored : u \in Tables
  BY FilesFound
<1>3. ASSUME NEW u \in Tables PROVE Savable(u, disk'[u])
  BY DEF SavableInv, StartOf
<1>4. ASSUME NEW u \in Stored \intersect Numbered
      PROVE  Savable(u, mem'[u]) /\ \A r \in Range(mem'[u]) : r.id < next'[u]
  <2>1. Savable(u, mem[u]) /\ (\A r \in Range(mem[u]) : r.id < next[u]) /\ u \in Tables
    BY <1>2 DEF SavableInv
  <2>2. CASE mem'[u] = mem[u] /\ next'[u] = next[u]
    BY <2>1, <2>2
  <2>3. CASE u = t /\ mem'[u] = disk'[u] /\ next'[u] = NextId(mem'[u])
    <3>1. mem'[u] \in Seq(Row)
      BY <2>1 DEF SlicesOK
    <3>2. \A r \in Range(mem'[u]) : r.id < NextId(mem'[u])
      BY <3>1, NextIdAbove
    <3>3. QED
      BY <1>3, <2>1, <2>3, <3>2
  <2>4. QED
    BY <2>1, <2>2, <2>3 DEF StartOf
<1>5. ASSUME "redemptions" \in deployment.tables
      PROVE  Savable("redemptions", mem'["redemptions"]) /\ \A r \in Held("redemptions")' : Coded(r)
  <2>1. "redemptions" \in Stored /\ "redemptions" \in Tables /\ deployment \in Deployments
    BY <1>5 DEF Stored, Tables, Typing, ProcessOK
  <2>2. \A r \in FoundIn(deployment, "redemptions") : Coded(r)
    BY <1>5, <2>1, DeploymentAssumption
  <2>3. Filed(file["redemptions"]) \subseteq FoundIn(deployment, "redemptions")
    BY <2>1, FilesFound
  <2>4. Held("redemptions")' \subseteq Held("redemptions") \union Filed(file["redemptions"])
    BY <2>1, StartKeeps
  <2>5. \A r \in Held("redemptions")' : Coded(r)
    BY <1>5, <2>2, <2>3, <2>4 DEF SavableInv
  <2>6. mem'["redemptions"] = mem["redemptions"] \/ mem'["redemptions"] = disk'["redemptions"]
    BY <2>1 DEF StartOf
  <2>7. QED
    BY <1>3, <1>5, <2>1, <2>5, <2>6 DEF SavableInv
<1>6. QED
  BY <1>1, <1>3, <1>4, <1>5 DEF SavableInv

\* The process goes on to the next store, or serves.
LEMMA StartProcess ==
  ASSUME Typing, phase = "boot", deployment' = deployment, importing' \in {"no", "saved", "over"},
         \/ boot' = boot /\ phase' = phase
         \/ boot' = boot /\ phase' = "fatal" /\ importing' = "no"
         \/ \E t : Done(t)
  PROVE  ProcessOK'
BY DEF Typing, ProcessOK, Done, FirstPhase

\* A slice that is loaded.
LEMMA LoadedSlices ==
  ASSUME Typing, NEW t \in Tables, NEW rows \in Seq(Row), disk' \in [Tables -> Seq(Row)], Loaded(t, rows)
  PROVE  /\ SlicesOK' /\ mem'[t] = rows /\ next'[t] = NextId(rows)
         /\ \A u \in Tables \ {t} : mem'[u] = mem[u] /\ next'[u] = next[u]
<1>1. NextId(rows) \in Nat \ {0}
  BY NextIdAbove
<1>2. mem \in [Tables -> Seq(Row)] /\ next \in [Tables -> Nat \ {0}]
  BY DEF Typing, SlicesOK
<1>3. mem' = [mem EXCEPT ![t] = rows] /\ next' = [next EXCEPT ![t] = NextId(rows)]
  BY DEF Loaded
<1>4. QED
  BY <1>1, <1>2, <1>3 DEF SlicesOK

\* A store that is started is one of the deployment's, with its slice empty.
LEMMA BeingStarted ==
  ASSUME Typing, RowsInv, NEW t \in Tables, Starting(t)
  PROVE  /\ t \in Stored /\ phase = "boot" /\ First(t) /\ t \in boot /\ mem[t] = <<>>
         /\ disk[t] \in Seq(Row) /\ file[t].rows \in Seq(Row)
         /\ mem \in [Tables -> Seq(Row)] /\ disk \in [Tables -> Seq(Row)]
         /\ next \in [Tables -> Nat \ {0}]
<1>1. t \in boot /\ phase = "boot" /\ First(t) /\ t \in deployment.tables
  BY DEF Starting, First, Typing, ProcessOK
<1>2. t \in Stored
  BY <1>1 DEF Stored, Tables
<1>3. mem[t] = <<>>
  BY <1>1 DEF RowsInv, Unloaded
<1>4. QED
  BY <1>1, <1>2, <1>3, FilesFound DEF Typing, SlicesOK

\* A table with rows is loaded.
LEMMA LoadTableStep ==
  ASSUME Typing, RowsInv, SavableInv, NEW t \in Tables, LoadTable(t)
  PROVE  Typing' /\ RowsInv' /\ SavableInv'
<1>1. /\ t \in Stored /\ phase = "boot" /\ First(t) /\ t \in boot /\ disk[t] \in Seq(Row)
      /\ disk \in [Tables -> Seq(Row)] /\ importing = "no"
  BY BeingStarted DEF LoadTable, Loading
<1>2. /\ Loaded(t, disk[t]) /\ disk' = disk /\ file' = file /\ halfway' = halfway /\ promised' = promised
      /\ deployment' = deployment /\ stamp' = stamp /\ faults' = faults /\ crashes' = crashes
      /\ UNCHANGED <<setting, row, latest, settingsCut>>
  BY DEF LoadTable, counters
<1>3. /\ SlicesOK' /\ mem'[t] = disk[t] /\ next'[t] = NextId(disk[t])
      /\ \A u \in Tables \ {t} : mem'[u] = mem[u] /\ next'[u] = next[u]
  BY <1>1, <1>2, LoadedSlices
<1>4. boot' = boot \ {t} /\ importing' = "no"
  BY <1>2 DEF Loaded, Done
<1>5. StartOf(t)
  BY <1>1, <1>2, <1>3, <1>4 DEF StartOf
<1>6. RowsInv'
  BY <1>5, StartRows
<1>7. Savable(t, disk'[t])
  BY <1>2 DEF SavableInv
<1>8. SavableInv'
  BY <1>2, <1>3, <1>4, <1>5, <1>7, StartSavable
<1>9. Done(t)
  BY <1>2 DEF Loaded
<1>10. ProcessOK'
  BY <1>1, <1>2, <1>4, <1>9, StartProcess
<1>11. FilesOK' /\ SettingsOK' /\ CountersOK' /\ PromisesOK'
  BY <1>2 DEF Typing, FilesOK, SettingsOK, CountersOK, PromisesOK
<1>12. QED
  BY <1>3, <1>6, <1>8, <1>10, <1>11 DEF Typing

\* The file of an empty table is imported, or passed over.
LEMMA MigrateTableStep ==
  ASSUME Typing, RowsInv, SavableInv, NEW t \in Tables, MigrateTable(t)
  PROVE  Typing' /\ RowsInv' /\ SavableInv'
<1>1. /\ t \in Stored /\ phase = "boot" /\ First(t) /\ t \in boot /\ file[t].rows \in Seq(Row)
      /\ mem \in [Tables -> Seq(Row)] /\ disk \in [Tables -> Seq(Row)]
      /\ next \in [Tables -> Nat \ {0}] /\ importing = "no"
  BY BeingStarted DEF MigrateTable, Loading
<1>2. /\ mem' = mem /\ next' = next /\ boot' = boot /\ phase' = phase
      /\ file' = file /\ halfway' = halfway /\ promised' = promised
      /\ deployment' = deployment /\ stamp' = stamp /\ crashes' = crashes
      /\ UNCHANGED <<setting, row, latest, settingsCut>>
      /\ disk[t] = <<>> /\ file[t].at = "json"
  BY DEF MigrateTable, NotYetLoaded
<1>3. \/ /\ Savable(t, file[t].rows) /\ disk' = [disk EXCEPT ![t] = file[t].rows]
         /\ importing' = "saved" /\ faults' = faults
      \/ /\ importing' = "over" /\ disk' = disk
         /\ faults' = faults \/ (faults < MaxFaults /\ faults' = faults + 1)
  BY DEF MigrateTable, CanFail
<1>4. disk' \in [Tables -> Seq(Row)] /\ \A u \in Tables \ {t} : disk'[u] = disk[u]
  BY <1>1, <1>3
<1>5. \/ disk'[t] = file[t].rows /\ importing' = "saved" /\ Savable(t, disk'[t])
      \/ disk'[t] = disk[t] /\ importing' = "over"
  BY <1>1, <1>3
<1>6. "settings" \notin Tables
  BY DEF Tables
<1>7. StartOf(t)
  BY <1>1, <1>2, <1>4, <1>5, <1>6 DEF StartOf
<1>8. RowsInv'
  BY <1>7, StartRows
<1>9. SlicesOK'
  BY <1>1, <1>2, <1>4 DEF SlicesOK
<1>10. Savable(t, disk'[t])
  BY <1>5 DEF SavableInv
<1>11. SavableInv'
  BY <1>1, <1>2, <1>7, <1>9, <1>10, StartSavable
<1>12. importing' \in {"no", "saved", "over"}
  BY <1>5
<1>13. ProcessOK'
  BY <1>1, <1>2, <1>12, StartProcess
<1>14. FilesOK' /\ SettingsOK' /\ PromisesOK'
  BY <1>2 DEF Typing, FilesOK, SettingsOK, PromisesOK
<1>15. CountersOK'
  BY <1>2, <1>3, BoundAssumption DEF Typing, CountersOK
<1>16. QED
  BY <1>8, <1>9, <1>11, <1>13, <1>14, <1>15 DEF Typing

\* A file is renamed, or left to be imported by the next start.
LEMMA Renamed ==
  ASSUME Typing, NEW t, RenameJSONToBak(t), t \in DOMAIN file, deployment' = deployment
  PROVE  /\ FilesOK' /\ faults' \in 0 .. MaxFaults /\ halfway \subseteq halfway'
         /\ DOMAIN file' = DOMAIN file /\ \A u \in DOMAIN file \ {t} : file'[u] = file[u]
         /\ file'[t].rows = file[t].rows /\ (file'[t].at = "json" => file[t].at = "json" /\ file' = file)
         /\ file'[t].at # "json" \/ t \in halfway'
<1> DEFINE All == {deployment.files[u].rows : u \in DOMAIN deployment.files}
<1>1. /\ file \in [DOMAIN deployment.files -> [at : {"json", "bak", "none"}, rows : All]]
      /\ \A u \in DOMAIN file : /\ file[u].rows = deployment.files[u].rows
                                /\ file[u].at = "json" => deployment.files[u].at = "json"
      /\ faults \in 0 .. MaxFaults
  BY DEF Typing, FilesOK, CountersOK
<1>2. CASE file' = [file EXCEPT ![t].at = "bak"] /\ halfway' = halfway /\ faults' = faults
  <2>1. /\ file[t] \in [at : {"json", "bak", "none"}, rows : All]
        /\ file' = [file EXCEPT ![t] = [file[t] EXCEPT !.at = "bak"]]
    BY <1>1, <1>2
  <2>2. /\ [file[t] EXCEPT !.at = "bak"] \in [at : {"json", "bak", "none"}, rows : All]
        /\ [file[t] EXCEPT !.at = "bak"].rows = file[t].rows
        /\ [file[t] EXCEPT !.at = "bak"].at = "bak"
    BY <2>1
  <2>3. /\ file' \in [DOMAIN deployment.files -> [at : {"json", "bak", "none"}, rows : All]]
        /\ file'[t].at = "bak" /\ file'[t].rows = file[t].rows
        /\ \A u \in DOMAIN file \ {t} : file'[u] = file[u]
    BY <1>1, <2>1, <2>2
  <2>4. \A u \in DOMAIN file' : /\ file'[u].rows = deployment.files[u].rows
                                /\ file'[u].at = "json" => deployment.files[u].at = "json"
    BY <1>1, <2>3
  <2>5. QED
    BY <1>1, <1>2, <2>3, <2>4 DEF FilesOK
<1>3. CASE /\ CanFail /\ faults' = faults + 1 /\ halfway' = halfway \union {t}
           /\ file' = file
  <2>1. faults' \in 0 .. MaxFaults
    BY <1>1, <1>3, BoundAssumption DEF CanFail
  <2>2. QED
    BY <1>1, <1>3, <2>1 DEF FilesOK
<1>4. QED
  BY <1>2, <1>3 DEF RenameJSONToBak

\* The file is renamed, and the table loaded, if it has a row.
LEMMA RenameTableStep ==
  ASSUME Typing, RowsInv, SavableInv, NEW t \in Tables, RenameTable(t)
  PROVE  Typing' /\ RowsInv' /\ SavableInv'
<1>1. /\ t \in Stored /\ phase = "boot" /\ First(t) /\ t \in boot /\ disk[t] \in Seq(Row) /\ mem[t] = <<>>
      /\ mem \in [Tables -> Seq(Row)] /\ disk \in [Tables -> Seq(Row)]
      /\ next \in [Tables -> Nat \ {0}] /\ importing = "saved"
  BY BeingStarted DEF RenameTable
<1>2. /\ disk' = disk /\ promised' = promised
      /\ deployment' = deployment /\ stamp' = stamp /\ crashes' = crashes
      /\ UNCHANGED <<setting, row, latest, settingsCut>>
  BY DEF RenameTable
<1>3. /\ FilesOK' /\ faults' \in 0 .. MaxFaults /\ halfway \subseteq halfway'
      /\ \A u \in DOMAIN file \ {t} : file'[u] = file[u]
      /\ file'[t].rows = file[t].rows /\ (file'[t].at = "json" => file[t].at = "json")
      /\ file'[t].at # "json" \/ t \in halfway'
  BY <1>1, <1>2, FilesFound, Renamed DEF RenameTable
<1>4. \A u \in Stored : u \in DOMAIN file
  BY FilesFound
<1>5. /\ SlicesOK'
      /\ \A u \in Tables \ {t} : mem'[u] = mem[u] /\ next'[u] = next[u]
      /\ \/ Done(t) /\ mem'[t] = disk[t] /\ next'[t] = NextId(disk[t])
         \/ importing' = "over" /\ boot' = boot /\ phase' = phase /\ mem' = mem /\ next' = next
  <2>1. CASE Loaded(t, disk[t])
    <3>1. /\ SlicesOK' /\ mem'[t] = disk[t] /\ next'[t] = NextId(disk[t])
          /\ \A u \in Tables \ {t} : mem'[u] = mem[u] /\ next'[u] = next[u]
      BY <1>1, <1>2, <2>1, LoadedSlices
    <3>2. QED
      BY <2>1, <3>1 DEF Loaded
  <2>2. CASE importing' = "over" /\ NotYetLoaded
    BY <1>1, <1>2, <2>2 DEF NotYetLoaded, SlicesOK
  <2>3. QED
    BY <2>1, <2>2 DEF RenameTable
<1>6. importing' \in {"no", "over"} /\ (boot' = boot \/ boot' = boot \ {t})
  BY <1>5 DEF Done
<1>7. StartOf(t)
  <2>1. IF t \in boot' THEN mem'[t] = mem[t] ELSE mem'[t] = disk'[t]
    BY <1>1, <1>2, <1>5 DEF Done
  <2>2. QED
    BY <1>1, <1>2, <1>3, <1>4, <1>5, <1>6, <2>1 DEF StartOf
<1>8. RowsInv'
  BY <1>7, StartRows
<1>9. next'[t] = (IF t \in boot' THEN next[t] ELSE NextId(mem'[t])) /\ Savable(t, disk'[t])
  BY <1>1, <1>2, <1>5 DEF Done, SavableInv
<1>10. SavableInv'
  BY <1>5, <1>7, <1>9, StartSavable
<1>11. ProcessOK'
  BY <1>1, <1>2, <1>5, <1>6, StartProcess
<1>12. SettingsOK' /\ PromisesOK' /\ CountersOK'
  BY <1>2, <1>3 DEF Typing, SettingsOK, PromisesOK, CountersOK
<1>13. QED
  BY <1>3, <1>5, <1>8, <1>11, <1>10, <1>12 DEF Typing

\* A table without rows is empty, or gets the first account.
LEMMA StartEmptyStep ==
  ASSUME Typing, RowsInv, SavableInv, NEW t \in Tables, StartEmpty(t)
  PROVE  Typing' /\ RowsInv' /\ SavableInv'
<1>1. /\ t \in Stored /\ phase = "boot" /\ First(t) /\ t \in boot /\ mem[t] = <<>>
      /\ mem \in [Tables -> Seq(Row)] /\ disk \in [Tables -> Seq(Row)]
      /\ next \in [Tables -> Nat \ {0}] /\ disk[t] = <<>> /\ importing # "saved"
  BY BeingStarted DEF StartEmpty
<1>2. /\ deployment' = deployment /\ file' = file /\ halfway' = halfway /\ crashes' = crashes
      /\ UNCHANGED <<setting, row, latest, settingsCut>>
  BY DEF StartEmpty
<1>3. FilesOK' /\ SettingsOK'
  BY <1>2 DEF Typing, FilesOK, SettingsOK
<1>4. CASE Loaded(t, <<>>) /\ UNCHANGED <<disk, stamp, faults, promised>>
  <2>1. <<>> \in Seq(Row) /\ disk' = disk
    BY <1>4
  <2>2. /\ SlicesOK' /\ mem'[t] = <<>> /\ next'[t] = NextId(<<>>)
        /\ \A u \in Tables \ {t} : mem'[u] = mem[u] /\ next'[u] = next[u]
    BY <1>1, <1>4, <2>1, LoadedSlices
  <2>3. boot' = boot \ {t} /\ importing' = "no" /\ Done(t)
    BY <1>4 DEF Loaded, Done
  <2>4. StartOf(t)
    BY <1>1, <1>2, <1>4, <2>2, <2>3 DEF StartOf
  <2>5. RowsInv'
    BY <2>4, StartRows
  <2>6. Savable(t, disk'[t])
    BY <2>1 DEF SavableInv
  <2>7. SavableInv'
    BY <2>2, <2>3, <2>4, <2>6, StartSavable
  <2>8. ProcessOK'
    BY <1>1, <1>2, <2>3, StartProcess
  <2>9. CountersOK' /\ PromisesOK'
    BY <1>2, <1>4 DEF Typing, CountersOK, PromisesOK
  <2>10. QED
    BY <1>3, <2>2, <2>5, <2>7, <2>8, <2>9 DEF Typing
<1>5. CASE /\ t = "users" /\ CanEdit
           /\ \E k \in Keys : Append1(t, 1, k)
           /\ next' = [next EXCEPT ![t] = 2]
           /\ boot' = boot \ {t} /\ importing' = "no"
           /\ phase' = IF disk'[t] = <<>> THEN "fatal" ELSE FirstPhase(boot')
  <2>1. PICK k \in Keys : Append1(t, 1, k)
    BY <1>5
  <2>2. BirthsOK /\ k \in KeyColumn /\ 1 \in Nat \ {0}
    BY DEF RowsInv, KeyColumn
  <2>3. PICK ok \in BOOLEAN : EditOf(t, Append(mem[t], NewRow(1, k)), ok) /\ faults' \in 0 .. MaxFaults
    BY <1>1, <1>5, <2>1, <2>2, InsertIsEdit
  <2> DEFINE new  == NewRow(1, k)
             rows == Append(mem[t], new)
  <2>4. EditFrame(t)
    BY <1>1, <1>2, <1>5 DEF EditFrame
  <2>5. new \in Row /\ new.id = 1
    <3>1. Stamp \in Nat
      BY <1>1, <2>2, SliceOf DEF Stamp
    <3>2. QED
      BY <2>2, <3>1 DEF NewRow, Row, KeyColumn
  <2>6. Range(mem[t]) = {}
    BY <1>1, RangeOfNone
  <2>7. /\ next'[t] = 2 /\ next' \in [Tables -> Nat \ {0}]
        /\ \A u \in Tables \ {t} : next'[u] = next[u]
    BY <1>1, <1>5
  <2>8. Fresh(t, rows, next'[t])
    <3> HIDE DEF new
    <3>1. /\ \A x \in Range(mem[t]) : t \in Numbered => x.id < new.id /\ new.id < 2
          /\ t \in Numbered => new.id < 2
          /\ t = "users" => \A x \in Range(mem[t]) : x.key # new.key
          /\ t # "redemptions" /\ 2 \in Nat
      BY <1>5, <2>5, <2>6
    <3>2. Fresh(t, Append(mem[t], new), 2)
      BY <1>1, <2>5, <3>1, FreshInsert
    <3>3. QED
      BY <2>7, <3>2
  <2> HIDE DEF rows
  <2>9. EditOf(t, rows, ok)
    BY <2>3 DEF rows
  <2>10. RowsInv' /\ PromisesOK'
    BY <1>1, <2>4, <2>9, EditRows
  <2>11. SavableInv'
    BY <1>1, <1>2, <2>7, <2>8, <2>9, EditSavable
  <2>12. SlicesOK'
    BY <1>1, <2>7, <2>9, EditSlices DEF SlicesOK
  <2>13. ProcessOK'
    BY <1>1, <1>2, <1>5 DEF Typing, ProcessOK, FirstPhase
  <2>14. CountersOK'
    <3>1. stamp' \in stamp .. MaxEdits /\ stamp \in Found .. MaxEdits
      BY <2>9 DEF EditOf, Typing, CountersOK
    <3>2. QED
      BY <1>2, <2>3, <3>1, BoundAssumption DEF Typing, CountersOK
  <2>15. QED
    BY <1>3, <2>10, <2>11, <2>12, <2>13, <2>14 DEF Typing
<1>6. QED
  BY <1>4, <1>5 DEF StartEmpty

\* The steps in the start of the settings leave the tables alone.
LEMMA StartSettingsRows ==
  ASSUME Typing, RowsInv, SavableInv, Starting("settings"),
         UNCHANGED <<deployment, mem, disk, next, promised, stamp, crashes>>,
         FilesOK', ProcessOK', SettingsOK', faults' \in 0 .. MaxFaults, halfway \subseteq halfway',
         \A u \in Stored : file'[u] = file[u],
         file'["settings"].rows = file["settings"].rows,
         file'["settings"].at = "json" => file["settings"].at = "json",
         boot' = boot \/ boot' = boot \ {"settings"},
         importing' = "saved" => boot' = boot /\ importing # "saved" /\ row' # NoRow
  PROVE  Typing' /\ RowsInv' /\ SavableInv'
<1>1. "settings" \notin Tables
  BY DEF Tables
<1>2. StartOf("settings")
  BY <1>1 DEF StartOf, Starting
<1>3. RowsInv'
  BY <1>2, StartRows
<1>4. SavableInv'
  BY SavableFrame
<1>5. SlicesOK' /\ PromisesOK' /\ CountersOK'
  BY DEF Typing, SlicesOK, PromisesOK, CountersOK
<1>6. QED
  BY <1>3, <1>4, <1>5 DEF Typing

\* The settings' place among the files.
LEMMA SettingsFile ==
  ASSUME Typing, Starting("settings")
  PROVE  /\ "settings" \in deployment.tables /\ "settings" \in DOMAIN file /\ phase = "boot"
         /\ \A t \in Stored : t \in DOMAIN file \ {"settings"}
         /\ file["settings"].at = "json" =>
              file["settings"].rows \in Seq(Nat) /\ Head(file["settings"].rows) \in Nat
<1>1. "settings" \in deployment.tables /\ deployment \in Deployments /\ phase = "boot"
  BY DEF Starting, First, Typing, ProcessOK
<1>2. /\ "settings" \in DOMAIN deployment.files
      /\ deployment.files["settings"].rows \in Seq(Nat)
      /\ deployment.files["settings"].at = "json" => deployment.files["settings"].rows # <<>>
  BY <1>1, DeploymentAssumption
<1>3. /\ "settings" \in DOMAIN file
      /\ file["settings"].rows = deployment.files["settings"].rows
      /\ file["settings"].at = "json" => deployment.files["settings"].at = "json"
  BY <1>2 DEF Typing, FilesOK
<1>4. \A t \in Stored : t \in DOMAIN file \ {"settings"}
  BY FilesFound DEF Stored
<1>5. QED
  BY <1>1, <1>2, <1>3, <1>4

\* The settings are loaded: the rows of the tables stay.
LEMMA LoadSettingsStep ==
  ASSUME Typing, RowsInv, SavableInv, LoadSettings
  PROVE  Typing' /\ RowsInv' /\ SavableInv'
<1>1. Starting("settings") /\ phase = "boot" /\ importing = "no" /\ row # NoRow
  BY DEF LoadSettings, Loading, Starting
<1>2. /\ UNCHANGED <<deployment, mem, disk, next, promised, stamp, faults, crashes, file, halfway, row>>
      /\ Done("settings") /\ Load(row)
  BY DEF LoadSettings, counters
<1>3. ProcessOK'
  BY <1>1, <1>2, StartProcess DEF Done
<1>4. FilesOK' /\ faults' \in 0 .. MaxFaults
  BY <1>2 DEF Typing, FilesOK, CountersOK
<1>5. SettingsOK'
  BY <1>1, <1>2, UnitAssumption DEF Typing, SettingsOK, Load, NoRow
<1>6. boot' = boot \ {"settings"} /\ importing' = "no"
  BY <1>2 DEF Done
<1>7. QED
  BY <1>1, <1>2, <1>3, <1>4, <1>5, <1>6, StartSettingsRows

\* The settings of the file, or the defaults, are inserted: the rows of the tables stay.
LEMMA DefaultSettingsStep ==
  ASSUME Typing, RowsInv, SavableInv, DefaultSettings
  PROVE  Typing' /\ RowsInv' /\ SavableInv'
<1> DEFINE columns == IF file["settings"].at = "json" THEN Head(file["settings"].rows) ELSE 0
<1>1. Starting("settings") /\ phase = "boot" /\ importing = "no"
  BY DEF DefaultSettings, Loading, Starting
<1>2. UNCHANGED <<deployment, mem, disk, next, promised, stamp, crashes, file, halfway>>
  BY DEF DefaultSettings
<1>3. columns \in Nat
  BY <1>1, SettingsFile
<1>c. \/ /\ row' = columns
         /\ IF file["settings"].at = "json"
            THEN /\ importing' = "saved"
                 /\ UNCHANGED <<setting, latest, settingsCut, boot, phase>>
            ELSE Load(columns) /\ Done("settings")
         /\ UNCHANGED faults
      \/ /\ CanFail /\ faults' = faults + 1
         /\ phase' = "fatal"
         /\ UNCHANGED <<row, importing, setting, latest, settingsCut, boot>>
  BY DEF DefaultSettings
<1> HIDE DEF columns
<1>4. ProcessOK' /\ SettingsOK' /\ faults' \in 0 .. MaxFaults
      /\ (boot' = boot \/ boot' = boot \ {"settings"})
      /\ (importing' = "saved" => boot' = boot /\ row' # NoRow)
  <2>0. columns # NoRow
    BY <1>3 DEF NoRow
  <2>1. CASE row' = columns /\ importing' = "saved" /\ UNCHANGED <<setting, latest, settingsCut, boot, phase, faults>>
    <3>1. ProcessOK'
      BY <1>1, <1>2, <2>1, StartProcess
    <3>2. SettingsOK' /\ faults' \in 0 .. MaxFaults
      BY <1>3, <2>1 DEF Typing, SettingsOK, CountersOK
    <3>3. QED
      BY <2>0, <2>1, <3>1, <3>2
  <2>2. CASE row' = columns /\ Load(columns) /\ Done("settings") /\ UNCHANGED faults
    <3>1. ProcessOK'
      BY <1>1, <1>2, <2>2, StartProcess DEF Done
    <3>2. SettingsOK' /\ faults' \in 0 .. MaxFaults
      BY <1>3, <2>2, UnitAssumption DEF Typing, SettingsOK, CountersOK, Load
    <3>3. QED
      BY <2>2, <3>1, <3>2 DEF Done
  <2>3. CASE /\ CanFail /\ faults' = faults + 1
             /\ phase' = "fatal"
             /\ UNCHANGED <<row, importing, setting, latest, settingsCut, boot>>
    <3>1. ProcessOK'
      BY <1>1, <1>2, <2>3, StartProcess
    <3>2. SettingsOK' /\ faults' \in 0 .. MaxFaults
      BY <2>3, BoundAssumption DEF Typing, SettingsOK, CountersOK, CanFail
    <3>3. QED
      BY <1>1, <2>3, <3>1, <3>2
  <2>4. QED
    BY <1>c, <2>1, <2>2, <2>3
<1>5. FilesOK'
  BY <1>2 DEF Typing, FilesOK
<1>6. QED
  BY <1>1, <1>2, <1>4, <1>5, StartSettingsRows

\* The file of the settings is renamed: the rows of the tables stay.
LEMMA RenameSettingsStep ==
  ASSUME Typing, RowsInv, SavableInv, RenameSettings
  PROVE  Typing' /\ RowsInv' /\ SavableInv'
<1>1. Starting("settings") /\ phase = "boot" /\ importing = "saved"
  BY DEF RenameSettings, Starting
<1>2. /\ UNCHANGED <<deployment, mem, disk, next, promised, stamp, crashes, row>>
      /\ Done("settings") /\ Load(row) /\ RenameJSONToBak("settings")
  BY DEF RenameSettings
<1>3. ProcessOK'
  BY <1>1, <1>2, StartProcess DEF Done
<1>4. "settings" \in DOMAIN file /\ \A t \in Stored : t \in DOMAIN file \ {"settings"}
  BY <1>1, SettingsFile
<1>5. /\ FilesOK' /\ faults' \in 0 .. MaxFaults /\ halfway \subseteq halfway'
      /\ \A u \in DOMAIN file \ {"settings"} : file'[u] = file[u]
      /\ file'["settings"].rows = file["settings"].rows
      /\ file'["settings"].at = "json" => file["settings"].at = "json"
  BY <1>2, <1>4, Renamed
<1>6. row # NoRow
  BY <1>1 DEF RowsInv, CopiedOK, Copied, Starting
<1>7. SettingsOK'
  BY <1>2, <1>6, UnitAssumption DEF Typing, SettingsOK, Load, NoRow
<1>8. boot' = boot \ {"settings"} /\ importing' = "no"
  BY <1>2 DEF Done
<1>9. QED
  BY <1>1, <1>2, <1>3, <1>4, <1>5, <1>7, <1>8, StartSettingsRows

\* A crash: what was on record stays, and the slices are empty until they are loaded.
LEMMA CrashStep ==
  ASSUME Typing, RowsInv, SavableInv, Crash
  PROVE  Typing' /\ RowsInv' /\ SavableInv'
<1>1. /\ boot' = deployment.tables /\ phase' = FirstPhase(boot') /\ importing' = "no"
      /\ mem' = [t \in Tables |-> <<>>] /\ next' = [t \in Tables |-> 1]
      /\ setting' = [columns |-> 0, unit |-> DefaultUnit]
      /\ settingsCut' = (settingsCut \/ Pending # {})
      /\ halfway' = IF importing = "saved" THEN halfway \union {t \in boot : First(t)} ELSE halfway
      /\ deployment' = deployment /\ disk' = disk /\ file' = file /\ row' = row /\ stamp' = stamp
      /\ faults' = faults /\ promised' = promised /\ latest' = latest
      /\ crashes < MaxCrashes /\ crashes' = crashes + 1
  BY DEF Crash, Restart
<1>2. \A t \in Tables : mem'[t] = <<>> /\ next'[t] = 1 /\ Range(mem'[t]) = {}
  BY <1>1, RangeOfNone
<1>3. Stored' = Stored /\ \A t \in Tables : Held(t)' \subseteq Held(t)
  BY <1>1, <1>2 DEF Stored, Held
<1>4. \A t \in Stored : t \in Tables
  BY FilesFound
<1>5. Typing'
  <2>1. ProcessOK'
    BY <1>1 DEF Typing, ProcessOK, FirstPhase
  <2>2. FilesOK' /\ PromisesOK'
    BY <1>1 DEF Typing, FilesOK, PromisesOK
  <2>3. SlicesOK'
    <3>1. <<>> \in Seq(Row)
      OBVIOUS
    <3>2. QED
      BY <1>1, <3>1 DEF Typing, SlicesOK
  <2>4. SettingsOK'
    BY <1>1, UnitAssumption DEF Typing, SettingsOK
  <2>5. CountersOK'
    BY <1>1, BoundAssumption DEF Typing, CountersOK
  <2>6. QED
    BY <2>1, <2>2, <2>3, <2>4, <2>5 DEF Typing
<1>6. BirthsOK'
  <2>1. \A t \in Tables : Distinct(mem'[t])
    BY <1>2 DEF Distinct
  <2>2. QED
    BY <1>1, <1>3, <2>1 DEF RowsInv, BirthsOK
<1>7. Unloaded' /\ CopiedOK' /\ Reaches'
  BY <1>1, <1>2, <1>3 DEF Unloaded, CopiedOK, Copied, Reaches, Stored
<1>8. Home'
  BY <1>1, <1>3, <1>4 DEF RowsInv, Home
<1>9. Waiting'
  <2>1. ASSUME NEW t \in Stored \ halfway'
        PROVE  t \notin halfway /\ ~Copied(t) /\ Held(t)' \subseteq Held(t)
    BY <1>1, <1>3, <1>4, <2>1 DEF Copied, First
  <2>2. QED
    BY <1>1, <1>3, <2>1 DEF RowsInv, Waiting
<1>10. KeptRows'
  BY <1>1, <1>3 DEF RowsInv, KeptRows, OnRecord
<1>11. DeletedRows'
  <2>1. ASSUME NEW t \in Stored \ halfway', NEW r \in Held(t)' PROVE t \notin halfway /\ r \in Held(t)
    BY <1>1, <1>3, <1>4, <2>1
  <2>2. QED
    BY <1>1, <1>3, <2>1 DEF RowsInv, DeletedRows, Held
<1>12. SavableInv'
  <2>1. \A t \in Tables : Savable(t, mem'[t])
    BY <1>2 DEF Savable
  <2>2. "redemptions" \in Tables
    BY DEF Tables
  <2>3. QED
    BY <1>1, <1>2, <1>3, <1>4, <2>1, <2>2 DEF SavableInv
<1>13. QED
  BY <1>5, <1>6, <1>7, <1>8, <1>9, <1>10, <1>11, <1>12 DEF RowsInv

-------------------------------------------------------------------------------
(* Goroutines                                                              *)

\* One goroutine goes on.
LEMMA TaskBecomes ==
  ASSUME TasksOK, NEW w \in Workers, NEW x, task' = [task EXCEPT ![w] = x]
  PROVE  /\ task'[w] = x /\ \A v \in Workers \ {w} : task'[v] = task[v]
         /\ task' = [v \in Workers |-> task'[v]]
<1>1. task = [v \in Workers |-> task[v]]
  BY DEF TasksOK
<1>2. task' = [v \in Workers |-> IF v = w THEN x ELSE task[v]]
  BY <1>1
<1>3. QED
  BY <1>2

\* The same, for what the goroutines are at.
LEMMA TaskOther ==
  ASSUME TasksOK, NEW w \in Workers, NEW x, task' = [task EXCEPT ![w] = x], deployment' = deployment,
         "op" \in DOMAIN x, x.op = "batch" => "tokens" \in Stored, x.op = "sync" => "channels" \in Stored,
         NEW ops, task[w].op \notin ops, x.op \notin ops
  PROVE  TasksOK' /\ Leaves(ops)
<1>1. /\ task'[w] = x /\ \A v \in Workers \ {w} : task'[v] = task[v]
      /\ task' = [v \in Workers |-> task'[v]]
  BY TaskBecomes
<1>2. Stored' = Stored
  BY DEF Stored
<1>3. \A v \in Workers : /\ "op" \in DOMAIN task'[v]
                         /\ task'[v].op = "batch" => "tokens" \in Stored
                         /\ task'[v].op = "sync" => "channels" \in Stored
  BY <1>1 DEF TasksOK
<1>4. QED
  BY <1>1, <1>2, <1>3 DEF TasksOK, Leaves

\* Idle goroutines are at nothing.
LEMMA IdleOp == "op" \in DOMAIN Idle /\ Idle.op = "idle"
BY DEF Idle

OtherOps == SettingsOps \union DocOps \union LogOps

\* A batch and a synchronisation.
LEMMA StepTasks ==
  ASSUME TasksOK, NEW w \in Workers, BatchStart(w) \/ BatchInsert(w) \/ SyncStart(w) \/ SyncWrite(w)
  PROVE  TasksOK' /\ Leaves(OtherOps)
<1>1. \A o \in {"idle", "batch", "sync"} : o \notin OtherOps
  BY DEF OtherOps, SettingsOps, DocOps, LockedOps, LogOps
<1>2. "op" \in DOMAIN task[w] /\ (task[w].op = "batch" => "tokens" \in Stored)
      /\ (task[w].op = "sync" => "channels" \in Stored)
  BY DEF TasksOK
<1>3. CASE BatchStart(w)
  <2> DEFINE x == [op |-> "batch", left |-> 2]
  <2>1. task' = [task EXCEPT ![w] = x] /\ task[w] = Idle /\ Serving("tokens") /\ deployment' = deployment
    BY <1>3 DEF BatchStart, Frame
  <2>2. "op" \in DOMAIN x /\ x.op = "batch" /\ "tokens" \in Stored
    BY <2>1 DEF Serving, Stored
  <2> HIDE DEF x
  <2>3. QED
    BY <1>1, <2>1, <2>2, TaskOther, IdleOp
<1>4. CASE BatchInsert(w)
  <2>1. PICK ok \in BOOLEAN :
          task' = [task EXCEPT ![w] = IF ok /\ task[w].left > 1
                                      THEN [op |-> "batch", left |-> task[w].left - 1] ELSE Idle]
    BY <1>4 DEF BatchInsert
  <2> DEFINE x == IF ok /\ task[w].left > 1 THEN [op |-> "batch", left |-> task[w].left - 1] ELSE Idle
  <2>2. task' = [task EXCEPT ![w] = x]
    BY <2>1
  <2>3. task[w].op = "batch" /\ deployment' = deployment
    BY <1>4 DEF BatchInsert, Frame
  <2>4. "op" \in DOMAIN x /\ x.op \in {"batch", "idle"}
    BY <1>2, <2>3, IdleOp
  <2> HIDE DEF x
  <2>5. QED
    BY <1>1, <1>2, <2>2, <2>3, <2>4, TaskOther
<1>5. CASE SyncStart(w)
  <2>1. PICK copies : task' = [task EXCEPT ![w] = [op |-> "sync", copies |-> copies]]
    BY <1>5 DEF SyncStart
  <2>2. task[w] = Idle /\ Serving("channels") /\ deployment' = deployment
    BY <1>5 DEF SyncStart, Frame
  <2> DEFINE x == [op |-> "sync", copies |-> copies]
  <2>3. "op" \in DOMAIN x /\ x.op = "sync" /\ "channels" \in Stored /\ task' = [task EXCEPT ![w] = x]
    BY <2>1, <2>2 DEF Serving, Stored
  <2> HIDE DEF x
  <2>4. QED
    BY <1>1, <2>2, <2>3, TaskOther, IdleOp
<1>6. CASE SyncWrite(w)
  <2> DEFINE x == IF Len(task[w].copies) > 1 THEN [op |-> "sync", copies |-> Tail(task[w].copies)] ELSE Idle
  <2>1. task' = [task EXCEPT ![w] = x]
    BY <1>6 DEF SyncWrite
  <2>2. task[w].op = "sync" /\ deployment' = deployment
    BY <1>6 DEF SyncWrite, Frame
  <2>3. "op" \in DOMAIN x /\ x.op \in {"sync", "idle"}
    BY <1>2, <2>2, IdleOp
  <2> HIDE DEF x
  <2>4. QED
    BY <1>1, <1>2, <2>1, <2>2, <2>3, TaskOther
<1>7. QED
  BY <1>3, <1>4, <1>5, <1>6

\* A save of the settings.
LEMMA SettingsTasks ==
  ASSUME TasksOK, NEW w \in Workers, UpdateSetting(w) \/ DeleteSettings(w) \/ InsertSettings(w)
  PROVE  /\ TasksOK' /\ Leaves(DocOps \union LogOps)
         /\ \A v \in Workers \ {w} : task'[v] = task[v]
<1>1. \A o \in {"idle", "save", "insert"} : o \notin DocOps \union LogOps
  BY DEF DocOps, LockedOps, LogOps
<1>2. /\ \E x : /\ task' = [task EXCEPT ![w] = x] /\ "op" \in DOMAIN x
                /\ x.op \in {"idle", "save", "insert"}
      /\ task[w].op \in {"idle", "save", "insert"} /\ deployment' = deployment
  <2>1. CASE UpdateSetting(w)
    <3>1. task' = [task EXCEPT ![w] = [op |-> "save", patched |-> Stamp]] /\ task[w] = Idle
          /\ deployment' = deployment
      BY <2>1 DEF UpdateSetting
    <3> DEFINE x == [op |-> "save", patched |-> Stamp]
    <3>2. task' = [task EXCEPT ![w] = x] /\ "op" \in DOMAIN x /\ x.op = "save"
      BY <3>1
    <3> HIDE DEF x
    <3>3. QED
      BY <3>1, <3>2, IdleOp
  <2>2. CASE DeleteSettings(w)
    <3>1. /\ \/ task' = [task EXCEPT ![w] = [op |-> "insert", columns |-> Columns(w)]]
             \/ task' = [task EXCEPT ![w] = Idle]
          /\ task[w].op = "save" /\ deployment' = deployment
      BY <2>2 DEF DeleteSettings
    <3> DEFINE x == [op |-> "insert", columns |-> Columns(w)]
    <3>2. "op" \in DOMAIN x /\ x.op = "insert"
      OBVIOUS
    <3>3. task' = [task EXCEPT ![w] = x] \/ task' = [task EXCEPT ![w] = Idle]
      BY <3>1
    <3> HIDE DEF x
    <3>4. QED
      BY <3>1, <3>2, <3>3, IdleOp
  <2>3. CASE InsertSettings(w)
    BY <2>3, IdleOp DEF InsertSettings
  <2>4. QED
    BY <2>1, <2>2, <2>3
<1>3. PICK x : /\ task' = [task EXCEPT ![w] = x] /\ "op" \in DOMAIN x
               /\ x.op \in {"idle", "save", "insert"}
  BY <1>2
<1>4. TasksOK' /\ Leaves(DocOps \union LogOps)
  BY <1>1, <1>2, <1>3, TaskOther
<1>5. QED
  BY <1>3, <1>4, TaskBecomes

-------------------------------------------------------------------------------
(* Settings                                                                *)

\* Steps that have nothing to do with the settings.
LEMMA SettingsFrame ==
  ASSUME SettingsInv, UNCHANGED <<deployment, setting, row, latest, settingsCut>>,
         phase = "up" => phase' = "up", "settings" \in boot => "settings" \in boot',
         Leaves(SettingsOps)
  PROVE  SettingsInv'
<1>1. /\ Saving' = Saving /\ Savers' = Savers /\ Pending' = Pending
      /\ \A w \in Savers : task'[w] = task[w]
  BY DEF Saving, Savers, Pending, Leaves, SettingsOps
<1>2. SaversOK'
  BY <1>1 DEF SettingsInv, SaversOK
<1>3. RowOK'
  BY <1>1 DEF SettingsInv, RowOK
<1>4. QED
  BY <1>2, <1>3 DEF SettingsInv

\* A change of the settings waits for those who are between the two statements.
LEMMA UpdateSettingKeeps ==
  ASSUME TasksOK, SettingsInv, NEW w \in Workers, UpdateSetting(w)
  PROVE  SettingsInv'
<1>1. /\ task'[w].op = "save" /\ \A v \in Workers \ {w} : task'[v] = task[v]
  <2>1. task' = [task EXCEPT ![w] = [op |-> "save", patched |-> Stamp]]
    BY DEF UpdateSetting
  <2>2. QED
    BY <2>1, TaskBecomes
<1>2. /\ phase' = "up" /\ deployment' = deployment /\ "settings" \in deployment.tables
      /\ latest' = setting' /\ Savers = {}
  BY DEF UpdateSetting, Serving, SettingsFree
<1>3. Savers' = {} /\ w \in Saving'
  BY <1>1, <1>2 DEF Savers, Saving
<1>4. QED
  BY <1>2, <1>3 DEF SettingsInv, SaversOK, RowOK

\* The row is deleted by one who has the settings as they are in memory.
LEMMA DeleteSettingsKeeps ==
  ASSUME TasksOK, SettingsInv, NEW w \in Workers, DeleteSettings(w)
  PROVE  SettingsInv'
<1>1. /\ deployment' = deployment /\ phase' = phase /\ boot' = boot /\ setting' = setting /\ latest' = latest
      /\ phase = "up" /\ task[w].op = "save"
  BY DEF DeleteSettings
<1>2. "settings" \in deployment.tables
  BY <1>1 DEF SettingsInv, SaversOK, Pending
<1>3. CASE /\ row' = NoRow
           /\ task' = [task EXCEPT ![w] = [op |-> "insert", columns |-> Columns(w)]]
           /\ UNCHANGED <<faults, settingsCut>>
  <2>1. /\ task'[w].op = "insert" /\ task'[w].columns = setting.columns
        /\ \A v \in Workers \ {w} : task'[v] = task[v]
    BY <1>3, TaskBecomes DEF Columns
  <2>2. \A v \in Savers' : task'[v].columns = setting.columns
    BY <2>1 DEF SettingsInv, SaversOK, Savers
  <2>3. w \in Savers'
    BY <2>1 DEF Savers
  <2>4. QED
    BY <1>1, <1>2, <1>3, <2>2, <2>3 DEF SettingsInv, SaversOK, RowOK
<1>4. CASE settingsCut' = TRUE /\ task' = [task EXCEPT ![w] = Idle]
  <2>1. task'[w].op = "idle" /\ \A v \in Workers \ {w} : task'[v] = task[v]
    BY <1>4, TaskBecomes, IdleOp
  <2>2. \A v \in Savers' : task'[v].columns = setting.columns
    BY <2>1 DEF SettingsInv, SaversOK, Savers
  <2>3. QED
    BY <1>1, <1>2, <1>4, <2>2 DEF SettingsInv, SaversOK, RowOK
<1>5. QED
  BY <1>3, <1>4 DEF DeleteSettings

\* The row that is put back is the settings as they were last changed.
LEMMA InsertSettingsKeeps ==
  ASSUME Typing, TasksOK, SettingsInv, NEW w \in Workers, InsertSettings(w)
  PROVE  SettingsInv'
<1>1. /\ deployment' = deployment /\ phase' = phase /\ boot' = boot /\ setting' = setting /\ latest' = latest
      /\ phase = "up" /\ task[w].op = "insert" /\ task' = [task EXCEPT ![w] = Idle]
  BY DEF InsertSettings
<1>2. "settings" \in deployment.tables /\ boot = {} /\ w \in Savers
  BY <1>1 DEF SettingsInv, SaversOK, Pending, Savers, Typing, ProcessOK
<1>3. task[w].columns = latest.columns
  BY <1>2 DEF SettingsInv, SaversOK
<1>4. task'[w].op = "idle" /\ \A v \in Workers \ {w} : task'[v] = task[v]
  BY <1>1, TaskBecomes, IdleOp
<1>5. Saving' = Saving /\ \A v \in Savers' : task'[v].columns = setting.columns
  BY <1>1, <1>4 DEF SettingsInv, SaversOK, Savers, Saving
<1>6. SaversOK'
  BY <1>1, <1>2, <1>5 DEF SettingsInv, SaversOK
<1>7. RowOK'
  <2>1. CASE row' = task[w].columns
    BY <1>1, <1>3, <2>1 DEF RowOK
  <2>2. CASE row # NoRow /\ row' = row /\ settingsCut' = settingsCut
    BY <1>1, <1>5, <2>2 DEF SettingsInv, RowOK
  <2>3. CASE settingsCut' = TRUE
    BY <2>3 DEF RowOK
  <2>4. QED
    BY <2>1, <2>2, <2>3 DEF InsertSettings
<1>8. QED
  BY <1>6, <1>7 DEF SettingsInv

\* While the stores are started nobody saves.
LEMMA NobodySaves ==
  ASSUME SettingsInv, phase # "up"
  PROVE  Pending = {} /\ Saving = {} /\ Savers = {}
BY DEF SettingsInv, SaversOK, Pending, Saving, Savers

\* What is loaded is the row, and memory has the same.
LEMMA LoadKeeps ==
  ASSUME SettingsInv, phase # "up", task' = task, Typing, NEW columns \in Nat, Load(columns),
         row' = columns, settingsCut \/ columns = latest.columns
  PROVE  SettingsInv'
<1>1. Pending' = {} /\ Saving' = {} /\ Savers' = {}
  BY NobodySaves DEF Pending, Saving, Savers
<1>2. setting'.columns = columns /\ latest'.columns = columns
  BY DEF Load
<1>3. QED
  BY <1>1, <1>2 DEF SettingsInv, SaversOK, RowOK

\* A start comes back to the settings that were last changed.
LEMMA StartSettingsKeeps ==
  ASSUME Typing, RowsInv, SettingsInv, LoadSettings \/ DefaultSettings \/ RenameSettings
  PROVE  SettingsInv'
<1>1. phase = "boot" /\ task' = task /\ Starting("settings") /\ deployment' = deployment
  BY DEF LoadSettings, DefaultSettings, RenameSettings, Loading, Starting
<1>2. row \in Nat \union {NoRow} /\ latest.columns \in Nat
  BY DEF Typing, SettingsOK
<1>3. settingsCut \/ row = latest.columns \/ row = NoRow
  BY <1>1, NobodySaves DEF SettingsInv, RowOK
<1>4. row = NoRow => settingsCut
  BY <1>1, <1>2, NobodySaves DEF SettingsInv, RowOK, NoRow
<1>5. CASE LoadSettings
  BY <1>1, <1>2, <1>3, <1>5, LoadKeeps DEF LoadSettings
<1>6. CASE RenameSettings
  <2>1. row # NoRow
    BY <1>1, <1>6 DEF RenameSettings, RowsInv, CopiedOK, Copied, Starting
  <2>2. QED
    BY <1>1, <1>2, <1>3, <1>6, <2>1, LoadKeeps DEF RenameSettings
<1>7. CASE DefaultSettings
  <2> DEFINE columns == IF file["settings"].at = "json" THEN Head(file["settings"].rows) ELSE 0
  <2>1. columns \in Nat /\ settingsCut
    BY <1>1, <1>4, <1>7, SettingsFile DEF DefaultSettings
  <2>2. \/ row' = columns /\ Load(columns)
        \/ settingsCut' = settingsCut /\ setting' = setting /\ latest' = latest /\ boot' = boot
    BY <1>7 DEF DefaultSettings
  <2> HIDE DEF columns
  <2>3. CASE row' = columns /\ Load(columns)
    BY <1>1, <2>1, <2>3, LoadKeeps
  <2>4. CASE settingsCut' = settingsCut /\ setting' = setting /\ latest' = latest /\ boot' = boot
    <3>1. Pending' = {} /\ Savers' = {}
      BY <1>1, NobodySaves DEF Pending, Savers
    <3>2. QED
      BY <1>1, <2>1, <2>4, <3>1 DEF SettingsInv, SaversOK, RowOK
  <2>5. QED
    BY <2>2, <2>3, <2>4
<1>8. QED
  BY <1>5, <1>6, <1>7

\* A crash while nobody saves loses nothing of them.
LEMMA CrashSettings ==
  ASSUME Typing, SettingsInv, Crash
  PROVE  SettingsInv' /\ TasksOK' /\ \A w \in Workers : task'[w] = Idle
<1>1. /\ task' = [w \in Workers |-> Idle] /\ boot' = deployment.tables /\ deployment' = deployment
      /\ settingsCut' = (settingsCut \/ Pending # {}) /\ row' = row /\ latest' = latest
  BY DEF Crash, Restart
<1>2. /\ \A w \in Workers : task'[w] = Idle
      /\ Pending' = {} /\ Savers' = {}
  BY <1>1, IdleOp DEF Pending, Savers
<1>3. ASSUME Pending = {} PROVE Saving = {} /\ Savers = {}
  BY <1>3 DEF Pending, Saving, Savers
<1>4. settingsCut \in BOOLEAN
  BY DEF Typing, SettingsOK
<1>5. SettingsInv'
  BY <1>1, <1>2, <1>3, <1>4 DEF SettingsInv, SaversOK, RowOK
<1>6. TasksOK'
  BY <1>1, <1>2, IdleOp DEF TasksOK
<1>7. QED
  BY <1>2, <1>5, <1>6

-------------------------------------------------------------------------------
(* Rows: the other steps of a process that serves                          *)

\* Steps that edit no table.
LEMMA StepFrame ==
  ASSUME Typing, RowsInv, SavableInv, phase = "up",
         UNCHANGED <<deployment, phase, boot, importing, mem, disk, next, crashes, promised>>,
         stamp' \in stamp .. MaxEdits, faults' \in 0 .. MaxFaults, SettingsOK', FilesOK',
         \A t \in Stored : file'[t] = file[t], halfway \subseteq halfway'
  PROVE  Typing' /\ RowsInv' /\ SavableInv'
<1>1. importing # "saved"
  BY DEF Typing, ProcessOK
<1>2. stamp \in Nat /\ Found \in Nat /\ MaxEdits \in Nat /\ Found <= stamp /\ stamp' \in Nat /\ stamp <= stamp'
      /\ stamp' <= MaxEdits
  BY BoundAssumption DEF Typing, CountersOK
<1>3. RowsInv'
  BY <1>1, <1>2, RowsFrame
<1>4. SavableInv'
  BY SavableFrame
<1>5. ProcessOK' /\ SlicesOK'
  BY DEF Typing, ProcessOK, SlicesOK
<1>6. CountersOK'
  BY <1>2 DEF Typing, CountersOK
<1>7. PromisesOK'
  BY <1>2 DEF Typing, PromisesOK
<1>8. QED
  BY <1>3, <1>4, <1>5, <1>6, <1>7 DEF Typing

\* One more fault, or none.
LEMMA FaultsCounted ==
  ASSUME Typing, faults' = faults \/ (CanFail /\ faults' = faults + 1)
  PROVE  faults' \in 0 .. MaxFaults
BY BoundAssumption DEF Typing, CountersOK, CanFail

\* An edit's stamp, or none.
LEMMA StampsCounted ==
  ASSUME Typing, stamp' = stamp \/ (CanEdit /\ stamp' = Stamp)
  PROVE  stamp' \in stamp .. MaxEdits /\ stamp \in Nat /\ stamp' \in Nat /\ stamp <= stamp'
BY BoundAssumption DEF Typing, CountersOK, CanEdit, Stamp

\* The steps of the goroutines of Store.
LEMMA StepRows ==
  ASSUME Typing, RowsInv, SavableInv, SettingsInv, TasksOK, NEW w \in Workers, Step(w)
  PROVE  Typing' /\ RowsInv' /\ SavableInv'
<1> DEFINE Quiet == UNCHANGED <<mem, disk, next, stamp, faults, promised>>
<1>1. ASSUME phase = "up", Frame, Quiet PROVE Typing' /\ RowsInv' /\ SavableInv'
  <2>1. UNCHANGED <<deployment, phase, boot, importing, mem, disk, next, crashes, promised, file, halfway,
                    stamp, faults, setting, row, latest, settingsCut>>
    BY <1>1 DEF Frame
  <2>2. stamp' \in stamp .. MaxEdits /\ faults' \in 0 .. MaxFaults
    BY <2>1, FaultsCounted, StampsCounted
  <2>3. SettingsOK' /\ FilesOK'
    BY <2>1 DEF Typing, SettingsOK, FilesOK
  <2>4. QED
    BY <1>1, <2>1, <2>2, <2>3, StepFrame
<1>2. CASE BatchStart(w) \/ SyncStart(w)
  BY <1>1, <1>2 DEF BatchStart, SyncStart, Serving
<1>3. CASE BatchInsert(w)
  <2>1. "tokens" \in Stored
    BY <1>3 DEF TasksOK, BatchInsert
  <2>2. QED
    BY <1>3, <2>1, BatchInsertStep
<1>4. CASE SyncWrite(w)
  <2>1. "channels" \in Stored /\ phase = "up" /\ Frame /\ CanEdit /\ next' = next
    BY <1>4 DEF TasksOK, SyncWrite
  <2> DEFINE c == Head(task[w].copies)
  <2>2. CASE PutChannel(c) /\ c.id \in IdsOf(mem["channels"])
    BY <2>1, <2>2, PutChannelStep
  <2>3. CASE UNCHANGED <<mem, disk, stamp, faults, promised>>
    BY <1>1, <2>1, <2>3
  <2>4. PutChannel(c) /\ c.id \notin IdsOf(mem["channels"]) => UNCHANGED <<mem, disk, stamp, faults, promised>>
    BY DEF PutChannel
  <2>5. PutChannel(c) \/ UNCHANGED <<mem, disk, stamp, faults, promised>>
    BY <1>4 DEF SyncWrite
  <2> HIDE DEF c
  <2>6. QED
    BY <2>2, <2>3, <2>4, <2>5
<1>5. CASE UpdateSetting(w)
  <2>1. /\ phase = "up" /\ CanEdit /\ stamp' = Stamp
        /\ UNCHANGED <<deployment, phase, boot, importing, mem, disk, file, next, row, faults, crashes,
                       promised, halfway, settingsCut>>
    BY <1>5 DEF UpdateSetting, Serving
  <2>2. stamp' \in stamp .. MaxEdits /\ stamp' \in Nat /\ faults' \in 0 .. MaxFaults
    BY <2>1, StampsCounted, FaultsCounted
  <2>3. SettingsOK'
    BY <1>5, <2>1, <2>2 DEF UpdateSetting, Typing, SettingsOK
  <2>4. FilesOK'
    BY <2>1 DEF Typing, FilesOK
  <2>5. QED
    BY <2>1, <2>2, <2>3, <2>4, StepFrame
<1>6. CASE DeleteSettings(w)
  <2>1. /\ phase = "up"
        /\ UNCHANGED <<deployment, phase, boot, importing, mem, disk, file, next, setting, stamp,
                       crashes, promised, halfway, latest>>
        /\ faults' = faults \/ (CanFail /\ faults' = faults + 1)
        /\ row' \in {row, NoRow} /\ settingsCut' \in {settingsCut, TRUE}
    BY <1>6 DEF DeleteSettings
  <2>2. stamp' \in stamp .. MaxEdits /\ faults' \in 0 .. MaxFaults
    BY <2>1, StampsCounted, FaultsCounted
  <2>3. SettingsOK /\ FilesOK
    BY DEF Typing
  <2>4. FilesOK'
    BY <2>1, <2>3 DEF FilesOK
  <2>5. SettingsOK'
    <3>1. settingsCut' \in BOOLEAN
      BY <2>1, <2>3 DEF SettingsOK
    <3>2. QED
      BY <2>1, <2>3, <3>1 DEF SettingsOK
  <2>6. QED
    BY <2>1, <2>2, <2>4, <2>5, StepFrame
<1>7. CASE InsertSettings(w)
  <2>1. /\ phase = "up"
        /\ UNCHANGED <<deployment, phase, boot, importing, mem, disk, file, next, setting, stamp,
                       crashes, promised, halfway, latest>>
        /\ faults' = faults \/ (CanFail /\ faults' = faults + 1)
        /\ row' \in {row, task[w].columns} /\ settingsCut' \in {settingsCut, TRUE, FALSE}
        /\ task[w].op = "insert"
    BY <1>7 DEF InsertSettings
  <2>2. stamp' \in stamp .. MaxEdits /\ faults' \in 0 .. MaxFaults
    BY <2>1, StampsCounted, FaultsCounted
  <2>3. task[w].columns = setting.columns /\ setting.columns \in Nat
    BY <2>1 DEF SettingsInv, SaversOK, Savers, Typing, SettingsOK
  <2>4. SettingsOK /\ FilesOK
    BY DEF Typing
  <2>5. FilesOK'
    BY <2>1, <2>4 DEF FilesOK
  <2>6. SettingsOK'
    <3>1. settingsCut' \in BOOLEAN
      BY <2>1, <2>4 DEF SettingsOK
    <3>2. QED
      BY <2>1, <2>3, <2>4, <3>1 DEF SettingsOK
  <2>7. QED
    BY <2>1, <2>2, <2>5, <2>6, StepFrame
<1>8. QED
  BY <1>2, <1>3, <1>4, <1>5, <1>6, <1>7 DEF Step

-------------------------------------------------------------------------------
(* Documents and journals: what leaves them alone                          *)

\* The file of a document or a journal is none of a table's, and holds what it should.
LEMMA KindApart ==
  ASSUME Typing, IsDocument \/ IsJournal
  PROVE  /\ Kind \in DOMAIN file /\ Kind \notin Tables \union {"settings"} /\ Kind \notin Stored
         /\ IsDocument /\ Old.at = "json" => Old.rows \in SUBSET Items
         /\ IsJournal /\ Old.at = "json" => Old.rows \in Seq(1 .. Found) /\ Ascending(Old.rows)
         /\ ~(IsDocument /\ IsJournal)
<1>1. deployment \in Deployments /\ Kind = deployment.keeps
  BY DEF Typing, ProcessOK, Kind
<1>2. Kind \in {"site", "prices", "audits", "billing"} /\ Kind # "none"
  BY DEF IsDocument, IsJournal
<1>3. Kind \in DOMAIN deployment.files
  BY <1>1, <1>2, DocumentAssumption
<1>4. /\ Kind \in DOMAIN file /\ Old.rows = deployment.files[Kind].rows
      /\ Old.at = "json" => deployment.files[Kind].at = "json"
  BY <1>3 DEF Typing, FilesOK, Old
<1>5. IsDocument /\ Old.at = "json" => Old.rows \in SUBSET Items
  BY <1>1, <1>4, DocumentAssumption DEF IsDocument
<1>6. IsJournal /\ Old.at = "json" => Old.rows \in Seq(1 .. Found) /\ Ascending(Old.rows)
  BY <1>1, <1>4, DocumentAssumption DEF IsJournal
<1>7. Kind \notin Tables \union {"settings"} /\ ~(IsDocument /\ IsJournal)
  BY <1>2 DEF Tables, IsDocument, IsJournal
<1>8. Kind \notin Stored
  <2>1. \A t \in Stored : t \in Tables
    BY FilesFound
  <2>2. QED
    BY <1>7, <2>1
<1>9. QED
  BY <1>4, <1>5, <1>6, <1>7, <1>8

\* Who is at one of these operations before or after the step stays there.
LEMMA LeavesAlone ==
  ASSUME NEW ops, Leaves(ops), NEW w \in Workers, task[w].op \in ops \/ task'[w].op \in ops
  PROVE  task'[w] = task[w]
BY DEF Leaves

\* Fewer operations are left alone as well.
LEMMA LeavesFewer ==
  ASSUME NEW ops, NEW some, some \subseteq ops, Leaves(ops)
  PROVE  Leaves(some)
BY DEF Leaves

\* The kind of this instance does not change.
LEMMA SameKind ==
  ASSUME deployment' = deployment
  PROVE  Kind' = Kind /\ IsDocument' = IsDocument /\ IsJournal' = IsJournal
BY DEF Kind, IsDocument, IsJournal

\* Who is at a document, after a step that leaves documents alone.
LEMMA DocTasksFrame ==
  ASSUME DocTasksOK, UNCHANGED <<deployment, docVars>>, phase = "up" => phase' = "up", Leaves(DocOps)
  PROVE  DocTasksOK'
<1>1. \A w \in Workers : task'[w].op \in DocOps => task'[w] = task[w]
  BY LeavesAlone
<1>2. LockedOps \subseteq DocOps /\ {"look", "migrate", "saveDoc", "insertDoc", "rename"} = LockedOps
  BY DEF DocOps, LockedOps
<1>3. IsDocument' = IsDocument /\ docMem' = docMem /\ docRow' = docRow /\ docLoaded' = docLoaded
      /\ excused' = excused /\ expected' = expected
  BY SameKind DEF docVars
<1>4. ASSUME NEW w \in Workers, task'[w].op \in DocOps
      PROVE  IsDocument' /\ phase' = "up" /\ task'[w] \in DocTask
  BY <1>1, <1>3, <1>4 DEF DocTasksOK
<1>5. ASSUME NEW v \in Workers, NEW w \in Workers, task'[v].op \in LockedOps, task'[w].op \in LockedOps
      PROVE  v = w
  BY <1>1, <1>2, <1>5 DEF DocTasksOK
<1>6. ASSUME NEW w \in Workers
      PROVE  /\ task'[w].op \in {"look", "migrate"} => ~docLoaded' /\ ~task'[w].put
             /\ task'[w].op \in LockedOps /\ task'[w].put => ~task'[w].file
             /\ task'[w].op \in {"saveDoc", "insertDoc", "rename"} => docLoaded'
  <2>1. CASE task'[w].op \in LockedOps
    BY <1>1, <1>2, <1>3, <2>1 DEF DocTasksOK
  <2>2. CASE task'[w].op \notin LockedOps
    BY <1>2, <2>2
  <2>3. QED
    BY <2>1, <2>2
<1>7. QED
  BY <1>3, <1>4, <1>5, <1>6 DEF DocTasksOK

\* What a document is, after a step that leaves documents alone.
LEMMA DocValuesFrame ==
  ASSUME DocInv, MergesInv, UNCHANGED <<deployment, docVars>>, Leaves(DocOps),
         IsDocument => file'[Kind] = file[Kind]
  PROVE  DocInv' /\ MergesInv'
<1>1. {"look", "migrate", "saveDoc", "insertDoc", "rename", "merge"} \subseteq DocOps
  BY DEF DocOps, LockedOps
<1>2. \A w \in Workers, o \in {"look", "migrate", "saveDoc", "insertDoc", "rename", "merge"} :
        /\ task'[w].op = o => task'[w] = task[w]
        /\ task[w].op = o => task'[w] = task[w]
  BY <1>1, LeavesAlone
<1>3. IsDocument' = IsDocument /\ docMem' = docMem /\ docRow' = docRow /\ docLoaded' = docLoaded
      /\ excused' = excused /\ expected' = expected /\ Kind' = Kind
  BY SameKind DEF docVars
<1>4. /\ IsDocument => DocOnDisk' = DocOnDisk
      /\ Putting' = Putting
      /\ (\A w \in Workers : task'[w].op # "insertDoc") <=> (\A w \in Workers : task[w].op # "insertDoc")
  <2>1. IsDocument => Old' = Old
    BY <1>3 DEF Old
  <2>2. QED
    BY <1>2, <1>3, <2>1 DEF DocOnDisk, Putting
<1>5. DocInv'
  <2>1. ASSUME ~excused, IsDocument, NEW w \in Workers
        PROVE  /\ task'[w].op = "migrate" => docRow = NoDoc
               /\ task'[w].op \in {"saveDoc", "insertDoc"} /\ ~task'[w].put => docMem = expected /\ docRow = NoDoc
    BY <1>2, <2>1 DEF DocInv
  <2>2. QED
    BY <1>3, <1>4, <2>1 DEF DocInv
<1>6. MergesInv'
  <2>1. ASSUME IsDocument, ~excused, NEW w \in Workers
        PROVE  /\ task'[w].op = "merge" /\ task'[w].fresh => task'[w].value = expected
               /\ task'[w].op \in {"saveDoc", "insertDoc"} /\ task'[w].put /\ task'[w].adds # {} /\ task'[w].fresh
                    => docMem = expected \union task'[w].adds
    BY <1>2, <2>1 DEF MergesInv
  <2>2. ASSUME IsDocument, NEW v \in Workers, NEW w \in Workers,
               task'[v].op \in {"saveDoc", "insertDoc"}, task'[v].put, task'[w].op = "merge"
        PROVE  ~task'[w].fresh
    BY <1>2, <2>2 DEF MergesInv
  <2>3. QED
    BY <1>3, <2>1, <2>2 DEF MergesInv
<1>7. QED
  BY <1>5, <1>6

\* Who is at a journal, after a step that leaves journals alone.
LEMMA LogTasksFrame ==
  ASSUME LogTasksOK, UNCHANGED <<deployment, logVars>>, phase = "up" => phase' = "up", Leaves(LogOps),
         stamp \in Nat, stamp' \in Nat, stamp <= stamp'
  PROVE  LogTasksOK'
<1>1. \A w \in Workers : task'[w].op \in LogOps => task'[w] = task[w]
  BY LeavesAlone
<1>2. HeldOps \subseteq LogOps
  BY DEF HeldOps, LogOps
<1>3. IsJournal' = IsJournal /\ journal' = journal /\ once' = once /\ written' = written /\ cleared' = cleared
  BY SameKind DEF logVars
<1>4. 1 .. stamp \subseteq 1 .. stamp'
  OBVIOUS
<1>5. \A w \in Workers : task'[w].op \in LogOps => IsJournal' /\ phase' = "up"
  BY <1>1, <1>3 DEF LogTasksOK
<1>6. \A v, w \in Workers : task'[v].op \in HeldOps /\ task'[w].op \in HeldOps => v = w
  BY <1>1, <1>2 DEF LogTasksOK
<1>7. QED
  BY <1>3, <1>4, <1>5, <1>6 DEF LogTasksOK

\* What a journal holds, after a step that leaves it and its import alone.
LEMMA LogValuesFrame ==
  ASSUME JournalInv, UNCHANGED <<deployment, journal, written, cleared, excused>>, Leaves({"import"}),
         IsJournal => file'[Kind] = file[Kind], halfway \subseteq halfway'
  PROVE  JournalInv'
<1>1. "import" \in {"import"}
  OBVIOUS
<1>2. \A w \in Workers : task'[w].op = "import" \/ task[w].op = "import" => task'[w] = task[w]
  BY <1>1, LeavesAlone
<1>3. /\ IsJournal' = IsJournal /\ Kind' = Kind /\ journal' = journal /\ written' = written
      /\ cleared' = cleared /\ excused' = excused
  BY SameKind
<1>4. SUFFICES ASSUME IsJournal PROVE ImportOK' /\ OldOK' /\ JournalKept'
  BY <1>3 DEF JournalInv
<1>5. ImportOK /\ OldOK /\ JournalKept /\ Old' = Old
  BY <1>3, <1>4 DEF JournalInv, Old
<1>6. ImportOK'
  BY <1>2, <1>3, <1>5 DEF ImportOK
<1>7. OldOK'
  BY <1>2, <1>3, <1>5 DEF OldOK
<1>8. JournalKept'
  BY <1>3, <1>4, <1>5 DEF JournalKept
<1>9. QED
  BY <1>6, <1>7, <1>8

\* Steps that have nothing to do with documents or journals.
LEMMA DocsFrame ==
  ASSUME Typing, DocumentsInv, LogTasksOK, JournalInv, UNCHANGED <<deployment, docVars, logVars>>,
         phase = "up" => phase' = "up", Leaves(DocOps \union LogOps),
         stamp \in Nat, stamp' \in Nat, stamp <= stamp', halfway \subseteq halfway',
         IsDocument \/ IsJournal => file'[Kind] = file[Kind]
  PROVE  DocumentsInv' /\ LogTasksOK' /\ JournalInv'
<1>1. Leaves(DocOps) /\ Leaves(LogOps)
  BY LeavesFewer
<1>2. excused' = excused
  BY DEF docVars
<1>3. DocTasksOK' /\ DocInv' /\ MergesInv'
  BY <1>1, DocTasksFrame, DocValuesFrame DEF DocumentsInv
<1>4. LogTasksOK' /\ JournalInv'
  <2>1. {"import"} \subseteq LogOps
    BY DEF LogOps
  <2>2. Leaves({"import"})
    BY <1>1, <2>1, LeavesFewer
  <2>3. QED
    BY <1>1, <1>2, <2>2, LogTasksFrame, LogValuesFrame DEF logVars
<1>5. QED
  BY <1>3, <1>4 DEF DocumentsInv

-------------------------------------------------------------------------------
(* Documents: the steps                                                    *)

\* What a goroutine may become, as far as a document goes.
DocTaskOK(x) == x \in DocTask \/ x = Idle

\* Who is idle is at nothing.
LEMMA IdleNoDoc == Idle.op \notin DocOps /\ Idle.op \notin LogOps /\ Idle.op \notin SettingsOps
                   /\ Idle.op \notin {"batch", "sync"} /\ "op" \in DOMAIN Idle
BY DEF Idle, DocOps, LockedOps, LogOps, SettingsOps

\* The operations of documents are of nothing else.
LEMMA DocOpsApart ==
  ASSUME NEW o \in DocOps
  PROVE  o \notin LogOps /\ o \notin SettingsOps /\ o \notin {"batch", "sync"}
BY DEF DocOps, LockedOps, LogOps, SettingsOps

\* A goroutine becomes x, for a document: the others, and all that is not of documents, stay.
LEMMA DocBecomes ==
  ASSUME TasksOK, NEW w \in Workers, NEW x, Become(w, x), DocTaskOK(x), deployment' = deployment,
         task[w] = Idle \/ task[w].op \in DocOps
  PROVE  /\ task'[w] = x /\ \A v \in Workers \ {w} : task'[v] = task[v]
         /\ TasksOK' /\ Leaves(LogOps) /\ Leaves(SettingsOps)
<1>1. task' = [task EXCEPT ![w] = x]
  BY DEF Become
<1>2. task[w].op \notin LogOps /\ task[w].op \notin SettingsOps
  BY IdleNoDoc, DocOpsApart
<1>3. "op" \in DOMAIN x /\ x.op \notin LogOps /\ x.op \notin SettingsOps /\ x.op \notin {"batch", "sync"}
  <2>1. CASE x \in DocTask
    <3>1. x.op \in DocOps /\ "op" \in DOMAIN x
      BY <2>1 DEF DocTask
    <3>2. QED
      BY <3>1, DocOpsApart
  <2>2. CASE x = Idle
    BY <2>2, IdleNoDoc
  <2>3. QED
    BY <2>1, <2>2 DEF DocTaskOK
<1>4. x.op # "batch" /\ x.op # "sync"
  BY <1>3
<1>5. TasksOK' /\ Leaves(LogOps) /\ Leaves(SettingsOps)
  BY <1>1, <1>2, <1>3, <1>4, TaskOther
<1>6. QED
  BY <1>1, <1>5, TaskBecomes

\* One goes on to another operation.
LEMMA OpChanged ==
  ASSUME NEW x \in DocTask, NEW o \in DocOps
  PROVE  /\ [x EXCEPT !.op = o] \in DocTask /\ [x EXCEPT !.op = o].op = o
         /\ [x EXCEPT !.op = o].put = x.put /\ [x EXCEPT !.op = o].adds = x.adds
         /\ [x EXCEPT !.op = o].value = x.value /\ [x EXCEPT !.op = o].file = x.file
         /\ [x EXCEPT !.op = o].fresh = x.fresh
BY DEF DocTask

\* One goes on to save what the file has, or what it has not.
LEMMA SavesNext ==
  ASSUME NEW w \in Workers, task[w] \in DocTask, NEW f \in BOOLEAN,
         Become(w, [task[w] EXCEPT !.op = "saveDoc", !.file = f])
  PROVE  \E x \in DocTask : Become(w, x) /\ x.op = "saveDoc" /\ x.put = task[w].put
<1> DEFINE z == [task[w] EXCEPT !.op = "saveDoc"]
           y == [z EXCEPT !.file = f]
<1>1. Become(w, y)
  OBVIOUS
<1>2. z = [op |-> "saveDoc", put |-> task[w].put, adds |-> task[w].adds, value |-> task[w].value,
           file |-> task[w].file, fresh |-> task[w].fresh]
  BY DEF DocTask
<1> HIDE DEF z
<1>3. y = [op |-> "saveDoc", put |-> task[w].put, adds |-> task[w].adds, value |-> task[w].value,
           file |-> f, fresh |-> task[w].fresh]
  BY <1>2
<1>4. /\ task[w].put \in BOOLEAN /\ task[w].adds \in SUBSET Items /\ task[w].value \in SUBSET Items
      /\ task[w].fresh \in BOOLEAN
  BY DEF DocTask
<1>5. "saveDoc" \in DocOps
  BY DEF DocOps, LockedOps
<1> HIDE DEF y
<1>6. y \in DocTask /\ y.op = "saveDoc" /\ y.put = task[w].put
  BY <1>3, <1>4, <1>5 DEF DocTask
<1>7. QED
  BY <1>1, <1>6

\* Nobody else has the mutex while one has it.
LEMMA OneLocked ==
  ASSUME DocTasksOK, NEW w \in Workers, task[w].op \in LockedOps
  PROVE  /\ IsDocument /\ phase = "up" /\ task[w] \in DocTask
         /\ \A v \in Workers \ {w} : task[v].op \notin LockedOps
BY DEF DocTasksOK, DocOps

\* Nobody has it.
LEMMA NoneLocked ==
  ASSUME ~Locked
  PROVE  \A v \in Workers : task[v].op \notin LockedOps
BY DEF Locked, LockedOps

\* One goroutine goes on, the only one with the mutex, or none has it.
LEMMA DocTasksGoOn ==
  ASSUME DocTasksOK, IsDocument, phase = "up", phase' = phase, deployment' = deployment,
         NEW w \in Workers, \A v \in Workers \ {w} : task'[v] = task[v] /\ task[v].op \notin LockedOps,
         DocTaskOK(task'[w]),
         docMem' \in SUBSET Items, docRow' = NoDoc \/ docRow' \in SUBSET Items,
         docLoaded' \in BOOLEAN, excused' \in BOOLEAN, expected' \in SUBSET Items,
         task'[w].op \in {"look", "migrate"} => ~docLoaded' /\ ~task'[w].put,
         task'[w].op \in LockedOps /\ task'[w].put => ~task'[w].file,
         task'[w].op \in {"saveDoc", "insertDoc", "rename"} => docLoaded'
  PROVE  DocTasksOK'
<1>1. IsDocument' /\ phase' = "up"
  BY SameKind
<1>2. {"look", "migrate", "saveDoc", "insertDoc", "rename"} = LockedOps
  BY DEF LockedOps
<1>3. \A v \in Workers : task'[v].op \in LockedOps => v = w
  OBVIOUS
<1>4. ASSUME NEW v \in Workers, task'[v].op \in DocOps PROVE task'[v] \in DocTask
  <2>1. CASE v = w
    BY <1>4, <2>1, IdleNoDoc DEF DocTaskOK
  <2>2. CASE v # w
    BY <1>4, <2>2 DEF DocTasksOK
  <2>3. QED
    BY <2>1, <2>2
<1>5. ASSUME NEW v \in Workers
      PROVE  /\ task'[v].op \in {"look", "migrate"} => ~docLoaded' /\ ~task'[v].put
             /\ task'[v].op \in LockedOps /\ task'[v].put => ~task'[v].file
             /\ task'[v].op \in {"saveDoc", "insertDoc", "rename"} => docLoaded'
  BY <1>2, <1>3
<1>6. QED
  BY <1>1, <1>3, <1>4, <1>5 DEF DocTasksOK

\* The document as a step leaves it, with all else that goroutines are at.
DocGoesOn == DocumentsInv' /\ TasksOK' /\ Leaves(LogOps) /\ Leaves(SettingsOps)

\* What a step of w to x has to leave behind for the invariants of values.
LEMMA DocValuesGoOn ==
  ASSUME NEW w \in Workers, \A v \in Workers \ {w} : task'[v].op \notin LockedOps,
         ~excused' /\ IsDocument' =>
           /\ task'[w].op # "insertDoc" => DocOnDisk' = expected'
           /\ task'[w].op \notin {"saveDoc", "insertDoc"} /\ docLoaded' => docMem' = docRow'
           /\ task'[w].op = "migrate" => docRow' = NoDoc
           /\ task'[w].op \in {"saveDoc", "insertDoc"} /\ ~task'[w].put => docMem' = expected' /\ docRow' = NoDoc
           /\ \A v \in Workers : task'[v].op = "merge" /\ task'[v].fresh => task'[v].value = expected'
           /\ task'[w].op \in {"saveDoc", "insertDoc"} /\ task'[w].put /\ task'[w].adds # {} /\ task'[w].fresh
                => docMem' = expected' \union task'[w].adds,
         IsDocument' /\ task'[w].op \in {"saveDoc", "insertDoc"} /\ task'[w].put =>
           \A v \in Workers : task'[v].op = "merge" => ~task'[v].fresh
  PROVE  DocInv' /\ MergesInv'
<1>1. \A v \in Workers \ {w} : task'[v].op \notin {"saveDoc", "insertDoc"} /\ task'[v].op # "insertDoc"
                               /\ task'[v].op # "migrate"
  BY DEF LockedOps
<1>2. Putting' <=> task'[w].op \in {"saveDoc", "insertDoc"}
  BY <1>1 DEF Putting
<1>3. (\A v \in Workers : task'[v].op # "insertDoc") <=> task'[w].op # "insertDoc"
  BY <1>1
<1>4. DocInv'
  <2>1. ASSUME ~excused', IsDocument'
        PROVE  /\ (\A v \in Workers : task'[v].op # "insertDoc") => DocOnDisk' = expected'
               /\ ~Putting' /\ docLoaded' => docMem' = docRow'
    BY <1>2, <1>3, <2>1
  <2>2. ASSUME ~excused', IsDocument', NEW v \in Workers
        PROVE  /\ task'[v].op = "migrate" => docRow' = NoDoc
               /\ task'[v].op \in {"saveDoc", "insertDoc"} /\ ~task'[v].put => docMem' = expected' /\ docRow' = NoDoc
    <3>1. CASE v = w
      BY <2>2, <3>1
    <3>2. CASE v # w
      BY <1>1, <3>2
    <3>3. QED
      BY <3>1, <3>2
  <2>3. QED
    BY <2>1, <2>2 DEF DocInv
<1>5. MergesInv'
  <2>1. ASSUME IsDocument', ~excused', NEW v \in Workers
        PROVE  /\ task'[v].op = "merge" /\ task'[v].fresh => task'[v].value = expected'
               /\ task'[v].op \in {"saveDoc", "insertDoc"} /\ task'[v].put /\ task'[v].adds # {} /\ task'[v].fresh
                    => docMem' = expected' \union task'[v].adds
    <3>1. CASE v = w
      BY <2>1, <3>1
    <3>2. CASE v # w
      BY <1>1, <2>1, <3>2
    <3>3. QED
      BY <3>1, <3>2
  <2>2. ASSUME IsDocument', NEW u \in Workers, NEW v \in Workers,
               task'[u].op \in {"saveDoc", "insertDoc"}, task'[u].put, task'[v].op = "merge"
        PROVE  ~task'[v].fresh
    <3>1. u = w
      BY <1>1, <2>2
    <3>2. QED
      BY <2>2, <3>1
  <2>3. QED
    BY <2>1, <2>2 DEF MergesInv
<1>6. QED
  BY <1>4, <1>5

\* A goroutine becomes x, the only one with the mutex if any has it, and what is expected of the
\* document does not change, unless nobody is about to merge what was read before.
LEMMA DocStepGoesOn ==
  ASSUME DocumentsInv, TasksOK, IsDocument, phase = "up", phase' = phase, deployment' = deployment,
         NEW w \in Workers, NEW x, Become(w, x), DocTaskOK(x),
         task[w] = Idle \/ task[w].op \in DocOps,
         \A v \in Workers \ {w} : task[v].op \notin LockedOps,
         docMem' \in SUBSET Items, docRow' = NoDoc \/ docRow' \in SUBSET Items,
         docLoaded' \in BOOLEAN, excused' \in BOOLEAN, expected' \in SUBSET Items,
         x.op \in {"look", "migrate"} => ~docLoaded' /\ ~x.put,
         x.op \in LockedOps /\ x.put => ~x.file,
         x.op \in {"saveDoc", "insertDoc", "rename"} => docLoaded',
         ~excused' =>
           /\ x.op # "insertDoc" => DocOnDisk' = expected'
           /\ x.op \notin {"saveDoc", "insertDoc"} /\ docLoaded' => docMem' = docRow'
           /\ x.op = "migrate" => docRow' = NoDoc
           /\ x.op \in {"saveDoc", "insertDoc"} /\ ~x.put => docMem' = expected' /\ docRow' = NoDoc
           /\ x.op = "merge" /\ x.fresh => x.value = expected'
           /\ x.op \in {"saveDoc", "insertDoc"} /\ x.put /\ x.adds # {} /\ x.fresh
                => docMem' = expected' \union x.adds,
         (~excused /\ expected' = expected) \/ excused'
           \/ (task[w].op \in {"saveDoc", "insertDoc"} /\ task[w].put /\ x.op # "merge"),
         x.op \in {"saveDoc", "insertDoc"} /\ x.put => task[w].op \in {"saveDoc", "insertDoc"} /\ task[w].put
  PROVE  DocGoesOn
<1>1. /\ task'[w] = x /\ \A v \in Workers \ {w} : task'[v] = task[v]
      /\ TasksOK' /\ Leaves(LogOps) /\ Leaves(SettingsOps)
  BY DocBecomes
<1>2. DocTasksOK'
  <2>1. DocTasksOK
    BY DEF DocumentsInv
  <2>2. \A v \in Workers \ {w} : task'[v] = task[v] /\ task[v].op \notin LockedOps
    BY <1>1
  <2>3. /\ DocTaskOK(task'[w])
        /\ task'[w].op \in {"look", "migrate"} => ~docLoaded' /\ ~task'[w].put
        /\ task'[w].op \in LockedOps /\ task'[w].put => ~task'[w].file
        /\ task'[w].op \in {"saveDoc", "insertDoc", "rename"} => docLoaded'
    BY <1>1
  <2>4. QED
    BY <2>1, <2>2, <2>3, DocTasksGoOn
<1>3. IsDocument'
  BY SameKind
<1>4. /\ ~excused => \A v \in Workers : task[v].op = "merge" /\ task[v].fresh => task[v].value = expected
      /\ \A u, v \in Workers :
           task[u].op \in {"saveDoc", "insertDoc"} /\ task[u].put /\ task[v].op = "merge" => ~task[v].fresh
  BY DEF DocumentsInv, MergesInv
<1>5. \A v \in Workers \ {w} : task'[v].op \notin LockedOps
  BY <1>1
<1>6. ASSUME ~excused', NEW v \in Workers, task'[v].op = "merge", task'[v].fresh PROVE task'[v].value = expected'
  <2>1. CASE v = w
    BY <1>1, <1>6, <2>1
  <2>2. CASE v # w
    <3>1. task'[v] = task[v]
      BY <1>1, <2>2
    <3>2. QED
      BY <1>4, <1>6, <3>1
  <2>3. QED
    BY <2>1, <2>2
<1>7. ASSUME task'[w].op \in {"saveDoc", "insertDoc"}, task'[w].put, NEW v \in Workers, task'[v].op = "merge"
      PROVE  ~task'[v].fresh
  <2>1. v # w
    BY <1>7
  <2>2. task'[v] = task[v]
    BY <1>1, <2>1
  <2>3. task[w].op \in {"saveDoc", "insertDoc"} /\ task[w].put
    BY <1>1, <1>7
  <2>4. QED
    BY <1>4, <1>7, <2>2, <2>3
<1>8. DocInv' /\ MergesInv'
  <2>1. ~excused' =>
           /\ task'[w].op # "insertDoc" => DocOnDisk' = expected'
           /\ task'[w].op \notin {"saveDoc", "insertDoc"} /\ docLoaded' => docMem' = docRow'
           /\ task'[w].op = "migrate" => docRow' = NoDoc
           /\ task'[w].op \in {"saveDoc", "insertDoc"} /\ ~task'[w].put => docMem' = expected' /\ docRow' = NoDoc
           /\ task'[w].op \in {"saveDoc", "insertDoc"} /\ task'[w].put /\ task'[w].adds # {} /\ task'[w].fresh
                => docMem' = expected' \union task'[w].adds
    BY <1>1
  <2>2. ~excused' => \A v \in Workers : task'[v].op = "merge" /\ task'[v].fresh => task'[v].value = expected'
    BY <1>6
  <2>3. task'[w].op \in {"saveDoc", "insertDoc"} /\ task'[w].put =>
           \A v \in Workers : task'[v].op = "merge" => ~task'[v].fresh
    BY <1>7
  <2> HIDE DEF DocOnDisk
  <2>4. QED
    BY <1>5, <2>1, <2>2, <2>3, DocValuesGoOn
<1>9. QED
  BY <1>1, <1>2, <1>8 DEF DocGoesOn, DocumentsInv

\* Nothing of the document but its file may change, and a document that has a row is that row.
LEMMA SameOnDisk ==
  ASSUME deployment' = deployment, docRow' = docRow, file' = file \/ docRow # NoDoc
  PROVE  DocOnDisk' = DocOnDisk
<1>1. Kind' = Kind
  BY SameKind
<1>2. QED
  BY <1>1 DEF DocOnDisk, Old

\* Who asked for the document gets it, to merge prices into it or not.
LEMMA ReturnIs ==
  ASSUME NEW w \in Workers, task[w] \in DocTask, NEW value \in SUBSET Items, Return(w, value)
  PROVE  \E x : /\ Become(w, x) /\ DocTaskOK(x)
                /\ x = Idle \/ (x.op = "merge" /\ x.value = value /\ task[w].adds # {})
<1>1. task[w].adds \in SUBSET Items
  BY DEF DocTask
<1>2. CASE task[w].adds = {}
  <2>1. Become(w, Idle)
    BY <1>2 DEF Return
  <2>2. QED
    BY <2>1 DEF DocTaskOK
<1>3. CASE task[w].adds # {}
  <2> DEFINE x == Call("merge", FALSE, task[w].adds, value)
  <2>1. Become(w, x)
    BY <1>3 DEF Return
  <2>2. "merge" \in DocOps /\ FALSE \in BOOLEAN
    BY DEF DocOps
  <2>3. x \in DocTask /\ x.op = "merge" /\ x.value = value
    BY <1>1, <2>2 DEF Call, DocTask
  <2> HIDE DEF x
  <2>4. QED
    BY <1>3, <2>1, <2>3 DEF DocTaskOK
<1>4. QED
  BY <1>2, <1>3

\* What is at no operation of a document, and what is only about to merge, has no mutex.
LEMMA NotLocked ==
  ASSUME NEW x, x = Idle \/ x.op = "merge"
  PROVE  /\ x.op \notin LockedOps /\ x.op \notin {"look", "migrate", "saveDoc", "insertDoc", "rename"}
         /\ x.op # "migrate" /\ x.op # "insertDoc" /\ x.op \notin {"look", "migrate"}
         /\ x.op \notin {"saveDoc", "insertDoc"} /\ x.op \notin {"saveDoc", "insertDoc", "rename"}
         /\ (x = Idle => x.op # "merge")
BY DEF Idle, LockedOps

\* The document, as the invariants have it.
LEMMA DocTyped ==
  ASSUME DocumentsInv
  PROVE  /\ docMem \in SUBSET Items /\ (docRow = NoDoc \/ docRow \in SUBSET Items)
         /\ docLoaded \in BOOLEAN /\ excused \in BOOLEAN /\ expected \in SUBSET Items
BY DEF DocumentsInv, DocTasksOK

\* Nobody is at a save, and nothing failed: the document is where it is expected.
LEMMA DocSettled ==
  ASSUME DocumentsInv, IsDocument, ~excused, ~Putting
  PROVE  /\ DocOnDisk = expected
         /\ docLoaded => docMem = docRow /\ docMem = expected /\ docRow # NoDoc
<1>1. \A w \in Workers : task[w].op # "insertDoc"
  BY DEF Putting
<1>2. DocOnDisk = expected /\ (docLoaded => docMem = docRow)
  BY <1>1 DEF DocumentsInv, DocInv
<1>3. docMem \in SUBSET Items /\ \A s \in SUBSET Items : s # NoDoc
  BY DocTyped, DocumentAssumption
<1>4. docLoaded => docRow # NoDoc
  BY <1>2, <1>3
<1>5. QED
  BY <1>2, <1>4 DEF DocOnDisk

\* A request asks for the document: it looks for the row, or has a copy of what is in memory.
LEMMA GetDocStep ==
  ASSUME DocumentsInv, TasksOK, IsDocument, NEW w \in Workers, NEW adds \in SUBSET Items, GetDoc(w, adds)
  PROVE  DocGoesOn
<1>1. /\ phase = "up" /\ phase' = phase /\ deployment' = deployment /\ task[w] = Idle /\ ~Locked
      /\ UNCHANGED docVars /\ file' = file
  BY DEF GetDoc, rest, docRest
<1>2. \A v \in Workers : task[v].op \notin LockedOps
  BY <1>1, NoneLocked
<1>3. ~Putting
  BY <1>2 DEF Putting, LockedOps
<1>4. /\ docMem' = docMem /\ docRow' = docRow /\ docLoaded' = docLoaded /\ excused' = excused
      /\ expected' = expected /\ DocOnDisk' = DocOnDisk
  BY <1>1, SameOnDisk DEF docVars
<1>5. ~excused => DocOnDisk = expected /\ (docLoaded => docMem = docRow /\ docMem = expected)
  BY <1>3, DocSettled
<1>6. {} \in SUBSET Items /\ FALSE \in BOOLEAN /\ "look" \in DocOps /\ "merge" \in DocOps
  BY DEF DocOps, LockedOps
<1>7. CASE ~docLoaded /\ Become(w, Call("look", FALSE, adds, {}))
  <2> DEFINE x == Call("look", FALSE, adds, {})
  <2>1. x \in DocTask /\ x.op = "look" /\ x.put = FALSE
    BY <1>6 DEF Call, DocTask
  <2>2. Become(w, x)
    BY <1>7
  <2> HIDE DEF x
  <2>3. DocTaskOK(x)
    BY <2>1 DEF DocTaskOK
  <2> HIDE DEF DocOnDisk
  <2>4. QED
    BY <1>1, <1>2, <1>4, <1>5, <1>7, <2>1, <2>2, <2>3, DocTyped, DocStepGoesOn
<1>8. CASE docLoaded /\ adds # {} /\ Become(w, Call("merge", FALSE, adds, docMem))
  <2> DEFINE x == Call("merge", FALSE, adds, docMem)
  <2>0. docMem \in SUBSET Items
    BY DocTyped
  <2>1. x \in DocTask /\ x.op = "merge" /\ x.put = FALSE /\ x.value = docMem
    BY <1>6, <2>0 DEF Call, DocTask
  <2>2. Become(w, x)
    BY <1>8
  <2> HIDE DEF x
  <2>3. DocTaskOK(x)
    BY <2>1 DEF DocTaskOK
  <2> HIDE DEF DocOnDisk
  <2>4. QED
    BY <1>1, <1>2, <1>4, <1>5, <1>8, <2>1, <2>2, <2>3, DocTyped, DocStepGoesOn, NotLocked
<1>9. QED
  BY <1>7, <1>8 DEF GetDoc

\* The requests that ask for a document.
LEMMA GetSiteStep ==
  ASSUME DocumentsInv, TasksOK, NEW w \in Workers, GetSite(w) \/ GetModelPrices(w) \/ ModelsImport(w)
  PROVE  DocGoesOn
<1>1. IsDocument
  BY DEF GetSite, GetModelPrices, ModelsImport, IsDocument
<1>2. PICK adds \in SUBSET Items : GetDoc(w, adds)
  BY DEF GetSite, GetModelPrices, ModelsImport
<1>3. QED
  BY <1>1, <1>2, GetDocStep

\* One has the mutex: what else the invariants say, of it and of the others.
LEMMA AtDocument ==
  ASSUME DocumentsInv, NEW w \in Workers, task[w].op \in LockedOps
  PROVE  /\ IsDocument /\ phase = "up" /\ task[w] \in DocTask /\ task[w].op \in DocOps
         /\ \A v \in Workers \ {w} : task[v].op \notin LockedOps
         /\ task[w].op \notin {"saveDoc", "insertDoc"} => ~Putting
         /\ task[w].op \in {"look", "migrate"} => ~docLoaded /\ ~task[w].put
         /\ task[w].put => ~task[w].file
         /\ task[w].op \in {"saveDoc", "insertDoc", "rename"} => docLoaded
<1>1. DocTasksOK
  BY DEF DocumentsInv
<1>2. /\ IsDocument /\ phase = "up" /\ task[w] \in DocTask /\ task[w].op \in DocOps
      /\ \A v \in Workers \ {w} : task[v].op \notin LockedOps
  BY <1>1, OneLocked DEF DocOps
<1>3. \A v \in Workers : task[v].op \in {"saveDoc", "insertDoc"} => v = w
  BY <1>2 DEF LockedOps
<1>4. task[w].op \notin {"saveDoc", "insertDoc"} => ~Putting
  BY <1>3 DEF Putting
<1>5. /\ task[w].op \in {"look", "migrate"} => ~docLoaded /\ ~task[w].put
      /\ task[w].put => ~task[w].file
      /\ task[w].op \in {"saveDoc", "insertDoc", "rename"} => docLoaded
  BY <1>1 DEF DocTasksOK
<1>6. QED
  BY <1>2, <1>4, <1>5

\* The row is there, is not there, or could not be read.
LEMMA LookStep ==
  ASSUME DocumentsInv, TasksOK, NEW w \in Workers, Look(w)
  PROVE  DocGoesOn
<1> HIDE DEF DocOnDisk
<1>1. /\ task[w].op = "look" /\ phase' = phase /\ deployment' = deployment /\ docRow' = docRow /\ file' = file
      /\ expected' = expected
  BY DEF Look, Do, rest, docRest
<1>2. task[w].op \in LockedOps
  BY <1>1 DEF LockedOps
<1>3. /\ IsDocument /\ phase = "up" /\ task[w] \in DocTask /\ task[w].op \in DocOps
      /\ \A v \in Workers \ {w} : task[v].op \notin LockedOps
      /\ ~Putting /\ ~docLoaded /\ ~task[w].put
  BY <1>1, <1>2, AtDocument
<1>4. DocOnDisk' = DocOnDisk /\ (~excused => DocOnDisk = expected)
  BY <1>1, <1>3, SameOnDisk, DocSettled
<1>5. /\ docLoaded \in BOOLEAN /\ docMem \in SUBSET Items /\ (docRow = NoDoc \/ docRow \in SUBSET Items)
      /\ excused \in BOOLEAN /\ expected \in SUBSET Items /\ {} \in SUBSET Items
  BY DocTyped
<1>6. CASE docRow # NoDoc /\ docMem' = docRow /\ docLoaded' = TRUE /\ Return(w, docRow) /\ excused' = excused
  <2>0. docRow \in SUBSET Items
    BY <1>5, <1>6
  <2>1. PICK x : /\ Become(w, x) /\ DocTaskOK(x)
                 /\ x = Idle \/ (x.op = "merge" /\ x.value = docRow /\ task[w].adds # {})
    BY <1>3, <1>6, <2>0, ReturnIs
  <2>2. DocOnDisk = docRow
    BY <1>6 DEF DocOnDisk
  <2>3. QED
    BY <1>1, <1>3, <1>4, <1>5, <1>6, <2>0, <2>1, <2>2, NotLocked, DocStepGoesOn
<1>7. ASSUME GoTo(w, "migrate"), docMem' = docMem, docLoaded' = docLoaded, excused' \in BOOLEAN,
             (excused' = excused /\ docRow = NoDoc) \/ excused'
      PROVE  DocGoesOn
  <2> DEFINE x == [task[w] EXCEPT !.op = "migrate"]
  <2>1. Become(w, x)
    BY <1>7 DEF GoTo
  <2>2. "migrate" \in DocOps
    BY DEF DocOps, LockedOps
  <2>3. x \in DocTask /\ x.op = "migrate" /\ x.put = task[w].put
    BY <1>3, <2>2, OpChanged
  <2> HIDE DEF x
  <2>4. DocTaskOK(x)
    BY <2>3 DEF DocTaskOK
  <2>5. /\ docMem' \in SUBSET Items /\ docLoaded' \in BOOLEAN /\ ~docLoaded'
        /\ ~excused' => ~excused /\ docRow' = NoDoc /\ DocOnDisk' = expected'
        /\ docRow' = NoDoc \/ docRow' \in SUBSET Items
    BY <1>1, <1>3, <1>4, <1>5, <1>7
  <2>6. QED
    BY <1>1, <1>3, <1>5, <1>7, <2>1, <2>3, <2>4, <2>5, DocStepGoesOn
<1>8. ASSUME Return(w, {}), docMem' = docMem, docLoaded' = docLoaded, excused' \in BOOLEAN,
             excused' = excused \/ excused', task[w].adds # {} => excused'
      PROVE  DocGoesOn
  <2>1. PICK x : /\ Become(w, x) /\ DocTaskOK(x)
                 /\ x = Idle \/ (x.op = "merge" /\ x.value = {} /\ task[w].adds # {})
    BY <1>3, <1>5, <1>8, ReturnIs
  <2>2. /\ docMem' \in SUBSET Items /\ docLoaded' \in BOOLEAN /\ ~docLoaded'
        /\ ~excused' => ~excused /\ DocOnDisk' = expected' /\ x = Idle
        /\ docRow' = NoDoc \/ docRow' \in SUBSET Items
    BY <1>1, <1>3, <1>4, <1>5, <1>8, <2>1
  <2>3. QED
    BY <1>1, <1>3, <1>5, <1>8, <2>1, <2>2, NotLocked, DocStepGoesOn
<1>9. QED
  <2>1. CASE docRow = NoDoc /\ GoTo(w, "migrate") /\ UNCHANGED <<docMem, docLoaded, faults, excused>>
    BY <1>5, <1>7, <2>1
  <2>2. CASE /\ excused' = (excused \/ Kind = "site" \/ task[w].adds # {})
             /\ IF Kind = "site" THEN GoTo(w, "migrate") ELSE Return(w, {})
             /\ UNCHANGED <<docMem, docLoaded>>
    BY <1>5, <1>7, <1>8, <2>2
  <2>3. QED
    BY <1>6, <2>1, <2>2 DEF Look

\* The document of the file, or an empty one, is in memory, to be saved.
LEMMA MigrateStep ==
  ASSUME Typing, DocumentsInv, TasksOK, NEW w \in Workers, Migrate(w)
  PROVE  DocGoesOn
<1>1. /\ task[w].op = "migrate" /\ phase' = phase /\ deployment' = deployment /\ docRow' = docRow /\ file' = file
      /\ expected' = expected /\ excused' = excused /\ docLoaded' = TRUE
      /\ docMem' = (IF Old.at = "json" THEN Old.rows ELSE {})
  BY DEF Migrate, Do, rest, docRest
<1>2. task[w].op \in LockedOps
  BY <1>1 DEF LockedOps
<1>3. /\ IsDocument /\ phase = "up" /\ task[w] \in DocTask /\ task[w].op \in DocOps
      /\ \A v \in Workers \ {w} : task[v].op \notin LockedOps
      /\ ~Putting /\ ~task[w].put
  BY <1>1, <1>2, AtDocument
<1>4. ~excused => DocOnDisk = expected /\ docRow = NoDoc
  BY <1>1, <1>3, DocSettled DEF DocumentsInv, DocInv
<1>5. ~excused => docMem' = expected
  BY <1>1, <1>4 DEF DocOnDisk
<1>6. DocOnDisk' = DocOnDisk
  BY <1>1, SameOnDisk
<1>7. /\ docMem' \in SUBSET Items /\ (docRow = NoDoc \/ docRow \in SUBSET Items)
      /\ excused \in BOOLEAN /\ expected \in SUBSET Items
  BY <1>1, <1>3, DocTyped, KindApart
<1> DEFINE f == Old.at = "json"
<1>8. Become(w, [task[w] EXCEPT !.op = "saveDoc", !.file = f])
  BY DEF Migrate
<1>9. f \in BOOLEAN
  OBVIOUS
<1> HIDE DEF f, DocOnDisk
<1>10. PICK x \in DocTask : Become(w, x) /\ x.op = "saveDoc" /\ x.put = task[w].put
  BY <1>3, <1>8, <1>9, SavesNext
<1>11. DocTaskOK(x)
  BY <1>10 DEF DocTaskOK
<1>12. QED
  BY <1>1, <1>3, <1>4, <1>5, <1>6, <1>7, <1>10, <1>11, DocStepGoesOn

\* A save that was written.
LEMMA SavedStep ==
  ASSUME DocumentsInv, TasksOK, NEW w \in Workers, task[w].op \in {"saveDoc", "insertDoc"},
         phase' = phase, deployment' = deployment, docLoaded' = docLoaded, docRow' = docMem, Saved(w)
  PROVE  DocGoesOn
<1>1. task[w].op \in LockedOps
  BY DEF LockedOps
<1>2. /\ IsDocument /\ phase = "up" /\ task[w] \in DocTask /\ task[w].op \in DocOps
      /\ \A v \in Workers \ {w} : task[v].op \notin LockedOps
      /\ docLoaded /\ (task[w].put => ~task[w].file)
  BY <1>1, AtDocument
<1>3. /\ docMem \in SUBSET Items /\ excused \in BOOLEAN /\ expected \in SUBSET Items /\ docRow' # NoDoc
  BY DocTyped, DocumentAssumption
<1>4. docMem' = docMem /\ DocOnDisk' = docMem
  BY <1>3 DEF DocOnDisk, Saved
<1> HIDE DEF DocOnDisk
<1>5. CASE task[w].put
  <2>1. Become(w, Idle) /\ excused' = FALSE
    BY <1>2, <1>5 DEF Saved
  <2>2. expected' = docMem
    <3>1. ~excused /\ task[w].adds # {} /\ task[w].fresh => docMem = expected \union task[w].adds
      BY <1>2, <1>5 DEF DocumentsInv, MergesInv
    <3>2. expected' = IF task[w].adds # {} /\ task[w].fresh /\ ~excused
                      THEN expected \union task[w].adds ELSE docMem
      BY <1>5 DEF Saved
    <3>3. QED
      BY <3>1, <3>2
  <2>3. DocTaskOK(Idle)
    BY DEF DocTaskOK
  <2>4. QED
    BY <1>2, <1>3, <1>4, <1>5, <2>1, <2>2, <2>3, NotLocked, DocStepGoesOn
<1>6. CASE ~task[w].put
  <2>1. expected' = expected /\ excused' = excused
    BY <1>6 DEF Saved
  <2>2. ~excused => docMem = expected
    BY <1>2, <1>6 DEF DocumentsInv, DocInv
  <2>3. CASE task[w].file
    <3> DEFINE x == [task[w] EXCEPT !.op = "rename"]
    <3>1. Become(w, x)
      BY <1>6, <2>3 DEF Saved, GoTo
    <3>2. "rename" \in DocOps
      BY DEF DocOps, LockedOps
    <3>3. x \in DocTask /\ x.op = "rename" /\ x.put = task[w].put
      BY <1>2, <3>2, OpChanged
    <3> HIDE DEF x
    <3>4. DocTaskOK(x)
      BY <3>3 DEF DocTaskOK
    <3>5. QED
      BY <1>2, <1>3, <1>4, <1>6, <2>1, <2>2, <3>1, <3>3, <3>4, DocStepGoesOn
  <2>4. CASE ~task[w].file
    <3>1. Return(w, docMem)
      BY <1>6, <2>4 DEF Saved
    <3>2. PICK x : /\ Become(w, x) /\ DocTaskOK(x)
                   /\ x = Idle \/ (x.op = "merge" /\ x.value = docMem /\ task[w].adds # {})
      BY <1>2, <1>3, <3>1, ReturnIs
    <3>3. QED
      BY <1>2, <1>3, <1>4, <1>6, <2>1, <2>2, <3>2, NotLocked, DocStepGoesOn
  <2>5. QED
    BY <2>3, <2>4
<1>7. QED
  BY <1>5, <1>6

\* A save that failed.
LEMMA SaveFailedStep ==
  ASSUME DocumentsInv, TasksOK, NEW w \in Workers, task[w].op \in {"saveDoc", "insertDoc"},
         phase' = phase, deployment' = deployment, docLoaded' = docLoaded, docRow' = docRow, SaveFailed(w)
  PROVE  DocGoesOn
<1> HIDE DEF DocOnDisk
<1>1. task[w].op \in LockedOps
  BY DEF LockedOps
<1>2. /\ IsDocument /\ phase = "up" /\ task[w] \in DocTask /\ task[w].op \in DocOps
      /\ \A v \in Workers \ {w} : task[v].op \notin LockedOps
      /\ docLoaded /\ (task[w].put => ~task[w].file)
  BY <1>1, AtDocument
<1>3. /\ docMem \in SUBSET Items /\ {} \in SUBSET Items /\ expected \in SUBSET Items
      /\ (docRow = NoDoc \/ docRow \in SUBSET Items)
  BY DocTyped
<1>4. excused' = TRUE /\ expected' = expected
  BY DEF SaveFailed
<1>5. CASE task[w].file /\ Kind = "site"
  <2>1. docMem' = {} /\ Become(w, [task[w] EXCEPT !.op = "saveDoc", !.file = FALSE])
    BY <1>5 DEF SaveFailed
  <2>2. FALSE \in BOOLEAN
    OBVIOUS
  <2>3. PICK x \in DocTask : Become(w, x) /\ x.op = "saveDoc" /\ x.put = task[w].put
    BY <1>2, <2>1, <2>2, SavesNext
  <2>4. DocTaskOK(x) /\ ~x.put
    BY <1>2, <1>5, <2>3 DEF DocTaskOK
  <2>5. QED
    BY <1>2, <1>3, <1>4, <2>1, <2>3, <2>4, DocStepGoesOn
<1>6. CASE ~(task[w].file /\ Kind = "site")
  <2>1. /\ docMem' = docMem
        /\ IF task[w].put THEN Become(w, Idle) ELSE Return(w, IF task[w].file THEN {} ELSE docMem)
    BY <1>6 DEF SaveFailed
  <2>2. CASE task[w].put
    <3>1. Become(w, Idle) /\ DocTaskOK(Idle)
      BY <2>1, <2>2 DEF DocTaskOK
    <3>2. QED
      BY <1>2, <1>3, <1>4, <2>1, <3>1, NotLocked, DocStepGoesOn
  <2>3. CASE ~task[w].put
    <3> DEFINE value == IF task[w].file THEN {} ELSE docMem
    <3>1. Return(w, value) /\ value \in SUBSET Items
      BY <1>3, <2>1, <2>3
    <3> HIDE DEF value
    <3>2. PICK x : /\ Become(w, x) /\ DocTaskOK(x)
                   /\ x = Idle \/ (x.op = "merge" /\ x.value = value /\ task[w].adds # {})
      BY <1>2, <3>1, ReturnIs
    <3>3. QED
      BY <1>2, <1>3, <1>4, <2>1, <3>2, NotLocked, DocStepGoesOn
  <2>4. QED
    BY <2>2, <2>3
<1>7. QED
  BY <1>5, <1>6

\* The statements of a save, written or failed.
LEMMA SaveDocStep ==
  ASSUME DocumentsInv, TasksOK, NEW w \in Workers, SaveDoc(w) \/ InsertDoc(w)
  PROVE  DocGoesOn
<1> HIDE DEF DocOnDisk
<1>1. /\ task[w].op \in {"saveDoc", "insertDoc"} /\ phase' = phase /\ deployment' = deployment
      /\ docLoaded' = docLoaded
  BY DEF SaveDoc, InsertDoc, Do, rest
<1>2. task[w].op \in LockedOps
  BY <1>1 DEF LockedOps
<1>3. CASE docRow' = docMem /\ Saved(w)
  BY <1>1, <1>3, SavedStep
<1>4. CASE docRow' = docRow /\ SaveFailed(w)
  BY <1>1, <1>4, SaveFailedStep
<1>5. CASE /\ task[w].op = "saveDoc" /\ docRow' = NoDoc /\ GoTo(w, "insertDoc")
           /\ UNCHANGED <<docMem, faults, expected, excused>>
  <2>1. /\ IsDocument /\ phase = "up" /\ task[w] \in DocTask /\ task[w].op \in DocOps
        /\ \A v \in Workers \ {w} : task[v].op \notin LockedOps
        /\ docLoaded /\ (task[w].put => ~task[w].file)
    BY <1>1, <1>2, AtDocument
  <2>2. /\ docMem' \in SUBSET Items /\ expected' \in SUBSET Items /\ excused' \in BOOLEAN
        /\ docLoaded' \in BOOLEAN /\ docLoaded' /\ expected' = expected /\ docMem' = docMem /\ excused' = excused
    BY <1>1, <1>5, <2>1, DocTyped
  <2> DEFINE x == [task[w] EXCEPT !.op = "insertDoc"]
  <2>3. Become(w, x)
    BY <1>5 DEF GoTo
  <2>4. "insertDoc" \in DocOps
    BY DEF DocOps, LockedOps
  <2>5. /\ x \in DocTask /\ x.op = "insertDoc" /\ x.put = task[w].put /\ x.adds = task[w].adds
        /\ x.file = task[w].file /\ x.fresh = task[w].fresh
    BY <2>1, <2>4, OpChanged
  <2> HIDE DEF x
  <2>6. DocTaskOK(x)
    BY <2>5 DEF DocTaskOK
  <2>7. ~excused => /\ ~task[w].put => docMem = expected
                    /\ task[w].put /\ task[w].adds # {} /\ task[w].fresh => docMem = expected \union task[w].adds
    BY <1>1, <2>1 DEF DocumentsInv, DocInv, MergesInv
  <2>8. (~excused /\ expected' = expected) \/ excused'
    BY <2>2, DocTyped
  <2>9. ~excused' => /\ ~x.put => docMem' = expected'
                     /\ x.put /\ x.adds # {} /\ x.fresh => docMem' = expected' \union x.adds
    BY <2>2, <2>5, <2>7
  <2>10. /\ x.op \notin {"look", "migrate"} /\ x.op \in {"saveDoc", "insertDoc"} /\ x.op # "merge"
         /\ x.op # "migrate" /\ (x.put => ~x.file)
    BY <2>1, <2>5
  <2>11. QED
    BY <1>1, <1>5, <2>1, <2>2, <2>3, <2>5, <2>6, <2>8, <2>9, <2>10, DocStepGoesOn
<1>6. QED
  <2>1. CASE SaveDoc(w)
    BY <1>3, <1>4, <1>5, <2>1 DEF SaveDoc, Do
  <2>2. CASE InsertDoc(w)
    BY <1>3, <1>4, <2>2 DEF InsertDoc
  <2>3. QED
    BY <2>1, <2>2

\* The file is renamed after its document was saved.
LEMMA RenameDocStep ==
  ASSUME Typing, DocumentsInv, TasksOK, NEW w \in Workers, RenameDoc(w)
  PROVE  DocGoesOn
<1>1. /\ task[w].op = "rename" /\ phase' = phase /\ deployment' = deployment /\ UNCHANGED docVars
      /\ Return(w, docMem)
  BY DEF RenameDoc, Do, rest
<1>2. task[w].op \in LockedOps
  BY <1>1 DEF LockedOps
<1>3. /\ IsDocument /\ phase = "up" /\ task[w] \in DocTask /\ task[w].op \in DocOps
      /\ \A v \in Workers \ {w} : task[v].op \notin LockedOps
      /\ ~Putting /\ docLoaded
  BY <1>1, <1>2, AtDocument
<1>4. ~excused => DocOnDisk = expected /\ docMem = docRow /\ docMem = expected /\ docRow # NoDoc
  BY <1>3, DocSettled
<1>5. /\ docMem' = docMem /\ docRow' = docRow /\ docLoaded' = docLoaded /\ excused' = excused
      /\ expected' = expected
  BY <1>1 DEF docVars
<1>6. ~excused => DocOnDisk' = DocOnDisk
  BY <1>1, <1>4, <1>5, SameOnDisk
<1> HIDE DEF DocOnDisk
<1>7. docMem \in SUBSET Items
  BY DocTyped
<1>8. PICK x : /\ Become(w, x) /\ DocTaskOK(x)
               /\ x = Idle \/ (x.op = "merge" /\ x.value = docMem /\ task[w].adds # {})
  BY <1>1, <1>3, <1>7, ReturnIs
<1>9. QED
  BY <1>1, <1>3, <1>4, <1>5, <1>6, <1>8, DocTyped, NotLocked, DocStepGoesOn

\* A change of the document: what others have read of it is no longer what it is.
LEMMA PutDocTasks ==
  ASSUME DocumentsInv, IsDocument, NEW w \in Workers, NEW adds \in SUBSET Items, NEW value, PutDoc(w, adds, value)
  PROVE  /\ task' = [v \in Workers |-> task'[v]]
         /\ task'[w] \in DocTask /\ task'[w].op = "saveDoc" /\ task'[w].put = TRUE /\ task'[w].file = FALSE
         /\ task'[w].adds = adds /\ (task'[w].fresh => adds # {} /\ task[w].fresh)
         /\ \A v \in Workers \ {w} :
              \/ task'[v] = task[v] /\ task[v].op # "merge"
              \/ task[v].op = "merge" /\ task'[v] \in DocTask /\ task'[v].op = "merge" /\ task'[v].fresh = FALSE
<1> DEFINE b == adds # {} /\ task[w].fresh
           c == Call("saveDoc", TRUE, adds, {})
           x == [c EXCEPT !.fresh = b]
<1>1. task' = [v \in Workers |->
                CASE v = w                         -> x
                  [] v # w /\ task[v].op = "merge" -> [task[v] EXCEPT !.fresh = FALSE]
                  [] OTHER                         -> task[v]]
  BY DEF PutDoc
<1>2. c = [op |-> "saveDoc", put |-> TRUE, adds |-> adds, value |-> {}, file |-> FALSE, fresh |-> TRUE]
  BY DEF Call
<1> HIDE DEF c
<1>3. b \in BOOLEAN /\ (b => adds # {} /\ task[w].fresh)
  OBVIOUS
<1> HIDE DEF b
<1>4. "saveDoc" \in DocOps /\ {} \in SUBSET Items
  BY DEF DocOps, LockedOps
<1>5. x = [op |-> "saveDoc", put |-> TRUE, adds |-> adds, value |-> {}, file |-> FALSE, fresh |-> b]
  <2>1. c \in DocTask
    BY <1>2, <1>4 DEF DocTask
  <2>2. x = [op |-> c.op, put |-> c.put, adds |-> c.adds, value |-> c.value, file |-> c.file, fresh |-> b]
    BY <1>3, <2>1 DEF DocTask
  <2> HIDE DEF x
  <2>3. QED
    BY <1>2, <2>2
<1> HIDE DEF x
<1>6. /\ x \in DocTask /\ x.op = "saveDoc" /\ x.put = TRUE /\ x.file = FALSE
      /\ x.adds = adds /\ x.fresh = b
  BY <1>3, <1>4, <1>5 DEF DocTask
<1>7. task' = [v \in Workers |-> task'[v]] /\ task'[w] = x
  BY <1>1
<1>8. ASSUME NEW v \in Workers \ {w}
      PROVE  \/ task'[v] = task[v] /\ task[v].op # "merge"
             \/ task[v].op = "merge" /\ task'[v] \in DocTask /\ task'[v].op = "merge" /\ task'[v].fresh = FALSE
  <2>1. CASE task[v].op # "merge"
    BY <1>1, <2>1
  <2>2. CASE task[v].op = "merge"
    <3>1. task'[v] = [task[v] EXCEPT !.fresh = FALSE]
      BY <1>1, <2>2
    <3>2. "merge" \in DocOps
      BY DEF DocOps
    <3>3. task[v] \in DocTask
      BY <2>2, <3>2 DEF DocumentsInv, DocTasksOK
    <3>4. task'[v] \in DocTask /\ task'[v].op = "merge" /\ task'[v].fresh = FALSE
      BY <2>2, <3>1, <3>3 DEF DocTask
    <3>5. QED
      BY <2>2, <3>4
  <2>3. QED
    BY <2>1, <2>2
<1>9. QED
  BY <1>3, <1>6, <1>7, <1>8

\* A change of the document by a request that has it, and the mutex.
LEMMA PutDocStep ==
  ASSUME DocumentsInv, TasksOK, IsDocument, phase = "up", NEW w \in Workers, NEW adds \in SUBSET Items,
         NEW value \in SUBSET Items, PutDoc(w, adds, value),
         \/ adds = {} /\ task[w] = Idle
         \/ task[w].op = "merge" /\ adds = task[w].adds /\ value = task[w].value \union adds
  PROVE  DocGoesOn
<1>1. /\ phase' = phase /\ deployment' = deployment /\ docMem' = value /\ docLoaded' = TRUE /\ docRow' = docRow
      /\ expected' = expected /\ excused' = excused /\ file' = file /\ ~Locked
  BY DEF PutDoc, rest, docRest
<1>2. \A v \in Workers : task[v].op \notin LockedOps
  BY <1>1, NoneLocked
<1>3. /\ task' = [v \in Workers |-> task'[v]]
      /\ task'[w] \in DocTask /\ task'[w].op = "saveDoc" /\ task'[w].put = TRUE /\ task'[w].file = FALSE
      /\ task'[w].adds = adds /\ (task'[w].fresh => adds # {} /\ task[w].fresh)
      /\ \A v \in Workers \ {w} :
           \/ task'[v] = task[v] /\ task[v].op # "merge"
           \/ task[v].op = "merge" /\ task'[v] \in DocTask /\ task'[v].op = "merge" /\ task'[v].fresh = FALSE
  BY PutDocTasks
<1>4. IsDocument' /\ phase' = "up"
  BY <1>1, SameKind
<1>5. "merge" \notin LockedOps /\ "merge" \in DocOps /\ "saveDoc" \in LockedOps /\ "saveDoc" \in DocOps
      /\ {"look", "migrate", "saveDoc", "insertDoc", "rename"} = LockedOps
  BY DEF DocOps, LockedOps
<1>6. \A v \in Workers \ {w} : task'[v].op \notin LockedOps
  BY <1>2, <1>3, <1>5
<1>7. DocTasksOK'
  <2>1. ASSUME NEW v \in Workers, task'[v].op \in DocOps PROVE task'[v] \in DocTask
    <3>1. CASE v = w \/ task'[v] \in DocTask
      BY <1>3, <3>1
    <3>2. CASE task'[v] = task[v]
      BY <2>1, <3>2 DEF DocumentsInv, DocTasksOK
    <3>3. QED
      BY <1>3, <3>1, <3>2
  <2>2. \A u, v \in Workers : task'[u].op \in LockedOps /\ task'[v].op \in LockedOps => u = v
    BY <1>6
  <2>3. ASSUME NEW v \in Workers
        PROVE  /\ task'[v].op \in {"look", "migrate"} => ~docLoaded' /\ ~task'[v].put
               /\ task'[v].op \in LockedOps /\ task'[v].put => ~task'[v].file
               /\ task'[v].op \in {"saveDoc", "insertDoc", "rename"} => docLoaded'
    <3>1. CASE v = w
      BY <1>1, <1>3, <3>1
    <3>2. CASE v # w
      BY <1>5, <1>6, <3>2
    <3>3. QED
      BY <3>1, <3>2
  <2>4. /\ docMem' \in SUBSET Items /\ (docRow' = NoDoc \/ docRow' \in SUBSET Items)
        /\ docLoaded' \in BOOLEAN /\ excused' \in BOOLEAN /\ expected' \in SUBSET Items
    BY <1>1, DocTyped
  <2>5. QED
    BY <1>4, <2>1, <2>2, <2>3, <2>4 DEF DocTasksOK
<1>8. ~Putting
  BY <1>2, <1>5 DEF Putting
<1>9. ~excused => DocOnDisk' = expected
  <2>1. DocOnDisk' = DocOnDisk
    BY <1>1, SameOnDisk
  <2> HIDE DEF DocOnDisk
  <2>2. QED
    BY <1>8, <2>1, DocSettled
<1>10. \A v \in Workers : task'[v].op = "merge" => ~task'[v].fresh
  BY <1>3
<1>11. ~excused /\ task'[w].adds # {} /\ task'[w].fresh => docMem' = expected \union task'[w].adds
  <2>1. ~excused /\ task[w].op = "merge" /\ task[w].fresh => task[w].value = expected
    BY DEF DocumentsInv, MergesInv
  <2>2. QED
    BY <1>1, <1>3, <2>1
<1>12. DocInv' /\ MergesInv'
  <2>1. ~excused' =>
           /\ task'[w].op # "insertDoc" => DocOnDisk' = expected'
           /\ task'[w].op \notin {"saveDoc", "insertDoc"} /\ docLoaded' => docMem' = docRow'
           /\ task'[w].op = "migrate" => docRow' = NoDoc
           /\ task'[w].op \in {"saveDoc", "insertDoc"} /\ ~task'[w].put => docMem' = expected' /\ docRow' = NoDoc
           /\ \A v \in Workers : task'[v].op = "merge" /\ task'[v].fresh => task'[v].value = expected'
           /\ task'[w].op \in {"saveDoc", "insertDoc"} /\ task'[w].put /\ task'[w].adds # {} /\ task'[w].fresh
                => docMem' = expected' \union task'[w].adds
    BY <1>1, <1>3, <1>9, <1>10, <1>11
  <2> HIDE DEF DocOnDisk
  <2>2. QED
    BY <1>6, <1>10, <2>1, DocValuesGoOn
<1>13. ASSUME NEW v \in Workers
       PROVE  /\ "op" \in DOMAIN task'[v]
              /\ task'[v].op = "batch" => "tokens" \in Stored'
              /\ task'[v].op = "sync" => "channels" \in Stored'
              /\ task'[v] = task[v] \/ ((task[v] = Idle \/ task[v].op \in DocOps) /\ task'[v].op \in DocOps)
  <2>1. CASE task'[v] = task[v]
    BY <1>1, <2>1 DEF TasksOK, Stored
  <2>2. CASE task'[v] \in DocTask /\ task'[v].op \in {"merge", "saveDoc"} /\ (task[v] = Idle \/ task[v].op \in DocOps)
    <3>1. "op" \in DOMAIN task'[v] /\ task'[v].op \in DocOps
      BY <1>5, <2>2 DEF DocTask
    <3>2. task'[v].op # "batch" /\ task'[v].op # "sync"
      BY <3>1, DocOpsApart
    <3>3. QED
      BY <2>2, <3>1, <3>2
  <2>3. QED
    BY <1>3, <1>5, <2>1, <2>2
<1>14. TasksOK' /\ Leaves(LogOps) /\ Leaves(SettingsOps)
  <2>1. TasksOK'
    BY <1>3, <1>13 DEF TasksOK
  <2>2. ASSUME NEW v \in Workers
        PROVE  /\ task'[v] = task[v] \/ (task[v].op \notin LogOps /\ task'[v].op \notin LogOps)
               /\ task'[v] = task[v] \/ (task[v].op \notin SettingsOps /\ task'[v].op \notin SettingsOps)
    BY <1>13, IdleNoDoc, DocOpsApart
  <2>3. QED
    BY <2>1, <2>2 DEF Leaves
<1>15. QED
  BY <1>7, <1>12, <1>14 DEF DocGoesOn, DocumentsInv

\* The requests that change a document.
LEMMA PutStep ==
  ASSUME DocumentsInv, TasksOK, NEW w \in Workers, SiteOrModelsPut(w) \/ ModelsMerge(w)
  PROVE  DocGoesOn
<1>1. CASE SiteOrModelsPut(w)
  <2>1. phase = "up" /\ IsDocument /\ task[w] = Idle
    BY <1>1 DEF SiteOrModelsPut
  <2>2. PICK value \in SUBSET Items : PutDoc(w, {}, value)
    BY <1>1 DEF SiteOrModelsPut
  <2>3. {} \in SUBSET Items
    OBVIOUS
  <2>4. QED
    BY <2>1, <2>2, <2>3, PutDocStep
<1>2. CASE ModelsMerge(w)
  <2>1. task[w].op = "merge" /\ "merge" \in DocOps
    BY <1>2 DEF ModelsMerge, Do, DocOps
  <2>2. IsDocument /\ phase = "up" /\ task[w] \in DocTask
    BY <2>1 DEF DocumentsInv, DocTasksOK
  <2> DEFINE adds == task[w].adds
             value == task[w].value \union adds
  <2>3. adds \in SUBSET Items /\ value \in SUBSET Items
    BY <2>2 DEF DocTask
  <2>4. PutDoc(w, adds, value)
    BY <1>2 DEF ModelsMerge
  <2>5. adds = task[w].adds /\ value = task[w].value \union adds
    OBVIOUS
  <2> HIDE DEF adds, value
  <2>6. QED
    BY <2>1, <2>2, <2>3, <2>4, <2>5, PutDocStep
<1>3. QED
  BY <1>1, <1>2

\* The steps of a document.
LEMMA DocumentSteps ==
  ASSUME Typing, DocumentsInv, TasksOK, NEW w \in Workers,
         \/ GetSite(w) \/ GetModelPrices(w) \/ ModelsImport(w) \/ SiteOrModelsPut(w) \/ ModelsMerge(w)
         \/ Look(w) \/ Migrate(w) \/ SaveDoc(w) \/ InsertDoc(w) \/ RenameDoc(w)
  PROVE  DocGoesOn
<1>1. CASE GetSite(w) \/ GetModelPrices(w) \/ ModelsImport(w)
  BY <1>1, GetSiteStep
<1>2. CASE SiteOrModelsPut(w) \/ ModelsMerge(w)
  BY <1>2, PutStep
<1>3. CASE Look(w)
  BY <1>3, LookStep
<1>4. CASE Migrate(w)
  BY <1>4, MigrateStep
<1>5. CASE SaveDoc(w) \/ InsertDoc(w)
  BY <1>5, SaveDocStep
<1>6. CASE RenameDoc(w)
  BY <1>6, RenameDocStep
<1>7. QED
  BY <1>1, <1>2, <1>3, <1>4, <1>5, <1>6

-------------------------------------------------------------------------------
(* Journals: the steps                                                     *)

\* The journal as a step leaves it, with all else that goroutines are at.
LogGoesOn == LogTasksOK' /\ JournalInv' /\ TasksOK' /\ Leaves(DocOps) /\ Leaves(SettingsOps)

\* A goroutine becomes x, for a journal: the others, and all that is not of journals, stay.
LEMMA LogBecomes ==
  ASSUME TasksOK, NEW w \in Workers, NEW x, Become(w, x), "op" \in DOMAIN x, x = Idle \/ x.op \in LogOps,
         deployment' = deployment, task[w] = Idle \/ task[w].op \in LogOps
  PROVE  /\ task'[w] = x /\ \A v \in Workers \ {w} : task'[v] = task[v]
         /\ TasksOK' /\ Leaves(DocOps) /\ Leaves(SettingsOps)
<1>1. task' = [task EXCEPT ![w] = x]
  BY DEF Become
<1>2. \A o \in LogOps : o \notin DocOps /\ o \notin SettingsOps /\ o # "batch" /\ o # "sync"
  BY DEF LogOps, DocOps, LockedOps, SettingsOps
<1>3. /\ task[w].op \notin DocOps /\ task[w].op \notin SettingsOps
      /\ x.op \notin DocOps /\ x.op \notin SettingsOps /\ x.op # "batch" /\ x.op # "sync"
  BY <1>2, IdleNoDoc
<1>4. TasksOK' /\ Leaves(DocOps) /\ Leaves(SettingsOps)
  BY <1>1, <1>3, TaskOther
<1>5. QED
  BY <1>1, <1>4, TaskBecomes

\* One goroutine goes on, the only one at the journal if it holds it.
LEMMA LogTasksGoOn ==
  ASSUME LogTasksOK, IsJournal, phase = "up", phase' = phase, deployment' = deployment,
         NEW w \in Workers, \A v \in Workers \ {w} : task'[v] = task[v],
         task'[w].op \in HeldOps => \A v \in Workers \ {w} : task[v].op \notin HeldOps,
         journal' \in Seq(Nat), Range(journal') \union written' \union cleared' \subseteq 1 .. stamp',
         once' \in BOOLEAN
  PROVE  LogTasksOK'
<1>1. IsJournal' /\ phase' = "up"
  BY SameKind
<1>2. ASSUME NEW u \in Workers, NEW v \in Workers, task'[u].op \in HeldOps, task'[v].op \in HeldOps
      PROVE  u = v
  <2>1. CASE u = w \/ v = w
    BY <1>2, <2>1
  <2>2. CASE u # w /\ v # w
    <3>1. task'[u] = task[u] /\ task'[v] = task[v]
      BY <2>2
    <3>2. QED
      BY <1>2, <3>1 DEF LogTasksOK
  <2>3. QED
    BY <2>1, <2>2
<1>3. QED
  BY <1>1, <1>2 DEF LogTasksOK

\* Who is at a journal.
LEMMA AtJournal ==
  ASSUME LogTasksOK, NEW w \in Workers, task[w].op \in LogOps
  PROVE  /\ IsJournal /\ phase = "up"
         /\ task[w].op \in HeldOps => \A v \in Workers \ {w} : task[v].op \notin HeldOps
         /\ task[w].op \in HeldOps => \A v \in Workers \ {w} : task[v].op # "import"
BY DEF LogTasksOK, HeldOps

\* Nobody is at the journal.
LEMMA JournalFree ==
  ASSUME ~JournalLocked
  PROVE  \A v \in Workers : task[v].op \notin HeldOps /\ task[v].op # "import"
BY DEF JournalLocked, HeldOps

\* Nobody begins or goes on with an import.
LEMMA NoImportChanges ==
  ASSUME NEW w \in Workers, \A v \in Workers \ {w} : task'[v] = task[v],
         task[w].op # "import", task'[w].op # "import"
  PROVE  Leaves({"import"})
BY DEF Leaves

\* The journal, as the invariants have it.
LEMMA LogTyped ==
  ASSUME LogTasksOK
  PROVE  /\ journal \in Seq(Nat) /\ Range(journal) \union written \union cleared \subseteq 1 .. stamp
         /\ once \in BOOLEAN
BY DEF LogTasksOK

\* A request comes to a journal, the first one to run the Once.
LEMMA JournalStartStep ==
  ASSUME LogTasksOK, JournalInv, TasksOK, NEW w \in Workers, NEW then, JournalStart(w, then)
  PROVE  LogGoesOn
<1>1. /\ phase = "up" /\ phase' = phase /\ IsJournal /\ task[w] = Idle /\ ~JournalLocked
      /\ deployment' = deployment /\ UNCHANGED logVars /\ excused' = excused /\ file' = file
      /\ halfway' = halfway /\ stamp' = stamp
  BY DEF JournalStart, journalRest, rest, docVars
<1> DEFINE x == [op |-> IF once THEN "append" ELSE "count", then |-> then]
<1>2. Become(w, x)
  BY DEF JournalStart
<1>3. "op" \in DOMAIN x /\ x.op \in {"append", "count"}
  OBVIOUS
<1> HIDE DEF x
<1>4. x.op \in LogOps /\ x.op # "import" /\ Idle.op # "import"
  BY <1>3 DEF LogOps, Idle
<1>5. /\ task'[w] = x /\ \A v \in Workers \ {w} : task'[v] = task[v]
      /\ TasksOK' /\ Leaves(DocOps) /\ Leaves(SettingsOps)
  BY <1>1, <1>2, <1>3, <1>4, LogBecomes
<1>6. Leaves({"import"})
  BY <1>1, <1>4, <1>5, NoImportChanges
<1>7. journal' = journal /\ written' = written /\ cleared' = cleared /\ once' = once
  BY <1>1 DEF logVars
<1>8. LogTasksOK'
  BY <1>1, <1>5, <1>7, LogTyped, JournalFree, LogTasksGoOn
<1>9. JournalInv'
  BY <1>1, <1>6, <1>7, LogValuesFrame
<1>10. QED
  BY <1>5, <1>8, <1>9 DEF LogGoesOn

\* After the Once: a list has been asked for, or an entry is written.
LEMMA AfterOnceIs ==
  ASSUME TasksOK, NEW w \in Workers, AfterOnce(w)
  PROVE  \E x : Become(w, x) /\ "op" \in DOMAIN x /\ (x = Idle \/ x.op = "append")
<1>1. CASE task[w].then = "load"
  <2>1. Become(w, Idle)
    BY <1>1 DEF AfterOnce
  <2>2. QED
    BY <2>1, IdleNoDoc
<1>2. CASE task[w].then # "load"
  <2> DEFINE x == [task[w] EXCEPT !.op = "append"]
  <2>1. Become(w, x)
    BY <1>2 DEF AfterOnce
  <2>2. "op" \in DOMAIN task[w]
    BY DEF TasksOK
  <2>3. "op" \in DOMAIN x /\ x.op = "append"
    BY <2>2
  <2> HIDE DEF x
  <2>4. QED
    BY <2>1, <2>3
<1>3. QED
  BY <1>1, <1>2

\* The Once has run, or there is a file to import into a journal that is empty.
LEMMA CountRowsStep ==
  ASSUME Typing, LogTasksOK, JournalInv, TasksOK, NEW w \in Workers, CountRows(w)
  PROVE  LogGoesOn
<1>1. /\ task[w].op = "count" /\ phase' = phase /\ deployment' = deployment
      /\ excused' = excused /\ file' = file /\ halfway' = halfway /\ stamp' = stamp
      /\ journal' = journal /\ written' = written /\ cleared' = cleared
  BY DEF CountRows, Do, journalRest, rest, docVars
<1>2. task[w].op \in LogOps /\ task[w].op \in HeldOps /\ task[w].op # "import"
  BY <1>1 DEF LogOps, HeldOps
<1>3. /\ IsJournal /\ phase = "up" /\ \A v \in Workers \ {w} : task[v].op \notin HeldOps
      /\ \A v \in Workers \ {w} : task[v].op # "import"
  BY <1>2, AtJournal
<1>4. once' \in BOOLEAN
  BY LogTyped DEF CountRows
<1>5. ASSUME AfterOnce(w) PROVE LogGoesOn
  <2>1. PICK x : Become(w, x) /\ "op" \in DOMAIN x /\ (x = Idle \/ x.op = "append")
    BY <1>5, AfterOnceIs
  <2>2. (x = Idle \/ x.op \in LogOps) /\ x.op # "import"
    BY <2>1 DEF Idle, LogOps
  <2>3. /\ task'[w] = x /\ \A v \in Workers \ {w} : task'[v] = task[v]
        /\ TasksOK' /\ Leaves(DocOps) /\ Leaves(SettingsOps)
    BY <1>1, <1>2, <2>1, <2>2, LogBecomes
  <2>4. Leaves({"import"})
    BY <1>2, <2>2, <2>3, NoImportChanges
  <2>5. LogTasksOK'
    BY <1>1, <1>3, <1>4, <2>3, LogTyped, LogTasksGoOn
  <2>6. /\ IsJournal => file'[Kind] = file[Kind]
        /\ halfway \subseteq halfway'
        /\ UNCHANGED <<deployment, journal, written, cleared, excused>>
    BY <1>1
  <2>7. JournalInv'
    BY <2>4, <2>6, LogValuesFrame
  <2>8. QED
    BY <2>3, <2>5, <2>7 DEF LogGoesOn
<1>6. ASSUME journal = <<>>, Old.at = "json",
             Become(w, [op |-> "import", then |-> task[w].then, left |-> Old.rows])
      PROVE  LogGoesOn
  <2> DEFINE x == [op |-> "import", then |-> task[w].then, left |-> Old.rows]
  <2>1. Become(w, x)
    BY <1>6
  <2>2. "op" \in DOMAIN x /\ x.op = "import" /\ "left" \in DOMAIN x /\ x.left = Old.rows
    OBVIOUS
  <2> HIDE DEF x
  <2>3. x.op \in LogOps
    BY <2>2 DEF LogOps
  <2>4. /\ task'[w] = x /\ \A v \in Workers \ {w} : task'[v] = task[v]
        /\ TasksOK' /\ Leaves(DocOps) /\ Leaves(SettingsOps)
    BY <1>1, <1>2, <2>1, <2>2, <2>3, LogBecomes
  <2>5. LogTasksOK'
    BY <1>1, <1>3, <1>4, <2>4, LogTyped, LogTasksGoOn
  <2>6. Kind' = Kind /\ Old' = Old
    BY <1>1, SameKind DEF Old
  <2>7. Old.rows \in Seq(1 .. Found) /\ Ascending(Old.rows)
    BY <1>3, <1>6, KindApart
  <2>8. ImportOK'
    <3>1. \A v \in Workers : task'[v].op = "import" => v = w
      BY <1>3, <2>4
    <3>2. Range(journal') = {}
      BY <1>1, <1>6, RangeOfNone
    <3>3. QED
      BY <1>6, <2>2, <2>4, <2>6, <2>7, <3>1, <3>2 DEF ImportOK
  <2>9. OldOK /\ JournalKept
    BY <1>3 DEF JournalInv
  <2>10. OldOK'
    BY <1>1, <2>2, <2>4, <2>6, <2>9 DEF OldOK
  <2>11. JournalKept'
    BY <1>1, <1>3, <2>6, <2>9 DEF JournalKept
  <2>12. JournalInv'
    BY <2>8, <2>10, <2>11 DEF JournalInv
  <2>13. QED
    BY <2>4, <2>5, <2>12 DEF LogGoesOn
<1>7. QED
  BY <1>5, <1>6 DEF CountRows

\* What is behind the first.
LEMMA Behind ==
  ASSUME NEW S \in SUBSET Nat, NEW s \in Seq(S), s # <<>>
  PROVE  /\ Head(s) \in Range(s) /\ Head(s) \in S /\ Tail(s) \in Seq(S) /\ Range(Tail(s)) \subseteq Range(s)
         /\ Ascending(s) => Ascending(Tail(s)) /\ \A j \in Range(Tail(s)) : Head(s) < j
<1> DEFINE t == Tail(s)
<1>1. /\ t \in Seq(S) /\ DOMAIN s = 1 .. Len(s) /\ DOMAIN t = 1 .. Len(s) - 1 /\ Len(s) \in Nat /\ Len(s) >= 1
      /\ \A i \in DOMAIN t : i \in Nat /\ i + 1 \in DOMAIN s /\ t[i] = s[i + 1]
  OBVIOUS
<1>2. Head(s) = s[1] /\ 1 \in DOMAIN s
  BY <1>1
<1> HIDE DEF t
<1>3. Head(s) \in Range(s) /\ Head(s) \in S
  BY <1>2, RangeOf
<1>4. Range(t) \subseteq Range(s)
  BY <1>1 DEF Range
<1>5. ASSUME Ascending(s) PROVE Ascending(t) /\ \A j \in Range(t) : Head(s) < j
  <2>1. ASSUME NEW i \in DOMAIN t, NEW j \in DOMAIN t, i < j PROVE t[i] < t[j]
    <3>1. i + 1 \in DOMAIN s /\ j + 1 \in DOMAIN s /\ i + 1 < j + 1 /\ t[i] = s[i + 1] /\ t[j] = s[j + 1]
      BY <1>1, <2>1
    <3>2. QED
      BY <1>5, <3>1 DEF Ascending
  <2>2. ASSUME NEW j \in Range(t) PROVE Head(s) < j
    <3>1. PICK i \in DOMAIN t : t[i] = j
      BY <2>2 DEF Range
    <3>2. i + 1 \in DOMAIN s /\ 1 < i + 1 /\ j = s[i + 1]
      BY <1>1, <3>1
    <3>3. QED
      BY <1>2, <1>5, <3>2 DEF Ascending
  <2>3. QED
    BY <2>1, <2>2 DEF Ascending
<1>6. QED
  BY <1>1, <1>3, <1>4, <1>5 DEF t

\* One more, greater than all before.
LEMMA AscendingOn ==
  ASSUME NEW s \in Seq(Nat), Ascending(s), NEW n \in Nat, \A i \in Range(s) : i < n
  PROVE  Append(s, n) \in Seq(Nat) /\ Ascending(Append(s, n)) /\ Range(Append(s, n)) = Range(s) \union {n}
<1> DEFINE t == Append(s, n)
<1>1. /\ t \in Seq(Nat) /\ Range(t) = Range(s) \union {n} /\ DOMAIN t = 1 .. Len(s) + 1
      /\ (\A i \in 1 .. Len(s) : t[i] = s[i]) /\ t[Len(s) + 1] = n
  BY Appended
<1>2. Len(s) \in Nat /\ DOMAIN s = 1 .. Len(s) /\ \A i \in DOMAIN s : s[i] \in Range(s)
  BY RangeOf
<1> HIDE DEF t
<1>3. ASSUME NEW i \in DOMAIN t, NEW j \in DOMAIN t, i < j PROVE t[i] < t[j]
  <2>1. i \in 1 .. Len(s) /\ t[i] = s[i]
    BY <1>1, <1>2, <1>3
  <2>2. CASE j \in 1 .. Len(s)
    BY <1>1, <1>2, <1>3, <2>1, <2>2 DEF Ascending
  <2>3. CASE j = Len(s) + 1
    BY <1>1, <1>2, <2>1, <2>3
  <2>4. QED
    BY <1>1, <1>2, <2>2, <2>3
<1>4. QED
  BY <1>1, <1>3 DEF Ascending, t

\* An entry of the file, or none when it cannot be inserted.
LEMMA ImportEntryStep ==
  ASSUME Typing, LogTasksOK, JournalInv, TasksOK, NEW w \in Workers, ImportEntry(w)
  PROVE  LogGoesOn
<1>1. /\ task[w].op = "import" /\ phase' = phase /\ deployment' = deployment
      /\ excused' = excused /\ file' = file /\ halfway' = halfway /\ stamp' = stamp
      /\ once' = once /\ cleared' = cleared /\ task[w].left # <<>>
  BY DEF ImportEntry, Do, journalRest, rest, docVars
<1>2. task[w].op \in LogOps /\ task[w].op \in HeldOps
  BY <1>1 DEF LogOps, HeldOps
<1>3. /\ IsJournal /\ phase = "up" /\ \A v \in Workers \ {w} : task[v].op \notin HeldOps
      /\ \A v \in Workers \ {w} : task[v].op # "import"
  BY <1>2, AtJournal
<1>4. ImportOK /\ OldOK /\ JournalKept /\ Kind' = Kind /\ Old' = Old /\ IsJournal'
  BY <1>1, <1>3, SameKind DEF JournalInv, Old
<1> DEFINE l == task[w].left
<1>5. /\ "left" \in DOMAIN task[w] /\ l \in Seq(1 .. Found) /\ Ascending(l)
      /\ \A i \in Range(journal), j \in Range(l) : i < j
      /\ Range(l) \subseteq Range(Old.rows) /\ Old.at = "json" /\ l # <<>>
  BY <1>1, <1>4 DEF ImportOK
<1> DEFINE x == [task[w] EXCEPT !.left = Tail(l)]
<1>6. Become(w, x)
  BY DEF ImportEntry
<1>7. "op" \in DOMAIN task[w]
  BY DEF TasksOK
<1> HIDE DEF l
<1>8. "op" \in DOMAIN x /\ x.op = "import" /\ "left" \in DOMAIN x /\ x.left = Tail(l)
  BY <1>1, <1>5, <1>7
<1> HIDE DEF x
<1>9. /\ task'[w] = x /\ \A v \in Workers \ {w} : task'[v] = task[v]
      /\ TasksOK' /\ Leaves(DocOps) /\ Leaves(SettingsOps)
  <2>1. x.op \in LogOps
    BY <1>8 DEF LogOps
  <2>2. QED
    BY <1>1, <1>2, <1>6, <1>8, <2>1, LogBecomes
<1>10. /\ Head(l) \in Range(l) /\ Head(l) \in 1 .. Found /\ Tail(l) \in Seq(1 .. Found)
       /\ Range(Tail(l)) \subseteq Range(l) /\ Ascending(Tail(l)) /\ \A j \in Range(Tail(l)) : Head(l) < j
  <2>1. 1 .. Found \in SUBSET Nat
    BY BoundAssumption
  <2>2. QED
    BY <1>5, <2>1, Behind
<1>11. Found \in Nat /\ stamp \in Nat /\ Found <= stamp
  BY BoundAssumption DEF Typing, CountersOK
<1>12. /\ journal \in Seq(Nat) /\ Range(journal) \union written \union cleared \subseteq 1 .. stamp
       /\ once \in BOOLEAN
  BY LogTyped
<1>13. /\ journal' \in Seq(Nat) /\ Ascending(journal') /\ Range(journal) \subseteq Range(journal')
       /\ Range(journal') \subseteq Range(journal) \union {Head(l)}
       /\ written' \subseteq written \union {Head(l)} /\ (written' # written => Head(l) \in Range(journal'))
  <2>1. Ascending(journal)
    BY <1>3, <1>4 DEF JournalKept
  <2>2. CASE Insert(Head(l))
    <3>1. journal' = Append(journal, Head(l)) /\ written' = written \union {Head(l)}
      BY <2>2 DEF Insert
    <3>2. Head(l) \in Nat /\ \A i \in Range(journal) : i < Head(l)
      BY <1>5, <1>10
    <3>3. /\ Append(journal, Head(l)) \in Seq(Nat) /\ Ascending(Append(journal, Head(l)))
          /\ Range(Append(journal, Head(l))) = Range(journal) \union {Head(l)}
      BY <1>12, <2>1, <3>2, AscendingOn
    <3>4. QED
      BY <3>1, <3>3
  <2>3. CASE UNCHANGED <<journal, written>>
    BY <1>12, <2>1, <2>3
  <2>4. QED
    BY <2>2, <2>3 DEF ImportEntry, l
<1>14. LogTasksOK'
  <2>1. Head(l) \in 1 .. stamp
    BY <1>10, <1>11
  <2>2. Range(journal') \union written' \union cleared' \subseteq 1 .. stamp' /\ once' \in BOOLEAN
    BY <1>1, <1>12, <1>13, <2>1
  <2>3. QED
    BY <1>1, <1>3, <1>9, <1>13, <2>2, LogTasksGoOn
<1>15. ImportOK'
  <2>1. \A v \in Workers : task'[v].op = "import" => v = w
    BY <1>3, <1>9
  <2>2. \A i \in Range(journal'), j \in Range(Tail(l)) : i < j
    BY <1>5, <1>10, <1>13
  <2>3. QED
    BY <1>4, <1>5, <1>8, <1>9, <1>10, <2>1, <2>2 DEF ImportOK
<1>16. OldOK'
  <2>1. ~(\A v \in Workers : task'[v].op # "import")
    BY <1>8, <1>9
  <2>2. QED
    BY <1>1, <1>4, <2>1 DEF OldOK
<1>17. JournalKept'
  <2>1. ~excused /\ Kind \notin halfway => Head(l) \notin cleared
    BY <1>4, <1>5, <1>10 DEF OldOK
  <2>2. written \subseteq Range(journal) \union cleared
    BY <1>3, <1>4 DEF JournalKept
  <2>3. ~excused /\ Kind \notin halfway => Range(journal) \intersect cleared = {}
    BY <1>3, <1>4 DEF JournalKept
  <2>4. written' \subseteq Range(journal') \union cleared'
    BY <1>1, <1>13, <2>2
  <2>5. ~excused' /\ Kind' \notin halfway' => Range(journal') \intersect cleared' = {}
    BY <1>1, <1>4, <1>13, <2>1, <2>3
  <2>6. QED
    BY <1>13, <2>4, <2>5 DEF JournalKept
<1>18. QED
  BY <1>9, <1>14, <1>15, <1>16, <1>17 DEF LogGoesOn, JournalInv

\* All entries have been imported: the file is renamed, or was halfway imported.
LEMMA RenameJournalStep ==
  ASSUME Typing, LogTasksOK, JournalInv, TasksOK, NEW w \in Workers, RenameJournal(w)
  PROVE  LogGoesOn
<1>1. /\ task[w].op = "import" /\ phase' = phase /\ deployment' = deployment
      /\ excused' = excused /\ stamp' = stamp /\ once' = TRUE
      /\ journal' = journal /\ written' = written /\ cleared' = cleared
      /\ RenameJSONToBak(Kind) /\ AfterOnce(w)
  BY DEF RenameJournal, Do, journalRest, rest, docVars
<1>2. task[w].op \in LogOps /\ task[w].op \in HeldOps
  BY <1>1 DEF LogOps, HeldOps
<1>3. /\ IsJournal /\ phase = "up" /\ \A v \in Workers \ {w} : task[v].op \notin HeldOps
      /\ \A v \in Workers \ {w} : task[v].op # "import"
  BY <1>2, AtJournal
<1>4. PICK x : Become(w, x) /\ "op" \in DOMAIN x /\ (x = Idle \/ x.op = "append")
  BY <1>1, AfterOnceIs
<1>5. (x = Idle \/ x.op \in LogOps) /\ x.op # "import"
  BY <1>4 DEF Idle, LogOps
<1>6. /\ task'[w] = x /\ \A v \in Workers \ {w} : task'[v] = task[v]
      /\ TasksOK' /\ Leaves(DocOps) /\ Leaves(SettingsOps)
  BY <1>1, <1>2, <1>4, <1>5, LogBecomes
<1>7. LogTasksOK'
  BY <1>1, <1>3, <1>6, LogTyped, LogTasksGoOn
<1>8. Kind' = Kind /\ IsJournal' /\ Kind \in DOMAIN file
  BY <1>1, <1>3, SameKind, KindApart
<1>9. halfway \subseteq halfway' /\ (file'[Kind].at # "json" \/ Kind \in halfway')
  BY <1>1, <1>8, Renamed
<1>10. ImportOK'
  BY <1>3, <1>5, <1>6 DEF ImportOK
<1>11. OldOK'
  BY <1>8, <1>9 DEF OldOK, Old
<1>12. JournalKept'
  <2>1. JournalKept
    BY <1>3 DEF JournalInv
  <2>2. QED
    BY <1>1, <1>3, <1>8, <1>9, <2>1 DEF JournalKept
<1>13. QED
  BY <1>6, <1>7, <1>10, <1>11, <1>12 DEF LogGoesOn, JournalInv

\* A new entry has a stamp after all others.
LEMMA InsertEntryStep ==
  ASSUME Typing, LogTasksOK, JournalInv, TasksOK, NEW w \in Workers, InsertEntry(w)
  PROVE  LogGoesOn
<1>1. /\ task[w].op = "append" /\ phase' = phase /\ deployment' = deployment
      /\ excused' = excused /\ file' = file /\ halfway' = halfway /\ stamp' = stamp + 1
      /\ once' = once /\ cleared' = cleared
  BY DEF InsertEntry, Do, journalRest, rest, docVars, Stamp
<1>2. task[w].op \in LogOps /\ task[w].op \in HeldOps /\ task[w].op # "import"
  BY <1>1 DEF LogOps, HeldOps
<1>3. /\ IsJournal /\ phase = "up" /\ \A v \in Workers \ {w} : task[v].op \notin HeldOps
      /\ \A v \in Workers : task[v].op # "import"
  BY <1>2, AtJournal
<1>4. OldOK /\ JournalKept /\ Kind' = Kind /\ Old' = Old /\ IsJournal'
  BY <1>1, <1>3, SameKind DEF JournalInv, Old
<1>5. \E x : Become(w, x) /\ "op" \in DOMAIN x /\ (x = Idle \/ x.op = "clear")
  <2>1. CASE task[w].then = "clear"
    <3> DEFINE x == [task[w] EXCEPT !.op = "clear"]
    <3>1. Become(w, x)
      BY <2>1 DEF InsertEntry
    <3>2. "op" \in DOMAIN task[w]
      BY DEF TasksOK
    <3>3. "op" \in DOMAIN x /\ x.op = "clear"
      BY <3>2
    <3> HIDE DEF x
    <3>4. QED
      BY <3>1, <3>3
  <2>2. CASE task[w].then # "clear"
    <3>1. Become(w, Idle)
      BY <2>2 DEF InsertEntry
    <3>2. QED
      BY <3>1, IdleNoDoc
  <2>3. QED
    BY <2>1, <2>2
<1>6. PICK x : Become(w, x) /\ "op" \in DOMAIN x /\ (x = Idle \/ x.op = "clear")
  BY <1>5
<1>7. (x = Idle \/ x.op \in LogOps) /\ x.op # "import" /\ x.op \notin HeldOps
  BY <1>6 DEF Idle, LogOps, HeldOps
<1>8. /\ task'[w] = x /\ \A v \in Workers \ {w} : task'[v] = task[v]
      /\ TasksOK' /\ Leaves(DocOps) /\ Leaves(SettingsOps)
  BY <1>1, <1>2, <1>6, <1>7, LogBecomes
<1>9. Found \in Nat /\ stamp \in Nat /\ Found <= stamp
  BY BoundAssumption DEF Typing, CountersOK
<1>10. /\ journal \in Seq(Nat) /\ Range(journal) \union written \union cleared \subseteq 1 .. stamp
       /\ once \in BOOLEAN
  BY LogTyped
<1>11. /\ journal' \in Seq(Nat) /\ Ascending(journal') /\ Range(journal) \subseteq Range(journal')
       /\ Range(journal') \subseteq Range(journal) \union {stamp + 1}
       /\ written' \subseteq written \union {stamp + 1} /\ (written' # written => stamp + 1 \in Range(journal'))
  <2>1. Ascending(journal)
    BY <1>3, <1>4 DEF JournalKept
  <2>2. CASE Insert(Stamp)
    <3>1. journal' = Append(journal, stamp + 1) /\ written' = written \union {stamp + 1}
      BY <2>2 DEF Insert, Stamp
    <3>2. stamp + 1 \in Nat /\ \A i \in Range(journal) : i < stamp + 1
      BY <1>9, <1>10
    <3>3. /\ Append(journal, stamp + 1) \in Seq(Nat) /\ Ascending(Append(journal, stamp + 1))
          /\ Range(Append(journal, stamp + 1)) = Range(journal) \union {stamp + 1}
      BY <1>10, <2>1, <3>2, AscendingOn
    <3>4. QED
      BY <3>1, <3>3
  <2>3. CASE UNCHANGED <<journal, written>>
    BY <1>10, <2>1, <2>3
  <2>4. QED
    BY <2>2, <2>3 DEF InsertEntry
<1>12. stamp + 1 \notin cleared /\ stamp + 1 \in 1 .. stamp + 1 /\ 1 .. stamp \subseteq 1 .. stamp + 1
  BY <1>9, <1>10
<1>13. LogTasksOK'
  <2>1. Range(journal') \union written' \union cleared' \subseteq 1 .. stamp' /\ once' \in BOOLEAN
    BY <1>1, <1>10, <1>11, <1>12
  <2>2. QED
    BY <1>1, <1>3, <1>7, <1>8, <1>11, <2>1, LogTasksGoOn
<1>14. ImportOK'
  BY <1>3, <1>7, <1>8 DEF ImportOK
<1>15. OldOK'
  <2>1. Old.at = "json" => stamp + 1 \notin Range(Old.rows)
    <3>1. ASSUME Old.at = "json" PROVE \A i \in Range(Old.rows) : i \in 1 .. Found
      BY <1>3, <3>1, KindApart, RangeOf
    <3>2. QED
      BY <1>9, <3>1
  <2>2. ~excused /\ Kind \notin halfway /\ Old.at = "json" =>
          Range(Old.rows) \intersect cleared = {} /\ Range(Old.rows) \intersect Range(journal) = {}
    BY <1>3, <1>4 DEF OldOK
  <2>3. QED
    BY <1>1, <1>4, <1>11, <2>1, <2>2 DEF OldOK
<1>16. JournalKept'
  <2>1. /\ written \subseteq Range(journal) \union cleared
        /\ ~excused /\ Kind \notin halfway => Range(journal) \intersect cleared = {}
    BY <1>3, <1>4 DEF JournalKept
  <2>2. written' \subseteq Range(journal') \union cleared'
    BY <1>1, <1>11, <2>1
  <2>3. ~excused' /\ Kind' \notin halfway' => Range(journal') \intersect cleared' = {}
    BY <1>1, <1>4, <1>11, <1>12, <2>1
  <2>4. QED
    BY <1>11, <2>2, <2>3 DEF JournalKept
<1>17. QED
  BY <1>8, <1>13, <1>14, <1>15, <1>16 DEF LogGoesOn, JournalInv

\* All entries are cleared away while nobody imports.
LEMMA ClearEntriesStep ==
  ASSUME Typing, LogTasksOK, JournalInv, TasksOK, NEW w \in Workers, ClearEntries(w)
  PROVE  LogGoesOn
<1>1. /\ task[w].op = "clear" /\ phase' = phase /\ deployment' = deployment
      /\ excused' = excused /\ file' = file /\ halfway' = halfway /\ stamp' = stamp
      /\ once' = once /\ written' = written /\ ~JournalLocked /\ Become(w, Idle)
      /\ (journal' = <<>> /\ cleared' = cleared \union Range(journal))
         \/ (journal' = journal /\ cleared' = cleared)
  BY DEF ClearEntries, Do, journalRest, rest, docVars
<1>2. task[w].op \in LogOps
  BY <1>1 DEF LogOps
<1>3. IsJournal /\ phase = "up" /\ \A v \in Workers : task[v].op # "import"
  BY <1>1, <1>2, AtJournal, JournalFree
<1>4. OldOK /\ JournalKept /\ Kind' = Kind /\ Old' = Old /\ IsJournal'
  BY <1>1, <1>3, SameKind DEF JournalInv, Old
<1>5. "op" \in DOMAIN Idle /\ Idle.op # "import" /\ Idle.op \notin HeldOps
  BY DEF Idle, HeldOps
<1>6. /\ task'[w] = Idle /\ \A v \in Workers \ {w} : task'[v] = task[v]
      /\ TasksOK' /\ Leaves(DocOps) /\ Leaves(SettingsOps)
  BY <1>1, <1>2, <1>5, LogBecomes
<1>7. /\ journal \in Seq(Nat) /\ Range(journal) \union written \union cleared \subseteq 1 .. stamp
      /\ once \in BOOLEAN
  BY LogTyped
<1>8. Range(<<>>) = {} /\ <<>> \in Seq(Nat) /\ Ascending(<<>>)
  BY RangeOfNone DEF Ascending
<1>9. LogTasksOK'
  <2>1. Range(journal') \union written' \union cleared' \subseteq 1 .. stamp' /\ once' \in BOOLEAN
        /\ journal' \in Seq(Nat)
    BY <1>1, <1>7, <1>8
  <2>2. QED
    BY <1>1, <1>3, <1>5, <1>6, <2>1, LogTasksGoOn
<1>10. ImportOK'
  BY <1>3, <1>5, <1>6 DEF ImportOK
<1>11. OldOK'
  <2>1. ~excused /\ Kind \notin halfway /\ Old.at = "json" =>
          Range(Old.rows) \intersect cleared = {} /\ Range(Old.rows) \intersect Range(journal) = {}
    BY <1>3, <1>4 DEF OldOK
  <2>2. QED
    BY <1>1, <1>4, <1>8, <2>1 DEF OldOK
<1>12. JournalKept'
  <2>1. /\ Ascending(journal) /\ written \subseteq Range(journal) \union cleared
        /\ ~excused /\ Kind \notin halfway => Range(journal) \intersect cleared = {}
    BY <1>3, <1>4 DEF JournalKept
  <2>2. CASE journal' = <<>> /\ cleared' = cleared \union Range(journal)
    BY <1>1, <1>8, <2>1, <2>2 DEF JournalKept
  <2>3. CASE journal' = journal /\ cleared' = cleared
    BY <1>1, <1>4, <2>1, <2>3 DEF JournalKept
  <2>4. QED
    BY <1>1, <2>2, <2>3
<1>13. QED
  BY <1>6, <1>9, <1>10, <1>11, <1>12 DEF LogGoesOn, JournalInv

\* The steps of a journal.
LEMMA JournalSteps ==
  ASSUME Typing, LogTasksOK, JournalInv, TasksOK, NEW w \in Workers,
         \/ AppendEntry(w) \/ LoadEntries(w) \/ AuditClear(w) \/ CountRows(w) \/ ImportEntry(w)
         \/ RenameJournal(w) \/ InsertEntry(w) \/ ClearEntries(w)
  PROVE  LogGoesOn
<1>1. CASE AppendEntry(w) \/ LoadEntries(w) \/ AuditClear(w)
  BY <1>1, JournalStartStep DEF AppendEntry, LoadEntries, AuditClear
<1>2. CASE CountRows(w)
  BY <1>2, CountRowsStep
<1>3. CASE ImportEntry(w)
  BY <1>3, ImportEntryStep
<1>4. CASE RenameJournal(w)
  BY <1>4, RenameJournalStep
<1>5. CASE InsertEntry(w)
  BY <1>5, InsertEntryStep
<1>6. CASE ClearEntries(w)
  BY <1>6, ClearEntriesStep
<1>7. QED
  BY <1>1, <1>2, <1>3, <1>4, <1>5, <1>6

-------------------------------------------------------------------------------
(* The process                                                             *)

\* The inductive invariant.
ProcessInv ==
  /\ Typing /\ RowsInv /\ SavableInv
  /\ SettingsInv /\ TasksOK
  /\ DocumentsInv /\ LogTasksOK /\ JournalInv

\* The edits: goroutines, settings and files stay.
LEMMA EditLeaves ==
  ASSUME Typing, Edit
  PROVE  Frame /\ task' = task /\ stamp \in Nat /\ stamp' \in Nat /\ stamp <= stamp'
<1>1. Frame /\ task' = task
  BY DEF Edit, InsertRoute, UpdateRoute, DeleteRoute, InsertChannel, UpdateChannel, DeleteChannel,
         CreateUser, UpdateUser, DeleteUser, AddUserUsed, CreateToken, UpdateToken, DeleteToken, UseToken,
         CreateRedemptions, Redeem, Update, DeleteRow, Charge
<1>2. stamp \in Nat
  BY BoundAssumption DEF Typing, CountersOK
<1>3. stamp' = stamp + 1 \/ \E count \in 1 .. 2 : stamp' = stamp + count
  BY DEF Edit, InsertRoute, UpdateRoute, DeleteRoute, InsertChannel, UpdateChannel, DeleteChannel,
         CreateUser, UpdateUser, DeleteUser, AddUserUsed, CreateToken, UpdateToken, DeleteToken, UseToken,
         CreateRedemptions, Redeem, Update, DeleteRow, Charge, Append1, InsertToken, Replace, Stamp
<1>4. QED
  BY <1>1, <1>2, <1>3

\* The goroutines of Store: files stay, and a batch or a synchronisation leaves the settings alone.
LEMMA StepLeaves ==
  ASSUME Typing, NEW w \in Workers, Step(w)
  PROVE  /\ UNCHANGED <<deployment, phase, boot, importing, file, halfway>>
         /\ BatchStart(w) \/ BatchInsert(w) \/ SyncStart(w) \/ SyncWrite(w) =>
              UNCHANGED <<setting, row, latest, settingsCut>>
         /\ stamp \in Nat /\ stamp' \in Nat /\ stamp <= stamp'
<1>1. stamp \in Nat
  BY BoundAssumption DEF Typing, CountersOK
<1>2. CASE BatchStart(w) \/ BatchInsert(w) \/ SyncStart(w) \/ SyncWrite(w)
  <2>1. Frame
    BY <1>2 DEF BatchStart, BatchInsert, SyncStart, SyncWrite
  <2>2. stamp' = stamp \/ stamp' = stamp + 1
    BY <1>2 DEF BatchStart, BatchInsert, SyncStart, SyncWrite, PutChannel, Replace, Stamp
  <2>3. QED
    BY <1>1, <2>1, <2>2 DEF Frame
<1>3. CASE UpdateSetting(w) \/ DeleteSettings(w) \/ InsertSettings(w)
  <2>1. /\ UNCHANGED <<deployment, phase, boot, importing, file, halfway>>
        /\ stamp' = stamp \/ stamp' = stamp + 1
    BY <1>3 DEF UpdateSetting, DeleteSettings, InsertSettings, Stamp
  <2>2. ~(BatchStart(w) \/ BatchInsert(w) \/ SyncStart(w) \/ SyncWrite(w)) \/ UNCHANGED <<setting, row, latest, settingsCut>>
    BY DEF BatchStart, BatchInsert, SyncStart, SyncWrite, Frame
  <2>3. QED
    BY <1>1, <2>1, <2>2
<1>4. QED
  BY <1>2, <1>3 DEF Step

\* A start of one store: goroutines stay, and of the files only its own may be renamed.
LEMMA StartLeaves ==
  ASSUME Typing, Start
  PROVE  /\ phase = "boot" /\ deployment' = deployment /\ task' = task /\ halfway \subseteq halfway'
         /\ \A u \in DOMAIN file \ (Tables \union {"settings"}) : file'[u] = file[u]
         /\ \/ LoadSettings \/ DefaultSettings \/ RenameSettings
            \/ UNCHANGED <<setting, row, latest, settingsCut>> /\ ("settings" \in boot => "settings" \in boot')
         /\ stamp \in Nat /\ stamp' \in Nat /\ stamp <= stamp'
<1>1. stamp \in Nat
  BY BoundAssumption DEF Typing, CountersOK
<1>2. ASSUME NEW t \in Tables \union {"settings"}, RenameJSONToBak(t), t \in boot, deployment' = deployment
      PROVE  halfway \subseteq halfway' /\ \A u \in DOMAIN file \ (Tables \union {"settings"}) : file'[u] = file[u]
  <2>1. t \in DOMAIN file
    <3>1. deployment.tables \subseteq DOMAIN deployment.files
      BY DeploymentAssumption DEF Typing, ProcessOK
    <3>2. DOMAIN file = DOMAIN deployment.files /\ boot \subseteq deployment.tables
      BY DEF Typing, ProcessOK, FilesOK
    <3>3. QED
      BY <1>2, <3>1, <3>2
  <2>2. QED
    BY <1>2, <2>1, Renamed
<1>3. ASSUME NEW t \in Tables, LoadTable(t) \/ MigrateTable(t) \/ RenameTable(t) \/ StartEmpty(t)
      PROVE  /\ phase = "boot" /\ deployment' = deployment /\ task' = task /\ halfway \subseteq halfway'
             /\ \A u \in DOMAIN file \ (Tables \union {"settings"}) : file'[u] = file[u]
             /\ UNCHANGED <<setting, row, latest, settingsCut>> /\ ("settings" \in boot => "settings" \in boot')
             /\ stamp' = stamp \/ stamp' = stamp + 1
  <2>1. t # "settings"
    BY DEF Tables
  <2>2. /\ phase = "boot" /\ deployment' = deployment /\ task' = task
        /\ UNCHANGED <<setting, row, latest, settingsCut>> /\ t \in boot
    BY <1>3 DEF LoadTable, MigrateTable, RenameTable, StartEmpty, Loading, Starting, First
  <2>3. boot' = boot \/ boot' = boot \ {t}
    BY <1>3 DEF LoadTable, MigrateTable, RenameTable, StartEmpty, Loaded, Done, NotYetLoaded
  <2>4. stamp' = stamp \/ stamp' = stamp + 1
    BY <1>3 DEF LoadTable, MigrateTable, RenameTable, StartEmpty, counters, Append1, Stamp
  <2>5. (file' = file /\ halfway' = halfway) \/ RenameJSONToBak(t)
    BY <1>3 DEF LoadTable, MigrateTable, RenameTable, StartEmpty
  <2>6. QED
    BY <1>2, <2>1, <2>2, <2>3, <2>4, <2>5
<1>4. ASSUME LoadSettings \/ DefaultSettings \/ RenameSettings
      PROVE  /\ phase = "boot" /\ deployment' = deployment /\ task' = task /\ halfway \subseteq halfway'
             /\ \A u \in DOMAIN file \ (Tables \union {"settings"}) : file'[u] = file[u]
             /\ stamp' = stamp
  <2>1. phase = "boot" /\ deployment' = deployment /\ task' = task /\ stamp' = stamp /\ "settings" \in boot
    BY <1>4 DEF LoadSettings, DefaultSettings, RenameSettings, Loading, Starting, First, counters
  <2>2. (file' = file /\ halfway' = halfway) \/ RenameJSONToBak("settings")
    BY <1>4 DEF LoadSettings, DefaultSettings, RenameSettings
  <2>3. QED
    BY <1>2, <2>1, <2>2
<1>5. QED
  BY <1>1, <1>3, <1>4 DEF Start

\* The steps of Store leave documents and journals alone.
LEMMA StoreStep ==
  ASSUME ProcessInv, Edit \/ Start \/ \E w \in Workers : Step(w), UNCHANGED <<docVars, logVars>>
  PROVE  ProcessInv'
<1>1. /\ Typing /\ RowsInv /\ SavableInv /\ SettingsInv /\ TasksOK /\ DocumentsInv /\ LogTasksOK /\ JournalInv
  BY DEF ProcessInv
<1>2. IsDocument \/ IsJournal => Kind \in DOMAIN file \ (Tables \union {"settings"})
  BY <1>1, KindApart
<1>3. CASE Edit
  <2>1. Typing' /\ RowsInv' /\ SavableInv'
    BY <1>1, <1>3, EditStep
  <2>2. Frame /\ task' = task /\ stamp \in Nat /\ stamp' \in Nat /\ stamp <= stamp'
    BY <1>1, <1>3, EditLeaves
  <2>3. /\ deployment' = deployment /\ phase' = phase /\ boot' = boot /\ file' = file /\ halfway' = halfway
        /\ UNCHANGED <<setting, row, latest, settingsCut>>
    BY <2>2 DEF Frame
  <2>4. \A ops : Leaves(ops)
    BY <2>2 DEF Leaves
  <2>5. TasksOK'
    BY <1>1, <2>2, <2>3 DEF TasksOK, Stored
  <2>6. SettingsInv'
    BY <1>1, <2>3, <2>4, SettingsFrame
  <2>7. DocumentsInv' /\ LogTasksOK' /\ JournalInv'
    BY <1>1, <2>2, <2>3, <2>4, DocsFrame
  <2>8. QED
    BY <2>1, <2>5, <2>6, <2>7 DEF ProcessInv
<1>4. CASE Start
  <2>1. Typing' /\ RowsInv' /\ SavableInv'
    <3>1. CASE LoadSettings \/ DefaultSettings \/ RenameSettings
      BY <1>1, <3>1, LoadSettingsStep, DefaultSettingsStep, RenameSettingsStep
    <3>2. ASSUME NEW t \in Tables, LoadTable(t) \/ MigrateTable(t) \/ RenameTable(t) \/ StartEmpty(t)
          PROVE  Typing' /\ RowsInv' /\ SavableInv'
      BY <1>1, <3>2, LoadTableStep, MigrateTableStep, RenameTableStep, StartEmptyStep
    <3>3. QED
      BY <1>4, <3>1, <3>2 DEF Start
  <2>2. /\ phase = "boot" /\ deployment' = deployment /\ task' = task /\ halfway \subseteq halfway'
        /\ \A u \in DOMAIN file \ (Tables \union {"settings"}) : file'[u] = file[u]
        /\ \/ LoadSettings \/ DefaultSettings \/ RenameSettings
           \/ UNCHANGED <<setting, row, latest, settingsCut>> /\ ("settings" \in boot => "settings" \in boot')
        /\ stamp \in Nat /\ stamp' \in Nat /\ stamp <= stamp'
    BY <1>1, <1>4, StartLeaves
  <2>3. \A ops : Leaves(ops)
    BY <2>2 DEF Leaves
  <2>4. TasksOK'
    BY <1>1, <2>2 DEF TasksOK, Stored
  <2>5. SettingsInv'
    <3>1. CASE LoadSettings \/ DefaultSettings \/ RenameSettings
      BY <1>1, <3>1, StartSettingsKeeps
    <3>2. CASE UNCHANGED <<setting, row, latest, settingsCut>> /\ ("settings" \in boot => "settings" \in boot')
      BY <1>1, <2>2, <2>3, <3>2, SettingsFrame
    <3>3. QED
      BY <2>2, <3>1, <3>2
  <2>6. DocumentsInv' /\ LogTasksOK' /\ JournalInv'
    <3>1. IsDocument \/ IsJournal => file'[Kind] = file[Kind]
      BY <1>2, <2>2
    <3>2. phase = "up" => phase' = "up"
      BY <2>2
    <3>3. QED
      BY <1>1, <2>2, <2>3, <3>1, <3>2, DocsFrame
  <2>7. QED
    BY <2>1, <2>4, <2>5, <2>6 DEF ProcessInv
<1>5. ASSUME NEW w \in Workers, Step(w) PROVE ProcessInv'
  <2>1. Typing' /\ RowsInv' /\ SavableInv'
    BY <1>1, <1>5, StepRows
  <2>2. /\ UNCHANGED <<deployment, phase, boot, importing, file, halfway>>
        /\ BatchStart(w) \/ BatchInsert(w) \/ SyncStart(w) \/ SyncWrite(w) =>
             UNCHANGED <<setting, row, latest, settingsCut>>
        /\ stamp \in Nat /\ stamp' \in Nat /\ stamp <= stamp'
    BY <1>1, <1>5, StepLeaves
  <2>3. TasksOK' /\ SettingsInv' /\ Leaves(DocOps \union LogOps)
    <3>1. CASE BatchStart(w) \/ BatchInsert(w) \/ SyncStart(w) \/ SyncWrite(w)
      <4>1. TasksOK' /\ Leaves(OtherOps)
        BY <1>1, <3>1, StepTasks
      <4>2. SettingsOps \subseteq OtherOps /\ DocOps \union LogOps \subseteq OtherOps
        BY DEF OtherOps
      <4>3. Leaves(SettingsOps) /\ Leaves(DocOps \union LogOps)
        BY <4>1, <4>2, LeavesFewer
      <4>4. SettingsInv'
        BY <1>1, <2>2, <3>1, <4>3, SettingsFrame
      <4>5. QED
        BY <4>1, <4>3, <4>4
    <3>2. CASE UpdateSetting(w) \/ DeleteSettings(w) \/ InsertSettings(w)
      <4>1. TasksOK' /\ Leaves(DocOps \union LogOps)
        BY <1>1, <3>2, SettingsTasks
      <4>2. SettingsInv'
        BY <1>1, <3>2, UpdateSettingKeeps, DeleteSettingsKeeps, InsertSettingsKeeps
      <4>3. QED
        BY <4>1, <4>2
    <3>3. QED
      BY <1>5, <3>1, <3>2 DEF Step
  <2>4. DocumentsInv' /\ LogTasksOK' /\ JournalInv'
    BY <1>1, <2>2, <2>3, DocsFrame
  <2>5. QED
    BY <2>1, <2>3, <2>4 DEF ProcessInv
<1>6. QED
  BY <1>3, <1>4, <1>5

\* The steps of documents and journals leave the tables alone, but for the file of their own.
LEMMA DocStepLeaves ==
  ASSUME ProcessInv, NEW w \in Workers, DocStep(w)
  PROVE  /\ UNCHANGED rest /\ phase = "up" /\ (IsDocument \/ IsJournal)
         /\ stamp' = stamp \/ (CanEdit /\ stamp' = Stamp)
         /\ \/ UNCHANGED docRest /\ (faults' = faults \/ (CanFail /\ faults' = faults + 1))
            \/ RenameJSONToBak(Kind)
<1>1. DocumentsInv /\ LogTasksOK
  BY DEF ProcessInv
<1>2. CASE GetSite(w) \/ GetModelPrices(w) \/ ModelsImport(w)
  BY <1>2 DEF GetSite, GetModelPrices, ModelsImport, GetDoc, IsDocument
<1>3. CASE SiteOrModelsPut(w) \/ ModelsMerge(w)
  <2>1. UNCHANGED <<docRest, rest, faults>> /\ CanEdit /\ stamp' = Stamp
    BY <1>3 DEF SiteOrModelsPut, ModelsMerge, PutDoc
  <2>2. phase = "up" /\ IsDocument
    <3>1. CASE SiteOrModelsPut(w)
      BY <3>1 DEF SiteOrModelsPut
    <3>2. CASE ModelsMerge(w)
      <4>1. task[w].op \in DocOps
        BY <3>2 DEF ModelsMerge, Do, DocOps
      <4>2. QED
        BY <1>1, <4>1 DEF DocumentsInv, DocTasksOK
    <3>3. QED
      BY <1>3, <3>1, <3>2
  <2>3. QED
    BY <2>1, <2>2
<1>4. CASE Look(w) \/ Migrate(w) \/ SaveDoc(w) \/ InsertDoc(w) \/ RenameDoc(w)
  <2>1. task[w].op \in LockedOps
    BY <1>4 DEF Look, Migrate, SaveDoc, InsertDoc, RenameDoc, Do, LockedOps
  <2>2. IsDocument /\ phase = "up"
    BY <1>1, <2>1, AtDocument
  <2>3. UNCHANGED rest /\ stamp' = stamp
    BY <1>4 DEF Look, Migrate, SaveDoc, InsertDoc, RenameDoc
  <2>4. \/ UNCHANGED docRest /\ (faults' = faults \/ Fault)
        \/ RenameJSONToBak(Kind)
    <3>1. CASE Look(w)
      BY <3>1 DEF Look
    <3>2. CASE Migrate(w)
      BY <3>2 DEF Migrate
    <3>3. CASE SaveDoc(w)
      BY <3>3 DEF SaveDoc, Saved, SaveFailed
    <3>4. CASE InsertDoc(w)
      BY <3>4 DEF InsertDoc, Saved, SaveFailed
    <3>5. CASE RenameDoc(w)
      BY <3>5 DEF RenameDoc
    <3>6. QED
      BY <1>4, <3>1, <3>2, <3>3, <3>4, <3>5
  <2>5. QED
    BY <2>2, <2>3, <2>4 DEF Fault
<1>5. CASE AppendEntry(w) \/ LoadEntries(w) \/ AuditClear(w)
  BY <1>5 DEF AppendEntry, LoadEntries, AuditClear, JournalStart, journalRest, docRest
<1>6. CASE CountRows(w) \/ ImportEntry(w) \/ RenameJournal(w) \/ InsertEntry(w) \/ ClearEntries(w)
  <2>1. task[w].op \in LogOps
    BY <1>6 DEF CountRows, ImportEntry, RenameJournal, InsertEntry, ClearEntries, Do, LogOps
  <2>2. IsJournal /\ phase = "up"
    BY <1>1, <2>1, AtJournal
  <2>3. UNCHANGED rest /\ (stamp' = stamp \/ (CanEdit /\ stamp' = Stamp))
    BY <1>6 DEF CountRows, ImportEntry, RenameJournal, InsertEntry, ClearEntries, journalRest
  <2>4. \/ UNCHANGED docRest /\ (faults' = faults \/ Fault)
        \/ RenameJSONToBak(Kind)
    BY <1>6 DEF CountRows, ImportEntry, RenameJournal, InsertEntry, ClearEntries, docRest
  <2>5. QED
    BY <2>2, <2>3, <2>4 DEF Fault
<1>7. QED
  BY <1>2, <1>3, <1>4, <1>5, <1>6 DEF DocStep

\* A step of a document or of a journal leaves the other, and all of Store, as it was.
LEMMA DocStepKeeps ==
  ASSUME ProcessInv, NEW w \in Workers, DocStep(w)
  PROVE  ProcessInv'
<1>1. /\ Typing /\ RowsInv /\ SavableInv /\ SettingsInv /\ TasksOK /\ DocumentsInv /\ LogTasksOK /\ JournalInv
  BY DEF ProcessInv
<1>2. /\ UNCHANGED rest /\ phase = "up" /\ (IsDocument \/ IsJournal)
      /\ stamp' = stamp \/ (CanEdit /\ stamp' = Stamp)
      /\ \/ UNCHANGED docRest /\ (faults' = faults \/ (CanFail /\ faults' = faults + 1))
         \/ RenameJSONToBak(Kind)
  BY DocStepLeaves
<1>3. /\ UNCHANGED <<deployment, phase, boot, importing, mem, disk, next, crashes, promised>>
      /\ UNCHANGED <<setting, row, latest, settingsCut>>
  BY <1>2 DEF rest
<1>4. stamp' \in stamp .. MaxEdits /\ stamp \in Nat /\ stamp' \in Nat /\ stamp <= stamp'
  BY <1>1, <1>2, StampsCounted
<1>5. Kind \in DOMAIN file /\ Kind \notin Stored /\ ~(IsDocument /\ IsJournal)
  BY <1>1, <1>2, KindApart
<1>6. /\ FilesOK' /\ faults' \in 0 .. MaxFaults /\ halfway \subseteq halfway'
      /\ \A t \in Stored : file'[t] = file[t]
  <2>1. CASE UNCHANGED docRest /\ (faults' = faults \/ (CanFail /\ faults' = faults + 1))
    <3>1. file' = file /\ halfway' = halfway
      BY <2>1 DEF docRest
    <3>2. FilesOK'
      BY <1>1, <1>3, <3>1 DEF Typing, FilesOK
    <3>3. QED
      BY <1>1, <2>1, <3>1, <3>2, FaultsCounted
  <2>2. CASE RenameJSONToBak(Kind)
    <3>1. /\ FilesOK' /\ faults' \in 0 .. MaxFaults /\ halfway \subseteq halfway'
          /\ \A u \in DOMAIN file \ {Kind} : file'[u] = file[u]
      BY <1>1, <1>3, <1>5, <2>2, Renamed
    <3>2. Stored \subseteq DOMAIN file
      <4>1. deployment.tables \subseteq DOMAIN deployment.files
        BY <1>1, DeploymentAssumption DEF Typing, ProcessOK
      <4>2. DOMAIN file = DOMAIN deployment.files
        BY <1>1 DEF Typing, FilesOK
      <4>3. QED
        BY <4>1, <4>2 DEF Stored
    <3>3. QED
      BY <1>5, <3>1, <3>2
  <2>3. QED
    BY <1>2, <2>1, <2>2
<1>7. Typing' /\ RowsInv' /\ SavableInv'
  <2>1. SettingsOK'
    BY <1>1, <1>3 DEF Typing, SettingsOK
  <2>2. QED
    BY <1>1, <1>2, <1>3, <1>4, <1>6, <2>1, StepFrame
<1>8. ASSUME TasksOK', Leaves(SettingsOps), DocumentsInv', LogTasksOK', JournalInv'
      PROVE  ProcessInv'
  <2>1. SettingsInv'
    BY <1>1, <1>2, <1>3, <1>8, SettingsFrame
  <2>2. QED
    BY <1>7, <1>8, <2>1 DEF ProcessInv
<1>9. IsDocument' = IsDocument /\ IsJournal' = IsJournal
  BY <1>3, SameKind
<1>10. CASE \/ GetSite(w) \/ GetModelPrices(w) \/ ModelsImport(w) \/ SiteOrModelsPut(w) \/ ModelsMerge(w)
            \/ Look(w) \/ Migrate(w) \/ SaveDoc(w) \/ InsertDoc(w) \/ RenameDoc(w)
  <2>1. DocumentsInv' /\ TasksOK' /\ Leaves(LogOps) /\ Leaves(SettingsOps)
    BY <1>1, <1>10, DocumentSteps DEF DocGoesOn
  <2>2. UNCHANGED logVars
    BY <1>10 DEF GetSite, GetModelPrices, ModelsImport, GetDoc, SiteOrModelsPut, ModelsMerge, PutDoc, Look,
                 Migrate, SaveDoc, InsertDoc, RenameDoc
  <2>3. IsDocument
    <3>1. CASE SiteOrModelsPut(w) \/ GetSite(w) \/ GetModelPrices(w) \/ ModelsImport(w)
      BY <3>1 DEF SiteOrModelsPut, GetSite, GetModelPrices, ModelsImport, IsDocument
    <3>2. CASE ModelsMerge(w) \/ Look(w) \/ Migrate(w) \/ SaveDoc(w) \/ InsertDoc(w) \/ RenameDoc(w)
      <4>1. task[w].op \in DocOps
        BY <3>2 DEF ModelsMerge, Look, Migrate, SaveDoc, InsertDoc, RenameDoc, Do, DocOps, LockedOps
      <4>2. QED
        BY <1>1, <4>1 DEF DocumentsInv, DocTasksOK
    <3>3. QED
      BY <1>10, <3>1, <3>2
  <2>4. LogTasksOK'
    BY <1>1, <1>2, <1>3, <1>4, <2>1, <2>2, LogTasksFrame
  <2>5. JournalInv'
    BY <1>5, <1>9, <2>3 DEF JournalInv
  <2>6. QED
    BY <1>8, <2>1, <2>4, <2>5
<1>11. CASE \/ AppendEntry(w) \/ LoadEntries(w) \/ AuditClear(w) \/ CountRows(w) \/ ImportEntry(w)
            \/ RenameJournal(w) \/ InsertEntry(w) \/ ClearEntries(w)
  <2>1. LogTasksOK' /\ JournalInv' /\ TasksOK' /\ Leaves(DocOps) /\ Leaves(SettingsOps)
    BY <1>1, <1>11, JournalSteps DEF LogGoesOn
  <2>2. UNCHANGED docVars
    BY <1>11 DEF AppendEntry, LoadEntries, AuditClear, JournalStart, CountRows, ImportEntry, RenameJournal,
                 InsertEntry, ClearEntries, journalRest
  <2>3. IsJournal
    <3>1. CASE AppendEntry(w) \/ LoadEntries(w) \/ AuditClear(w)
      BY <3>1 DEF AppendEntry, LoadEntries, AuditClear, JournalStart
    <3>2. CASE CountRows(w) \/ ImportEntry(w) \/ RenameJournal(w) \/ InsertEntry(w) \/ ClearEntries(w)
      <4>1. task[w].op \in LogOps
        BY <3>2 DEF CountRows, ImportEntry, RenameJournal, InsertEntry, ClearEntries, Do, LogOps
      <4>2. QED
        BY <1>1, <4>1, AtJournal
    <3>3. QED
      BY <1>11, <3>1, <3>2
  <2>4. DocTasksOK'
    BY <1>1, <1>2, <1>3, <2>1, <2>2, DocTasksFrame DEF DocumentsInv
  <2>5. DocInv' /\ MergesInv'
    BY <1>5, <1>9, <2>3 DEF DocInv, MergesInv
  <2>6. QED
    BY <1>8, <2>1, <2>4, <2>5 DEF DocumentsInv
<1>12. QED
  BY <1>10, <1>11 DEF DocStep

\* A crash: documents and journals are on disk as they were, unless it cut a save of the prices or
\* an import.
LEMMA ProcessCrashKeeps ==
  ASSUME ProcessInv, ProcessCrash
  PROVE  ProcessInv'
<1>1. /\ Typing /\ RowsInv /\ SavableInv /\ SettingsInv /\ TasksOK /\ DocumentsInv /\ LogTasksOK /\ JournalInv
  BY DEF ProcessInv
<1>2. Crash /\ DocCrash
  BY DEF ProcessCrash
<1>3. Typing' /\ RowsInv' /\ SavableInv'
  BY <1>1, <1>2, CrashStep
<1>4. SettingsInv' /\ TasksOK' /\ \A w \in Workers : task'[w] = Idle
  BY <1>1, <1>2, CrashSettings
<1>5. /\ deployment' = deployment /\ file' = file /\ stamp' = stamp
      /\ docMem' = {} /\ docLoaded' = FALSE /\ once' = FALSE
      /\ excused' = (excused \/ \E w \in Workers : task[w].op \in {"insertDoc", "import"})
      /\ docRow' = docRow /\ journal' = journal /\ expected' = expected /\ written' = written
      /\ cleared' = cleared
  BY <1>2 DEF Crash, Restart, DocCrash
<1>6. halfway \subseteq halfway'
  BY <1>2 DEF Crash, Restart
<1>7. IsDocument' = IsDocument /\ IsJournal' = IsJournal /\ Kind' = Kind /\ Old' = Old
  BY <1>5, SameKind DEF Old
<1>8. DocOnDisk' = DocOnDisk
  BY <1>5, SameOnDisk
<1>9. \A w \in Workers : /\ task'[w].op \notin DocOps /\ task'[w].op \notin LogOps
                         /\ task'[w].op \notin {"look", "migrate", "saveDoc", "insertDoc", "rename", "merge", "import"}
  BY <1>4 DEF Idle, DocOps, LockedOps, LogOps
<1>10. DocTasksOK'
  <2>1. \A w \in Workers : task'[w].op \notin LockedOps
    BY <1>9 DEF DocOps
  <2>2. /\ docMem' \in SUBSET Items /\ (docRow' = NoDoc \/ docRow' \in SUBSET Items)
        /\ docLoaded' \in BOOLEAN /\ excused' \in BOOLEAN /\ expected' \in SUBSET Items
    BY <1>1, <1>5, DocTyped
  <2>3. QED
    BY <1>9, <2>1, <2>2 DEF DocTasksOK
<1>11. DocInv' /\ MergesInv'
  <2>1. ~excused' => ~excused /\ \A w \in Workers : task[w].op # "insertDoc" /\ task[w].op # "import"
    BY <1>5
  <2>2. ~excused' /\ IsDocument => DocOnDisk = expected
    BY <1>1, <2>1 DEF DocumentsInv, DocInv
  <2> HIDE DEF DocOnDisk
  <2>3. DocInv'
    BY <1>5, <1>7, <1>8, <1>9, <2>2 DEF DocInv
  <2>4. MergesInv'
    BY <1>9 DEF MergesInv
  <2>5. QED
    BY <2>3, <2>4
<1>12. LogTasksOK'
  <2>1. HeldOps \subseteq LogOps
    BY DEF HeldOps, LogOps
  <2>2. QED
    BY <1>1, <1>5, <1>9, <2>1, LogTyped DEF LogTasksOK
<1>13. JournalInv'
  <2>1. SUFFICES ASSUME IsJournal PROVE ImportOK' /\ OldOK' /\ JournalKept'
    BY <1>7 DEF JournalInv
  <2>2. ImportOK /\ OldOK /\ JournalKept
    BY <1>1, <2>1 DEF JournalInv
  <2>3. ImportOK'
    BY <1>9 DEF ImportOK
  <2>4. OldOK'
    BY <1>5, <1>6, <1>7, <2>2 DEF OldOK
  <2>5. JournalKept'
    BY <1>5, <1>6, <1>7, <2>1, <2>2 DEF JournalKept
  <2>6. QED
    BY <2>3, <2>4, <2>5
<1>14. QED
  BY <1>3, <1>4, <1>10, <1>11, <1>12, <1>13 DEF ProcessInv, DocumentsInv

\* What a start finds of the tables and files.
LEMMA InitTyping ==
  ASSUME ProcessInit
  PROVE  Typing
<1>1. /\ deployment \in Deployments /\ boot = deployment.tables /\ phase = FirstPhase(boot) /\ importing = "no"
      /\ mem = [t \in Tables |-> <<>>] /\ disk = deployment.rows /\ file = deployment.files
      /\ next = [t \in Tables |-> 1] /\ setting = [columns |-> 0, unit |-> DefaultUnit] /\ row = NoRow
      /\ stamp = Found /\ faults = 0 /\ crashes = 0
      /\ promised = [b \in 1 .. MaxEdits |->
                       IF \E t \in deployment.tables \ {"settings"} : \E r \in OnRecord(t) : r.born = b
                       THEN b ELSE Nothing]
      /\ latest = setting /\ settingsCut = TRUE
  BY DEF ProcessInit, Init
<1>2. /\ deployment.rows \in [Tables -> Seq(Row)]
      /\ deployment.files \in [DOMAIN deployment.files ->
                                 [at : {"json", "none"},
                                  rows : {deployment.files[u].rows : u \in DOMAIN deployment.files}]]
      /\ \A t \in Tables : \A r \in Range(deployment.rows[t]) : Stamped(r)
      /\ \A t \in deployment.tables \ {"settings"} : FoundTable(deployment, t)
      /\ deployment.tables \subseteq Tables \union {"settings"}
  BY <1>1, DeploymentAssumption
<1>3. Found \in Nat /\ MaxEdits \in Nat /\ MaxFaults \in Nat /\ MaxCrashes \in Nat /\ Found <= MaxEdits
  BY BoundAssumption
<1>4. ProcessOK
  BY <1>1 DEF ProcessOK, FirstPhase
<1>5. FilesOK
  <2> DEFINE All == {deployment.files[u].rows : u \in DOMAIN deployment.files}
  <2>1. file \in [DOMAIN deployment.files -> [at : {"json", "none"}, rows : All]]
    BY <1>1, <1>2
  <2> HIDE DEF All
  <2>2. file \in [DOMAIN deployment.files -> [at : {"json", "bak", "none"}, rows : All]]
    BY <2>1
  <2>3. QED
    BY <1>1, <2>2 DEF FilesOK, All
<1>6. SlicesOK
  BY <1>1, <1>2 DEF SlicesOK
<1>7. SettingsOK
  BY <1>1, UnitAssumption DEF SettingsOK
<1>8. CountersOK
  BY <1>1, <1>3 DEF CountersOK
<1>9. PromisesOK
  <2>1. promised \in [1 .. MaxEdits -> Int]
    BY <1>1, <1>3 DEF Nothing
  <2>2. ASSUME NEW b \in 1 .. MaxEdits, b > stamp PROVE promised[b] = Nothing
    <3>1. ASSUME NEW t \in deployment.tables \ {"settings"}, NEW r \in OnRecord(t) PROVE r.born # b
      <4>1. t \in Tables /\ FoundTable(deployment, t)
        BY <1>2
      <4>2. deployment.rows[t] \in Seq(Row) /\ deployment.files[t].rows \in Seq(Row)
        BY <1>2, <4>1 DEF FoundTable
      <4>3. r \in Row
        BY <1>1, <4>2, RangeOf DEF OnRecord, Filed
      <4>4. Stamped(r)
        BY <1>1, <1>2, <4>1 DEF OnRecord, FoundTable
      <4>5. r.born \in Nat /\ r.stamp \in Nat
        BY <4>3 DEF Row
      <4>6. QED
        BY <1>1, <1>3, <2>2, <4>4, <4>5 DEF Stamped
    <3>2. QED
      BY <1>1, <2>2, <3>1
  <2>3. QED
    BY <2>1, <2>2 DEF PromisesOK
<1>10. QED
  BY <1>4, <1>5, <1>6, <1>7, <1>8, <1>9 DEF Typing

\* What a start finds of a table's rows.
LEMMA InitFinds ==
  ASSUME ProcessInit, NEW t \in Stored
  PROVE  /\ t \in Tables /\ Held(t) = Range(deployment.rows[t]) /\ OnRecord(t) = FoundIn(deployment, t)
         /\ Held(t) \union Filed(file[t]) = FoundIn(deployment, t)
         /\ \A r \in FoundIn(deployment, t) :
              /\ r \in Row /\ r.born \in 1 .. r.stamp /\ r.stamp <= stamp /\ r.born \in 1 .. MaxEdits
              /\ promised[r.born] = r.born
         /\ \A r \in Held(t), f \in Filed(file[t]) : r.born # f.born
<1>1. /\ deployment \in Deployments /\ mem = [u \in Tables |-> <<>>] /\ disk = deployment.rows
      /\ file = deployment.files /\ stamp = Found
      /\ promised = [b \in 1 .. MaxEdits |->
                       IF \E u \in deployment.tables \ {"settings"} : \E r \in OnRecord(u) : r.born = b
                       THEN b ELSE Nothing]
  BY DEF ProcessInit, Init
<1>2. /\ deployment.rows \in [Tables -> Seq(Row)] /\ deployment.tables \subseteq Tables \union {"settings"}
      /\ \A u \in Tables : \A r \in Range(deployment.rows[u]) : Stamped(r)
      /\ \A u \in deployment.tables \ {"settings"} : FoundTable(deployment, u)
  BY <1>1, DeploymentAssumption
<1>3. t \in Tables /\ FoundTable(deployment, t) /\ t \in deployment.tables \ {"settings"}
  BY <1>2 DEF Stored
<1>4. Held(t) = Range(deployment.rows[t])
  BY <1>1, <1>3, RangeOfNone DEF Held
<1>5. OnRecord(t) = FoundIn(deployment, t) /\ Held(t) \union Filed(file[t]) = FoundIn(deployment, t)
  BY <1>1, <1>4 DEF OnRecord, FoundIn
<1>6. \A r \in Held(t), f \in Filed(file[t]) : r.born # f.born
  BY <1>1, <1>3, <1>4 DEF FoundTable
<1>7. ASSUME NEW r \in FoundIn(deployment, t)
      PROVE  /\ r \in Row /\ r.born \in 1 .. r.stamp /\ r.stamp <= stamp /\ r.born \in 1 .. MaxEdits
             /\ promised[r.born] = r.born
  <2>1. deployment.rows[t] \in Seq(Row) /\ deployment.files[t].rows \in Seq(Row)
    BY <1>2, <1>3 DEF FoundTable
  <2>2. r \in Row
    BY <2>1, RangeOf DEF FoundIn, Filed
  <2>3. Stamped(r)
    BY <1>2, <1>3 DEF FoundIn, FoundTable
  <2>4. r.born \in Nat /\ r.stamp \in Nat
    BY <2>2 DEF Row
  <2>5. r.born \in 1 .. r.stamp /\ r.stamp <= stamp /\ r.born \in 1 .. MaxEdits
    BY <1>1, <2>3, <2>4, BoundAssumption DEF Stamped
  <2>6. promised[r.born] = r.born
    BY <1>1, <1>3, <1>5, <2>5
  <2>7. QED
    BY <2>2, <2>5, <2>6
<1>8. QED
  BY <1>3, <1>4, <1>5, <1>6, <1>7

\* What a start finds is what it keeps.
LEMMA InitRows ==
  ASSUME ProcessInit
  PROVE  RowsInv /\ SavableInv
<1>1. /\ deployment \in Deployments /\ boot = deployment.tables /\ importing = "no"
      /\ mem = [t \in Tables |-> <<>>] /\ disk = deployment.rows /\ file = deployment.files /\ stamp = Found
      /\ promised = [b \in 1 .. MaxEdits |->
                       IF \E u \in deployment.tables \ {"settings"} : \E r \in OnRecord(u) : r.born = b
                       THEN b ELSE Nothing]
  BY DEF ProcessInit, Init
<1>2. /\ \A t \in Tables : /\ Savable(t, deployment.rows[t]) /\ Distinct(deployment.rows[t])
                           /\ \A r \in Range(deployment.rows[t]) : Stamped(r)
      /\ deployment.rows \in [Tables -> Seq(Row)]
      /\ \A t, u \in deployment.tables \ {"settings"} :
           \A r \in FoundIn(deployment, t), s \in FoundIn(deployment, u) : r.born = s.born => t = u
      /\ "redemptions" \in deployment.tables => \A r \in FoundIn(deployment, "redemptions") : Coded(r)
  BY <1>1, DeploymentAssumption
<1>3. Found \in Nat /\ MaxEdits \in Nat /\ Found <= MaxEdits
  BY BoundAssumption
<1>4. \A t \in Tables : mem[t] = <<>> /\ Held(t) = Range(deployment.rows[t])
  BY <1>1, RangeOfNone DEF Held
<1>5. \A t : Savable(t, <<>>) /\ Distinct(<<>>)
  BY DEF Savable, Distinct
<1>6. ASSUME NEW t \in Tables, NEW r \in Range(deployment.rows[t])
      PROVE  r.born \in 1 .. r.stamp /\ r.stamp <= stamp /\ r.born \in 1 .. MaxEdits
  <2>1. r \in Row
    BY <1>2, RangeOf
  <2>2. r.born \in Nat /\ r.stamp \in Nat
    BY <2>1 DEF Row
  <2>3. QED
    BY <1>1, <1>2, <1>3, <2>2 DEF Stamped
<1>7. \A b \in 1 .. MaxEdits : promised[b] = b \/ promised[b] = Nothing
  BY <1>1
<1>8. BirthsOK
  BY <1>1, <1>2, <1>4, <1>5, <1>6 DEF BirthsOK
<1>9. Unloaded
  BY <1>4 DEF Unloaded
<1>10. Home
  <2>1. ASSUME NEW t \in Stored, NEW u \in Stored,
               NEW r \in Held(t) \union Filed(file[t]), NEW s \in Held(u) \union Filed(file[u]), r.born = s.born
        PROVE  t = u
    <3>1. r \in FoundIn(deployment, t) /\ s \in FoundIn(deployment, u)
      BY InitFinds
    <3>2. QED
      BY <1>2, <2>1, <3>1 DEF Stored
  <2>2. QED
    BY <2>1 DEF Home
<1>11. CopiedOK
  BY <1>1 DEF CopiedOK, Copied
<1>12. Waiting
  <2>1. ASSUME NEW t \in Stored, NEW f \in Filed(file[t])
        PROVE  promised[f.born] # Gone /\ \A r \in Held(t) : r.born # f.born
    <3>1. f \in FoundIn(deployment, t)
      BY <1>1 DEF FoundIn
    <3>2. promised[f.born] = f.born /\ f.born \in 1 .. MaxEdits
      BY <3>1, InitFinds
    <3>3. QED
      BY <1>3, <3>2, InitFinds DEF Gone
  <2>2. QED
    BY <2>1 DEF Waiting
<1>13. Reaches
  BY <1>1 DEF Reaches, Stored
<1>14. KeptRows
  <2>1. ASSUME NEW b \in 1 .. MaxEdits, promised[b] > 0
        PROVE  \E t \in Stored : \E r \in OnRecord(t) : r.born = b /\ r.stamp >= promised[b]
    <3>1. promised[b] = b /\ \E t \in Stored : \E r \in OnRecord(t) : r.born = b
      BY <1>1, <2>1 DEF Nothing, Stored
    <3>2. PICK t \in Stored : \E r \in OnRecord(t) : r.born = b
      BY <3>1
    <3>3. PICK r \in OnRecord(t) : r.born = b
      BY <3>2
    <3>4. r \in Row /\ r.born \in 1 .. r.stamp
      BY InitFinds
    <3>5. r.born \in Nat /\ r.stamp \in Nat
      BY <3>4 DEF Row
    <3>6. QED
      BY <3>1, <3>3, <3>4, <3>5
  <2>2. DOMAIN promised = 1 .. MaxEdits
    BY <1>1
  <2>3. QED
    BY <2>1, <2>2 DEF KeptRows
<1>15. DeletedRows
  <2>1. ASSUME NEW t \in Stored, NEW r \in Range(mem[t]) \union Range(disk[t]) PROVE promised[r.born] # Gone
    <3>1. r \in FoundIn(deployment, t)
      BY InitFinds DEF Held
    <3>2. promised[r.born] = r.born /\ r.born \in 1 .. MaxEdits
      BY <3>1, InitFinds
    <3>3. QED
      BY <1>3, <3>2 DEF Gone
  <2>2. QED
    BY <2>1 DEF DeletedRows
<1>16. RowsInv
  BY <1>8, <1>9, <1>10, <1>11, <1>12, <1>13, <1>14, <1>15 DEF RowsInv
<1>17. SavableInv
  <2>1. \A t \in Tables : Savable(t, disk[t])
    BY <1>1, <1>2
  <2>2. ASSUME NEW t \in Stored \intersect Numbered
        PROVE  Savable(t, mem[t]) /\ \A r \in Range(mem[t]) : r.id < next[t]
    <3>1. mem[t] = <<>>
      BY <1>4, InitFinds
    <3>2. QED
      BY <1>5, <3>1, RangeOfNone
  <2>3. ASSUME "redemptions" \in deployment.tables
        PROVE  Savable("redemptions", mem["redemptions"]) /\ \A r \in Held("redemptions") : Coded(r)
    <3>1. "redemptions" \in Stored
      BY <2>3 DEF Stored
    <3>2. mem["redemptions"] = <<>> /\ Held("redemptions") \subseteq FoundIn(deployment, "redemptions")
      BY <1>4, <3>1, InitFinds
    <3>3. QED
      BY <1>2, <1>5, <2>3, <3>2
  <2>4. QED
    BY <2>1, <2>2, <2>3 DEF SavableInv
<1>18. QED
  BY <1>16, <1>17

\* At the start nobody does anything, and a document is its row, or else its file.
LEMMA InitOthers ==
  ASSUME ProcessInit
  PROVE  SettingsInv /\ TasksOK /\ DocumentsInv /\ LogTasksOK /\ JournalInv
<1>1. /\ deployment \in Deployments /\ boot = deployment.tables /\ task = [w \in Workers |-> Idle]
      /\ settingsCut = TRUE /\ file = deployment.files /\ stamp = Found
      /\ docMem = {} /\ docLoaded = FALSE /\ docRow = deployment.docRow /\ journal = <<>> /\ once = FALSE
      /\ expected = (IF docRow # NoDoc THEN docRow ELSE IF IsDocument /\ Old.at = "json" THEN Old.rows ELSE {})
      /\ excused = FALSE /\ written = {} /\ cleared = {}
  BY DEF ProcessInit, Init
<1>2. Typing
  BY InitTyping
<1>3. \A w \in Workers : /\ task[w] = Idle /\ task[w].op = "idle"
                         /\ task[w].op \notin {"save", "insert", "batch", "sync"}
                         /\ task[w].op \notin DocOps /\ task[w].op \notin LockedOps /\ task[w].op \notin LogOps
                         /\ task[w].op \notin HeldOps
                         /\ task[w].op \notin {"look", "migrate", "saveDoc", "insertDoc", "rename", "merge", "import"}
                         /\ "op" \in DOMAIN task[w]
  BY <1>1 DEF Idle, DocOps, LockedOps, LogOps, HeldOps
<1>4. SettingsInv
  <2>1. Pending = {} /\ Savers = {}
    BY <1>3 DEF Pending, Savers
  <2>2. SaversOK
    BY <1>1, <2>1 DEF SaversOK
  <2>3. RowOK
    BY <1>1 DEF RowOK
  <2>4. QED
    BY <2>2, <2>3 DEF SettingsInv
<1>5. TasksOK
  BY <1>1, <1>3 DEF TasksOK
<1>6. docRow = NoDoc \/ docRow \in SUBSET Items
  BY <1>1, DocumentAssumption
<1>7. IsDocument /\ Old.at = "json" => Old.rows \in SUBSET Items
  BY <1>2, KindApart
<1>8. DocTasksOK
  <2>1. expected \in SUBSET Items
    BY <1>1, <1>6, <1>7
  <2>2. docMem \in SUBSET Items /\ docLoaded \in BOOLEAN /\ excused \in BOOLEAN
    BY <1>1
  <2>3. QED
    BY <1>3, <1>6, <2>1, <2>2 DEF DocTasksOK
<1>9. DocInv
  <2>1. IsDocument => DocOnDisk = expected
    BY <1>1 DEF DocOnDisk
  <2> HIDE DEF DocOnDisk
  <2>2. QED
    BY <1>1, <1>3, <2>1 DEF DocInv
<1>10. MergesInv
  BY <1>3 DEF MergesInv
<1>11. LogTasksOK
  <2>1. Range(journal) = {}
    BY <1>1, RangeOfNone
  <2>2. journal \in Seq(Nat) /\ once \in BOOLEAN
    <3>1. <<>> \in Seq(Nat) /\ FALSE \in BOOLEAN
      OBVIOUS
    <3>2. journal = <<>> /\ once = FALSE
      BY <1>1
    <3>3. QED
      BY <3>1, <3>2
  <2>3. Range(journal) \union written \union cleared \subseteq 1 .. stamp
    BY <1>1, <2>1
  <2>4. QED
    BY <1>3, <2>2, <2>3 DEF LogTasksOK
<1>12. JournalInv
  <2>1. ImportOK
    BY <1>3 DEF ImportOK
  <2>2. Range(journal) = {} /\ Ascending(journal)
    BY <1>1, RangeOfNone DEF Ascending
  <2>3. OldOK /\ JournalKept
    BY <1>1, <2>2 DEF OldOK, JournalKept
  <2>4. QED
    BY <2>1, <2>3 DEF JournalInv
<1>13. QED
  BY <1>4, <1>5, <1>8, <1>9, <1>10, <1>11, <1>12 DEF DocumentsInv

\* The invariant holds at the start.
LEMMA InitInv == ProcessInit => ProcessInv
BY InitTyping, InitRows, InitOthers DEF ProcessInv

\* A step in which nothing changes.
LEMMA StutterKeeps ==
  ASSUME ProcessInv, UNCHANGED processVars
  PROVE  ProcessInv'
<1>1. /\ Typing /\ RowsInv /\ SavableInv /\ SettingsInv /\ TasksOK /\ DocumentsInv /\ LogTasksOK /\ JournalInv
      /\ UNCHANGED <<vars, docVars, logVars>>
  BY DEF ProcessInv, processVars
<1>2. Typing' /\ RowsInv' /\ SavableInv'
  <2>1. Typing'
    BY <1>1 DEF vars, Typing, ProcessOK, FilesOK, SlicesOK, SettingsOK, CountersOK, PromisesOK
  <2>2. /\ mem' = mem /\ disk' = disk /\ file' = file /\ next' = next /\ deployment' = deployment
        /\ boot' = boot /\ importing' = importing /\ stamp' = stamp /\ promised' = promised
        /\ halfway' = halfway /\ row' = row
    BY <1>1 DEF vars
  <2>3. RowsInv'
    BY <1>1, <2>2 DEF RowsInv, BirthsOK, Unloaded, Home, CopiedOK, Waiting, Reaches, KeptRows, DeletedRows,
                      Held, Copied, First, Stored, OnRecord, Filed
  <2>4. SavableInv'
    BY <1>1, <2>2 DEF SavableInv, Stored, Held
  <2>5. QED
    BY <2>1, <2>3, <2>4
<1>3. /\ deployment' = deployment /\ phase' = phase /\ boot' = boot /\ task' = task /\ stamp' = stamp
      /\ file' = file /\ halfway' = halfway
      /\ UNCHANGED <<setting, row, latest, settingsCut>>
  BY <1>1 DEF vars
<1>4. \A ops : Leaves(ops)
  BY <1>3 DEF Leaves
<1>5. TasksOK'
  BY <1>1, <1>3 DEF TasksOK, Stored
<1>6. SettingsInv'
  BY <1>1, <1>3, <1>4, SettingsFrame
<1>7. stamp \in Nat
  BY <1>1, BoundAssumption DEF Typing, CountersOK
<1>8. DocumentsInv' /\ LogTasksOK' /\ JournalInv'
  BY <1>1, <1>3, <1>4, <1>7, DocsFrame
<1>9. QED
  BY <1>2, <1>5, <1>6, <1>8 DEF ProcessInv

\* The invariant is kept by every step of the process: an edit, a store that is started, a statement
\* of a goroutine, a crash, and the use of documents and journals.
LEMMA NextKeeps == ProcessInv /\ [ProcessNext]_processVars => ProcessInv'
<1> SUFFICES ASSUME ProcessInv, [ProcessNext]_processVars PROVE ProcessInv'
  OBVIOUS
<1>1. CASE (Edit \/ Start \/ \E w \in Workers : Step(w)) /\ UNCHANGED <<docVars, logVars>>
  BY <1>1, StoreStep
<1>2. CASE ProcessCrash
  BY <1>2, ProcessCrashKeeps
<1>3. ASSUME NEW w \in Workers, DocStep(w) PROVE ProcessInv'
  BY <1>3, DocStepKeeps
<1>4. CASE UNCHANGED processVars
  BY <1>4, StutterKeeps
<1>5. QED
  BY <1>1, <1>2, <1>3, <1>4 DEF ProcessNext

-------------------------------------------------------------------------------
(* What the invariant says                                                 *)

\* The rows of a table, and what is kept of it, are what they are said to be.
LEMMA TypesFollow == ProcessInv => TypeOK
<1> SUFFICES ASSUME ProcessInv PROVE TypeOK
  OBVIOUS
<1>1. ProcessOK /\ FilesOK /\ SlicesOK /\ SettingsOK /\ CountersOK
  BY DEF ProcessInv, Typing
<1>2. ASSUME NEW t \in Tables
      PROVE  Range(mem[t]) \union Range(disk[t]) \subseteq Row /\ next[t] \in Nat
  <2>1. mem[t] \in Seq(Row) /\ disk[t] \in Seq(Row) /\ next[t] \in Nat \ {0}
    BY <1>1 DEF SlicesOK
  <2>2. QED
    BY <2>1, RangeOf
<1>3. \A t \in DOMAIN file : file[t].at \in {"json", "bak", "none"}
  BY <1>1 DEF FilesOK
<1>4. QED
  BY <1>1, <1>2, <1>3 DEF TypeOK, ProcessOK, SettingsOK, CountersOK

\* The tables that can be written again, with the codes among them.
LEMMA SavableFollows == ProcessInv => NeverPoisoned
<1> SUFFICES ASSUME ProcessInv, NEW t \in Stored \intersect {"channels", "users", "redemptions"}
             PROVE  Savable(t, mem[t])
  BY DEF NeverPoisoned
<1>1. SavableInv
  BY DEF ProcessInv
<1>2. CASE t \in Numbered
  BY <1>1, <1>2 DEF SavableInv
<1>3. CASE t = "redemptions"
  BY <1>1, <1>3 DEF SavableInv, Stored
<1>4. QED
  BY <1>2, <1>3 DEF Numbered

\* Nobody saves: the row is as it was last changed, and so is what memory has.
LEMMA SettingsFollow == ProcessInv => SettingsKept
<1>1. ASSUME ProcessInv, ~settingsCut, Pending = {} PROVE row = latest.columns
  <2>1. Saving = {} /\ Savers = {}
    BY <1>1 DEF Pending, Saving, Savers
  <2>2. QED
    BY <1>1, <2>1 DEF ProcessInv, SettingsInv, RowOK
<1>2. ProcessInv => ("settings" \in deployment.tables \ boot => setting.columns = latest.columns)
  BY DEF ProcessInv, SettingsInv, SaversOK
<1>3. QED
  BY <1>1, <1>2 DEF SettingsKept

\* Nobody saves the document: it is on disk and in memory as expected.
LEMMA DocumentsFollow == ProcessInv => DocumentsKept
<1> SUFFICES ASSUME ProcessInv, IsDocument, ~excused, ~Putting
             PROVE  DocOnDisk = expected /\ (docLoaded => docMem = docRow)
  BY DEF DocumentsKept
<1> HIDE DEF DocOnDisk
<1>1. QED
  BY DocSettled DEF ProcessInv

-------------------------------------------------------------------------------
(* Theorems                                                                *)

\* The inductive invariant holds of the whole process: tables, settings, documents and journals,
\* with every interleaving of edits, saves, starts, failing statements and crashes.
THEOREM ProcessInvariant == ProcessSpec => []ProcessInv
<1>1. ProcessInv /\ [ProcessNext]_processVars => ProcessInv'
  BY NextKeeps
<1>2. QED
  BY InitInv, <1>1, PTL DEF ProcessSpec, processVars

\* Slices, tables, files and settings are of their types, next IDs too, through every start.
THEOREM Types == ProcessSpec => []TypeOK
BY ProcessInvariant, TypesFollow, PTL

\* What a caller was told of a row (saved, changed, deleted) is what the next start finds, though each
\* save of a table deletes and inserts all its rows, may fail, and leaves the slice changed when it does.
THEOREM RowsAreKept == ProcessSpec => []AnswersKept
<1>1. ProcessInv => AnswersKept
  BY DEF ProcessInv, RowsInv, AnswersKept
<1>2. QED
  BY ProcessInvariant, <1>1, PTL

\* Channels, accounts and codes never get into a slice that the database refuses: a save that failed
\* does not make those after it fail.
THEOREM TablesCanBeSaved == ProcessSpec => []NeverPoisoned
BY ProcessInvariant, SavableFollows, PTL

\* The columns of the settings on disk are those last changed when nobody is at saving them, though
\* savers delete and insert the row beside one another, in any order, and a restart comes back to them.
\* quota_unit is not a column: nothing is said of it.
THEOREM SettingsAreKept == ProcessSpec => []SettingsKept
BY ProcessInvariant, SettingsFollow, PTL

\* Site texts and prices: the row, or the old file, is what the answered changes and imports add up to,
\* and memory has the row, whoever of several requests came to load it first.
THEOREM DocumentsAreKept == ProcessSpec => []DocumentsKept
BY ProcessInvariant, DocumentsFollow, PTL

\* Audits and billing: each record once, in order, none lost but by a clearing and none back after one,
\* though the old file is imported at the first use, beside entries that come and a clearing.
THEOREM JournalsAreKept == ProcessSpec => []JournalKept
<1>1. ProcessInv => JournalKept
  BY DEF ProcessInv, JournalInv, JournalKept
<1>2. QED
  BY ProcessInvariant, <1>1, PTL

===============================================================================
