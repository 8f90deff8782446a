--------------------------------- MODULE Store ---------------------------------
(***************************************************************************)
(* The tables of the gateway: each is a slice in memory, guarded by one    *)
(* mutex and written back to SQLite as a whole, in one transaction, by     *)
(* every edit.  The settings are one row, replaced by a DELETE and an      *)
(* INSERT without a transaction.  A start loads the tables in a fixed      *)
(* order and imports the JSON file of an older version into a table that   *)
(* is empty.                                                               *)
(*                                                                         *)
(* An edit of a table holds the mutex to the end of its transaction, so it *)
(* is one action; a transaction that does not commit leaves the disk as it *)
(* was and the slice changed.  Reads of the database do not fail here.     *)
(***************************************************************************)
EXTENDS Integers, Sequences, SequencesExt, FiniteSets, Functions

CONSTANTS
  Workers,       \* goroutines that serve requests
  Keys,          \* prefixes, user names and token keys that callers choose
  NoKey,         \* no key: the columns of a channel need not be unique
  Units,         \* values of quota_unit; the first tick of a process has DefaultUnit
  DefaultUnit,
  Deployments,   \* the tables in use, the rows on disk and the old files
  Found,         \* bound: the rows found on disk and in old files have the stamps up to this one
  MaxEdits,      \* bound: stamps, of those rows and of each edit since
  MaxFaults,     \* bound: statements and renames that fail
  MaxCrashes     \* bound: crashes

Tables == {"routes", "tokens", "channels", "users", "redemptions"}

(* main() initialises the stores in this order. *)
BootOrder == <<"routes", "tokens", "channels", "settings", "users", "redemptions">>

Place(t) == CHOOSE i \in DOMAIN BootOrder : BootOrder[i] = t

ASSUME KeyAssumption   == NoKey \notin Keys
ASSUME UnitAssumption  == DefaultUnit \in Units
ASSUME BoundAssumption == /\ {Found, MaxEdits, MaxFaults, MaxCrashes} \subseteq Nat
                          /\ Found <= MaxEdits

VARIABLES
  deployment,  \* tables: in use; root: INIT_ROOT_USER is set; rows, files: what is found on disk
  phase,       \* "boot", "up", "fatal"
  boot,        \* the stores still to be initialised
  importing,   \* the file of the first of them: "saved" and not yet renamed, or dealt with ("over")
  mem,         \* the slices
  disk,        \* the tables of gateway.db
  file,        \* where the JSON file of a table is: [at, rows]
  next,        \* nextID, chanNext, userNext
  setting,     \* the settings in memory: [columns, unit]
  row,         \* the row of the settings table, NoRow without one
  task,        \* what each goroutine is doing
  stamp,       \* stamps given to rows so far (created_at, updated_at)
  faults, crashes,
  promised,    \* history: what a caller was told of each row: its stamp, Gone, or Nothing
  halfway,     \* history: tables whose file was once imported and then not renamed
  latest,      \* history: the settings last written to memory, or loaded
  settingsCut  \* history: the row was lost between DELETE and INSERT, or a statement failed

counters == <<stamp, faults, crashes>>
history  == <<promised, halfway, latest, settingsCut>>
vars == <<deployment, phase, boot, importing, mem, disk, file, next, setting, row, task, stamp,
          faults, crashes, promised, halfway, latest, settingsCut>>

NoRow   == -1
Gone    == -1
Nothing == 0

Idle == [op |-> "idle"]

-------------------------------------------------------------------------------
(* Rows and tables                                                         *)

(* born tells rows apart that have the same ID: a row, and one that got the ID of a deleted row. *)
Row == [id: Nat \ {0}, key: Keys \union {NoKey} \union Nat, born: Nat, stamp: Nat]

(* The constraints of the table: a primary key, and a unique column in all but one. *)
Savable(t, rows) ==
  \A i, j \in DOMAIN rows :
    i # j => rows[i].id # rows[j].id /\ (t = "channels" \/ rows[i].key # rows[j].key)

IdsOf(rows)   == {r.id : r \in Range(rows)}
BornsOf(rows) == {r.born : r \in Range(rows)}

(* No two rows were born together. *)
Distinct(rows) == \A i, j \in DOMAIN rows : rows[i].born = rows[j].born => i = j

(* The rows in the JSON file of an older version; without it there are none. *)
Filed(f) == IF f.at = "json" THEN Range(f.rows) ELSE {}

FoundIn(d, t) == Range(d.rows[t]) \union Filed(d.files[t])

(* A row that is found was born, and last stamped, before. *)
Stamped(r) == r.stamp <= Found /\ r.born \in 1 .. r.stamp

(* A start finds tables that the database let be saved, and files with other rows than those. *)
FoundTable(d, t) ==
  /\ d.files[t].rows \in Seq(Row)
  /\ Distinct(d.files[t].rows)
  /\ \A r \in Filed(d.files[t]) : Stamped(r)
  /\ \A r \in Range(d.rows[t]), f \in Filed(d.files[t]) : r.born # f.born

(* A redemption code is its row's ID, made up with the row. *)
Coded(r) == r.id = r.born /\ (r.key \in Nat => r.key = r.born)

ASSUME DeploymentAssumption ==
  \A d \in Deployments :
    /\ d.tables \subseteq Tables \union {"settings"} /\ d.tables \subseteq DOMAIN d.files
    /\ d.root \in BOOLEAN
    /\ d.rows \in [Tables -> Seq(Row)]
    /\ d.files \in [DOMAIN d.files -> [at : {"json", "none"}, rows : {d.files[u].rows : u \in DOMAIN d.files}]]
    /\ \A t \in Tables : /\ Savable(t, d.rows[t]) /\ Distinct(d.rows[t])
                         /\ \A r \in Range(d.rows[t]) : Stamped(r)
    /\ \A t \in d.tables \ {"settings"} : FoundTable(d, t)
    /\ \A t, u \in d.tables \ {"settings"} :
         \A r \in FoundIn(d, t), s \in FoundIn(d, u) : r.born = s.born => t = u
    /\ "redemptions" \in d.tables => \A r \in FoundIn(d, "redemptions") : Coded(r)
    /\ "settings" \in d.tables =>
         /\ d.files["settings"].rows \in Seq(Nat)
         /\ d.files["settings"].at = "json" => d.files["settings"].rows # <<>>

(* The next ID is one more than the greatest one loaded: the ID of a deleted last row returns. *)
NextId(rows) == Max(IdsOf(rows) \union {0}) + 1

CanFail == faults < MaxFaults

(* Slip: no transaction. *)
SaveInPieces(t, rows, ok) ==
  /\ mem' = [mem EXCEPT ![t] = rows]
  /\ disk' = [disk EXCEPT ![t] = IF ok THEN rows ELSE <<>>]
  /\ IF ok THEN Savable(t, rows) /\ UNCHANGED faults
           ELSE \/ ~Savable(t, rows) /\ UNCHANGED faults
                \/ Savable(t, rows) /\ CanFail /\ faults' = faults + 1

(* A transaction that deletes all rows and inserts the slice. *)
Save(t, rows, ok) ==
  /\ mem' = [mem EXCEPT ![t] = rows]
  /\ disk' = [disk EXCEPT ![t] = IF ok THEN rows ELSE @]
  /\ IF ok THEN Savable(t, rows) /\ UNCHANGED faults
           ELSE \/ ~Savable(t, rows) /\ UNCHANGED faults
                \/ Savable(t, rows) /\ CanFail /\ faults' = faults + 1

(* The caller is told of the edit of row b, or told that it failed, and then knows nothing. *)
Tell(b, what, ok) == promised' = [promised EXCEPT ![b] = IF ok THEN what ELSE Nothing]

Serving(t) == phase = "up" /\ t \in deployment.tables

CanEdit == stamp < MaxEdits

Stamp == stamp + 1

(* What an edit of a table leaves alone. *)
Frame == UNCHANGED <<deployment, phase, boot, importing, file, setting, row, crashes, halfway,
                     latest, settingsCut>>

-------------------------------------------------------------------------------
(* Edits                                                                   *)

Append1(t, id, key) ==
  /\ stamp' = Stamp
  /\ \E ok \in BOOLEAN :
       /\ Save(t, Append(mem[t], [id |-> id, key |-> key, born |-> Stamp, stamp |-> Stamp]), ok)
       /\ Tell(Stamp, Stamp, ok)

(* A route: the ID is the next one, the prefix is what the administrator typed. *)
InsertRoute ==
  /\ Serving("routes") /\ CanEdit
  /\ \E k \in Keys : Append1("routes", next["routes"], k)
  /\ next' = [next EXCEPT !["routes"] = @ + 1]
  /\ UNCHANGED task /\ Frame

InsertChannel ==
  /\ Serving("channels") /\ CanEdit
  /\ Append1("channels", next["channels"], NoKey)
  /\ next' = [next EXCEPT !["channels"] = @ + 1]
  /\ UNCHANGED task /\ Frame

(* Slip: not looked up. *)
NameIsTakenNever(k, except) == FALSE

(* An account: the name is looked up in the same critical section. *)
NameIsTaken(k, except) == \E r \in Range(mem["users"]) : r.key = k /\ r.id # except

CreateUser ==
  /\ Serving("users") /\ CanEdit
  /\ \E k \in Keys : ~NameIsTaken(k, 0) /\ Append1("users", next["users"], k)
  /\ next' = [next EXCEPT !["users"] = @ + 1]
  /\ UNCHANGED task /\ Frame

(* A token: the key is the caller's, or a random one; it is not looked up. *)
InsertToken(k) == Append1("tokens", Stamp, k)

CreateToken ==
  /\ Serving("tokens") /\ CanEdit
  /\ \E k \in Keys \union {Stamp} : InsertToken(k)
  /\ UNCHANGED <<task, next>> /\ Frame

(* A batch of tokens is inserted one by one; the first failure ends it, and the keys made so far *)
(* are not reported.                                                                             *)
BatchStart(w) ==
  /\ Serving("tokens") /\ CanEdit /\ task[w] = Idle
  /\ task' = [task EXCEPT ![w] = [op |-> "batch", left |-> 2]]
  /\ UNCHANGED <<mem, disk, next, stamp, faults, promised>> /\ Frame

BatchInsert(w) ==
  /\ phase = "up" /\ task[w].op = "batch" /\ CanEdit
  /\ stamp' = Stamp
  /\ \E ok \in BOOLEAN :
       /\ Save("tokens", Append(mem["tokens"], [id |-> Stamp, key |-> Stamp, born |-> Stamp,
                                                stamp |-> Stamp]), ok)
       /\ Tell(Stamp, Stamp, ok)
       /\ task' = [task EXCEPT ![w] = IF ok /\ @.left > 1 THEN [op |-> "batch", left |-> @.left - 1]
                                      ELSE Idle]
  /\ UNCHANGED next /\ Frame

(* Codes are made by the dozen and saved once. *)
CreateRedemptions ==
  /\ Serving("redemptions") /\ stamp + 2 <= MaxEdits
  /\ \E count \in 1 .. 2, ok \in BOOLEAN :
       LET new == [i \in 1 .. count |-> [id |-> stamp + i, key |-> stamp + i,
                                         born |-> stamp + i, stamp |-> stamp + i]]
       IN  /\ stamp' = stamp + count
           /\ Save("redemptions", mem["redemptions"] \o new, ok)
           /\ promised' = [b \in DOMAIN promised |->
                             IF ok /\ b \in BornsOf(new) THEN b ELSE promised[b]]
  /\ UNCHANGED <<next, task>> /\ Frame

(* An edit that replaces the columns of row i; a new key where the table lets one be given. *)
Replace(t, i, key) ==
  /\ stamp' = Stamp
  /\ \E ok \in BOOLEAN :
       /\ Save(t, [mem[t] EXCEPT ![i] = [@ EXCEPT !.key = key, !.stamp = Stamp]], ok)
       /\ Tell(mem[t][i].born, Stamp, ok)

NewKeys(t, r) ==
  CASE t \in {"routes", "tokens"} -> Keys \union {r.key}
    [] t = "users"                -> {k \in Keys \union {r.key} : ~NameIsTaken(k, r.id)}
    [] t \in {"channels", "redemptions"} -> {r.key}

Update(t) ==
  /\ Serving(t) /\ CanEdit
  /\ \E i \in DOMAIN mem[t] : \E k \in NewKeys(t, mem[t][i]) : Replace(t, i, k)
  /\ UNCHANGED <<next, task>> /\ Frame

UpdateRoute == Update("routes")
UpdateToken == Update("tokens")
UpdateChannel == Update("channels")
UpdateUser  == Update("users")
Redeem      == Update("redemptions")

(* A charge: what the save returns is dropped, and nobody is told. *)
Charge(t) ==
  /\ Serving(t) /\ CanEdit
  /\ \E i \in DOMAIN mem[t], ok \in BOOLEAN :
       Save(t, [mem[t] EXCEPT ![i].stamp = Stamp], ok)
  /\ stamp' = Stamp
  /\ UNCHANGED <<next, task, promised>> /\ Frame

UseToken    == Charge("tokens")
AddUserUsed == Charge("users")

(* DeleteUser refuses an account whose role is root.  Rows have no role here, and UpdateUser may *)
(* change it: any account may be one that can be deleted.                                       *)
DeleteRow(t) ==
  /\ Serving(t) /\ CanEdit
  /\ \E i \in DOMAIN mem[t], ok \in BOOLEAN :
       /\ Save(t, RemoveAt(mem[t], i), ok)
       /\ Tell(mem[t][i].born, Gone, ok)
  /\ stamp' = Stamp
  /\ UNCHANGED <<next, task>> /\ Frame

DeleteRoute   == DeleteRow("routes")
DeleteToken   == DeleteRow("tokens")
DeleteChannel == DeleteRow("channels")
DeleteUser    == DeleteRow("users")

-------------------------------------------------------------------------------
(* Channels that are read, kept during a call to the upstream, and written *)

(* The channel with the ID of the copy becomes the copy; without one the caller gets an error. *)
PutChannel(c) ==
  IF c.id \in IdsOf(mem["channels"])
  THEN LET i == CHOOSE j \in DOMAIN mem["channels"] : mem["channels"][j].id = c.id
       IN  Replace("channels", i, NoKey)
  ELSE UNCHANGED <<mem, disk, stamp, faults, promised>>

(* A synchronisation copies the channels first, then asks each upstream for its models and writes *)
(* the copy back; a batch copies each channel just before it writes it.                           *)
SyncStart(w) ==
  /\ Serving("channels") /\ CanEdit /\ task[w] = Idle /\ mem["channels"] # <<>>
  /\ \E copies \in {mem["channels"]} \union {<<c>> : c \in Range(mem["channels"])} :
       task' = [task EXCEPT ![w] = [op |-> "sync", copies |-> copies]]
  /\ UNCHANGED <<mem, disk, next, stamp, faults, promised>> /\ Frame

SyncWrite(w) ==
  /\ phase = "up" /\ task[w].op = "sync" /\ CanEdit
  /\ \/ PutChannel(Head(task[w].copies))
     \/ UNCHANGED <<mem, disk, stamp, faults, promised>>   \* the upstream did not answer
  /\ task' = [task EXCEPT ![w] = IF Len(@.copies) > 1 THEN [op |-> "sync", copies |-> Tail(@.copies)]
                                                      ELSE Idle]
  /\ UNCHANGED next /\ Frame

-------------------------------------------------------------------------------
(* Settings                                                                *)

Savers == {w \in Workers : task[w].op = "insert"}

Pending == {w \in Workers : task[w].op \in {"save", "insert"}}

(* Slip: the row is replaced without the read lock. *)
SettingsAlwaysFree == TRUE

(* The write lock waits for those that hold the read lock, which a saver does. *)
SettingsFree == Savers = {}

UpdateSetting(w) ==
  /\ Serving("settings") /\ CanEdit /\ task[w] = Idle /\ SettingsFree
  /\ stamp' = Stamp
  /\ \E u \in Units : setting' = [columns |-> Stamp, unit |-> u]
  /\ latest' = setting'
  /\ task' = [task EXCEPT ![w] = [op |-> "save", patched |-> Stamp]]
  /\ UNCHANGED <<deployment, phase, boot, importing, mem, disk, file, next, row, faults, crashes,
                 promised, halfway, settingsCut>>

(* What is saved is what memory holds when the saver has the read lock. *)
Columns(w) == setting.columns

DeleteSettings(w) ==
  /\ phase = "up" /\ task[w].op = "save"
  /\ \/ /\ row' = NoRow
        /\ task' = [task EXCEPT ![w] = [op |-> "insert", columns |-> Columns(w)]]
        /\ UNCHANGED <<faults, settingsCut>>
     \/ /\ CanFail /\ faults' = faults + 1
        /\ settingsCut' = TRUE
        /\ task' = [task EXCEPT ![w] = Idle]
        /\ UNCHANGED row
  /\ UNCHANGED <<deployment, phase, boot, importing, mem, disk, file, next, setting, stamp,
                 crashes, promised, halfway, latest>>

(* The error is dropped: a row that another saver has put back, or a statement that fails. *)
InsertSettings(w) ==
  /\ phase = "up" /\ task[w].op = "insert"
  /\ \/ /\ row = NoRow
        /\ row' = task[w].columns /\ settingsCut' = FALSE
        /\ UNCHANGED faults
     \/ /\ row # NoRow
        /\ UNCHANGED <<row, faults, settingsCut>>
     \/ /\ row = NoRow /\ CanFail /\ faults' = faults + 1
        /\ settingsCut' = TRUE
        /\ UNCHANGED row
  /\ task' = [task EXCEPT ![w] = Idle]
  /\ UNCHANGED <<deployment, phase, boot, importing, mem, disk, file, next, setting, stamp,
                 crashes, promised, halfway, latest>>

-------------------------------------------------------------------------------
(* Start                                                                   *)

(* The stores are initialised one after the other. *)
First(t) == t \in boot /\ \A u \in boot : Place(t) <= Place(u)

Starting(t) == phase = "boot" /\ First(t)

Loading(t) == Starting(t) /\ importing = "no"

FirstPhase(left) == IF left = {} THEN "up" ELSE "boot"

(* With the last store the gateway serves. *)
Done(t) == boot' = boot \ {t} /\ phase' = FirstPhase(boot') /\ importing' = "no"

(* The slice is loaded. *)
Loaded(t, rows) ==
  /\ mem' = [mem EXCEPT ![t] = rows]
  /\ next' = [next EXCEPT ![t] = NextId(rows)]
  /\ Done(t)

NotYetLoaded == UNCHANGED <<mem, next, boot, phase>>

LoadTable(t) ==
  /\ Loading(t) /\ t \in Tables
  /\ disk[t] # <<>>
  /\ Loaded(t, disk[t])
  /\ UNCHANGED <<deployment, disk, file, setting, row, task, promised, halfway, latest, settingsCut>>
  /\ UNCHANGED counters

(* An empty table takes the rows of the JSON file; a file that cannot be saved is passed over. *)
MigrateTable(t) ==
  /\ Loading(t) /\ t \in Tables
  /\ disk[t] = <<>> /\ file[t].at = "json"
  /\ \/ /\ Savable(t, file[t].rows)
        /\ disk' = [disk EXCEPT ![t] = file[t].rows]
        /\ importing' = "saved"
        /\ UNCHANGED faults
     \/ /\ ~Savable(t, file[t].rows) \/ CanFail
        /\ faults' = IF Savable(t, file[t].rows) THEN faults + 1 ELSE faults
        /\ importing' = "over"
        /\ UNCHANGED disk
  /\ NotYetLoaded
  /\ UNCHANGED <<deployment, file, setting, row, task, stamp, crashes, promised, halfway, latest,
                 settingsCut>>

(* The file is renamed, or stays when that fails. *)
RenameJSONToBak(t) ==
  \/ /\ file' = [file EXCEPT ![t].at = "bak"]
     /\ UNCHANGED <<halfway, faults>>
  \/ /\ CanFail /\ faults' = faults + 1
     /\ halfway' = halfway \union {t}
     /\ UNCHANGED file

(* Then the table is loaded, if the file had a row. *)
RenameTable(t) ==
  /\ Starting(t) /\ importing = "saved" /\ t \in Tables
  /\ RenameJSONToBak(t)
  /\ \/ disk[t] # <<>> /\ Loaded(t, disk[t])
     \/ disk[t] = <<>> /\ importing' = "over" /\ NotYetLoaded
  /\ UNCHANGED <<deployment, disk, setting, row, task, stamp, crashes, promised, latest,
                 settingsCut>>

(* No row, and nothing more to import: nothing, or the first root of INIT_ROOT_USER. *)
StartEmpty(t) ==
  /\ Starting(t) /\ t \in Tables
  /\ disk[t] = <<>>
  /\ importing = "over" \/ (importing = "no" /\ file[t].at # "json")
  /\ \/ /\ ~(t = "users" /\ deployment.root)
        /\ Loaded(t, <<>>)
        /\ UNCHANGED <<disk, stamp, faults, promised>>
     \/ /\ t = "users" /\ deployment.root /\ CanEdit
        /\ \E k \in Keys : Append1(t, 1, k)
        /\ next' = [next EXCEPT ![t] = 2]
        /\ boot' = boot \ {t} /\ importing' = "no"
        /\ phase' = IF disk'[t] = <<>> THEN "fatal" ELSE FirstPhase(boot')
  /\ UNCHANGED <<deployment, file, setting, row, task, crashes, halfway, latest, settingsCut>>

(* The columns are loaded; quota_unit is none of them. *)
Load(columns) ==
  /\ setting' = [columns |-> columns, unit |-> DefaultUnit]
  /\ latest' = IF settingsCut THEN setting' ELSE latest
  /\ settingsCut' = FALSE

LoadSettings ==
  /\ Loading("settings")
  /\ row # NoRow
  /\ Load(row) /\ Done("settings")
  /\ UNCHANGED <<deployment, mem, disk, file, next, row, task, promised, halfway>>
  /\ UNCHANGED counters

(* Without a row: the file's settings, or the defaults, are inserted. *)
DefaultSettings ==
  /\ Loading("settings")
  /\ row = NoRow
  /\ LET columns == IF file["settings"].at = "json" THEN Head(file["settings"].rows) ELSE 0
     IN  \/ /\ row' = columns
            /\ IF file["settings"].at = "json"
               THEN /\ importing' = "saved"
                    /\ UNCHANGED <<setting, latest, settingsCut, boot, phase>>
               ELSE Load(columns) /\ Done("settings")
            /\ UNCHANGED faults
         \/ /\ CanFail /\ faults' = faults + 1
            /\ phase' = "fatal"
            /\ UNCHANGED <<row, importing, setting, latest, settingsCut, boot>>
  /\ UNCHANGED <<deployment, mem, disk, file, next, task, stamp, crashes, promised, halfway>>

RenameSettings ==
  /\ Starting("settings") /\ importing = "saved"
  /\ RenameJSONToBak("settings")
  /\ Load(row) /\ Done("settings")
  /\ UNCHANGED <<deployment, mem, disk, next, row, task, stamp, crashes, promised>>

-------------------------------------------------------------------------------
(* A crash loses the slices and what the goroutines were doing; log.Fatal ends the process too, *)
(* and it is started again.                                                                     *)
Restart ==
  /\ boot' = deployment.tables /\ phase' = FirstPhase(boot') /\ importing' = "no"
  /\ mem' = [t \in Tables |-> <<>>]
  /\ next' = [t \in Tables |-> 1]
  /\ setting' = [columns |-> 0, unit |-> DefaultUnit]
  /\ task' = [w \in Workers |-> Idle]
  /\ settingsCut' = (settingsCut \/ Pending # {})
  /\ halfway' = IF importing = "saved" THEN halfway \union {t \in boot : First(t)} ELSE halfway
  /\ UNCHANGED <<deployment, disk, file, row, stamp, faults, promised, latest>>

Crash ==
  /\ crashes < MaxCrashes /\ crashes' = crashes + 1
  /\ Restart

(* Rows that an earlier version has left behind. *)
OnRecord(t) == Range(disk[t]) \union Filed(file[t])

Init ==
  /\ deployment \in Deployments
  /\ boot = deployment.tables /\ phase = FirstPhase(boot) /\ importing = "no"
  /\ mem = [t \in Tables |-> <<>>]
  /\ disk = deployment.rows
  /\ file = deployment.files
  /\ next = [t \in Tables |-> 1]
  /\ setting = [columns |-> 0, unit |-> DefaultUnit]
  /\ row = NoRow
  /\ task = [w \in Workers |-> Idle]
  /\ stamp = Found /\ faults = 0 /\ crashes = 0
  /\ promised = [b \in 1 .. MaxEdits |->
                   IF \E t \in deployment.tables \ {"settings"} : \E r \in OnRecord(t) : r.born = b
                   THEN b ELSE Nothing]
  /\ halfway = {}
  /\ latest = setting /\ settingsCut = TRUE

Edit ==
  \/ InsertRoute \/ UpdateRoute \/ DeleteRoute
  \/ InsertChannel \/ UpdateChannel \/ DeleteChannel
  \/ CreateUser \/ UpdateUser \/ DeleteUser \/ AddUserUsed
  \/ CreateToken \/ UpdateToken \/ DeleteToken \/ UseToken
  \/ CreateRedemptions \/ Redeem

Step(w) ==
  \/ BatchStart(w) \/ BatchInsert(w)
  \/ SyncStart(w) \/ SyncWrite(w)
  \/ UpdateSetting(w) \/ DeleteSettings(w) \/ InsertSettings(w)

Start ==
  \/ \E t \in Tables : LoadTable(t) \/ MigrateTable(t) \/ RenameTable(t) \/ StartEmpty(t)
  \/ LoadSettings \/ DefaultSettings \/ RenameSettings

Next == Edit \/ Start \/ Crash \/ \E w \in Workers : Step(w)

Spec == Init /\ [][Next]_vars

-------------------------------------------------------------------------------
(* Properties                                                              *)

(* Rows, positions in the order of the start, and stamps are what they are said to be. *)
TypeOK ==
  /\ phase \in {"boot", "up", "fatal"} /\ importing \in {"no", "saved", "over"}
  /\ boot \subseteq deployment.tables /\ (phase = "up" => boot = {})
  /\ \A t \in Tables : Range(mem[t]) \union Range(disk[t]) \subseteq Row /\ next[t] \in Nat
  /\ \A t \in DOMAIN file : file[t].at \in {"json", "bak", "none"}
  /\ setting \in [columns: Nat, unit: Units] /\ row \in Nat \union {NoRow}
  /\ stamp \in Found .. MaxEdits /\ faults \in 0 .. MaxFaults /\ crashes \in 0 .. MaxCrashes

Stored == deployment.tables \ {"settings"}

(* A row of an older version, and an edit that was answered with success, is on disk in that *)
(* version or in a later one, or still in the JSON file, whatever saves have failed since and *)
(* however often the process has crashed.                                                     *)
KeptRows ==
  \A b \in DOMAIN promised :
    promised[b] > 0 => \E t \in Stored : \E r \in OnRecord(t) :
                         r.born = b /\ r.stamp >= promised[b]

(* A row whose deletion was answered with success does not return: no copy a goroutine held puts *)
(* it back, and no start imports it again, except after a crash between the import of its file   *)
(* and the renaming of it.                                                                       *)
DeletedRows ==
  \A t \in Stored \ halfway : \A r \in Range(mem[t]) \union Range(disk[t]) :
    promised[r.born] # Gone

(* What a caller was told of a row is what the next start finds. *)
AnswersKept == KeptRows /\ DeletedRows

(* Where IDs and keys are the gateway's own or are looked up, the slice never gets into a state *)
(* that no save can write: one failing save does not make all later ones fail.                  *)
NeverPoisoned ==
  \A t \in Stored \intersect {"channels", "users", "redemptions"} : Savable(t, mem[t])

(* The columns of settings that are not being saved are on disk as they were last changed,       *)
(* whatever order the savers ran in, unless a statement failed or a crash came amid a save; and a *)
(* restart comes back to those columns.  This is said of the columns of the row only: quota_unit, *)
(* which UpdateSetting changes in memory, is none of them, and a restart forgets it.             *)
SettingsKept ==
  /\ ~settingsCut /\ Pending = {} => row = latest.columns
  /\ "settings" \in deployment.tables \ boot => setting.columns = latest.columns

===============================================================================
