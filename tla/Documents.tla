------------------------------- MODULE Documents -------------------------------
(***************************************************************************)
(* What the process keeps beside the tables of Store, loaded at its first  *)
(* use and not at the start: documents, each one row of JSON with a copy   *)
(* in memory (the site's texts, the prices of models), and journals that   *)
(* are only appended to and cleared (audits, billing).                     *)
(*                                                                         *)
(* Each imports the file of an older version.  The first use happens in a  *)
(* request, under the mutex of the document or the journal, beside other   *)
(* requests; unlike in Store, a read of the database may fail.             *)
(***************************************************************************)
EXTENDS Store

CONSTANTS
  Items,       \* what a document has or has not: texts of the site, models with a price
  NoDoc        \* no row

Ascending(s) == \A i, j \in DOMAIN s : i < j => s[i] < s[j]

\* What a start finds of a document or a journal: the file holds what it had, in its order.
ASSUME DocumentAssumption ==
  /\ \A s \in SUBSET Items : s # NoDoc
  /\ \A d \in Deployments :
       /\ d.keeps \in {"none", "site", "prices", "audits", "billing"}
       /\ d.docRow = NoDoc \/ d.docRow \subseteq Items
       /\ d.keeps # "none" => d.keeps \in DOMAIN d.files
       /\ d.keeps \in {"site", "prices"} /\ d.files[d.keeps].at = "json" =>
            d.files[d.keeps].rows \subseteq Items
       /\ d.keeps \in {"audits", "billing"} /\ d.files[d.keeps].at = "json" =>
            d.files[d.keeps].rows \in Seq(1 .. Found) /\ Ascending(d.files[d.keeps].rows)

VARIABLES
  docMem,      \* siteConfig, modelPrices
  docLoaded,   \* siteLoaded, modelPricesOk
  docRow,      \* the row of the table
  journal,     \* the rows of the table, in the order of their IDs
  once,        \* auditMigrateOnce, billingMigrateOnce have run
  expected,    \* history: what the requests that were answered with success add up to
  excused,     \* history: a read or a save of the document failed, or a crash cut one or an import
  written,     \* history: records that reached the journal
  cleared      \* history: records that were cleared away

docVars == <<docMem, docLoaded, docRow, expected, excused>>
logVars == <<journal, once, written, cleared>>

\* Store's variables that no step of this module changes.
rest == <<deployment, phase, boot, importing, mem, disk, next, setting, row, crashes, promised,
          latest, settingsCut>>

\* The document or journal of this instance, and the file of its older version.
Kind == deployment.keeps
Old  == file[Kind]

IsDocument == Kind \in {"site", "prices"}
IsJournal  == Kind \in {"audits", "billing"}

Do(w, op) == phase = "up" /\ task[w].op = op

Become(w, t) == task' = [task EXCEPT ![w] = t]
GoTo(w, op)  == Become(w, [task[w] EXCEPT !.op = op])

Fault == CanFail /\ faults' = faults + 1

-------------------------------------------------------------------------------
(* Documents                                                               *)

\* siteMu, modelPricesMu: held from the look at the row to the renaming of the file, and
\* during a save.
Locked == \E w \in Workers : task[w].op \in {"look", "migrate", "saveDoc", "insertDoc", "rename"}

\* put: a request that changes the document; adds: the prices it imports; file: what is
\* saved comes from the file; fresh: nobody has saved since the document was read.
Call(op, put, adds, value) ==
  [op |-> op, put |-> put, adds |-> adds, value |-> value, file |-> FALSE, fresh |-> TRUE]

docRest == <<file, halfway>>

\* A document that is in memory is only copied.
GetDoc(w, adds) ==
  /\ phase = "up" /\ task[w] = Idle /\ ~Locked
  /\ \/ ~docLoaded /\ Become(w, Call("look", FALSE, adds, {}))
     \/ docLoaded /\ adds # {} /\ Become(w, Call("merge", FALSE, adds, docMem))
  /\ UNCHANGED <<docRest, rest, stamp, faults, docVars, logVars>>

GetSite(w)        == Kind = "site" /\ GetDoc(w, {})
GetModelPrices(w) == Kind = "prices" /\ GetDoc(w, {})
ModelsImport(w)   == Kind = "prices" /\ \E s \in SUBSET Items : s # {} /\ GetDoc(w, s)

\* The document, or an empty one if it could not be had, goes to who asked for it.
Return(w, value) ==
  Become(w, IF task[w].adds = {} THEN Idle ELSE Call("merge", FALSE, task[w].adds, value))

\* A failed read is no row to the site and an error to the prices.
Look(w) ==
  /\ Do(w, "look")
  /\ \/ /\ docRow # NoDoc
        /\ docMem' = docRow /\ docLoaded' = TRUE
        /\ Return(w, docRow)
        /\ UNCHANGED <<faults, excused>>
     \/ /\ docRow = NoDoc /\ GoTo(w, "migrate")
        /\ UNCHANGED <<docMem, docLoaded, faults, excused>>
     \/ /\ Fault /\ excused' = (excused \/ Kind = "site" \/ task[w].adds # {})
        /\ IF Kind = "site" THEN GoTo(w, "migrate") ELSE Return(w, {})
        /\ UNCHANGED <<docMem, docLoaded>>
  /\ UNCHANGED <<docRest, rest, stamp, docRow, expected, logVars>>

\* Slip: what the file says is not taken.
MigrateNothing(w) ==
  /\ Do(w, "migrate")
  /\ docMem' = {} /\ docLoaded' = TRUE
  /\ GoTo(w, "saveDoc")
  /\ UNCHANGED <<docRest, rest, stamp, faults, docRow, expected, excused, logVars>>

\* The file's document, or an empty one, is put in memory to be saved.
Migrate(w) ==
  /\ Do(w, "migrate")
  /\ docMem' = (IF Old.at = "json" THEN Old.rows ELSE {}) /\ docLoaded' = TRUE
  /\ Become(w, [task[w] EXCEPT !.op = "saveDoc", !.file = Old.at = "json"])
  /\ UNCHANGED <<docRest, rest, stamp, faults, docRow, expected, excused, logVars>>

\* The file is renamed when it is saved; a save of an empty document is not looked at.
Saved(w) ==
  /\ CASE task[w].file -> GoTo(w, "rename")
       [] task[w].put  -> Become(w, Idle)
       [] OTHER        -> Return(w, docMem)
  /\ IF task[w].put
     THEN /\ expected' = IF task[w].adds # {} /\ task[w].fresh /\ ~excused
                         THEN expected \union task[w].adds ELSE docMem
          /\ excused' = FALSE
     ELSE UNCHANGED <<expected, excused>>
  /\ UNCHANGED <<docMem, faults>>

\* The site is then left empty, and that is saved; the prices stay in memory, and who
\* asked for them gets an error.
SaveFailed(w) ==
  /\ Fault /\ excused' = TRUE
  /\ IF task[w].file /\ Kind = "site"
     THEN /\ docMem' = {}
          /\ Become(w, [task[w] EXCEPT !.op = "saveDoc", !.file = FALSE])
     ELSE /\ IF task[w].put THEN Become(w, Idle) ELSE Return(w, IF task[w].file THEN {} ELSE docMem)
          /\ UNCHANGED docMem
  /\ UNCHANGED expected

\* saveSite is one transaction; the prices are deleted and inserted without one.
SaveDoc(w) ==
  /\ Do(w, "saveDoc")
  /\ \/ Kind = "site" /\ docRow' = docMem /\ Saved(w)
     \/ /\ Kind = "prices" /\ docRow' = NoDoc /\ GoTo(w, "insertDoc")
        /\ UNCHANGED <<docMem, faults, expected, excused>>
     \/ SaveFailed(w) /\ UNCHANGED docRow
  /\ UNCHANGED <<docRest, rest, stamp, docLoaded, logVars>>

InsertDoc(w) ==
  /\ Do(w, "insertDoc")
  /\ \/ docRow' = docMem /\ Saved(w)
     \/ SaveFailed(w) /\ UNCHANGED docRow
  /\ UNCHANGED <<docRest, rest, stamp, docLoaded, logVars>>

RenameDoc(w) ==
  /\ Do(w, "rename")
  /\ RenameJSONToBak(Kind)
  /\ Return(w, docMem)
  /\ UNCHANGED <<rest, stamp, docVars, logVars>>

\* SaveSite and SaveModelPrices: the value is in memory before it is saved, and stays there.
PutDoc(w, adds, value) ==
  /\ ~Locked /\ CanEdit /\ stamp' = Stamp
  /\ docMem' = value /\ docLoaded' = TRUE
  /\ task' = [v \in Workers |->
                CASE v = w                                -> [Call("saveDoc", TRUE, adds, {}) EXCEPT !.fresh =
                                                                adds # {} /\ task[w].fresh]
                  [] v # w /\ task[v].op = "merge"        -> [task[v] EXCEPT !.fresh = FALSE]
                  [] OTHER                                -> task[v]]
  /\ UNCHANGED <<docRest, rest, faults, docRow, expected, excused, logVars>>

SiteOrModelsPut(w) ==
  phase = "up" /\ IsDocument /\ task[w] = Idle /\ \E value \in SUBSET Items : PutDoc(w, {}, value)

ModelsMerge(w) == Do(w, "merge") /\ PutDoc(w, task[w].adds, task[w].value \union task[w].adds)

-------------------------------------------------------------------------------
(* Journals                                                                *)

\* auditMu, billingMu, and the Once that goroutines with a read lock wait for.
JournalLocked == \E w \in Workers : task[w].op \in {"count", "import", "renameLog", "append"}

journalRest == <<rest, docVars>>

\* then: what follows the Once, if anything: an entry, or an entry and the clearing.
JournalStart(w, then) ==
  /\ phase = "up" /\ IsJournal /\ task[w] = Idle /\ ~JournalLocked
  /\ Become(w, [op |-> IF once THEN "append" ELSE "count", then |-> then])
  /\ UNCHANGED <<file, halfway, stamp, faults, journalRest, logVars>>

AppendEntry(w) == JournalStart(w, "append")
LoadEntries(w) == ~once /\ JournalStart(w, "load")
AuditClear(w)  == Kind = "audits" /\ JournalStart(w, "clear")

AfterOnce(w) == Become(w, IF task[w].then = "load" THEN Idle ELSE [task[w] EXCEPT !.op = "append"])

\* Slip: whether there are rows is not asked.
CountRowsUnasked(w) ==
  /\ Do(w, "count")
  /\ \/ /\ Old.at = "json"
        /\ Become(w, [op |-> "import", then |-> task[w].then, left |-> Old.rows])
        /\ UNCHANGED <<once, faults>>
     \/ /\ Old.at # "json" /\ UNCHANGED faults
        /\ once' = TRUE /\ AfterOnce(w)
  /\ UNCHANGED <<file, halfway, stamp, journalRest, journal, written, cleared>>

\* The Once runs, and has run, whatever it finds: rows, no file, or an error.
CountRows(w) ==
  /\ Do(w, "count")
  /\ \/ /\ journal = <<>> /\ Old.at = "json"
        /\ Become(w, [op |-> "import", then |-> task[w].then, left |-> Old.rows])
        /\ UNCHANGED <<once, faults>>
     \/ /\ \/ (journal # <<>> \/ Old.at # "json") /\ UNCHANGED faults
           \/ Fault
        /\ once' = TRUE /\ AfterOnce(w)
  /\ UNCHANGED <<file, halfway, stamp, journalRest, journal, written, cleared>>

Insert(r) == journal' = Append(journal, r) /\ written' = written \union {r}

\* An entry that cannot be inserted is passed over.
ImportEntry(w) ==
  /\ Do(w, "import") /\ task[w].left # <<>>
  /\ \/ Insert(Head(task[w].left)) /\ UNCHANGED faults
     \/ Fault /\ UNCHANGED <<journal, written>>
  /\ Become(w, [task[w] EXCEPT !.left = Tail(@)])
  /\ UNCHANGED <<file, halfway, stamp, journalRest, once, cleared>>

RenameJournal(w) ==
  /\ Do(w, "import") /\ task[w].left = <<>>
  /\ RenameJSONToBak(Kind)
  /\ once' = TRUE /\ AfterOnce(w)
  /\ UNCHANGED <<stamp, journalRest, journal, written, cleared>>

\* The error of an entry is dropped by whoever writes one, and the clearing goes on.
InsertEntry(w) ==
  /\ Do(w, "append") /\ CanEdit /\ stamp' = Stamp
  /\ \/ Insert(Stamp) /\ UNCHANGED faults
     \/ Fault /\ UNCHANGED <<journal, written>>
  /\ Become(w, IF task[w].then = "clear" THEN [task[w] EXCEPT !.op = "clear"] ELSE Idle)
  /\ UNCHANGED <<file, halfway, journalRest, once, cleared>>

\* ClearAudits takes the lock again: entries may have come in between.
ClearEntries(w) ==
  /\ Do(w, "clear") /\ ~JournalLocked
  /\ \/ /\ journal' = <<>> /\ cleared' = cleared \union Range(journal)
        /\ UNCHANGED faults
     \/ Fault /\ UNCHANGED <<journal, cleared>>
  /\ Become(w, Idle)
  /\ UNCHANGED <<file, halfway, stamp, journalRest, once, written>>

-------------------------------------------------------------------------------
(* One process                                                             *)

ProcessInit ==
  /\ Init
  /\ docMem = {} /\ docLoaded = FALSE
  /\ docRow = deployment.docRow
  /\ journal = <<>> /\ once = FALSE
  /\ expected = IF docRow # NoDoc THEN docRow ELSE IF IsDocument /\ Old.at = "json" THEN Old.rows ELSE {}
  /\ excused = FALSE /\ written = {} /\ cleared = {}

DocStep(w) ==
  \/ GetSite(w) \/ GetModelPrices(w) \/ ModelsImport(w) \/ SiteOrModelsPut(w) \/ ModelsMerge(w)
  \/ Look(w) \/ Migrate(w) \/ SaveDoc(w) \/ InsertDoc(w) \/ RenameDoc(w)
  \/ AppendEntry(w) \/ LoadEntries(w) \/ AuditClear(w)
  \/ CountRows(w) \/ ImportEntry(w) \/ RenameJournal(w) \/ InsertEntry(w) \/ ClearEntries(w)

\* A crash cuts a save of the prices between its statements, or an import.
DocCrash ==
  /\ docMem' = {} /\ docLoaded' = FALSE /\ once' = FALSE
  /\ excused' = (excused \/ \E w \in Workers : task[w].op \in {"insertDoc", "import"})
  /\ UNCHANGED <<docRow, journal, expected, written, cleared>>

ProcessCrash == Crash /\ DocCrash

ProcessNext ==
  \/ (Edit \/ Start \/ \E w \in Workers : Step(w)) /\ UNCHANGED <<docVars, logVars>>
  \/ ProcessCrash
  \/ \E w \in Workers : DocStep(w)

ProcessSpec == ProcessInit /\ [][ProcessNext]_<<vars, docVars, logVars>>

-------------------------------------------------------------------------------
(* Properties                                                              *)

\* What a start would find.
DocOnDisk == IF docRow # NoDoc THEN docRow ELSE IF Old.at = "json" THEN Old.rows ELSE {}

Putting == \E w \in Workers : task[w].op \in {"saveDoc", "insertDoc"}

\* A document is on disk as its file, the changes answered with success and the imports
\* that nobody ran into add up, and in memory as on disk, whoever loads it first and
\* wherever a start is cut; a failed read or statement is the exception, and a crash
\* between the two statements of the prices.
DocumentsKept ==
  IsDocument /\ ~excused /\ ~Putting =>
    /\ DocOnDisk = expected
    /\ docLoaded => docMem = docRow

\* A journal has each record once and in the order of writing, those of the file before
\* the others; no record that reached it goes but by a clearing, and what was cleared stays
\* away, unless the file was imported and could not be renamed or a crash cut that.
JournalKept ==
  IsJournal =>
    /\ Ascending(journal)
    /\ written \subseteq Range(journal) \union cleared
    /\ ~excused /\ Kind \notin halfway => Range(journal) \intersect cleared = {}

===============================================================================
