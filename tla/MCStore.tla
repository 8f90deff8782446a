-------------------------------- MODULE MCStore --------------------------------
(* Instances of Documents, and Store in it: one table, document or journal each, found empty, *)
(* with rows, or with a file to import.                                                       *)
EXTENDS Documents, TLC

CONSTANTS w1, w2, k1, k2, none, tokens, units, i1, i2

MCTable(r) == [t \in Tables |-> IF t = r.table THEN r.rows ELSE <<>>]

MCRow(t, i, k) == [id |-> i, key |-> IF t = "channels" THEN none ELSE k, born |-> i, stamp |-> i]

MCNoFile == [at |-> "none", rows |-> <<>>]

MCFiles(t, f) == [u \in Tables \union {"settings"} |->
                    IF u = t THEN f ELSE MCNoFile]

(* The rows are on disk. *)
MCOnDisk(t, rows) == [tables |-> {t}, root |-> FALSE, keeps |-> "none", docRow |-> NoDoc, rows |-> MCTable([table |-> t, rows |-> rows]),
                      files |-> MCFiles(t, MCNoFile)]

(* The rows are in the file of an older version. *)
MCInFile(t, rows, root) ==
  [tables |-> {t}, root |-> root, keeps |-> "none", docRow |-> NoDoc, rows |-> MCTable([table |-> t, rows |-> <<>>]),
   files |-> MCFiles(t, [at |-> "json", rows |-> rows])]

(* A document or a journal, with its row and the file of an older version. *)
MCKeeps(kind, r, f) ==
  [tables |-> {}, root |-> FALSE, keeps |-> kind, docRow |-> r,
   rows |-> [t \in Tables |-> <<>>], files |-> kind :> f]

MCDocuments ==
  {MCKeeps(kind, {i1}, MCNoFile) : kind \in {"site", "prices"}}
  \union {MCKeeps(kind, NoDoc, [at |-> "json", rows |-> {i1}]) : kind \in {"site", "prices"}}
  \union {MCKeeps(kind, NoDoc, [at |-> "json", rows |-> <<1, 2>>]) : kind \in {"audits", "billing"}}

MCTwo(t) == <<MCRow(t, 1, k1), MCRow(t, 2, k2)>>

MCSame(t) == <<MCRow(t, 1, k1), MCRow(t, 2, k1)>>

MCDeployments ==
  MCDocuments
  \union {MCOnDisk(t, MCTwo(t)) : t \in Tables}
  \union {MCInFile(t, <<MCRow(t, 1, k1)>>, FALSE) : t \in Tables}
  \union {MCInFile("users", MCSame("users"), TRUE), MCOnDisk("users", <<>>),
          MCInFile("settings", <<1>>, FALSE), MCOnDisk("settings", <<>>)}

===============================================================================
