------------------------------- MODULE MCUpkeep --------------------------------
(* Instances of Upkeep: the log, the records of the tasks, the mails and backups. *)
EXTENDS Upkeep, TLC

MCDay     == [kinds |-> {"request"}, days |-> 2, lines |-> 3, clears |-> 0, restarts |-> 0, faults |-> 0, zone |-> 0]
MCStream  == [kinds |-> {"request", "stream"}, days |-> 1, lines |-> 3, clears |-> 0, restarts |-> 0, faults |-> 0, zone |-> 0]
MCRewrite == [kinds |-> {"request"}, days |-> 1, lines |-> 2, clears |-> 0, restarts |-> 0, faults |-> 1, zone |-> 0]
MCCut     == [kinds |-> {"request"}, days |-> 1, lines |-> 2, clears |-> 0, restarts |-> 1, faults |-> 0, zone |-> 0]
MCClear   == [kinds |-> {}, days |-> 1, lines |-> 0, clears |-> 1, restarts |-> 0, faults |-> 0, zone |-> 0]
MCRecord  == [kinds |-> {"midnight"}, days |-> 2, lines |-> 0, clears |-> 0, restarts |-> 0, faults |-> 2, zone |-> 1]
MCMail    == [kinds |-> {"renew"}, days |-> 3, lines |-> 0, clears |-> 0, restarts |-> 1, faults |-> 1, zone |-> -2]

MCSeasons == {MCDay, MCStream, MCRewrite, MCCut, MCClear, MCRecord, MCMail}

Symmetry == Permutations(Workers)
===============================================================================
