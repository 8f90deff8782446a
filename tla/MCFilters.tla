------------------------------- MODULE MCFilters -------------------------------
(* A small instance of the filters for TLC.                                *)
EXTENDS Filters, TLC

\* Of two models of one channel one finds the listed word unfit.
MCFlagged == {<<"c1", "m1", "listed">>}

\* Every path, with every outcome of every filter.
MCCalls == {<<"v1", "listed", FALSE>>, <<"v1", "unread", TRUE>>, <<"native", "default", FALSE>>}

\* Each form switched on and off, with the word and without, for either model.
MCSubmitted ==
  {<<"ops", <<on>> >> : on \in BOOLEAN}
  \union {<<"moderation", v>> : v \in {<<TRUE, {"listed"}>>, <<TRUE, {}>>, <<FALSE, {"listed"}>>}}
  \union {<<"review", v>> : v \in {<<TRUE, "c1", "m1">>, <<TRUE, "c1", "m2">>,
                                   <<FALSE, "none", "m1">>}}

Symmetry == Permutations(Workers) \union Permutations(Admins)
================================================================================
