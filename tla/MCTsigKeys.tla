----------------------------- MODULE MCTsigKeys -----------------------------
EXTENDS TsigKeys

Named == <<"default", "east">>

\* Pools are added and removed at the end of the list.
Chain == {{}, {"default"}, {"default", "east"}}
=============================================================================
