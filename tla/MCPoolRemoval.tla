---------------------------- MODULE MCPoolRemoval ----------------------------
EXTENDS PoolRemoval

Named == <<"default", "east", "west">>

Extracted == [k \in 0 .. 2 |-> CASE k = 0 -> "default"
                                 [] k = 1 -> "pool1"
                                 [] k = 2 -> "pool2"]

\* Every configuration; pools are only added or only removed.
AnyConfig == {{}} \cup {c \in SUBSET Names : Default \in c}
Chain == {{"default"}, {"default", "east"}, {"default", "east", "west"}}

\* East sorts before west: adding it pushes west back.
Pushing == {{"default"}, {"default", "west"}, {"default", "east", "west"}}
==============================================================================
