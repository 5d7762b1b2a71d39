--------------------------- MODULE MCEventIndexer ----------------------------
(* Configurations of the indexer: polling in short ranges with a rescan     *)
(* shorter than a range; a subscription whose rescan covers the chain.      *)
EXTENDS EventIndexer

MCSettings ==
    {[subscribed |-> FALSE, range |-> 3, rescan |-> 1],
     [subscribed |-> TRUE,  range |-> 5, rescan |-> 5]}

\* A subscription with a rescan window shorter than an outage.
ShortRescan == {[subscribed |-> TRUE, range |-> 2, rescan |-> 1]}
=============================================================================
