---------------------------- MODULE MCCollectAll ----------------------------
(* CollectAll with readings small enough for TLC: each source may read        *)
(* nothing, read everything, or fail with and without items.                  *)
EXTENDS CollectAll

MCItem == Sources \X {"a", "b"}

MCReadings ==
    [i \in Sources |->
        {[items |-> <<>>, err |-> FALSE],
         [items |-> <<<<i, "a">>, <<i, "b">>>>, err |-> FALSE],
         [items |-> <<<<i, "b">>>>, err |-> TRUE]}]

\* One possible reading: for the runs about slots and time.
PlainReadings ==
    [i \in Sources |-> {[items |-> <<<<i, "a">>>>, err |-> FALSE]}]
=============================================================================
