------------------------------- MODULE MCRegistry -------------------------------
(* Values for the model-checking run of Registry. *)
EXTENDS Registry

\* Objects that come and go while events are late.
Churn == [made |-> 5, removals |-> 2, titles |-> 1, queue |-> 4,
          channels |-> {"FL"}, bare |-> {FALSE}]

\* Graphs that only grow: three ports of every kind, or two by two of two kinds.
Roles == [made |-> 5, removals |-> 0, titles |-> 0, queue |-> 1,
          channels |-> {"FL", "FR", "MONO", "AUX0"}, bare |-> BOOLEAN]
Pairs == [made |-> 6, removals |-> 0, titles |-> 0, queue |-> 1,
          channels |-> {"FL", "AUX0"}, bare |-> {FALSE}]

All == {Churn, Roles, Pairs}
================================================================================
