---------------------------- MODULE MCLegacySession ----------------------------
(* Values for the model-checking runs of LegacySession. *)
EXTENDS LegacySession

CONSTANTS h1, h2, o1, o2   \* helpers and outputs

\* A helper with a mic, and one that loses it to --sink-becomes-default.
MicAndDefault ==
    [s \in Session |-> [mic |-> TRUE, named |-> FALSE, default |-> s # h1]]

\* Every command of the first may fail; of the second, those of the sweep.
FirstFails == [s \in Session |->
    IF s = h1 THEN {"load", "unload", "link", "unlink", "dump"} ELSE {"list", "unload"}]

\* Anything is asked of the first; the second comes to share something, too.
SecondShares == [s \in Session |->
    IF s = h1 THEN Op \cup {"kill"} ELSE {"ensure"}]

\* Of the free ids the server gives out the lowest (an action constraint).
LowestId == \A m \in modules' \ modules : \A n \in FreeId : m.n <= n
================================================================================
