------------------------------ MODULE CaptureShim ------------------------------
(***************************************************************************)
(* The shim of one Discord and the helpers of all: ShimStreams with the    *)
(* allow-list that the helpers of CaptureHost leave in force for it.       *)
(***************************************************************************)
EXTENDS CaptureHost, ShimStreams

CONSTANT Shimmed   \* the Discord whose streams are modelled

ASSUME ShimConstants == Shimmed \in Parent /\ Input = App

allVars == <<hostVars, vars>>

\* What is_allowed reads.
InForce == UNION {text[i].list : i \in file[Shimmed]}

CaptureInit == HostInit /\ Init /\ listed = {}

HostStep ==
    /\ HostNext
    /\ listed' = InForce'
    /\ changed' = IF file'[Shimmed] = file[Shimmed] /\ listed' = listed
                    THEN changed ELSE [a \in Addr |-> TRUE]
    /\ UNCHANGED <<at, wanted, monitor, source, blocked>>

StreamStep == (\E a \in Addr : Discord(a) \/ Shim(a)) /\ UNCHANGED hostVars

CaptureNext == HostStep \/ StreamStep

CaptureSpec == CaptureInit /\ [][CaptureNext]_allVars

--------------------------------------------------------------------------------

\* From the request to the ear: a capture that is set up after a selection was accepted, and
\* before the next request, records its application exactly if that was selected.
HeardIsSelected == \A a \in Addr, h \in Helper :
    Recording(a) /\ ~changed[a] /\ ParentOf[h] = Shimmed /\ pc[h] = "idle" /\ ok[h] =>
        (source[a] = "app" <=> wanted[a] \subseteq sel[h])
================================================================================
