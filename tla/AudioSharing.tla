------------------------------ MODULE AudioSharing ------------------------------
(***************************************************************************)
(* What AudioSharePatchbay promises its client, whichever backend is       *)
(* behind it (crates/patchcord/src/patchbay/mod.rs): an application is     *)
(* heard only where the client selected it, a selection that was accepted  *)
(* has replaced the one before, and a helper that is gone connects nothing.*)
(*                                                                         *)
(* NativeSession and LegacySession implement this specification.           *)
(***************************************************************************)
CONSTANTS
    App,      \* what a client can select
    Lingers   \* links outlive a failed removal and the helper (pw-link's do)

Place == {"sink", "capture"}   \* routeNodes, setDiscordCaptureTargets

VARIABLES
    wanted,     \* the selection in force for a place
    heard,      \* which application is connected to which place
    answered,   \* the places whose last request was accepted
    open        \* the helper runs

sharingVars == <<wanted, heard, answered, open>>

Init ==
    /\ wanted = [p \in Place |-> {}]
    /\ heard = {}
    /\ answered = {}
    /\ open = TRUE

\* The connections a helper may make.
Permitted == {x \in App \X Place : x[1] \in wanted[x[2]]}

\* Accepted as documented for routeNodes. A capture that is linked keeps its link
\* until nothing is selected any more.
Replaced(p) ==
    \/ Lingers
    \/ p = "capture" /\ wanted[p] # {}
    \/ \A x \in heard : x[2] = p => x[1] \in wanted[p]

\* A request is taken, or its selection comes into force: only what had been selected
\* before may stop. A request that takes no time is accepted at once.
Select ==
    /\ open /\ UNCHANGED open
    /\ wanted' \in [Place -> SUBSET App]
    /\ heard' \subseteq heard
    /\ \A p \in answered' : \/ p \in answered /\ wanted'[p] = wanted[p]
                           \/ Replaced(p)'

\* Links are made and destroyed, by a request or after a change of the graph.
Connect ==
    /\ open /\ UNCHANGED <<open, wanted, answered>>
    /\ heard' \subseteq heard \cup Permitted

\* The request for p is accepted.
Accept(p) ==
    /\ open /\ UNCHANGED <<open, wanted>>
    /\ answered' = answered \cup {p}
    /\ heard' \subseteq heard \cup Permitted
    /\ Replaced(p)'

\* Exit or SIGKILL; what was selected no longer matters.
Close ==
    /\ open /\ open' = FALSE
    /\ heard' = IF Lingers THEN heard ELSE {}
    /\ wanted' \in [Place -> SUBSET App] /\ answered' \subseteq answered

\* Applications end, with the helper or without it.
Lose ==
    /\ heard' \subseteq heard
    /\ UNCHANGED <<wanted, answered, open>>

Next == Select \/ Connect \/ Lose \/ Close \/ \E p \in Place : Accept(p)

Spec == Init /\ [][Next]_sharingVars
================================================================================
