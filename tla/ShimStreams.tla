------------------------------ MODULE ShimStreams ------------------------------
(***************************************************************************)
(* The shim inside Discord's renderer                                      *)
(* (crates/discord-capture-shim/src/lib.rs).                               *)
(*                                                                         *)
(* Discord's threads create PulseAudio record streams: one per detected    *)
(* application (a capture), and its own voice input. The shim interposes   *)
(* pa_stream_set_monitor_stream and pa_stream_connect_record. It knows a   *)
(* stream by its address alone, is not told when one is freed, and the     *)
(* allocator gives the address to a later stream of either kind. The       *)
(* allow-list file is replaced by patchcord at any time.                   *)
(***************************************************************************)
CONSTANTS
    Addr,    \* addresses the allocator hands out for streams
    Input    \* sink-input indices of applications

VARIABLES
    at,       \* the point the thread of the stream at an address has reached
    wanted,   \* the sink input a capture asks for, {} for a voice stream
    monitor,  \* libpulse: the stream's monitor target, {} for none
    source,   \* libpulse: what the stream records
    blocked,  \* blocked_streams()
    listed,   \* the allow-list file; a missing file allows nothing
    changed   \* history: the file was replaced since the stream was created

vars == <<at, wanted, monitor, source, blocked, listed, changed>>

\* "none" is a free address. Between "allowed"/"refused" and "targeted" a thread
\* is in set_monitor_stream, between "redirect"/"pass" and "recording" in
\* connect_record, each time behind its decision.
Point  == {"none", "new", "allowed", "refused", "targeted", "redirect", "pass", "recording"}
Source == {"none", "app", "null", "default"}

TypeOK ==
    /\ at \in [Addr -> Point]
    /\ wanted \in [Addr -> SUBSET Input]
    /\ monitor \in [Addr -> SUBSET Input]
    /\ source \in [Addr -> Source]
    /\ blocked \subseteq Addr
    /\ listed \subseteq Input
    /\ changed \in [Addr -> BOOLEAN]

Allowed(a) == wanted[a] \subseteq listed

IsCapture(a) == wanted[a] # {}

MoveTo(a, point) == at' = [at EXCEPT ![a] = point]

--------------------------------------------------------------------------------
(* Discord. *)

\* pa_stream_new, for a capture of one application or for the voice input.
StreamCreated(a, w) ==
    /\ at[a] = "none"
    /\ MoveTo(a, "new")
    /\ wanted'  = [wanted EXCEPT ![a] = w]
    /\ monitor' = [monitor EXCEPT ![a] = {}]
    /\ source'  = [source EXCEPT ![a] = "none"]
    /\ changed' = [changed EXCEPT ![a] = FALSE]
    /\ UNCHANGED <<blocked, listed>>

\* The last pa_stream_unref, at any time its thread is not inside a call.
StreamFreed(a) ==
    /\ at[a] \in {"new", "targeted", "recording"}
    /\ MoveTo(a, "none")
    /\ wanted' = [wanted EXCEPT ![a] = {}]
    /\ UNCHANGED <<monitor, source, blocked, listed, changed>>

\* patchcord replaces the file by a rename: a reader sees one list or the other.
SelectionReplaced ==
    /\ listed' \in SUBSET Input
    /\ changed' = [a \in Addr |-> TRUE]
    /\ UNCHANGED <<at, wanted, monitor, source, blocked>>

--------------------------------------------------------------------------------
(* pa_stream_set_monitor_stream, called for captures. *)

\* is_allowed reads the file.
IsAllowed(a) ==
    /\ at[a] = "new" /\ IsCapture(a)
    /\ MoveTo(a, IF Allowed(a) THEN "allowed" ELSE "refused")
    /\ UNCHANGED <<wanted, monitor, source, blocked, listed, changed>>

\* Mutant: what an earlier stream at the address left behind stays.
Forward_NoClear(a) ==
    /\ at[a] = "allowed"
    /\ monitor' = [monitor EXCEPT ![a] = wanted[a]]
    /\ MoveTo(a, "targeted")
    /\ UNCHANGED <<wanted, source, blocked, listed, changed>>

\* The address is unmarked and the real function gets the call.
Forward(a) ==
    /\ at[a] = "allowed"
    /\ blocked' = blocked \ {a}
    /\ monitor' = [monitor EXCEPT ![a] = wanted[a]]
    /\ MoveTo(a, "targeted")
    /\ UNCHANGED <<wanted, source, listed, changed>>

\* Mutants: the address is not marked; the real function gets the call as well.
Suppress_NoMark(a) ==
    /\ at[a] = "refused"
    /\ MoveTo(a, "targeted")
    /\ UNCHANGED <<wanted, monitor, source, blocked, listed, changed>>
Suppress_Forwards(a) ==
    /\ at[a] = "refused"
    /\ blocked' = blocked \cup {a}
    /\ monitor' = [monitor EXCEPT ![a] = wanted[a]]
    /\ MoveTo(a, "targeted")
    /\ UNCHANGED <<wanted, source, listed, changed>>

\* The address is marked and success reported.
Suppress(a) ==
    /\ at[a] = "refused"
    /\ blocked' = blocked \cup {a}
    /\ MoveTo(a, "targeted")
    /\ UNCHANGED <<wanted, monitor, source, listed, changed>>

--------------------------------------------------------------------------------
(* pa_stream_connect_record, called for every stream. *)

IsBlocked(a) ==
    /\ at[a] = "targeted" \/ (at[a] = "new" /\ ~IsCapture(a))
    /\ MoveTo(a, IF a \in blocked THEN "redirect" ELSE "pass")
    /\ UNCHANGED <<wanted, monitor, source, blocked, listed, changed>>

\* libpulse and the server: what a stream connected to dev records. The code never
\* relies on what becomes of a stream with a target and another device.
Records(a, dev) ==
    IF monitor[a] = {} THEN {dev}
    ELSE IF dev = "null" THEN {"app", "null"} ELSE {"app"}

\* The real function gets the null sink's monitor as dev, or what Discord passed.
ConnectRecord(a) ==
    /\ at[a] \in {"redirect", "pass"}
    /\ \E s \in Records(a, IF at[a] = "redirect" THEN "null" ELSE "default") :
          source' = [source EXCEPT ![a] = s]
    /\ MoveTo(a, "recording")
    /\ UNCHANGED <<wanted, monitor, blocked, listed, changed>>

--------------------------------------------------------------------------------

Init ==
    /\ at = [a \in Addr |-> "none"]
    /\ wanted = [a \in Addr |-> {}]
    /\ monitor = [a \in Addr |-> {}]
    /\ source = [a \in Addr |-> "none"]
    /\ blocked = {}
    /\ listed \in SUBSET Input
    /\ changed = [a \in Addr |-> FALSE]

Discord(a) ==
    \/ StreamCreated(a, {})
    \/ \E i \in Input : StreamCreated(a, {i})
    \/ StreamFreed(a)

Shim(a) == IsAllowed(a) \/ Forward(a) \/ Suppress(a) \/ IsBlocked(a) \/ ConnectRecord(a)

Next == SelectionReplaced \/ \E a \in Addr : Discord(a) \/ Shim(a)

Spec == Init /\ [][Next]_vars

--------------------------------------------------------------------------------
(* Properties. *)

Recording(a) == at[a] = "recording" /\ IsCapture(a)

\* A capture never falls back to the user's microphone, whatever its address was
\* used for before and however the list changed between the two calls.
NeverMicrophone == \A a \in Addr : Recording(a) => source[a] # "default"

\* A capture that was set up under one list records its application if that is
\* listed: an earlier blocked stream at the address does not silence it.
AllowedHeard ==
    \A a \in Addr : Recording(a) /\ ~changed[a] /\ Allowed(a) => source[a] = "app"

\* ... and the silent null sink if it is not listed.
RefusedSilent ==
    \A a \in Addr : Recording(a) /\ ~changed[a] /\ ~Allowed(a) => source[a] = "null"

(* What makes them inductive: how far a capture's target and its mark agree. *)

\* Only a capture gets into set_monitor_stream.
InMonitorCall ==
    \A a \in Addr : at[a] \in {"allowed", "refused", "targeted"} => IsCapture(a)

\* There is no target before the call.
NoTargetYet ==
    \A a \in Addr : at[a] \in {"new", "allowed", "refused"} => monitor[a] = {}

\* After it a capture is marked or has a target, never both.
MarkedOrTargeted ==
    \A a \in Addr :
        /\ at[a] = "targeted" => (a \in blocked <=> monitor[a] = {})
        /\ at[a] = "redirect" /\ IsCapture(a) => monitor[a] = {}
        /\ at[a] = "pass" /\ IsCapture(a) => monitor[a] # {}
        /\ Recording(a) => source[a] = IF monitor[a] = {} THEN "null" ELSE "app"

\* Under an unchanged list the decision is what the list says.
DecidedByList ==
    \A a \in Addr : ~changed[a] =>
        /\ at[a] = "allowed" => Allowed(a)
        /\ at[a] = "refused" => ~Allowed(a)
        /\ at[a] \in {"targeted", "redirect", "pass", "recording"} /\ IsCapture(a) =>
               (monitor[a] # {} <=> Allowed(a))

IInv == TypeOK /\ InMonitorCall /\ NoTargetYet /\ MarkedOrTargeted /\ DecidedByList

--------------------------------------------------------------------------------
(* What a comment says, and the code does not keep. *)

\* lib.rs: every other stream, such as Discord's own microphone input, passes
\* through completely unmodified.
VoiceUntouched ==
    \A a \in Addr : at[a] = "recording" /\ ~IsCapture(a) => source[a] = "default"
================================================================================
