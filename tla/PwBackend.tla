------------------------------- MODULE PwBackend -------------------------------
(***************************************************************************)
(* The PipeWire side of patchcord's native backend, as the session thread  *)
(* sees it (crates/patchcord/src/patchbay/pw_backend.rs):                  *)
(*                                                                         *)
(*   - the PipeWire server: the nodes of other programs come and go, links *)
(*     exist between nodes, WirePlumber derives the default sink;          *)
(*   - the loop thread's proxies: what this process created, by handle;    *)
(*   - the loop thread's mirror of the registry, filled by asynchronous    *)
(*     events, which is all the session ever reads (Command::Snapshot).    *)
(*                                                                         *)
(* The server executes a command when the loop thread sends it, and the    *)
(* mirror learns of the outcome later: everything the session decides, it  *)
(* decides on a graph that may be out of date.                             *)
(***************************************************************************)
EXTENDS Integers, FiniteSets

CONSTANTS
    App,                \* registry ids that application nodes occupy
    Capture,            \* registry ids that discord_capture nodes occupy
    OtherNull,          \* ids of discord-capture-null sinks of other sessions
    Channel,            \* audio channels of a node, one port each per direction
    InitiallyUp,        \* the ids in use when the helper starts
    MetadataKnown,      \* the initial burst included the default metadata
    AppGens,            \* bound: an app id changes hands at most this often
    CaptureGens,        \* ... the same for a discord_capture id
    OtherNullGens,      \* ... and for another session's null sink
    StraysForm,         \* does the session manager link null sinks to captures
    SinkBecomesDefault  \* PatchbayConfig::sink_becomes_default

Peer == App \cup Capture \cup OtherNull

ASSUME PeersDisjoint ==
    /\ App \cap Capture = {}
    /\ App \cap OtherNull = {}
    /\ Capture \cap OtherNull = {}

ASSUME BackendConstants ==
    /\ InitiallyUp \subseteq Peer
    /\ AppGens \in Nat /\ CaptureGens \in Nat /\ OtherNullGens \in Nat
    /\ MetadataKnown \in BOOLEAN
    /\ StraysForm \in BOOLEAN
    /\ SinkBecomesDefault \in BOOLEAN

\* Nodes this process creates: n stands for the handle, name for node.name.
VName == {"sink", "mic", "null"}
VNode == [n : Nat, name : VName]

ASSUME PeersAreNotOurs == Peer \cap VNode = {} /\ Peer \cap VName = {}

Node == Peer \cup VNode
Dir  == {"in", "out"}

\* A link created by this process: n (with the ends) stands for the handle.
Link == [n : Nat, src : Node, out : Channel, dst : Node, inp : Channel]

\* The default-sink metadata distinguishes the user's sink from ours.
Default == {"user", "ours"}

VARIABLES
    gen,          \* server: generation of every peer id, odd while in use
    live,         \* server: the links created by this process that exist
    stray,        \* server: links null sink -> capture made by others
    configured,   \* server: default.configured.audio.sink
    nodes,        \* loop thread: created_nodes (the server's nodes with them)
    createdLinks, \* loop thread: created_links, proxies of dead links included
    counter,      \* next_handle()
    mgen,         \* mirror: generation of every peer id the events have reached
    mvirt,        \* mirror: our own nodes that were announced
    mports,       \* mirror: announced ports of mirrored nodes
    mstray,       \* mirror: link records from a null sink into a capture
    mdefault,     \* mirror: default_sink_name ("none" before the first event)
    metadata,     \* loop thread: default_metadata is bound
    graphChanged  \* a GraphChanged message waits for the main loop

serverVars == <<gen, stray, configured>>
proxyVars  == <<nodes, createdLinks, counter>>
mirrorVars == <<mgen, mvirt, mports, mstray, mdefault, metadata>>
backendVars == <<serverVars, live, proxyVars, mirrorVars, graphChanged>>

BackendTypeOK ==
    /\ gen \in [Peer -> Nat]
    /\ live \subseteq Link
    /\ stray \subseteq Node \X Capture
    /\ configured \in Default
    /\ nodes \subseteq VNode
    /\ createdLinks \subseteq Link
    /\ counter \in Nat
    /\ mgen \in [Peer -> Nat]
    /\ mvirt \subseteq VNode
    /\ mports \subseteq Node \X Dir \X Channel
    /\ mstray \subseteq Node \X Capture
    /\ mdefault \in Default \cup {"none"}
    /\ metadata \in BOOLEAN
    /\ graphChanged \in BOOLEAN

--------------------------------------------------------------------------------
(* What the server holds. *)

Odd(k) == k % 2 = 1

Up(p) == Odd(gen[p])

\* The node an id of the mirror stands for still exists on the server.
Current(x) == IF x \in Peer THEN Up(x) /\ mgen[x] = gen[x] ELSE x \in nodes

MaxGen(p) == IF p \in App THEN AppGens
             ELSE IF p \in Capture THEN CaptureGens ELSE OtherNullGens

SameEnds(k, l) ==
    <<k.src, k.out, k.dst, k.inp>> = <<l.src, l.out, l.dst, l.inp>>

\* link-factory makes the link when both ends exist and are not yet linked;
\* otherwise the proxy stays without an object, and create_link still succeeded.
Takes(l) ==
    /\ Current(l.src) /\ Current(l.dst)
    /\ ~\E k \in live : SameEnds(k, l)

\* WirePlumber: the configured sink is the default if it exists and qualifies.
Effective ==
    IF /\ configured = "ours"
       /\ SinkBecomesDefault
       /\ \E v \in nodes : v.name = "sink"
    THEN "ours" ELSE "user"

(* What the mirror shows. *)

Seen(x) == IF x \in Peer THEN Odd(mgen[x]) ELSE x \in mvirt

Ports(x) ==
    IF x \in App THEN {"out"} \X Channel
    ELSE IF x \in Capture \cup OtherNull THEN {"in"} \X Channel
    ELSE IF x.name = "null" THEN {"in"} \X Channel
    ELSE Dir \X Channel

PortsSeen(x, d) == {c \in Channel : <<x, d, c>> \in mports}

NamedSeen(name) ==
    {v \in mvirt : v.name = name}
        \cup (IF name = "null" THEN {x \in OtherNull : Seen(x)} ELSE {})

--------------------------------------------------------------------------------
(* Commands, as the loop thread executes them. *)

\* CreateLink for every link of new, then DestroyLink for every handle of old.
Relink(new, old) ==
    /\ createdLinks' = (createdLinks \cup new) \ old
    /\ live' = (live \cup {l \in new : Takes(l)}) \ old
    /\ counter' = IF new = {} THEN counter ELSE counter + 1

\* DestroyLink answers "unknown link handle" for a handle without a proxy.
DestroySucceeds(old) == old \subseteq createdLinks

\* CreateVirtualNode: the adapter node exists once the server has the request.
NewNode(name) == [n |-> counter, name |-> name]

CreateVirtualNode(name) ==
    /\ nodes' = nodes \cup {NewNode(name)}
    /\ counter' = counter + 1

--------------------------------------------------------------------------------
(* Other programs and the session manager. *)

PeerAppears(p) ==
    /\ ~Up(p) /\ gen[p] < MaxGen(p)
    /\ gen' = [gen EXCEPT ![p] = @ + 1]
    /\ UNCHANGED <<live, stray, configured, proxyVars, mirrorVars, graphChanged>>

\* The server destroys a node's links with the node.
PeerDisappears(p) ==
    /\ Up(p) /\ gen[p] < MaxGen(p)
    /\ gen' = [gen EXCEPT ![p] = @ + 1]
    /\ live' = {l \in live : p \notin {l.src, l.dst}}
    /\ stray' = {s \in stray : p \notin {s[1], s[2]}}
    /\ UNCHANGED <<configured, proxyVars, mirrorVars, graphChanged>>

\* A blocked stream's link from a null sink's monitor, made at any time.
StrayForms(x, c) ==
    /\ StraysForm
    /\ Up(c)
    /\ \/ x \in OtherNull /\ Up(x)
       \/ x \in nodes /\ x.name = "null"
    /\ <<x, c>> \notin stray \cup mstray
    /\ stray' = stray \cup {<<x, c>>}
    /\ UNCHANGED <<gen, live, configured, proxyVars, mirrorVars, graphChanged>>

Environment ==
    \/ \E p \in Peer : PeerAppears(p) \/ PeerDisappears(p)
    \/ \E x \in OtherNull \cup nodes, c \in Capture : StrayForms(x, c)

--------------------------------------------------------------------------------
(* Registry and metadata events. Those of one object arrive in order, those of *)
(* different objects at any time relative to each other and to the session.    *)

\* global / global_remove of a peer's node: its record and ports go together.
NodeEvent(p) ==
    /\ mgen[p] < gen[p]
    /\ Seen(p) => \A s \in mstray : p \notin {s[1], s[2]}
    /\ mgen' = [mgen EXCEPT ![p] = @ + 1]
    /\ mports' = {t \in mports : t[1] # p}
    /\ graphChanged' = TRUE
    /\ UNCHANGED <<serverVars, live, proxyVars, mvirt, mstray, mdefault, metadata>>

VirtualNodeEvent(v) ==
    /\ v \in nodes \ mvirt
    /\ mvirt' = mvirt \cup {v}
    /\ graphChanged' = TRUE
    /\ UNCHANGED <<serverVars, live, proxyVars, mgen, mports, mstray, mdefault, metadata>>

\* Mutant: a new port sends no GraphChanged.
PortEvent_Silent(x, d, c) ==
    /\ Seen(x) /\ <<d, c>> \in Ports(x) /\ <<x, d, c>> \notin mports
    /\ mports' = mports \cup {<<x, d, c>>}
    /\ UNCHANGED <<serverVars, live, proxyVars, mgen, mvirt, mstray, mdefault, metadata,
                   graphChanged>>

\* A port is announced after its node, and not together with the node's others.
PortEvent(x, d, c) ==
    /\ Seen(x) /\ <<d, c>> \in Ports(x) /\ <<x, d, c>> \notin mports
    /\ mports' = mports \cup {<<x, d, c>>}
    /\ graphChanged' = TRUE
    /\ UNCHANGED <<serverVars, live, proxyVars, mgen, mvirt, mstray, mdefault, metadata>>

StrayEvent(s) ==
    /\ s \in stray \ mstray
    /\ Seen(s[1]) /\ Current(s[1]) /\ Seen(s[2]) /\ Current(s[2])
    /\ mstray' = mstray \cup {s}
    /\ graphChanged' = TRUE
    /\ UNCHANGED <<serverVars, live, proxyVars, mgen, mvirt, mports, mdefault, metadata>>

StrayRemoved(s) ==
    /\ s \in mstray \ stray
    /\ mstray' = mstray \ {s}
    /\ graphChanged' = TRUE
    /\ UNCHANGED <<serverVars, live, proxyVars, mgen, mvirt, mports, mdefault, metadata>>

\* The "default" metadata object is announced and bound.
MetadataEvent ==
    /\ ~metadata
    /\ metadata' = TRUE
    /\ UNCHANGED <<serverVars, live, proxyVars, mgen, mvirt, mports, mstray, mdefault,
                   graphChanged>>

\* The property listener; DefaultSinkChanged never reaches the main loop.
DefaultEvent ==
    /\ metadata /\ mdefault # Effective
    /\ mdefault' = Effective
    /\ UNCHANGED <<serverVars, live, proxyVars, mgen, mvirt, mports, mstray, metadata,
                   graphChanged>>

Events ==
    \/ \E p \in Peer : NodeEvent(p)
    \/ \E v \in nodes : VirtualNodeEvent(v)
    \/ \E x \in Peer \cup mvirt, d \in Dir, c \in Channel : PortEvent(x, d, c)
    \/ \E s \in stray \cup mstray : StrayEvent(s) \/ StrayRemoved(s)
    \/ MetadataEvent
    \/ DefaultEvent

BackendInit ==
    /\ gen = [p \in Peer |-> IF p \in InitiallyUp THEN 1 ELSE 0]
    /\ live = {} /\ stray = {}
    /\ configured = "user"
    /\ nodes = {} /\ createdLinks = {} /\ counter = 0
    /\ mgen = [p \in Peer |-> 0]
    /\ mvirt = {} /\ mports = {} /\ mstray = {}
    /\ mdefault = IF MetadataKnown THEN "user" ELSE "none"
    /\ metadata = MetadataKnown
    /\ graphChanged = FALSE
================================================================================
