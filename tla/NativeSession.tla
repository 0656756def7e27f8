----------------------------- MODULE NativeSession -----------------------------
(***************************************************************************)
(* One session of the native backend                                       *)
(* (crates/patchcord/src/patchbay/state_native.rs), driven by the main     *)
(* loop of crates/patchcord/src/main.rs, on top of PwBackend.              *)
(*                                                                         *)
(* The main loop takes one message at a time: a request of the client, or  *)
(* a GraphChanged of the loop thread. A handler runs to its end before the *)
(* next message, but it sleeps in the wait_for_* loops and takes several   *)
(* snapshots; pc is the point a handler has reached. Between two such      *)
(* points a handler reads one snapshot and sends commands, and that is one *)
(* action: a change on the server in between is the same as one just       *)
(* before it that the mirror has not shown yet.                            *)
(***************************************************************************)
EXTENDS PwBackend

CONSTANTS
    VirtualMic,   \* spawn: mic_name is Some
    Ops,          \* the operations the client uses
    Selections,   \* the node id lists it passes, as sets
    Filters,      \* FALSE: RouteFilter::default(), TRUE: some filter is set
    Fallible,     \* may create_object and the file operations fail
    MaxRequests   \* bound: requests of the client

\* What a client can name: applications, and this session's own nodes.
OwnName == {"sink", "mic"}
Selectable == App \cup OwnName

Operation == {"ensure", "route", "clear", "mute", "setDefault", "restoreDefault",
              "targets", "dispose", "kill"}

ASSUME SessionConstants ==
    /\ VirtualMic \in BOOLEAN
    /\ Ops \subseteq Operation
    /\ Selections \subseteq SUBSET Selectable
    /\ Filters \subseteq BOOLEAN
    /\ Fallible \in BOOLEAN
    /\ MaxRequests \in Nat

VARIABLES
    pc,           \* the point the main loop has reached
    req,          \* the request in hand, or the last one and how it ended
    requests,     \* requests taken so far
    fresh,        \* ensure_virtual_sink created the sink in this request
    sinkHandle,   \* NativeSession::sink_handle, {} for None
    micHandle,    \* ... mic_handle
    nullHandle,   \* ... discord_capture_null_sink_handle
    routeLinks,   \* ... route_link_handles
    micLinks,     \* ... mic_link_handles
    captureLinks, \* ... discord_capture_link_handles; the key of a link is its dst
    targets,      \* ... discord_capture_targets
    filter,       \* ... discord_capture_filter
    prior,        \* ... prior_default_sink
    allowed,      \* the allow-list file: incarnations (object.serial) of apps
    muted         \* the virtual mic's mute prop

handles == <<sinkHandle, micHandle, nullHandle, routeLinks, micLinks, captureLinks>>
sessionVars == <<pc, req, requests, fresh, handles, targets, filter, prior, allowed, muted>>
vars == <<backendVars, sessionVars>>

Point == {"idle", "sink", "mic", "micLink", "sinkWait", "route", "null", "nullWait",
          "targets", "sync", "disposed", "exited"}

Request == [op : Operation \cup {"none"}, nodes : SUBSET Selectable, filter : BOOLEAN,
            status : {"none", "busy", "ok", "error"}]

SessionTypeOK ==
    /\ pc \in Point
    /\ req \in Request
    /\ requests \in Nat
    /\ fresh \in BOOLEAN
    /\ sinkHandle \subseteq VNode /\ micHandle \subseteq VNode /\ nullHandle \subseteq VNode
    /\ routeLinks \subseteq Link /\ micLinks \subseteq Link /\ captureLinks \subseteq Link
    /\ targets \subseteq Selectable
    /\ filter \in BOOLEAN
    /\ prior \in Default \cup {"none"}
    /\ allowed \subseteq App \X Nat
    /\ muted \in BOOLEAN

TypeOK == BackendTypeOK /\ SessionTypeOK

--------------------------------------------------------------------------------
(* Helpers. *)

\* input_ports().count() >= 2: one input port for each channel.
Ready(x) == PortsSeen(x, "in") = Channel

ReadyNodes(name) == {x \in NamedSeen(name) : Ready(x)}

\* The name lookup takes any node of that name, so a wait may end late while
\* one of them is not ready.
NotReady(name) == NamedSeen(name) = {} \/ NamedSeen(name) # ReadyNodes(name)

\* routing.rs: an output goes to the input of its channel if that is known.
MapPorts(outs, ins) ==
    {<<o, IF o \in ins THEN o ELSE CHOOSE i \in ins : TRUE>> : o \in outs}

\* The links that connect src to dst, over the ports the mirror shows.
LinksBetween(src, dst) ==
    {[n |-> counter, src |-> src, out |-> m[1], dst |-> dst, inp |-> m[2]] :
        m \in IF PortsSeen(dst, "in") = {} THEN {}
              ELSE MapPorts(PortsSeen(src, "out"), PortsSeen(dst, "in"))}

LinksFromTo(xs, ys) == UNION {LinksBetween(x, y) : x \in xs, y \in ys}

\* Mutant: only the sink is recognised.
IsOurs_SinkOnly(x) == x \in mvirt /\ x.name = "sink"

\* is_our_virtual_audio_object.
IsOurs(x) == x \in mvirt /\ x.name \in OwnName

\* The nodes of the snapshot among the selected ids.
Chosen(S) == {a \in App \cap S : Seen(a)} \cup {v \in mvirt : v.name \in S}

\* Those that pass the checks of the linking loops. What should_link makes of a
\* filter depends on links of other programs: any subset can pass.
Linkable(S, f) ==
    LET eligible == {x \in Chosen(S) : ~IsOurs(x)}
    IN  IF f THEN SUBSET eligible ELSE {eligible}

\* The handles a loop of create_link calls returns: a call may fail.
Created(wanted) == IF Fallible THEN SUBSET wanted ELSE {wanted}

\* write_result, and back to the main loop.
Reply(ok) ==
    /\ req' = [req EXCEPT !.status = IF ok THEN "ok" ELSE "error"]
    /\ pc' = "idle"

\* handle_request takes the next request of the client.
Receive(op, S, f, status, next) ==
    /\ pc = "idle"
    /\ op \in Ops
    /\ requests < MaxRequests
    /\ requests' = requests + 1
    /\ req' = [op |-> op, nodes |-> S, filter |-> f, status |-> status]
    /\ pc' = next

\* It is answered by a later action, or within this one.
Take(op, S, f, next) == Receive(op, S, f, "busy", next)
Serve(op, ok, next)  == Receive(op, {}, FALSE, IF ok THEN "ok" ELSE "error", next)

--------------------------------------------------------------------------------
(* ensure_virtual_sink, with ensure_virtual_mic and link_monitor_to_mic. *)

EnsureVirtualSink ==
    /\ Take("ensure", {}, FALSE, "sink")
    /\ UNCHANGED <<backendVars, fresh, handles, targets, filter, prior, allowed, muted>>

\* route_nodes with a selection first ensures the sink.
RouteNodes ==
    /\ \E S \in Selections \ {{}}, f \in Filters : Take("route", S, f, "sink")
    /\ UNCHANGED <<backendVars, fresh, handles, targets, filter, prior, allowed, muted>>

\* Mutant: clear_routes also destroys the mic's own links.
DropRoutes_MicToo == Relink({}, routeLinks \cup micLinks) /\ routeLinks' = {}

\* clear_routes.
DropRoutes == Relink({}, routeLinks) /\ routeLinks' = {}

\* route_nodes([]): clear_routes()?, then ensure_virtual_sink().
RouteNone ==
    /\ {} \in Selections
    /\ DropRoutes
    /\ IF DestroySucceeds(routeLinks) THEN Take("route", {}, FALSE, "sink")
                                      ELSE Serve("route", FALSE, "idle")
    /\ UNCHANGED <<serverVars, nodes, mirrorVars, graphChanged, fresh, sinkHandle, micHandle,
                   nullHandle, micLinks, captureLinks, targets, filter, prior, allowed, muted>>

\* The sink is there already, or it is created.
EnsureSink ==
    /\ pc = "sink"
    /\ \/ /\ ReadyNodes("sink") # {}
          /\ fresh' = FALSE
          /\ pc' = "mic"
          /\ UNCHANGED <<nodes, counter, sinkHandle, req>>
       \/ /\ NotReady("sink")
          /\ CreateVirtualNode("sink")
          /\ sinkHandle' = {NewNode("sink")}
          /\ fresh' = TRUE
          /\ pc' = "mic"
          /\ UNCHANGED req
       \/ /\ NotReady("sink")
          /\ Fallible
          /\ Reply(FALSE)
          /\ UNCHANGED <<nodes, counter, sinkHandle, fresh>>
    /\ UNCHANGED <<serverVars, live, createdLinks, mirrorVars, graphChanged, requests,
                   micHandle, nullHandle, routeLinks, micLinks, captureLinks, targets,
                   filter, prior, allowed, muted>>

\* Where ensure_virtual_sink goes after its ensure_virtual_mic()?, and where
\* its Ok leads: the caller is the request itself or route_nodes.
Ensured ==
    IF req.nodes # {} THEN pc' = "route" /\ UNCHANGED req ELSE Reply(TRUE)

AfterMic ==
    IF fresh THEN pc' = "sinkWait" /\ UNCHANGED req ELSE Ensured

EnsureMic ==
    /\ pc = "mic"
    /\ \/ /\ ~VirtualMic \/ micHandle # {}
          /\ AfterMic
          /\ UNCHANGED <<nodes, counter, micHandle>>
       \/ /\ VirtualMic /\ micHandle = {}
          /\ CreateVirtualNode("mic")
          /\ micHandle' = {NewNode("mic")}
          /\ pc' = "micLink"
          /\ UNCHANGED req
       \/ /\ VirtualMic /\ micHandle = {}
          /\ Fallible
          /\ Reply(FALSE)
          /\ UNCHANGED <<nodes, counter, micHandle>>
    /\ UNCHANGED <<serverVars, live, createdLinks, mirrorVars, graphChanged, requests, fresh,
                   sinkHandle, nullHandle, routeLinks, micLinks, captureLinks, targets,
                   filter, prior, allowed, muted>>

\* The waits of link_monitor_to_mic are over: both nodes are ready and the
\* sink's monitor ports show. A create_link that fails ends the function.
LinkMonitorToMic ==
    /\ pc = "micLink"
    /\ \E s \in ReadyNodes("sink"), m \in ReadyNodes("mic") :
          /\ PortsSeen(s, "out") # {}
          /\ \E new \in Created(LinksBetween(s, m)) :
                /\ Relink(new, {})
                /\ micLinks' = micLinks \cup new
                /\ IF new = LinksBetween(s, m) THEN AfterMic ELSE Reply(FALSE)
    /\ UNCHANGED <<serverVars, nodes, mirrorVars, graphChanged, requests, fresh, sinkHandle,
                   micHandle, nullHandle, routeLinks, captureLinks, targets, filter, prior,
                   allowed, muted>>

\* Mutant: the sink's wait has no deadline.
MicTimeout_MicOnly ==
    /\ pc = "micLink" /\ NotReady("mic")
    /\ Reply(FALSE)
    /\ UNCHANGED <<backendVars, requests, fresh, handles, targets, filter, prior, allowed, muted>>

MicTimeout ==
    /\ pc = "micLink"
    /\ \/ NotReady("mic") \/ NotReady("sink")
       \/ \E s \in ReadyNodes("sink") : PortsSeen(s, "out") = {}
    /\ Reply(FALSE)
    /\ UNCHANGED <<backendVars, requests, fresh, handles, targets, filter, prior, allowed, muted>>

\* set_default_sink_to_virtual: the prior default is recorded before the write,
\* which fails while the metadata object is not bound.
OverrideDefault ==
    /\ prior' = IF prior = "none" THEN mdefault ELSE prior
    /\ configured' = IF metadata THEN "ours" ELSE configured

\* The second virtual_sink_info()? may meet another node of the sink's name.
SinkInfo == Ensured \/ (NotReady("sink") /\ Reply(FALSE))

\* wait_for_node_ready ends; the default may have to follow.
SinkReady ==
    /\ pc = "sinkWait"
    /\ ReadyNodes("sink") # {}
    /\ IF SinkBecomesDefault
       THEN OverrideDefault /\ IF metadata THEN SinkInfo ELSE Reply(FALSE)
       ELSE UNCHANGED <<prior, configured>> /\ SinkInfo
    /\ UNCHANGED <<gen, live, stray, proxyVars, mirrorVars, graphChanged, requests, fresh,
                   handles, targets, filter, allowed, muted>>

SinkTimeout ==
    /\ pc = "sinkWait"
    /\ NotReady("sink")
    /\ Reply(FALSE)
    /\ UNCHANGED <<backendVars, requests, fresh, handles, targets, filter, prior, allowed, muted>>

--------------------------------------------------------------------------------
(* route_nodes and clear_routes. *)

\* Mutant: the links of earlier selections stay.
ReplaceRoutes_Add(new) == Relink(new, {}) /\ routeLinks' = routeLinks \cup new

\* The links of the new selection are made, then those of the old one go.
ReplaceRoutes(new) == Relink(new, routeLinks) /\ routeLinks' = new

RouteLink ==
    /\ pc = "route"
    /\ \/ \E s \in ReadyNodes("sink"), pass \in Linkable(req.nodes, req.filter) :
             \E new \in Created(LinksFromTo(pass, {s})) :
                IF new = {}
                THEN Reply(FALSE) /\ UNCHANGED <<live, createdLinks, counter, routeLinks>>
                ELSE ReplaceRoutes(new) /\ Reply(TRUE)
       \/ /\ NotReady("sink")
          /\ Reply(FALSE)
          /\ UNCHANGED <<live, createdLinks, counter, routeLinks>>
    /\ UNCHANGED <<serverVars, nodes, mirrorVars, graphChanged, requests, fresh, sinkHandle,
                   micHandle, nullHandle, micLinks, captureLinks, targets, filter, prior,
                   allowed, muted>>

ClearRoutes ==
    /\ Serve("clear", DestroySucceeds(routeLinks), "idle")
    /\ DropRoutes
    /\ UNCHANGED <<serverVars, nodes, mirrorVars, graphChanged, fresh, sinkHandle, micHandle,
                   nullHandle, micLinks, captureLinks, targets, filter, prior, allowed, muted>>

--------------------------------------------------------------------------------
(* set_virtual_mic_mute, set_default_sink_to_virtual, restore_default_sink. *)

SetVirtualMicMute ==
    /\ \E mute \in BOOLEAN :
          muted' = IF NamedSeen("mic") # {} THEN mute ELSE muted
    /\ Serve("mute", NamedSeen("mic") # {}, "idle")
    /\ UNCHANGED <<backendVars, fresh, handles, targets, filter, prior, allowed>>

SetDefaultSinkToVirtual ==
    /\ Serve("setDefault", metadata, "idle")
    /\ OverrideDefault
    /\ UNCHANGED <<gen, live, stray, proxyVars, mirrorVars, graphChanged, fresh, handles,
                   targets, filter, allowed, muted>>

\* Mutant: the write is skipped while the mirror shows another default.
UndoOverride_IfOurs ==
    /\ prior' = "none"
    /\ configured' = IF prior # "none" /\ mdefault = "ours" THEN prior ELSE configured

\* The record is taken before the write that may fail.
UndoOverride ==
    /\ prior' = "none"
    /\ configured' = IF prior # "none" /\ metadata THEN prior ELSE configured

UndoSucceeds == prior = "none" \/ metadata

RestoreDefaultSink ==
    /\ Serve("restoreDefault", UndoSucceeds, "idle")
    /\ UndoOverride
    /\ UNCHANGED <<gen, live, stray, proxyVars, mirrorVars, graphChanged, fresh, handles,
                   targets, filter, allowed, muted>>

--------------------------------------------------------------------------------
(* set_discord_capture_targets and sync_discord_capture_links. *)

SetDiscordCaptureTargets ==
    /\ \E S \in Selections, f \in Filters :
          Take("targets", S, f, IF S = {} THEN "targets" ELSE "null")
    /\ UNCHANGED <<backendVars, fresh, handles, targets, filter, prior, allowed, muted>>

\* A null sink of this session or of any other will do.
EnsureNullSink ==
    /\ pc = "null"
    /\ \/ /\ nullHandle # {} \/ NamedSeen("null") # {}
          /\ pc' = "targets"
          /\ UNCHANGED <<nodes, counter, nullHandle, req>>
       \/ /\ nullHandle = {} /\ NamedSeen("null") = {}
          /\ CreateVirtualNode("null")
          /\ nullHandle' = {NewNode("null")}
          /\ pc' = "nullWait"
          /\ UNCHANGED req
       \/ /\ nullHandle = {} /\ NamedSeen("null") = {}
          /\ Fallible
          /\ Reply(FALSE)
          /\ UNCHANGED <<nodes, counter, nullHandle>>
    /\ UNCHANGED <<serverVars, live, createdLinks, mirrorVars, graphChanged, requests, fresh,
                   sinkHandle, micHandle, routeLinks, micLinks, captureLinks, targets, filter,
                   prior, allowed, muted>>

NullReady ==
    /\ pc = "nullWait"
    /\ ReadyNodes("null") # {}
    /\ pc' = "targets"
    /\ UNCHANGED <<backendVars, req, requests, fresh, handles, targets, filter, prior, allowed,
                   muted>>

NullTimeout ==
    /\ pc = "nullWait"
    /\ NotReady("null")
    /\ Reply(FALSE)
    /\ UNCHANGED <<backendVars, requests, fresh, handles, targets, filter, prior, allowed, muted>>

\* Mutant: the list is computed from the selection before this one.
AllowList_Previous(S) == {<<a, mgen[a]>> : a \in {b \in App \cap targets : Seen(b)}}

AllowList(S) == {<<a, mgen[a]>> : a \in {b \in App \cap S : Seen(b)}}

\* The selection is stored, then the allow-list is replaced by a rename: when
\* that fails the new selection stays and the old file with it.
StoreTargets ==
    /\ pc = "targets"
    /\ targets' = req.nodes
    /\ filter' = req.filter
    /\ \/ /\ allowed' = AllowList(req.nodes)
          /\ pc' = "sync"
          /\ UNCHANGED req
       \/ /\ Fallible
          /\ Reply(FALSE)
          /\ UNCHANGED allowed
    /\ UNCHANGED <<backendVars, requests, fresh, handles, prior, muted>>

\* Mutant: links of deselected applications are forgotten as well.
Retained_Selected == {l \in captureLinks : Seen(l.dst) /\ l.src \in targets}

\* Bookkeeping of captures the snapshot does not show is forgotten.
Retained == {l \in captureLinks : Seen(l.dst)}

\* Captures of the snapshot that have input ports, and those without an entry.
UsableCaptures == {c \in Capture : Seen(c) /\ PortsSeen(c, "in") # {}}
Unlinked == {c \in UsableCaptures : ~\E l \in Retained : l.dst = c}

\* Mutant: the removal comes after the "already linked" skip.
StraysToRemove_Unlinked == {s \in mstray : s[2] \in Unlinked /\ Seen(s[1])}

\* remove_stray_null_sink_links, for every usable capture.
StraysToRemove == {s \in mstray : s[2] \in UsableCaptures /\ Seen(s[1])}

\* Mutants: the handles are forgotten but not destroyed; destroyed but kept.
TearDownCaptures_NoDestroy ==
    /\ captureLinks' = {}
    /\ UNCHANGED <<live, createdLinks, counter>>
TearDownCaptures_NoTake ==
    /\ Relink({}, Retained)
    /\ captureLinks' = Retained

\* Nothing is selected: the links made for captures go.
TearDownCaptures == Relink({}, Retained) /\ captureLinks' = {}

\* The whole of sync_discord_capture_links; ok tells whether every link was made.
SyncTo(ok) ==
    \/ /\ targets = {}
       /\ ok
       /\ TearDownCaptures
       /\ UNCHANGED stray
    \/ /\ targets # {}
       /\ stray' = stray \ StraysToRemove
       /\ \E pass \in Linkable(targets, filter) :
             \E new \in Created(LinksFromTo(pass, Unlinked)) :
                /\ ok <=> new = LinksFromTo(pass, Unlinked)
                /\ Relink(new, {})
                /\ captureLinks' = Retained \cup new

SyncCaptureLinks ==
    /\ pc = "sync"
    /\ \E ok \in BOOLEAN : SyncTo(ok) /\ Reply(ok)
    /\ UNCHANGED <<gen, configured, nodes, mirrorVars, graphChanged, requests, fresh,
                   sinkHandle, micHandle, nullHandle, routeLinks, micLinks, targets, filter,
                   prior, allowed, muted>>

\* The main loop on IncomingMessage::GraphChanged; a failed sync is only logged.
GraphChanged ==
    /\ pc = "idle" /\ graphChanged
    /\ graphChanged' = FALSE
    /\ \E ok \in BOOLEAN : SyncTo(ok)
    /\ UNCHANGED <<gen, configured, nodes, mirrorVars, pc, req, requests, fresh, sinkHandle,
                   micHandle, nullHandle, routeLinks, micLinks, targets, filter, prior,
                   allowed, muted>>

--------------------------------------------------------------------------------
(* The end of the session. *)

SessionLinks == routeLinks \cup captureLinks \cup micLinks

\* Dispose request or end of stdin. The null sink is left to the process's exit.
Dispose ==
    /\ Serve("dispose",
             /\ UndoSucceeds
             /\ DestroySucceeds(SessionLinks)
             /\ micHandle \cup sinkHandle \subseteq nodes,
             "disposed")
    /\ UndoOverride
    /\ createdLinks' = createdLinks \ SessionLinks
    /\ nodes' = nodes \ (micHandle \cup sinkHandle)
    /\ live' = {l \in live \ SessionLinks :
                   {l.src, l.dst} \cap (micHandle \cup sinkHandle) = {}}
    /\ routeLinks' = {} /\ captureLinks' = {} /\ micLinks' = {}
    /\ micHandle' = {} /\ sinkHandle' = {}
    /\ targets' = {}
    /\ UNCHANGED <<gen, stray, counter, mirrorVars, graphChanged, fresh, nullHandle, filter,
                   allowed, muted>>

\* The server removes what a closed connection owns (object.linger is false).
ConnectionCloses ==
    /\ nodes' = {} /\ createdLinks' = {} /\ live' = {}
    /\ stray' = {s \in stray : s[1] \in Peer}
    /\ pc' = "exited"
    /\ UNCHANGED <<gen, configured, counter, mirrorVars, graphChanged, requests, fresh,
                   handles, targets, filter, prior, allowed, muted>>

\* Dispose was answered, main breaks out of its loop and returns.
Exit ==
    /\ pc = "disposed"
    /\ UNCHANGED req
    /\ ConnectionCloses

\* The client's abort: SIGKILL at any point.
Killed ==
    /\ "kill" \in Ops
    /\ pc # "exited"
    /\ req' = [req EXCEPT !.op = "kill"]
    /\ ConnectionCloses

--------------------------------------------------------------------------------

Init ==
    /\ BackendInit
    /\ pc = "idle"
    /\ req = [op |-> "none", nodes |-> {}, filter |-> FALSE, status |-> "none"]
    /\ requests = 0 /\ fresh = FALSE
    /\ sinkHandle = {} /\ micHandle = {} /\ nullHandle = {}
    /\ routeLinks = {} /\ micLinks = {} /\ captureLinks = {}
    /\ targets = {} /\ filter = FALSE
    /\ prior = "none" /\ allowed = {} /\ muted = FALSE

\* What the main loop does by itself once it has a message.
Step ==
    \/ EnsureSink \/ EnsureMic \/ LinkMonitorToMic \/ MicTimeout \/ SinkReady \/ SinkTimeout
    \/ RouteLink
    \/ EnsureNullSink \/ NullReady \/ NullTimeout \/ StoreTargets \/ SyncCaptureLinks
    \/ Exit

\* The client's requests.
Client ==
    \/ EnsureVirtualSink \/ RouteNodes \/ RouteNone \/ ClearRoutes
    \/ SetVirtualMicMute \/ SetDefaultSinkToVirtual \/ RestoreDefaultSink
    \/ SetDiscordCaptureTargets \/ Dispose \/ Killed

\* The rest of the world moves while the helper does whatever it is at.
Meanwhile(A) == pc # "exited" /\ A /\ UNCHANGED sessionVars

World == Meanwhile(Environment \/ Events)

Next == Step \/ GraphChanged \/ Client \/ World

Spec == Init /\ [][Next]_vars

(* The helper's threads keep running and the socket delivers; the client and   *)
(* other programs need not do anything.                                        *)
OwnNodeEvents(name) ==
    \E v \in nodes : v.name = name /\ VirtualNodeEvent(v)
OwnPortEvents(name, d, c) ==
    \E v \in mvirt : v.name = name /\ PortEvent(v, d, c)
StrayEvents(s) == StrayEvent(s) \/ StrayRemoved(s)
OwnStrayEvents(c) ==
    \E s \in stray \cup mstray : s[1] \in VNode /\ s[2] = c /\ StrayEvents(s)

Fairness ==
    /\ WF_vars(Step)
    /\ WF_vars(GraphChanged)
    /\ \A p \in Peer : WF_vars(Meanwhile(NodeEvent(p)))
    /\ \A p \in Peer, d \in Dir, c \in Channel : WF_vars(Meanwhile(PortEvent(p, d, c)))
    /\ \A name \in VName : WF_vars(Meanwhile(OwnNodeEvents(name)))
    /\ \A name \in VName, d \in Dir, c \in Channel :
          WF_vars(Meanwhile(OwnPortEvents(name, d, c)))
    /\ \A s \in OtherNull \X Capture : WF_vars(Meanwhile(StrayEvents(s)))
    /\ \A c \in Capture : WF_vars(Meanwhile(OwnStrayEvents(c)))

FairSpec == Spec /\ Fairness

\* Only the main loop is fair: no event need ever arrive.
StepSpec == Spec /\ WF_vars(Step)

--------------------------------------------------------------------------------
(* Properties. *)

Running == pc \notin {"disposed", "exited"}

IntoSink(l) == l.dst \in nodes /\ l.dst.name = "sink"
IntoCapture(l) == l.dst \in Capture

Answered(op) == req.op = op /\ req.status = "ok"

\* Every handle the session holds has a proxy on the loop thread, and no handle
\* is held twice: clear_routes, dispose and the teardown of capture links never
\* meet "unknown link handle", whatever failed before.
HandlesTracked ==
    pc # "exited" =>
        /\ SessionLinks \subseteq createdLinks
        /\ sinkHandle \cup micHandle \cup nullHandle \subseteq nodes
        /\ routeLinks \cap captureLinks = {}
        /\ routeLinks \cap micLinks = {}
        /\ captureLinks \cap micLinks = {}

\* A link that exists on the server is known to the session. The capture links
\* sync_discord_capture_links forgets, and the routes route_nodes replaces, are
\* really gone from the server, although the decision is taken on a graph that
\* is out of date; so dispose leaves no link behind.
NoOrphanLinks == live \subseteq SessionLinks

\* The sink-monitor -> mic links outlive every route_nodes and clear_routes.
MicPlumbingIntact == Running => micLinks \subseteq live

\* After a route_nodes or clear_routes that succeeded, and until the next
\* request, only nodes of that selection play into the virtual sink.
RoutesReplaced ==
    Answered("route") \/ Answered("clear") =>
        \A l \in live : IntoSink(l) => l.src \in req.nodes

\* Neither the virtual sink nor the virtual mic is ever played back into the
\* sink or into a capture, even when the client passes their ids.
NoFeedback == \A l \in live : IntoSink(l) \/ IntoCapture(l) => l.src \in App

\* After an empty selection was accepted no capture hears anything from us, nor
\* does a later graph change make it.
NothingSelectedNothingHeard ==
    Answered("targets") /\ req.nodes = {} => \A l \in live : ~IntoCapture(l)

\* After a selection was accepted the allow-list lets through selected
\* applications only.
AllowedAreSelected ==
    Answered("targets") => \A e \in allowed : e[1] \in req.nodes

\* Overriding the default again does not replace the remembered default.
PriorKept == [][prior # "none" => prior' \in {prior, "none"}]_vars

\* A session that overrode the default, however often, gives the user's sink back
\* when it is disposed of, even before the mirror has learned of the override
\* (given that the mirror knew the default, and nothing was restored before).
DefaultGivenBack == pc = "disposed" => configured = "user"

\* No handler stays in its waits, even when the server never announces what was
\* created: the main loop gets back to its queue or ends.
HelperResponsive == pc \notin {"idle", "exited"} ~> pc \in {"idle", "exited"}

\* No link from a null sink into a capture outlives the selection of an
\* application: some sync removes it, whether the capture is linked or not, and
\* whether this session or another one owns the null sink.
Muffled(c, own) ==
    \E s \in stray : s[2] = c /\ (s[1] \in VNode <=> own)

StraysCleared ==
    \A c \in Capture, own \in BOOLEAN :
        Muffled(c, own) ~> (targets = {} \/ ~Running \/ ~Muffled(c, own))

\* While applications are selected and up, every capture ends up linked to one.
CapturesLinked ==
    []<>(Running /\ targets # {} /\ (\A a \in targets : Up(a)) =>
            \A c \in Capture : Up(c) => \E l \in live : l.dst = c /\ l.src \in targets)

\* This session as its client knows it: an application is heard in the sink and in the
\* captures only while it is selected there, or was when it was connected; an accepted
\* selection has replaced the one before, at once in the sink, and in the captures when
\* it is empty; nothing is heard any more once the helper is gone, however it went.
Sharing == INSTANCE AudioSharing WITH
    App <- Selectable,
    Lingers <- FALSE,
    wanted <- [p \in {"sink", "capture"} |->
                  IF p = "capture" THEN targets ELSE IF req.op = "route" THEN req.nodes ELSE {}],
    heard <- {<<l.src, "sink">> : l \in {k \in live : IntoSink(k)}}
             \cup {<<l.src, "capture">> : l \in {k \in live : IntoCapture(k)}},
    answered <- {p \in {"sink", "capture"} :
                    IF p = "capture" THEN Answered("targets")
                                     ELSE Answered("route") \/ Answered("clear")},
    open <- pc # "exited"

ImplementsSharing == Sharing!Spec

(* What makes the invariants inductive. *)

\* The mirror is never ahead of the server.
MirrorBehind == \A p \in Peer : mgen[p] <= gen[p]

\* A link lives between nodes the mirror has caught up with, so a node that the
\* mirror does not show has no link of ours.
EndsCurrent == \A l \in live : Current(l.src) /\ Current(l.dst)

\* The next handle is not in use.
FreshHandles == (\A l \in createdLinks : l.n < counter) /\ (\A v \in nodes : v.n < counter)

\* Our own nodes stay on the server as long as the session runs.
OwnNodesStay == Running => mvirt \subseteq nodes

\* Which node each handle is for.
HandleNames ==
    /\ \A v \in sinkHandle : v.name = "sink"
    /\ \A v \in micHandle  : v.name = "mic"
    /\ \A v \in nullHandle : v.name = "null"

\* Which nodes each list of handles connects.
LinkShapes ==
    /\ \A l \in routeLinks   : l.src \in App /\ l.dst \in VNode /\ l.dst.name = "sink"
    /\ \A l \in captureLinks : l.src \in App /\ l.dst \in Capture
    /\ \A l \in micLinks     : l.src \in VNode /\ l.dst \in VNode /\ l.dst.name = "mic"

\* The mic is linked at most once, right after its creation.
MicUnlinked ==
    /\ pc = "micLink" => micHandle # {}
    /\ pc = "micLink" \/ (micHandle = {} /\ Running) => micLinks = {}

IInv == /\ TypeOK
        /\ MirrorBehind /\ EndsCurrent /\ FreshHandles /\ OwnNodesStay /\ LinkShapes
        /\ HandleNames /\ MicUnlinked
        /\ HandlesTracked /\ NoOrphanLinks /\ MicPlumbingIntact

--------------------------------------------------------------------------------
(* What comments and documentation say, and the code does not keep. *)

\* mod.rs: set_discord_capture_targets replaces whatever selection was routed.
CapturesFollowSelection ==
    Answered("targets") => \A l \in live : IntoCapture(l) => l.src \in req.nodes

\* README: routeNodes routes the nodes; after it succeeded something plays.
RoutedNodesPlay ==
    Answered("route") /\ req.nodes # {} => \E l \in live : IntoSink(l)

\* state_native.rs: without its links the mic captures silence, so a successful
\* ensure_virtual_sink with a mic has made them.
MicIsLinked == VirtualMic /\ Answered("ensure") => micLinks # {}
================================================================================
