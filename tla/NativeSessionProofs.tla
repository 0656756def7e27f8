-------------------------- MODULE NativeSessionProofs --------------------------
(* Theorems about NativeSession, for every value of the constants. *)
EXTENDS NativeSession, TLAPS

USE PeersDisjoint, PeersAreNotOurs

--------------------------------------------------------------------------------
(* What the operators of the model return. *)

\* map_ports pairs announced output ports with announced input ports.
LEMMA MapPortsType ==
    ASSUME NEW outs \in SUBSET Channel, NEW ins \in SUBSET Channel, ins # {}
    PROVE  MapPorts(outs, ins) \subseteq Channel \X Channel
  <1>1. (CHOOSE i \in ins : TRUE) \in ins
    OBVIOUS
  <1>. QED  BY <1>1 DEF MapPorts

\* The links wanted between two nodes have those ends, and fresh handles.
LEMMA LinksBetweenType ==
    ASSUME counter \in Nat, NEW src \in Node, NEW dst \in Node
    PROVE  /\ LinksBetween(src, dst) \subseteq Link
           /\ \A l \in LinksBetween(src, dst) : l.src = src /\ l.dst = dst /\ l.n = counter
  <1>1. PortsSeen(src, "out") \subseteq Channel /\ PortsSeen(dst, "in") \subseteq Channel
    BY DEF PortsSeen
  <1>2. CASE PortsSeen(dst, "in") = {}
    BY <1>2 DEF LinksBetween
  <1>3. CASE PortsSeen(dst, "in") # {}
    <2>1. MapPorts(PortsSeen(src, "out"), PortsSeen(dst, "in")) \subseteq Channel \X Channel
      BY <1>1, <1>3, MapPortsType
    <2>. QED  BY <1>3, <2>1 DEF LinksBetween, Link
  <1>. QED  BY <1>2, <1>3

\* There is something to link where both nodes show a port.
LEMMA SomethingToLink ==
    ASSUME NEW src, NEW dst, PortsSeen(src, "out") # {}, PortsSeen(dst, "in") # {}
    PROVE  LinksBetween(src, dst) # {}
  <1>1. PICK o \in PortsSeen(src, "out") : TRUE
    OBVIOUS
  <1>2. MapPorts(PortsSeen(src, "out"), PortsSeen(dst, "in")) # {}
    BY <1>1 DEF MapPorts
  <1>. QED  BY <1>2 DEF LinksBetween

\* The nodes a linking loop considers are applications, or own nodes that are
\* neither the sink nor the mic; the latter cannot be named by a client.
LEMMA LinkableApps ==
    ASSUME TypeOK, NEW S \in SUBSET Selectable, NEW f, NEW pass \in Linkable(S, f)
    PROVE  pass \subseteq App
  <1>1. pass \subseteq {x \in Chosen(S) : ~IsOurs(x)}
    BY DEF Linkable
  <1>2. \A v \in mvirt : v.name \in VName
    BY DEF TypeOK, BackendTypeOK, VNode
  <1>3. ASSUME NEW x \in mvirt, x.name \in S, ~IsOurs(x)
        PROVE  x \in App
    BY <1>2, <1>3 DEF IsOurs, OwnName, Selectable, VName, Peer
  <1>. QED  BY <1>1, <1>3 DEF Chosen

\* write_result leaves a well-formed request behind.
LEMMA ReplyType ==
    ASSUME TypeOK, NEW ok, Reply(ok)
    PROVE  req' \in Request /\ pc' \in Point
  BY DEF TypeOK, SessionTypeOK, Reply, Request, Point

\* A request that is taken is well formed.
LEMMA ReceiveType ==
    ASSUME TypeOK, NEW op, NEW S \in SUBSET Selectable, NEW f \in BOOLEAN,
           NEW status \in {"busy", "ok", "error"}, NEW next \in Point,
           Receive(op, S, f, status, next)
    PROVE  req' \in Request /\ pc' \in Point /\ requests' \in Nat
  <1>1. op \in Operation
    BY SessionConstants DEF Receive
  <1>. QED  BY <1>1 DEF TypeOK, SessionTypeOK, Receive, Request

\* So is one that is answered at once.
LEMMA ServeType ==
    ASSUME TypeOK, NEW op, NEW ok, NEW next \in Point, Serve(op, ok, next)
    PROVE  req' \in Request /\ pc' \in Point /\ requests' \in Nat
  BY ReceiveType DEF Serve

\* Creating and destroying links keeps the sets of links sets of links.
LEMMA RelinkType ==
    ASSUME TypeOK, NEW new \in SUBSET Link, NEW old, Relink(new, old)
    PROVE  createdLinks' \subseteq Link /\ live' \subseteq Link /\ counter' \in Nat
  BY DEF TypeOK, BackendTypeOK, Relink

\* The first free handle makes a node.
LEMMA NewNodeType ==
    ASSUME TypeOK, NEW name \in VName, CreateVirtualNode(name)
    PROVE  NewNode(name) \in VNode /\ nodes' \subseteq VNode /\ counter' \in Nat
  BY DEF TypeOK, BackendTypeOK, CreateVirtualNode, NewNode, VNode

\* The name lookup returns nodes.
LEMMA NamedSeenType ==
    ASSUME TypeOK, NEW name
    PROVE  /\ NamedSeen(name) \subseteq Node
           /\ ReadyNodes(name) \subseteq NamedSeen(name)
           /\ name # "null" => NamedSeen(name) = {v \in mvirt : v.name = name}
  BY DEF TypeOK, BackendTypeOK, NamedSeen, ReadyNodes, Node, Peer

\* What ensure_virtual_sink does after the mic.
LEMMA EnsuredType ==
    ASSUME TypeOK, AfterMic \/ Ensured \/ SinkInfo
    PROVE  req' \in Request /\ pc' \in Point
  <1>1. CASE Ensured
    BY <1>1, ReplyType DEF Ensured, TypeOK, SessionTypeOK, Point
  <1>2. CASE AfterMic
    BY <1>1, <1>2 DEF AfterMic, TypeOK, SessionTypeOK, Point
  <1>3. CASE SinkInfo
    BY <1>1, <1>3, ReplyType DEF SinkInfo
  <1>. QED  BY <1>1, <1>2, <1>3

\* The links of a linking loop over several nodes.
LEMMA WantedType ==
    ASSUME TypeOK, NEW xs \in SUBSET Node, NEW ys \in SUBSET Node,
           NEW new \in Created(LinksFromTo(xs, ys))
    PROVE  /\ new \subseteq Link
           /\ \A l \in new : l.src \in xs /\ l.dst \in ys /\ l.n = counter
  <1>1. counter \in Nat
    BY DEF TypeOK, BackendTypeOK
  <1>2. new \subseteq LinksFromTo(xs, ys)
    BY DEF Created
  <1>3. ASSUME NEW l \in new
        PROVE  l \in Link /\ l.src \in xs /\ l.dst \in ys /\ l.n = counter
    <2>1. PICK x \in xs, y \in ys : l \in LinksBetween(x, y)
      BY <1>2, <1>3 DEF LinksFromTo
    <2>. QED  BY <1>1, <2>1, LinksBetweenType
  <1>. QED  BY <1>3

--------------------------------------------------------------------------------
(* Type correctness. *)

\* The initial state is well formed.
LEMMA InitType == Init => TypeOK
  <1>. SUFFICES ASSUME Init PROVE TypeOK
    OBVIOUS
  <1>1. BackendTypeOK
    BY BackendConstants DEF Init, BackendInit, BackendTypeOK, Default
  <1>2. SessionTypeOK
    BY DEF Init, SessionTypeOK, Default, Point, Request, Selectable
  <1>. QED  BY <1>1, <1>2 DEF TypeOK

\* The environment and the events keep the backend's variables in their types.
LEMMA WorldType ==
    ASSUME TypeOK, Environment \/ Events
    PROVE  BackendTypeOK'
  <1>. USE DEF TypeOK, BackendTypeOK, serverVars, proxyVars, mirrorVars
  <1>1. ASSUME NEW p \in Peer, PeerAppears(p)
        PROVE  BackendTypeOK'
    BY <1>1 DEF PeerAppears
  <1>2. ASSUME NEW p \in Peer, PeerDisappears(p)
        PROVE  BackendTypeOK'
    BY <1>2 DEF PeerDisappears
  <1>3. ASSUME NEW x \in OtherNull \cup nodes, NEW c \in Capture, StrayForms(x, c)
        PROVE  BackendTypeOK'
    BY <1>3 DEF StrayForms, Node, Peer
  <1>4. ASSUME NEW p \in Peer, NodeEvent(p)
        PROVE  BackendTypeOK'
    BY <1>4 DEF NodeEvent
  <1>5. ASSUME NEW v \in nodes, VirtualNodeEvent(v)
        PROVE  BackendTypeOK'
    BY <1>5 DEF VirtualNodeEvent
  <1>6. ASSUME NEW x \in Peer \cup mvirt, NEW d \in Dir, NEW c \in Channel, PortEvent(x, d, c)
        PROVE  BackendTypeOK'
    BY <1>6 DEF PortEvent, Node
  <1>7. ASSUME NEW s \in stray \cup mstray, StrayEvent(s) \/ StrayRemoved(s)
        PROVE  BackendTypeOK'
    BY <1>7 DEF StrayEvent, StrayRemoved
  <1>8. ASSUME MetadataEvent \/ DefaultEvent
        PROVE  BackendTypeOK'
    BY <1>8 DEF MetadataEvent, DefaultEvent, Effective, Default
  <1>. QED  BY <1>1, <1>2, <1>3, <1>4, <1>5, <1>6, <1>7, <1>8 DEF Environment, Events

\* A sync keeps links links, and only removes stray links.
LEMMA SyncType ==
    ASSUME TypeOK, NEW ok, SyncTo(ok)
    PROVE  /\ createdLinks' \subseteq Link /\ live' \subseteq Link /\ counter' \in Nat
           /\ captureLinks' \subseteq Link
           /\ stray' \subseteq Node \X Capture
  <1>1. Retained \subseteq Link
    BY DEF TypeOK, SessionTypeOK, Retained
  <1>2. CASE targets = {}
    BY <1>1, <1>2, RelinkType DEF SyncTo, TearDownCaptures, TypeOK, BackendTypeOK
  <1>3. CASE targets # {}
    <2>1. PICK pass \in Linkable(targets, filter) :
            \E new \in Created(LinksFromTo(pass, Unlinked)) :
               Relink(new, {}) /\ captureLinks' = Retained \cup new
      BY <1>3 DEF SyncTo
    <2>2. PICK new \in Created(LinksFromTo(pass, Unlinked)) :
             Relink(new, {}) /\ captureLinks' = Retained \cup new
      BY <2>1
    <2>3. pass \subseteq Node /\ Unlinked \subseteq Node
      BY LinkableApps DEF TypeOK, SessionTypeOK, Unlinked, UsableCaptures, Node, Peer
    <2>4. new \subseteq Link
      BY <2>2, <2>3, WantedType
    <2>5. stray' \subseteq stray
      BY <1>3 DEF SyncTo
    <2>. QED  BY <1>1, <2>2, <2>4, <2>5, RelinkType DEF TypeOK, BackendTypeOK
  <1>. QED  BY <1>2, <1>3

\* Every step of the helper and of its surroundings keeps the types.
LEMMA TypeStep == TypeOK /\ [Next]_vars => TypeOK'
  <1>. SUFFICES ASSUME TypeOK, [Next]_vars PROVE TypeOK'
    OBVIOUS
  <1>. USE DEF TypeOK, BackendTypeOK, SessionTypeOK, serverVars, proxyVars, mirrorVars,
               backendVars, handles, sessionVars, vars
  <1>1. CASE UNCHANGED vars
    BY <1>1
  <1>2. CASE World
    <2>1. BackendTypeOK'
      BY <1>2, WorldType DEF World, Meanwhile
    <2>2. SessionTypeOK'
      BY <1>2 DEF World, Meanwhile
    <2>. QED  BY <2>1, <2>2
  <1>3. CASE EnsureVirtualSink
    BY <1>3, ReceiveType DEF EnsureVirtualSink, Take, Point
  <1>4. CASE RouteNodes
    BY <1>4, ReceiveType, SessionConstants DEF RouteNodes, Take, Point
  <1>5. CASE RouteNone
    <2>1. req' \in Request /\ pc' \in Point /\ requests' \in Nat
      BY <1>5, ReceiveType, ServeType DEF RouteNone, Take, Point
    <2>2. createdLinks' \subseteq Link /\ live' \subseteq Link /\ counter' \in Nat
      BY <1>5, RelinkType DEF RouteNone, DropRoutes
    <2>. QED  BY <1>5, <2>1, <2>2 DEF RouteNone, DropRoutes
  <1>6. CASE EnsureSink
    <2>1. req' \in Request /\ pc' \in Point
      BY <1>6, ReplyType DEF EnsureSink, Point
    <2>2. nodes' \subseteq VNode /\ sinkHandle' \subseteq VNode /\ counter' \in Nat
      BY <1>6, NewNodeType DEF EnsureSink, VName
    <2>. QED  BY <1>6, <2>1, <2>2 DEF EnsureSink
  <1>7. CASE EnsureMic
    <2>1. req' \in Request /\ pc' \in Point
      BY <1>7, ReplyType, EnsuredType DEF EnsureMic, Point
    <2>2. nodes' \subseteq VNode /\ micHandle' \subseteq VNode /\ counter' \in Nat
      BY <1>7, NewNodeType DEF EnsureMic, VName
    <2>. QED  BY <1>7, <2>1, <2>2 DEF EnsureMic
  <1>8. CASE LinkMonitorToMic
    <2>1. ASSUME NEW s \in ReadyNodes("sink"), NEW m \in ReadyNodes("mic"),
                 NEW new \in Created(LinksBetween(s, m)),
                 Relink(new, {}), micLinks' = micLinks \cup new,
                 IF new = LinksBetween(s, m) THEN AfterMic ELSE Reply(FALSE)
          PROVE  TypeOK'
      <3>1. new \subseteq Link
        BY NamedSeenType, LinksBetweenType DEF Created
      <3>2. req' \in Request /\ pc' \in Point
        BY <2>1, ReplyType, EnsuredType
      <3>3. createdLinks' \subseteq Link /\ live' \subseteq Link /\ counter' \in Nat
        BY <2>1, <3>1, RelinkType
      <3>. QED  BY <1>8, <2>1, <3>1, <3>2, <3>3 DEF LinkMonitorToMic
    <2>. QED  BY <1>8, <2>1 DEF LinkMonitorToMic
  <1>9. CASE MicTimeout
    BY <1>9, ReplyType DEF MicTimeout
  <1>10. CASE SinkReady
    <2>1. req' \in Request /\ pc' \in Point
      BY <1>10, ReplyType, EnsuredType DEF SinkReady
    <2>2. prior' \in Default \cup {"none"} /\ configured' \in Default
      BY <1>10 DEF SinkReady, OverrideDefault, Default
    <2>. QED  BY <1>10, <2>1, <2>2 DEF SinkReady
  <1>11. CASE SinkTimeout
    BY <1>11, ReplyType DEF SinkTimeout
  <1>12. CASE RouteLink
    <2>1. req' \in Request /\ pc' \in Point
      BY <1>12, ReplyType DEF RouteLink
    <2>2. CASE UNCHANGED <<live, createdLinks, counter, routeLinks>>
      BY <1>12, <2>1, <2>2 DEF RouteLink
    <2>3. ASSUME NEW s \in ReadyNodes("sink"), NEW pass \in Linkable(req.nodes, req.filter),
                 NEW new \in Created(LinksFromTo(pass, {s})), ReplaceRoutes(new)
          PROVE  TypeOK'
      <3>1. pass \subseteq Node /\ {s} \subseteq Node
        BY NamedSeenType, LinkableApps DEF Request, Node, Peer
      <3>2. new \subseteq Link
        BY <3>1, WantedType
      <3>3. createdLinks' \subseteq Link /\ live' \subseteq Link /\ counter' \in Nat
        BY <2>3, <3>2, RelinkType DEF ReplaceRoutes
      <3>. QED  BY <1>12, <2>1, <2>3, <3>2, <3>3 DEF RouteLink, ReplaceRoutes
    <2>. QED  BY <1>12, <2>2, <2>3 DEF RouteLink
  <1>13. CASE ClearRoutes
    <2>1. req' \in Request /\ pc' \in Point /\ requests' \in Nat
      BY <1>13, ServeType DEF ClearRoutes, Point
    <2>2. createdLinks' \subseteq Link /\ live' \subseteq Link /\ counter' \in Nat
      BY <1>13, RelinkType DEF ClearRoutes, DropRoutes
    <2>. QED  BY <1>13, <2>1, <2>2 DEF ClearRoutes, DropRoutes
  <1>14. CASE SetVirtualMicMute
    BY <1>14, ServeType DEF SetVirtualMicMute, Point
  <1>15. CASE SetDefaultSinkToVirtual
    BY <1>15, ServeType DEF SetDefaultSinkToVirtual, OverrideDefault, Default, Point
  <1>16. CASE RestoreDefaultSink
    BY <1>16, ServeType DEF RestoreDefaultSink, UndoOverride, Default, Point
  <1>17. CASE SetDiscordCaptureTargets
    BY <1>17, ReceiveType, SessionConstants DEF SetDiscordCaptureTargets, Take, Point
  <1>18. CASE EnsureNullSink
    <2>1. req' \in Request /\ pc' \in Point
      BY <1>18, ReplyType DEF EnsureNullSink, Point
    <2>2. nodes' \subseteq VNode /\ nullHandle' \subseteq VNode /\ counter' \in Nat
      BY <1>18, NewNodeType DEF EnsureNullSink, VName
    <2>. QED  BY <1>18, <2>1, <2>2 DEF EnsureNullSink
  <1>19. CASE NullReady
    BY <1>19 DEF NullReady, Point
  <1>20. CASE NullTimeout
    BY <1>20, ReplyType DEF NullTimeout
  <1>21. CASE StoreTargets
    <2>1. req' \in Request /\ pc' \in Point
      BY <1>21, ReplyType DEF StoreTargets, Point
    <2>2. AllowList(req.nodes) \subseteq App \X Nat
      BY DEF AllowList, Peer
    <2>. QED  BY <1>21, <2>1, <2>2 DEF StoreTargets, Request
  <1>22. CASE SyncCaptureLinks
    BY <1>22, ReplyType, SyncType DEF SyncCaptureLinks
  <1>23. CASE GraphChanged
    BY <1>23, SyncType DEF GraphChanged
  <1>24. CASE Dispose
    <2>1. req' \in Request /\ pc' \in Point /\ requests' \in Nat
      BY <1>24, ServeType DEF Dispose, Point
    <2>2. prior' \in Default \cup {"none"} /\ configured' \in Default
      BY <1>24 DEF Dispose, UndoOverride, Default
    <2>. QED  BY <1>24, <2>1, <2>2 DEF Dispose
  <1>25. CASE Exit
    BY <1>25 DEF Exit, ConnectionCloses, Point
  <1>26. CASE Killed
    BY <1>26 DEF Killed, ConnectionCloses, Point, Request, Operation
  <1>. QED
    BY <1>1, <1>2, <1>3, <1>4, <1>5, <1>6, <1>7, <1>8, <1>9, <1>10, <1>11, <1>12, <1>13,
       <1>14, <1>15, <1>16, <1>17, <1>18, <1>19, <1>20, <1>21, <1>22, <1>23, <1>24, <1>25,
       <1>26
    DEF Next, Step, Client

\* Every variable stays within its type, in every behaviour.
THEOREM Typing == Spec => []TypeOK
  <1>1. Init => TypeOK
    BY InitType
  <1>2. TypeOK /\ [Next]_vars => TypeOK'
    BY TypeStep
  <1>. QED  BY <1>1, <1>2, PTL DEF Spec

--------------------------------------------------------------------------------
(* The inductive invariant. *)

\* It holds at the start.
LEMMA InitInv == Init => IInv
  <1>. SUFFICES ASSUME Init PROVE IInv
    OBVIOUS
  <1>1. TypeOK
    BY InitType
  <1>2. MirrorBehind
    BY BackendConstants DEF Init, BackendInit, MirrorBehind
  <1>. QED
    BY <1>1, <1>2
    DEF Init, BackendInit, IInv, EndsCurrent, FreshHandles, OwnNodesStay, HandleNames, LinkShapes,
        MicUnlinked, HandlesTracked, NoOrphanLinks, MicPlumbingIntact, SessionLinks

\* A step of another program, or an event: the links that go are links of a node
\* that goes, and the mirror moves only for nodes that have no link of ours.
LEMMA WorldInv == IInv /\ TypeOK' /\ World => IInv'
  <1>. SUFFICES ASSUME IInv, TypeOK', World PROVE IInv'
    OBVIOUS
  <1>. USE DEF World, Meanwhile, sessionVars, handles
  <1>1. /\ pc # "exited"
        /\ UNCHANGED sessionVars
    OBVIOUS
  <1>2. ASSUME live' \subseteq live, nodes' = nodes, createdLinks' = createdLinks,
               counter' = counter, mvirt' \subseteq nodes \cup mvirt,
               MirrorBehind', EndsCurrent', Running => micLinks \subseteq live'
        PROVE  IInv'
    BY <1>1, <1>2
    DEF IInv, FreshHandles, HandleNames, OwnNodesStay, LinkShapes, MicUnlinked, HandlesTracked,
        NoOrphanLinks, MicPlumbingIntact, SessionLinks, Running
  <1>3. ASSUME UNCHANGED <<gen, mgen, live, nodes, createdLinks, counter, mvirt>>
        PROVE  IInv'
    <2>1. MirrorBehind' /\ EndsCurrent'
      BY <1>3 DEF IInv, MirrorBehind, EndsCurrent, Current, Up, Odd
    <2>. QED  BY <1>2, <1>3, <2>1 DEF IInv, MicPlumbingIntact
  <1>. USE DEF proxyVars, mirrorVars, serverVars
  <1>4. ASSUME NEW p \in Peer, PeerAppears(p)
        PROVE  IInv'
    <2>1. gen \in [Peer -> Nat] /\ mgen \in [Peer -> Nat] /\ live \subseteq Link
      BY DEF IInv, TypeOK, BackendTypeOK
    <2>2. MirrorBehind'
      BY <1>4, <2>1 DEF IInv, MirrorBehind, PeerAppears
    <2>3. EndsCurrent'
      BY <1>4, <2>1 DEF IInv, EndsCurrent, Current, Up, PeerAppears
    <2>. QED  BY <1>2, <1>4, <2>2, <2>3 DEF PeerAppears, IInv, MicPlumbingIntact
  <1>5. ASSUME NEW p \in Peer, PeerDisappears(p)
        PROVE  IInv'
    <2>1. gen \in [Peer -> Nat] /\ mgen \in [Peer -> Nat] /\ live \subseteq Link
      BY DEF IInv, TypeOK, BackendTypeOK
    <2>2. MirrorBehind'
      BY <1>5, <2>1 DEF IInv, MirrorBehind, PeerDisappears
    <2>3. EndsCurrent'
      BY <1>5, <2>1 DEF IInv, EndsCurrent, Current, Up, PeerDisappears
    <2>4. Running => micLinks \subseteq live'
      BY <1>5 DEF IInv, MicPlumbingIntact, LinkShapes, PeerDisappears
    <2>. QED  BY <1>2, <1>5, <2>2, <2>3, <2>4 DEF PeerDisappears
  <1>6. ASSUME NEW x \in OtherNull \cup nodes, NEW c \in Capture, StrayForms(x, c)
        PROVE  IInv'
    BY <1>3, <1>6 DEF StrayForms
  <1>7. ASSUME NEW p \in Peer, NodeEvent(p)
        PROVE  IInv'
    <2>1. gen \in [Peer -> Nat] /\ mgen \in [Peer -> Nat] /\ live \subseteq Link
      BY DEF IInv, TypeOK, BackendTypeOK
    <2>2. MirrorBehind'
      BY <1>7, <2>1 DEF IInv, MirrorBehind, NodeEvent
    <2>3. EndsCurrent'
      BY <1>7, <2>1 DEF IInv, EndsCurrent, Current, Up, NodeEvent
    <2>. QED  BY <1>2, <1>7, <2>2, <2>3 DEF NodeEvent, IInv, MicPlumbingIntact
  <1>8. ASSUME NEW v \in nodes, VirtualNodeEvent(v)
        PROVE  IInv'
    <2>1. MirrorBehind' /\ EndsCurrent'
      BY <1>8 DEF IInv, MirrorBehind, EndsCurrent, Current, Up, Odd, VirtualNodeEvent
    <2>. QED  BY <1>2, <1>8, <2>1 DEF VirtualNodeEvent, IInv, MicPlumbingIntact
  <1>9. ASSUME NEW x \in Peer \cup mvirt, NEW d \in Dir, NEW c \in Channel, PortEvent(x, d, c)
        PROVE  IInv'
    BY <1>3, <1>9 DEF PortEvent
  <1>10. ASSUME NEW s \in stray \cup mstray, StrayEvent(s) \/ StrayRemoved(s)
        PROVE  IInv'
    BY <1>3, <1>10 DEF StrayEvent, StrayRemoved
  <1>11. ASSUME MetadataEvent \/ DefaultEvent
        PROVE  IInv'
    BY <1>3, <1>11 DEF MetadataEvent, DefaultEvent
  <1>. QED
    BY <1>4, <1>5, <1>6, <1>7, <1>8, <1>9, <1>10, <1>11 DEF Environment, Events

\* A step that neither links nor creates anything, within the session.
LEMMA QuietInv ==
    ASSUME IInv, TypeOK', Running, Running', pc' # "micLink",
           UNCHANGED <<gen, mgen, live, nodes, createdLinks, counter, mvirt, handles>>
    PROVE  IInv'
  <1>1. MirrorBehind' /\ EndsCurrent'
    BY DEF IInv, MirrorBehind, EndsCurrent, Current, Up, Odd
  <1>. QED
    BY <1>1
    DEF IInv, FreshHandles, HandleNames, OwnNodesStay, LinkShapes, MicUnlinked, HandlesTracked,
        NoOrphanLinks, MicPlumbingIntact, SessionLinks, Running, handles

\* A node is created, and its handle stored in one of the handle fields.
LEMMA CreateNodeInv ==
    ASSUME IInv, TypeOK', Running, Running', NEW name, CreateVirtualNode(name),
           UNCHANGED <<gen, mgen, live, createdLinks, mvirt, routeLinks, micLinks, captureLinks>>,
           sinkHandle' \subseteq sinkHandle \cup {NewNode(name)},
           micHandle' \subseteq micHandle \cup {NewNode(name)},
           nullHandle' \subseteq nullHandle \cup {NewNode(name)},
           HandleNames', MicUnlinked'
    PROVE  IInv'
  <1>1. MirrorBehind'
    BY DEF IInv, MirrorBehind
  <1>2. nodes \subseteq nodes' /\ NewNode(name) \in nodes' /\ counter' = counter + 1
    BY DEF CreateVirtualNode
  <1>3. EndsCurrent'
    BY <1>2 DEF IInv, EndsCurrent, Current, Up, Odd
  <1>4. counter \in Nat /\ (\A l \in createdLinks : l.n \in Nat) /\ (\A v \in nodes : v.n \in Nat)
    BY DEF IInv, TypeOK, BackendTypeOK, Link, VNode
  <1>5. FreshHandles'
    BY <1>2, <1>4 DEF IInv, FreshHandles, CreateVirtualNode, NewNode
  <1>6. HandlesTracked'
    BY <1>2 DEF IInv, HandlesTracked, SessionLinks, Running
  <1>. QED
    BY <1>1, <1>2, <1>3, <1>5, <1>6
    DEF IInv, OwnNodesStay, HandleNames, LinkShapes, NoOrphanLinks, MicPlumbingIntact, SessionLinks

\* What a batch of link commands does to the facts about links as such: the new
\* links are unknown so far, and those that come to life have live ends.
LEMMA RelinkFacts ==
    ASSUME IInv, NEW new \in SUBSET Link, NEW old, Relink(new, old),
           \A l \in new : l.n = counter,
           UNCHANGED <<gen, mgen, nodes, mvirt>>
    PROVE  /\ MirrorBehind' /\ EndsCurrent' /\ FreshHandles'
           /\ new \cap createdLinks = {}
           /\ live' \subseteq (live \cup new) \ old
           /\ live \ old \subseteq live'
           /\ createdLinks' = (createdLinks \cup new) \ old
  <1>1. counter \in Nat /\ (\A l \in createdLinks : l.n \in Nat) /\ (\A v \in nodes : v.n \in Nat)
    BY DEF IInv, TypeOK, BackendTypeOK, Link, VNode
  <1>2. MirrorBehind'
    BY DEF IInv, MirrorBehind
  <1>3. \A l \in live' : Current(l.src) /\ Current(l.dst)
    BY DEF IInv, EndsCurrent, Relink, Takes
  <1>4. EndsCurrent'
    BY <1>3 DEF EndsCurrent, Current, Up, Odd
  <1>5. FreshHandles'
    BY <1>1 DEF IInv, FreshHandles, Relink
  <1>6. new \cap createdLinks = {}
    BY <1>1 DEF IInv, FreshHandles
  <1>. QED  BY <1>2, <1>4, <1>5, <1>6 DEF Relink

\* The routes are replaced, by a set of new links that may be empty.
LEMMA RoutesInv ==
    ASSUME IInv, TypeOK', Running, Running', pc' # "micLink",
           NEW new \in SUBSET Link, Relink(new, routeLinks), routeLinks' = new,
           \A l \in new : /\ l.n = counter /\ l.src \in App
                         /\ l.dst \in VNode /\ l.dst.name = "sink",
           UNCHANGED <<gen, mgen, nodes, mvirt, sinkHandle, micHandle, nullHandle, micLinks,
                       captureLinks>>
    PROVE  IInv'
  <1>1. /\ MirrorBehind' /\ EndsCurrent' /\ FreshHandles'
        /\ new \cap createdLinks = {}
        /\ live' \subseteq (live \cup new) \ routeLinks
        /\ live \ routeLinks \subseteq live'
        /\ createdLinks' = (createdLinks \cup new) \ routeLinks
    BY RelinkFacts
  <1>2. SessionLinks \subseteq createdLinks
    BY DEF IInv, HandlesTracked, Running
  <1>3. HandlesTracked'
    BY <1>1, <1>2 DEF IInv, HandlesTracked, SessionLinks, Running
  <1>4. NoOrphanLinks'
    BY <1>1 DEF IInv, NoOrphanLinks, SessionLinks
  <1>5. MicPlumbingIntact'
    BY <1>1 DEF IInv, MicPlumbingIntact, HandlesTracked, Running
  <1>. QED
    BY <1>1, <1>3, <1>4, <1>5 DEF IInv, OwnNodesStay, HandleNames, LinkShapes, MicUnlinked, Running

\* A sync. The bookkeeping it forgets is that of captures the mirror does not
\* show, and those have no link left.
LEMMA SyncInv ==
    ASSUME IInv, TypeOK', Running, Running', pc' # "micLink", NEW ok, SyncTo(ok),
           UNCHANGED <<gen, mgen, nodes, mvirt, sinkHandle, micHandle, nullHandle, micLinks,
                       routeLinks>>
    PROVE  IInv'
  <1>1. \A l \in captureLinks \ Retained : l \notin live
    <2>1. SUFFICES ASSUME NEW l \in captureLinks, ~Seen(l.dst), l \in live
                   PROVE  FALSE
      BY DEF Retained
    <2>2. l.dst \in Peer
      BY DEF IInv, LinkShapes, Peer
    <2>. QED  BY <2>1, <2>2 DEF IInv, EndsCurrent, Current, Seen, Up
  <1>2. Retained \subseteq captureLinks
    BY DEF Retained
  <1>3. SessionLinks \subseteq createdLinks
    BY DEF IInv, HandlesTracked, Running
  <1>4. CASE targets = {}
    <2>1. Relink({}, Retained) /\ captureLinks' = {}
      BY <1>4 DEF SyncTo, TearDownCaptures
    <2>2. /\ MirrorBehind' /\ EndsCurrent' /\ FreshHandles'
          /\ live' \subseteq live \ Retained
          /\ live \ Retained \subseteq live'
          /\ createdLinks' = createdLinks \ Retained
      <3>1. PICK none \in SUBSET Link : none = {}
        OBVIOUS
      <3>2. Relink(none, Retained) /\ \A l \in none : l.n = counter
        BY <2>1, <3>1
      <3>3. /\ MirrorBehind' /\ EndsCurrent' /\ FreshHandles'
            /\ live' \subseteq (live \cup none) \ Retained
            /\ live \ Retained \subseteq live'
            /\ createdLinks' = (createdLinks \cup none) \ Retained
        BY <3>2, RelinkFacts
      <3>. QED  BY <3>1, <3>3
    <2>3. HandlesTracked'
      BY <1>2, <1>3, <2>1, <2>2 DEF IInv, HandlesTracked, SessionLinks, Running
    <2>4. NoOrphanLinks'
      BY <1>1, <2>1, <2>2 DEF IInv, NoOrphanLinks, SessionLinks
    <2>5. MicPlumbingIntact'
      BY <1>2, <2>2 DEF IInv, MicPlumbingIntact, HandlesTracked, Running
    <2>. QED
      BY <2>1, <2>2, <2>3, <2>4, <2>5
      DEF IInv, OwnNodesStay, HandleNames, LinkShapes, MicUnlinked, Running
  <1>5. CASE targets # {}
    <2>1. PICK pass \in Linkable(targets, filter) :
            \E new \in Created(LinksFromTo(pass, Unlinked)) :
               Relink(new, {}) /\ captureLinks' = Retained \cup new
      BY <1>5 DEF SyncTo
    <2>2. PICK new \in Created(LinksFromTo(pass, Unlinked)) :
             Relink(new, {}) /\ captureLinks' = Retained \cup new
      BY <2>1
    <2>3. pass \subseteq App /\ Unlinked \subseteq Capture
      BY LinkableApps DEF IInv, TypeOK, SessionTypeOK, Unlinked, UsableCaptures
    <2>4. /\ new \subseteq Link
          /\ \A l \in new : l.src \in App /\ l.dst \in Capture /\ l.n = counter
      BY <2>2, <2>3, WantedType DEF IInv, Node, Peer
    <2>5. /\ MirrorBehind' /\ EndsCurrent' /\ FreshHandles'
          /\ new \cap createdLinks = {}
          /\ live' \subseteq live \cup new
          /\ live \subseteq live'
          /\ createdLinks' = createdLinks \cup new
      <3>1. new \in SUBSET Link /\ \A l \in new : l.n = counter
        BY <2>4
      <3>2. /\ MirrorBehind' /\ EndsCurrent' /\ FreshHandles'
            /\ new \cap createdLinks = {}
            /\ live' \subseteq (live \cup new) \ {}
            /\ live \ {} \subseteq live'
            /\ createdLinks' = (createdLinks \cup new) \ {}
        BY <2>2, <3>1, RelinkFacts
      <3>. QED  BY <3>2
    <2>6. HandlesTracked'
      BY <1>2, <1>3, <2>2, <2>5 DEF IInv, HandlesTracked, SessionLinks, Running
    <2>7. NoOrphanLinks'
      BY <1>1, <2>2, <2>5 DEF IInv, NoOrphanLinks, SessionLinks
    <2>8. MicPlumbingIntact'
      BY <2>5 DEF IInv, MicPlumbingIntact
    <2>9. LinkShapes'
      BY <1>2, <2>2, <2>4 DEF IInv, LinkShapes
    <2>. QED
      BY <2>5, <2>6, <2>7, <2>8, <2>9 DEF IInv, OwnNodesStay, HandleNames, MicUnlinked, Running
  <1>. QED  BY <1>4, <1>5

\* The mic's links are made: both nodes exist, and nothing was linked to the mic.
LEMMA MicLinksInv ==
    ASSUME IInv, LinkMonitorToMic
    PROVE  IInv'
  <1>1. PICK s \in ReadyNodes("sink"), m \in ReadyNodes("mic") :
          \E new \in Created(LinksBetween(s, m)) :
             /\ Relink(new, {})
             /\ micLinks' = micLinks \cup new
             /\ AfterMic \/ Reply(FALSE)
    BY DEF LinkMonitorToMic
  <1>2. PICK new \in Created(LinksBetween(s, m)) :
          /\ Relink(new, {})
          /\ micLinks' = micLinks \cup new
          /\ AfterMic \/ Reply(FALSE)
    BY <1>1
  <1>3. TypeOK /\ TypeOK'
    BY TypeStep DEF IInv, Next, Step
  <1>4. /\ Running /\ Running' /\ pc' # "micLink" /\ micLinks = {}
        /\ UNCHANGED <<gen, mgen, nodes, mvirt, sinkHandle, micHandle, nullHandle,
                       routeLinks, captureLinks>>
    BY <1>2
    DEF LinkMonitorToMic, AfterMic, Ensured, Reply, Running, IInv, MicUnlinked,
        serverVars, mirrorVars
  <1>5. s \in mvirt /\ s.name = "sink" /\ m \in mvirt /\ m.name = "mic"
    BY DEF ReadyNodes, NamedSeen
  <1>6. s \in nodes /\ m \in nodes /\ s \in VNode /\ m \in VNode
    BY <1>3, <1>4, <1>5 DEF IInv, OwnNodesStay, TypeOK, BackendTypeOK
  <1>7. counter \in Nat /\ s \in Node /\ m \in Node
    BY <1>3, <1>6 DEF TypeOK, BackendTypeOK, Node
  <1>8. /\ new \in SUBSET Link
        /\ \A l \in new : l.src = s /\ l.dst = m /\ l.n = counter
    BY <1>7, LinksBetweenType DEF Created
  <1>9. /\ MirrorBehind' /\ EndsCurrent' /\ FreshHandles'
        /\ new \cap createdLinks = {}
        /\ live' \subseteq live \cup new
        /\ live \subseteq live'
        /\ createdLinks' = createdLinks \cup new
    <2>1. PICK none : none = {}
      OBVIOUS
    <2>2. Relink(new, none) /\ (\A l \in new : l.n = counter)
      BY <1>2, <1>8, <2>1
    <2>3. /\ MirrorBehind' /\ EndsCurrent' /\ FreshHandles'
          /\ new \cap createdLinks = {}
          /\ live' \subseteq (live \cup new) \ none
          /\ live \ none \subseteq live'
          /\ createdLinks' = (createdLinks \cup new) \ none
      BY <1>4, <1>8, <2>2, RelinkFacts
    <2>. QED  BY <2>1, <2>3
  <1>10. \A l \in live : l.dst # m
    BY <1>4, <1>5, <1>6 DEF IInv, NoOrphanLinks, SessionLinks, LinkShapes, Peer
  <1>11. \A l \in new : Takes(l)
    BY <1>6, <1>8, <1>10 DEF Takes, Current, SameEnds
  <1>12. MicPlumbingIntact'
    BY <1>2, <1>4, <1>11 DEF MicPlumbingIntact, Relink
  <1>13. HandlesTracked'
    BY <1>2, <1>4, <1>9 DEF IInv, HandlesTracked, SessionLinks, Running
  <1>14. NoOrphanLinks'
    BY <1>2, <1>4, <1>9 DEF IInv, NoOrphanLinks, SessionLinks
  <1>15. LinkShapes'
    BY <1>2, <1>4, <1>5, <1>6, <1>8 DEF IInv, LinkShapes
  <1>16. MicUnlinked'
    <2>1. micHandle # {}
      BY DEF LinkMonitorToMic, IInv, MicUnlinked
    <2>. QED  BY <1>4, <2>1 DEF MicUnlinked
  <1>. QED
    BY <1>3, <1>4, <1>9, <1>12, <1>13, <1>14, <1>15, <1>16
    DEF IInv, OwnNodesStay, HandleNames, Running

\* Disposing destroys every link and node the session has a handle for.
LEMMA DisposeInv ==
    ASSUME IInv, Dispose
    PROVE  IInv'
  <1>1. TypeOK'
    BY TypeStep DEF IInv, Next, Client
  <1>2. pc = "idle" /\ pc' = "disposed"
    BY DEF Dispose, Serve, Receive
  <1>3. MirrorBehind' /\ FreshHandles' /\ LinkShapes' /\ HandleNames'
    BY DEF Dispose, mirrorVars, IInv, MirrorBehind, FreshHandles, LinkShapes, HandleNames
  <1>4. live' = {}
    BY DEF Dispose, IInv, NoOrphanLinks
  <1>5. nullHandle \cap (micHandle \cup sinkHandle) = {}
    BY DEF IInv, HandleNames
  <1>6. HandlesTracked'
    BY <1>2, <1>5 DEF Dispose, IInv, HandlesTracked, SessionLinks, Running
  <1>. QED
    BY <1>1, <1>2, <1>3, <1>4, <1>6
    DEF IInv, EndsCurrent, OwnNodesStay, MicUnlinked, NoOrphanLinks, MicPlumbingIntact, Running

\* When the connection closes nothing of the session is left on the server.
LEMMA CloseInv ==
    ASSUME IInv, TypeOK', ConnectionCloses
    PROVE  IInv'
  BY DEF ConnectionCloses, mirrorVars, handles, IInv, MirrorBehind, EndsCurrent, FreshHandles,
         OwnNodesStay, HandleNames, LinkShapes, MicUnlinked, HandlesTracked, NoOrphanLinks,
         MicPlumbingIntact, Running

\* Where the end of a handler's part leads: never to the end of the session.
LEMMA NextPoint ==
    ASSUME NEW ok, Reply(ok) \/ Ensured \/ AfterMic \/ SinkInfo
    PROVE  pc' \in {"idle", "route", "sinkWait"}
  BY DEF Reply, Ensured, AfterMic, SinkInfo

\* Destroying the routes without making new ones.
LEMMA DropRoutesInv ==
    ASSUME IInv, TypeOK', Running, Running', pc' # "micLink", DropRoutes,
           UNCHANGED <<gen, mgen, nodes, mvirt, sinkHandle, micHandle, nullHandle, micLinks,
                       captureLinks>>
    PROVE  IInv'
  <1>1. PICK none \in SUBSET Link : none = {}
    OBVIOUS
  <1>2. /\ Relink(none, routeLinks) /\ routeLinks' = none
        /\ \A l \in none : /\ l.n = counter /\ l.src \in App
                           /\ l.dst \in VNode /\ l.dst.name = "sink"
    BY <1>1 DEF DropRoutes
  <1>. QED  BY <1>2, RoutesInv

\* Every step keeps the invariant.
LEMMA InvStep == IInv /\ [Next]_vars => IInv'
  <1>. SUFFICES ASSUME IInv, [Next]_vars PROVE IInv'
    OBVIOUS
  <1>0. TypeOK'
    BY TypeStep DEF IInv
  <1>. USE DEF backendVars, serverVars, proxyVars, mirrorVars, handles
  <1>1. CASE UNCHANGED vars
    <2>1. UNCHANGED <<backendVars, sessionVars>>
      BY <1>1 DEF vars
    <2>. QED
      BY <1>0, <2>1
      DEF sessionVars, IInv, MirrorBehind, EndsCurrent, Current, Up, Odd, FreshHandles,
          OwnNodesStay, HandleNames, LinkShapes, MicUnlinked, HandlesTracked, SessionLinks,
          NoOrphanLinks, MicPlumbingIntact, Running
  <1>2. CASE World
    BY <1>0, <1>2, WorldInv
  <1>3. CASE \/ EnsureVirtualSink \/ RouteNodes \/ SetVirtualMicMute
            \/ SetDefaultSinkToVirtual \/ RestoreDefaultSink \/ SetDiscordCaptureTargets
    <2>1. Running /\ Running' /\ pc' # "micLink"
      BY <1>3
      DEF EnsureVirtualSink, RouteNodes, SetVirtualMicMute, SetDefaultSinkToVirtual,
          RestoreDefaultSink, SetDiscordCaptureTargets, Take, Serve, Receive, Running
    <2>2. UNCHANGED <<gen, mgen, live, nodes, createdLinks, counter, mvirt, handles>>
      BY <1>3
      DEF EnsureVirtualSink, RouteNodes, SetVirtualMicMute, SetDefaultSinkToVirtual,
          RestoreDefaultSink, SetDiscordCaptureTargets
    <2>. QED  BY <1>0, <2>1, <2>2, QuietInv
  <1>4. CASE MicTimeout \/ SinkReady \/ SinkTimeout \/ NullReady \/ NullTimeout \/ StoreTargets
    <2>1. Running /\ Running' /\ pc' # "micLink"
      BY <1>4, NextPoint
      DEF MicTimeout, SinkReady, SinkTimeout, NullReady, NullTimeout, StoreTargets, Running
    <2>2. UNCHANGED <<gen, mgen, live, nodes, createdLinks, counter, mvirt, handles>>
      BY <1>4 DEF MicTimeout, SinkReady, SinkTimeout, NullReady, NullTimeout, StoreTargets
    <2>. QED  BY <1>0, <2>1, <2>2, QuietInv
  <1>5. CASE EnsureSink
    <2>1. Running /\ Running' /\ pc' # "micLink"
      BY <1>5, NextPoint DEF EnsureSink, Running
    <2>2. CASE UNCHANGED <<nodes, counter, sinkHandle>>
      BY <1>0, <1>5, <2>1, <2>2, QuietInv DEF EnsureSink
    <2>3. CASE CreateVirtualNode("sink") /\ sinkHandle' = {NewNode("sink")}
      <3>1. HandleNames' /\ MicUnlinked'
        BY <1>5, <2>1, <2>3 DEF EnsureSink, IInv, HandleNames, MicUnlinked, NewNode, Running
      <3>. QED  BY <1>0, <1>5, <2>1, <2>3, <3>1, CreateNodeInv DEF EnsureSink
    <2>. QED  BY <1>5, <2>2, <2>3 DEF EnsureSink
  <1>6. CASE EnsureMic
    <2>1. Running /\ Running'
      BY <1>6, NextPoint DEF EnsureMic, Running
    <2>2. CASE UNCHANGED <<nodes, counter, micHandle>> /\ pc' # "micLink"
      BY <1>0, <1>6, <2>1, <2>2, QuietInv DEF EnsureMic
    <2>3. CASE micHandle = {} /\ CreateVirtualNode("mic") /\ micHandle' = {NewNode("mic")}
      <3>1. HandleNames' /\ MicUnlinked'
        BY <1>6, <2>1, <2>3 DEF EnsureMic, IInv, HandleNames, MicUnlinked, NewNode
      <3>. QED  BY <1>0, <1>6, <2>1, <2>3, <3>1, CreateNodeInv DEF EnsureMic
    <2>. QED  BY <1>6, <2>2, <2>3, NextPoint DEF EnsureMic
  <1>7. CASE EnsureNullSink
    <2>1. Running /\ Running' /\ pc' # "micLink"
      BY <1>7, NextPoint DEF EnsureNullSink, Running
    <2>2. CASE UNCHANGED <<nodes, counter, nullHandle>>
      BY <1>0, <1>7, <2>1, <2>2, QuietInv DEF EnsureNullSink
    <2>3. CASE CreateVirtualNode("null") /\ nullHandle' = {NewNode("null")}
      <3>1. HandleNames' /\ MicUnlinked'
        BY <1>7, <2>1, <2>3 DEF EnsureNullSink, IInv, HandleNames, MicUnlinked, NewNode, Running
      <3>. QED  BY <1>0, <1>7, <2>1, <2>3, <3>1, CreateNodeInv DEF EnsureNullSink
    <2>. QED  BY <1>7, <2>2, <2>3 DEF EnsureNullSink
  <1>8. CASE LinkMonitorToMic
    BY <1>8, MicLinksInv
  <1>9. CASE RouteNone \/ ClearRoutes
    <2>1. Running /\ Running' /\ pc' # "micLink"
      BY <1>9 DEF RouteNone, ClearRoutes, Take, Serve, Receive, Running
    <2>. QED  BY <1>0, <1>9, <2>1, DropRoutesInv DEF RouteNone, ClearRoutes
  <1>10. CASE RouteLink
    <2>1. Running /\ Running' /\ pc' # "micLink"
      BY <1>10, NextPoint DEF RouteLink, Running
    <2>2. CASE UNCHANGED <<live, createdLinks, counter, routeLinks>>
      BY <1>0, <1>10, <2>1, <2>2, QuietInv DEF RouteLink
    <2>3. ASSUME NEW s \in ReadyNodes("sink"), NEW pass \in Linkable(req.nodes, req.filter),
                 NEW new \in Created(LinksFromTo(pass, {s})), ReplaceRoutes(new)
          PROVE  IInv'
      <3>1. s \in mvirt /\ s.name = "sink" /\ s \in VNode
        BY DEF ReadyNodes, NamedSeen, IInv, TypeOK, BackendTypeOK
      <3>2. pass \subseteq App
        BY LinkableApps DEF IInv, TypeOK, SessionTypeOK, Request
      <3>3. pass \subseteq Node /\ {s} \subseteq Node
        BY <3>1, <3>2 DEF Node, Peer
      <3>4. /\ new \in SUBSET Link
            /\ \A l \in new : /\ l.n = counter /\ l.src \in App
                              /\ l.dst \in VNode /\ l.dst.name = "sink"
        BY <3>1, <3>2, <3>3, WantedType DEF IInv
      <3>. QED  BY <1>0, <1>10, <2>1, <2>3, <3>4, RoutesInv DEF RouteLink, ReplaceRoutes
    <2>. QED  BY <1>10, <2>2, <2>3 DEF RouteLink
  <1>11. CASE SyncCaptureLinks \/ GraphChanged
    <2>1. Running /\ Running' /\ pc' # "micLink"
      BY <1>11, NextPoint DEF SyncCaptureLinks, GraphChanged, Running
    <2>2. \E ok \in BOOLEAN : SyncTo(ok)
      BY <1>11 DEF SyncCaptureLinks, GraphChanged
    <2>. QED  BY <1>0, <1>11, <2>1, <2>2, SyncInv DEF SyncCaptureLinks, GraphChanged
  <1>12. CASE Dispose
    BY <1>12, DisposeInv
  <1>13. CASE Exit \/ Killed
    BY <1>0, <1>13, CloseInv DEF Exit, Killed
  <1>. QED
    BY <1>1, <1>2, <1>3, <1>4, <1>5, <1>6, <1>7, <1>8, <1>9, <1>10, <1>11, <1>12, <1>13
    DEF Next, Step, Client

\* The conjunction of the facts about links, nodes and handles always holds.
LEMMA Invariance == Spec => []IInv
  <1>1. IInv /\ [Next]_vars => IInv'
    BY InvStep
  <1>. QED  BY <1>1, InitInv, PTL DEF Spec

\* Every handle the session keeps for a link or a node has a proxy on the loop
\* thread, and none is kept twice, so that no destroy meets an unknown handle.
THEOREM HandlesAlwaysTracked == Spec => []HandlesTracked
  <1>1. IInv => HandlesTracked
    BY DEF IInv
  <1>. QED  BY <1>1, Invariance, PTL

\* The session knows every link it has on the server: replacing routes, and
\* forgetting the links of captures that went away, leaves none behind.
THEOREM NoLinkIsOrphaned == Spec => []NoOrphanLinks
  <1>1. IInv => NoOrphanLinks
    BY DEF IInv
  <1>. QED  BY <1>1, Invariance, PTL

\* Whatever is routed and cleared, the links from the sink's monitor to the mic
\* stay on the server until the session is disposed of.
THEOREM MicStaysPlumbed == Spec => []MicPlumbingIntact
  <1>1. IInv => MicPlumbingIntact
    BY DEF IInv
  <1>. QED  BY <1>1, Invariance, PTL

\* Neither the virtual sink nor the virtual mic plays into the sink or into a
\* capture, whatever ids the client selects.
THEOREM NothingFeedsBack == Spec => []NoFeedback
  <1>1. IInv => NoFeedback
    <2>. SUFFICES ASSUME IInv, NEW l \in live, IntoSink(l) \/ IntoCapture(l)
                  PROVE  l.src \in App
      BY DEF NoFeedback
    <2>1. l \in routeLinks \/ l \in captureLinks \/ l \in micLinks
      BY DEF IInv, NoOrphanLinks, SessionLinks
    <2>2. l \notin micLinks
      BY DEF IInv, LinkShapes, IntoSink, IntoCapture, Peer
    <2>. QED  BY <2>1, <2>2 DEF IInv, LinkShapes
  <1>. QED  BY <1>1, Invariance, PTL

--------------------------------------------------------------------------------
(* The half of HelperResponsive that needs no fairness: no handler goes round in circles. *)

\* How many parts of its handler the main loop has before it at most.
PartsLeft(point) ==
    CASE point = "sink" -> 5
      [] point \in {"mic", "null"} -> 4
      [] point \in {"micLink", "nullWait"} -> 3
      [] point \in {"sinkWait", "targets"} -> 2
      [] point \in {"route", "sync", "disposed"} -> 1
      [] point \in {"idle", "exited"} -> 0

\* While a request is handled nothing that happens sets the handler back, and every part
\* of its own brings it closer to its end.
HandlersAdvance ==
    [][/\ pc \notin {"idle", "exited"} => pc' = pc \/ PartsLeft(pc') < PartsLeft(pc)
       /\ Step => PartsLeft(pc') < PartsLeft(pc)]_vars

\* The main loop is back at its queue, or at its end, after at most five parts of a
\* handler, whichever waits end in time and whichever calls fail meanwhile.
THEOREM HandlersAreFinite == Spec => HandlersAdvance
  <1>1. ASSUME Step PROVE PartsLeft(pc') < PartsLeft(pc)
    <2>1. CASE \/ EnsureMic \/ LinkMonitorToMic \/ SinkReady
      <3>1. \/ pc' \in {"idle", "route"}
            \/ pc' = "sinkWait" /\ pc # "sinkWait"
            \/ pc' = "micLink" /\ pc = "mic"
        BY <2>1
        DEF EnsureMic, LinkMonitorToMic, SinkReady, AfterMic, Ensured, SinkInfo, Reply
      <3>2. pc \in {"mic", "micLink", "sinkWait"}
        BY <2>1 DEF EnsureMic, LinkMonitorToMic, SinkReady
      <3>. QED  BY <3>1, <3>2 DEF PartsLeft
    <2>2. CASE EnsureSink
      BY <2>2 DEF EnsureSink, Reply, PartsLeft
    <2>3. CASE MicTimeout \/ SinkTimeout \/ NullTimeout \/ Exit
      BY <2>3 DEF MicTimeout, SinkTimeout, NullTimeout, Exit, ConnectionCloses, Reply, PartsLeft
    <2>4. CASE RouteLink
      <3>1. pc = "route" /\ \E ok \in BOOLEAN : Reply(ok)
        BY <2>4 DEF RouteLink
      <3>. QED  BY <3>1 DEF Reply, PartsLeft
    <2>5. CASE EnsureNullSink \/ NullReady \/ StoreTargets
      BY <2>5 DEF EnsureNullSink, NullReady, StoreTargets, Reply, PartsLeft
    <2>6. CASE SyncCaptureLinks
      BY <2>6 DEF SyncCaptureLinks, Reply, PartsLeft
    <2>. QED  BY <1>1, <2>1, <2>2, <2>3, <2>4, <2>5, <2>6 DEF Step
  <1>2. ASSUME TypeOK, GraphChanged \/ Client \/ World, pc \notin {"idle", "exited"}
        PROVE  pc' = pc \/ PartsLeft(pc') < PartsLeft(pc)
    <2>1. CASE Killed
      BY <1>2, <2>1 DEF Killed, ConnectionCloses, TypeOK, SessionTypeOK, Point, PartsLeft
    <2>2. CASE World
      BY <2>2 DEF World, Meanwhile, sessionVars
    <2>3. ~Killed /\ ~World => FALSE
      BY <1>2
      DEF GraphChanged, Client, EnsureVirtualSink, RouteNodes, RouteNone, ClearRoutes,
          SetVirtualMicMute, SetDefaultSinkToVirtual, RestoreDefaultSink,
          SetDiscordCaptureTargets, Dispose, Take, Serve, Receive
    <2>. QED  BY <2>1, <2>2, <2>3
  <1>3. TypeOK /\ [Next]_vars =>
          [/\ pc \notin {"idle", "exited"} => pc' = pc \/ PartsLeft(pc') < PartsLeft(pc)
           /\ Step => PartsLeft(pc') < PartsLeft(pc)]_vars
    BY <1>1, <1>2 DEF Next
  <1>. QED  BY <1>3, Typing, PTL DEF Spec, HandlersAdvance

--------------------------------------------------------------------------------
(* The half of CapturesLinked and StraysCleared that needs no fairness: whenever there is  *)
(* something to do for the captures, something is waiting that makes the session do it.    *)

Eligible == {x \in Chosen(targets) : ~IsOurs(x)}

\* Unless a sync is due, by a GraphChanged message or in the request at hand, no capture
\* that the mirror shows with its ports lacks its links from a selected application that
\* shows ports, and no null sink that the mirror shows plays into one.
NoWakeUpLost ==
    Running /\ pc # "sync" /\ ~graphChanged /\ targets # {} =>
        /\ Unlinked # {} => \A x \in Eligible : PortsSeen(x, "out") = {}
        /\ StraysToRemove \cap stray = {}

\* A sync that can link what it wants to leaves nothing to do.
LEMMA SyncIsThorough ==
    ASSUME TypeOK, ~Fallible, ~filter, NEW ok, SyncTo(ok), targets # {},
           UNCHANGED <<targets, mirrorVars>>
    PROVE  /\ Unlinked' # {} => \A x \in Eligible' : PortsSeen(x, "out")' = {}
           /\ (StraysToRemove \cap stray)' = {}
  <1>1. Eligible' = Eligible /\ UsableCaptures' = UsableCaptures /\ StraysToRemove' = StraysToRemove
    BY DEF mirrorVars, Eligible, Chosen, IsOurs, UsableCaptures, StraysToRemove, Seen, PortsSeen
  <1>2. stray' = stray \ StraysToRemove
    BY DEF SyncTo
  <1>3. captureLinks' = Retained \cup LinksFromTo(Eligible, Unlinked)
    <2>1. PICK pass \in Linkable(targets, filter) :
            \E new \in Created(LinksFromTo(pass, Unlinked)) : captureLinks' = Retained \cup new
      BY DEF SyncTo
    <2>2. pass = Eligible
      BY DEF Linkable, Eligible
    <2>. QED  BY <2>1, <2>2 DEF Created
  <1>4. ASSUME NEW c \in Unlinked', NEW x \in Eligible
        PROVE  PortsSeen(x, "out") = {}
    <2>1. c \in UsableCaptures /\ Seen(c) /\ ~\E l \in captureLinks' : l.dst = c
      BY <1>1, <1>4 DEF Unlinked, Retained, UsableCaptures, mirrorVars, Seen
    <2>2. c \in Unlinked
      BY <1>3, <2>1 DEF Unlinked
    <2>3. SUFFICES ASSUME PortsSeen(x, "out") # {} PROVE FALSE
      OBVIOUS
    <2>4. PortsSeen(c, "in") # {}
      BY <2>1 DEF UsableCaptures
    <2>5. PICK l \in LinksBetween(x, c) : TRUE
      BY <2>3, <2>4, SomethingToLink
    <2>6. l.dst = c
      BY <2>5 DEF LinksBetween
    <2>7. l \in captureLinks'
      BY <1>3, <2>2, <2>5 DEF LinksFromTo
    <2>. QED  BY <2>1, <2>6, <2>7
  <1>5. \A x : PortsSeen(x, "out")' = PortsSeen(x, "out")
    BY DEF mirrorVars, PortsSeen
  <1>. QED  BY <1>1, <1>2, <1>4, <1>5

\* What happens around the session either tells it, or changes nothing that matters.
LEMMA WorldWakes ==
    ASSUME TypeOK, NoWakeUpLost, World
    PROVE  NoWakeUpLost'
  <1>1. UNCHANGED sessionVars /\ (Environment \/ Events)
    BY DEF World, Meanwhile
  <1>2. UNCHANGED <<pc, targets, captureLinks>>
    BY <1>1 DEF sessionVars, handles
  <1>3. graphChanged' \/ UNCHANGED <<mgen, mvirt, mports, mstray, graphChanged>>
    BY <1>1
    DEF Environment, PeerAppears, PeerDisappears, StrayForms, Events, NodeEvent,
        VirtualNodeEvent, PortEvent, StrayEvent, StrayRemoved, MetadataEvent, DefaultEvent,
        mirrorVars
  <1>4. graphChanged' \/ \A s \in stray' : s \in stray \/ s \notin mstray
    BY <1>1
    DEF Environment, PeerAppears, PeerDisappears, StrayForms, Events, NodeEvent,
        VirtualNodeEvent, PortEvent, StrayEvent, StrayRemoved, MetadataEvent, DefaultEvent,
        serverVars
  <1>5. CASE graphChanged'
    BY <1>5 DEF NoWakeUpLost
  <1>6. CASE ~graphChanged'
    <2>1. UNCHANGED <<mgen, mvirt, mports, mstray, graphChanged, pc, targets, captureLinks>>
      BY <1>2, <1>3, <1>6
    <2>2. /\ Unlinked' = Unlinked /\ Eligible' = Eligible /\ StraysToRemove' = StraysToRemove
          /\ \A x : PortsSeen(x, "out")' = PortsSeen(x, "out")
      BY <2>1
      DEF Eligible, Chosen, IsOurs, Unlinked, Retained, UsableCaptures, StraysToRemove, Seen,
          PortsSeen
    <2>3. StraysToRemove \subseteq mstray
      BY DEF StraysToRemove
    <2>. QED  BY <1>4, <1>6, <2>1, <2>2, <2>3 DEF NoWakeUpLost, Running
  <1>. QED  BY <1>5, <1>6

\* No wake-up is lost, in any interleaving of the session with the loop thread and with the
\* other programs, as long as create_link and the file operations succeed and no filter is
\* set. What an unlucky create_link leaves undone waits for the next change of the graph.
THEOREM WakeUpsAreNotLost ==
    ASSUME ~Fallible, Filters \subseteq {FALSE}
    PROVE  Spec => []NoWakeUpLost
  <1>. DEFINE NoFilter == ~filter /\ ~req.filter
  <1>1. Init => NoFilter /\ NoWakeUpLost
    BY DEF Init, BackendInit, NoWakeUpLost
  <1>2. ASSUME TypeOK, NoFilter, [Next]_vars PROVE NoFilter'
    <2>. USE <1>2 DEF NoFilter
    <2>1. \A f \in Filters : f = FALSE
      OBVIOUS
    <2>2. ASSUME NEW op, NEW S, NEW f, NEW status, NEW next, Receive(op, S, f, status, next),
                 f = FALSE
          PROVE  ~req.filter'
      BY <2>2 DEF Receive
    <2>3. CASE Client /\ ~Killed /\ ~Dispose
      <3>1. UNCHANGED filter
        BY <2>3
        DEF Client, EnsureVirtualSink, RouteNodes, RouteNone, ClearRoutes, SetVirtualMicMute,
            SetDefaultSinkToVirtual, RestoreDefaultSink, SetDiscordCaptureTargets
      <3>2. CASE RouteNodes \/ SetDiscordCaptureTargets
        <4>1. PICK op \in {"route", "targets"}, S \in Selections, f \in Filters,
                   next \in {"sink", "targets", "null"} : Take(op, S, f, next)
          BY <3>2 DEF RouteNodes, SetDiscordCaptureTargets
        <4>. QED  BY <2>1, <2>2, <3>1, <4>1 DEF Take
      <3>3. CASE EnsureVirtualSink \/ RouteNone
        BY <2>2, <3>1, <3>3 DEF EnsureVirtualSink, RouteNone, Take, Serve
      <3>4. CASE ClearRoutes \/ SetVirtualMicMute
        BY <2>2, <3>1, <3>4 DEF ClearRoutes, SetVirtualMicMute, Serve
      <3>5. CASE SetDefaultSinkToVirtual \/ RestoreDefaultSink
        BY <2>2, <3>1, <3>5 DEF SetDefaultSinkToVirtual, RestoreDefaultSink, Serve
      <3>. QED  BY <2>3, <3>2, <3>3, <3>4, <3>5 DEF Client
    <2>4. CASE Dispose
      BY <2>2, <2>4 DEF Dispose, Serve
    <2>5. CASE Killed
      BY <2>5 DEF Killed, ConnectionCloses, TypeOK, SessionTypeOK, Request
    <2>6. CASE StoreTargets
      BY <2>6 DEF StoreTargets
    <2>7. CASE Step /\ ~StoreTargets
      <3>1. UNCHANGED filter
        BY <2>7
        DEF Step, EnsureSink, EnsureMic, LinkMonitorToMic, MicTimeout, SinkReady, SinkTimeout,
            RouteLink, EnsureNullSink, NullReady, NullTimeout, SyncCaptureLinks, Exit, vars,
            sessionVars, handles, SyncTo, ConnectionCloses
      <3>2. UNCHANGED req \/ Reply(TRUE) \/ Reply(FALSE)
        <4>1. CASE EnsureSink \/ EnsureMic \/ LinkMonitorToMic \/ MicTimeout
          BY <4>1
          DEF EnsureSink, EnsureMic, LinkMonitorToMic, MicTimeout, AfterMic, Ensured
        <4>2. CASE SinkReady \/ SinkTimeout
          BY <4>2 DEF SinkReady, SinkTimeout, SinkInfo, Ensured
        <4>3. CASE RouteLink
          BY <4>3 DEF RouteLink
        <4>4. CASE EnsureNullSink \/ NullReady \/ NullTimeout
          BY <4>4 DEF EnsureNullSink, NullReady, NullTimeout
        <4>5. CASE SyncCaptureLinks
          BY <4>5 DEF SyncCaptureLinks
        <4>6. CASE Exit
          BY <4>6 DEF Exit
        <4>. QED  BY <2>7, <4>1, <4>2, <4>3, <4>4, <4>5, <4>6 DEF Step
      <3>. QED  BY <3>1, <3>2 DEF TypeOK, SessionTypeOK, Request, Reply
    <2>8. CASE GraphChanged \/ World \/ UNCHANGED vars
      BY <2>8 DEF GraphChanged, World, Meanwhile, vars, sessionVars
    <2>. QED  BY <2>3, <2>4, <2>5, <2>6, <2>7, <2>8 DEF Next
  <1>3. ASSUME TypeOK, NoFilter, NoWakeUpLost, [Next]_vars PROVE NoWakeUpLost'
    <2>1. CASE World
      BY <1>3, <2>1, WorldWakes
    <2>2. CASE SyncCaptureLinks \/ GraphChanged
      <3>1. (\E ok \in BOOLEAN : SyncTo(ok)) /\ UNCHANGED <<targets, mirrorVars>>
        BY <2>2 DEF SyncCaptureLinks, GraphChanged
      <3>2. CASE targets = {}
        BY <3>1, <3>2 DEF NoWakeUpLost
      <3>. QED  BY <1>3, <3>1, <3>2, SyncIsThorough DEF NoWakeUpLost
    <2>3. CASE Dispose \/ Exit \/ Killed \/ StoreTargets
      BY <2>3
      DEF Dispose, Serve, Receive, Exit, Killed, ConnectionCloses, StoreTargets, NoWakeUpLost,
          Running
    <2>4. CASE \/ EnsureSink \/ EnsureMic \/ LinkMonitorToMic \/ MicTimeout \/ SinkReady
              \/ SinkTimeout \/ RouteLink \/ EnsureNullSink \/ NullReady \/ NullTimeout
              \/ EnsureVirtualSink \/ RouteNodes \/ RouteNone \/ ClearRoutes
              \/ SetVirtualMicMute \/ SetDefaultSinkToVirtual \/ RestoreDefaultSink
              \/ SetDiscordCaptureTargets \/ UNCHANGED vars
      <3>. USE DEF EnsureSink, EnsureMic, LinkMonitorToMic, MicTimeout, SinkReady, SinkTimeout,
                   RouteLink, EnsureNullSink, NullReady, NullTimeout, EnsureVirtualSink,
                   RouteNodes, RouteNone, ClearRoutes, SetVirtualMicMute,
                   SetDefaultSinkToVirtual, RestoreDefaultSink, SetDiscordCaptureTargets, vars
      <3>1. UNCHANGED <<stray, mirrorVars, graphChanged, targets, captureLinks>>
        BY <2>4 DEF backendVars, serverVars, sessionVars, handles
      <3>2. (Running /\ pc # "sync") \/ UNCHANGED pc
        BY <2>4 DEF Running, Take, Serve, Receive, sessionVars
      <3>3. /\ Unlinked' = Unlinked /\ Eligible' = Eligible /\ StraysToRemove' = StraysToRemove
            /\ \A x : PortsSeen(x, "out")' = PortsSeen(x, "out")
        BY <3>1
        DEF mirrorVars, Eligible, Chosen, IsOurs, Unlinked, Retained, UsableCaptures,
            StraysToRemove, Seen, PortsSeen
      <3>. QED  BY <1>3, <3>1, <3>2, <3>3 DEF NoWakeUpLost, Running
    <2>. QED  BY <1>3, <2>1, <2>2, <2>3, <2>4 DEF Next, Step, Client
  <1>. HIDE DEF NoFilter
  <1>. QED  BY <1>1, <1>2, <1>3, Typing, PTL DEF Spec
================================================================================
