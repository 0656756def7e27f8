--------------------------- MODULE NativeSharingProofs ---------------------------
(* Theorems about what a client of NativeSession can rely on, for every value of the       *)
(* constants; they rest on the invariant of NativeSessionProofs.                           *)
EXTENDS NativeSessionProofs

--------------------------------------------------------------------------------
(* The inductive invariant of requests and answers. *)

\* A request that is being handled has not been answered.
RequestInHand ==
    /\ pc \in {"sink", "mic", "micLink", "sinkWait"} =>
          /\ (req.op = "ensure" /\ req.nodes = {}) \/ req.op = "route"
          /\ req.nodes = {} /\ req.op = "route" => routeLinks = {}
    /\ pc = "route" => req.op = "route" /\ req.nodes # {}
    /\ pc \in {"null", "nullWait", "targets", "sync"} => req.op = "targets"
    /\ pc \notin {"idle", "disposed", "exited"} => req.status = "busy"
    /\ pc = "disposed" => req.op = "dispose"
    /\ req.op = "clear" => req.nodes = {}

\* The selection in hand is stored, and the file written, before the links are made.
SelectionStored ==
    pc = "sync" \/ Answered("targets") =>
        targets = req.nodes /\ \A e \in allowed : e[1] \in req.nodes

\* What an answer means for the session's links.
AnswersHold ==
    /\ Answered("route") \/ Answered("clear") => \A l \in routeLinks : l.src \in req.nodes
    /\ Answered("targets") /\ req.nodes = {} => captureLinks = {}

SInv == RequestInHand /\ SelectionStored /\ AnswersHold

\* The selected nodes that a loop links are named in the selection.
LEMMA LinkableSelected ==
    ASSUME TypeOK, NEW S \in SUBSET Selectable, NEW f, NEW pass \in Linkable(S, f)
    PROVE  pass \subseteq S
  <1>1. pass \subseteq App /\ pass \subseteq Chosen(S)
    BY LinkableApps DEF Linkable
  <1>2. mvirt \cap App = {}
    BY PeersAreNotOurs DEF TypeOK, BackendTypeOK, Peer
  <1>. QED  BY <1>1, <1>2 DEF Chosen

\* It holds initially.
LEMMA InitSInv == Init => SInv
  BY DEF Init, SInv, RequestInHand, SelectionStored, AnswersHold, Answered

\* What ensure_virtual_sink does at its end answers an empty selection.
LEMMA EnsuredAnswers ==
    ASSUME TypeOK, SInv, pc \in {"mic", "micLink", "sinkWait"},
           Ensured \/ AfterMic \/ SinkInfo \/ Reply(FALSE),
           UNCHANGED <<routeLinks, captureLinks, targets, allowed>>
    PROVE  SInv'
  BY DEF SInv, RequestInHand, SelectionStored, AnswersHold, Answered, Ensured, AfterMic,
         SinkInfo, Reply, TypeOK, SessionTypeOK, Request

\* Every step keeps it.
LEMMA SInvStep == TypeOK /\ TypeOK' /\ SInv /\ [Next]_vars => SInv'
  <1>. SUFFICES ASSUME TypeOK, TypeOK', SInv, [Next]_vars PROVE SInv'
    OBVIOUS
  <1>t. req \in Request /\ req' \in Request /\ pc \in Point
    BY DEF TypeOK, SessionTypeOK
  <1>. USE DEF handles, SInv, RequestInHand, SelectionStored, AnswersHold, Answered, Reply,
               Request
  <1>1. CASE UNCHANGED vars
    BY <1>t, <1>1 DEF vars, sessionVars
  <1>2. CASE World
    BY <1>t, <1>2 DEF World, Meanwhile, sessionVars
  <1>3. CASE EnsureVirtualSink
    BY <1>t, <1>3 DEF EnsureVirtualSink, Take, Receive
  <1>4. CASE RouteNodes
    BY <1>t, <1>4 DEF RouteNodes, Take, Receive
  <1>5. CASE RouteNone
    BY <1>t, <1>5 DEF RouteNone, DropRoutes, Take, Serve, Receive
  <1>6. CASE ClearRoutes
    BY <1>t, <1>6 DEF ClearRoutes, DropRoutes, Serve, Receive
  <1>7. CASE SetVirtualMicMute \/ SetDefaultSinkToVirtual \/ RestoreDefaultSink
    BY <1>t, <1>7
       DEF SetVirtualMicMute, SetDefaultSinkToVirtual, RestoreDefaultSink, Serve, Receive
  <1>8. CASE SetDiscordCaptureTargets
    BY <1>t, <1>8 DEF SetDiscordCaptureTargets, Take, Receive
  <1>9. CASE Dispose
    BY <1>t, <1>9 DEF Dispose, Serve, Receive
  <1>10. CASE Exit \/ Killed
    BY <1>t, <1>10 DEF Exit, Killed, ConnectionCloses
  <1>11. CASE EnsureSink
    BY <1>t, <1>11 DEF EnsureSink
  <1>12. CASE EnsureMic
    BY <1>t, <1>12, EnsuredAnswers DEF EnsureMic
  <1>13. CASE LinkMonitorToMic
    BY <1>t, <1>13, EnsuredAnswers DEF LinkMonitorToMic
  <1>14. CASE MicTimeout \/ SinkTimeout \/ NullTimeout
    BY <1>t, <1>14 DEF MicTimeout, SinkTimeout, NullTimeout
  <1>15. CASE SinkReady
    BY <1>t, <1>15, EnsuredAnswers DEF SinkReady
  <1>16. CASE RouteLink
    <2>1. CASE Reply(FALSE) /\ UNCHANGED routeLinks
      BY <1>t, <1>16, <2>1 DEF RouteLink
    <2>2. ASSUME NEW s \in ReadyNodes("sink"), NEW pass \in Linkable(req.nodes, req.filter),
                 NEW new \in Created(LinksFromTo(pass, {s})), ReplaceRoutes(new), Reply(TRUE)
          PROVE  SInv'
      <3>1. pass \subseteq req.nodes /\ pass \subseteq App
        BY <1>t, LinkableSelected, LinkableApps
      <3>2. \A l \in new : l.src \in req.nodes
        <4>1. s \in Node
          BY NamedSeenType
        <4>2. pass \subseteq Node /\ {s} \subseteq Node
          BY <3>1, <4>1 DEF Node, Peer
        <4>. QED  BY <3>1, <4>2, WantedType
      <3>. QED  BY <1>t, <1>16, <2>2, <3>2 DEF RouteLink, ReplaceRoutes
    <2>. QED  BY <1>16, <2>1, <2>2 DEF RouteLink
  <1>17. CASE EnsureNullSink \/ NullReady
    BY <1>t, <1>17 DEF EnsureNullSink, NullReady
  <1>18. CASE StoreTargets
    BY <1>t, <1>18 DEF StoreTargets, AllowList
  <1>19. CASE SyncCaptureLinks
    BY <1>t, <1>19 DEF SyncCaptureLinks, SyncTo, TearDownCaptures
  <1>20. CASE GraphChanged
    BY <1>t, <1>20 DEF GraphChanged, SyncTo, TearDownCaptures
  <1>. QED
    BY <1>1, <1>2, <1>3, <1>4, <1>5, <1>6, <1>7, <1>8, <1>9, <1>10, <1>11, <1>12, <1>13,
       <1>14, <1>15, <1>16, <1>17, <1>18, <1>19, <1>20 DEF Next, Step, Client

\* Requests and answers are as described throughout.
LEMMA AnswersInvariance == Spec => [](IInv /\ SInv)
  <1>1. Init => SInv
    BY InitSInv
  <1>2. IInv /\ IInv' /\ SInv /\ [Next]_vars => SInv'
    BY SInvStep DEF IInv
  <1>. QED  BY <1>1, <1>2, Invariance, PTL DEF Spec

--------------------------------------------------------------------------------
(* The theorems about answers. *)

\* Links into the sink are routes, links into a capture are capture links.
LEMMA LinksByPlace ==
    ASSUME IInv, NEW l \in live
    PROVE  (IntoSink(l) => l \in routeLinks) /\ (IntoCapture(l) => l \in captureLinks)
  <1>1. l \in routeLinks \/ l \in captureLinks \/ l \in micLinks
    BY DEF IInv, NoOrphanLinks, SessionLinks
  <1>2. Capture \cap VNode = {} /\ nodes \subseteq VNode
    BY PeersAreNotOurs DEF IInv, TypeOK, BackendTypeOK, Peer
  <1>. QED  BY <1>1, <1>2 DEF IInv, LinkShapes, IntoSink, IntoCapture

\* After an accepted route_nodes or clear_routes only the selection plays into the sink.
THEOREM RoutesAreReplaced == Spec => []RoutesReplaced
  <1>1. IInv /\ SInv => RoutesReplaced
    BY LinksByPlace DEF SInv, AnswersHold, RoutesReplaced
  <1>. QED  BY <1>1, AnswersInvariance, PTL

\* After an empty selection was accepted no capture hears anything from the session.
THEOREM NothingHeard == Spec => []NothingSelectedNothingHeard
  <1>1. IInv /\ SInv => NothingSelectedNothingHeard
    BY LinksByPlace DEF SInv, AnswersHold, NothingSelectedNothingHeard
  <1>. QED  BY <1>1, AnswersInvariance, PTL

\* After a selection was accepted the allow-list names selected applications only.
THEOREM AllowListIsSelected == Spec => []AllowedAreSelected
  <1>1. IInv /\ SInv => AllowedAreSelected
    BY DEF SInv, SelectionStored, AllowedAreSelected
  <1>. QED  BY <1>1, AnswersInvariance, PTL

--------------------------------------------------------------------------------
(* The default sink. *)

\* The record of the prior default is taken at the first override and survives the next.
THEOREM PriorIsKept == Spec => PriorKept
  <1>1. ASSUME [Next]_vars, prior # "none" PROVE prior' \in {prior, "none"}
    BY <1>1
    DEF vars, sessionVars, Next, Step, Client, World, Meanwhile, handles,
        EnsureSink, EnsureMic, LinkMonitorToMic, MicTimeout, SinkReady, SinkTimeout, RouteLink,
        EnsureNullSink, NullReady, NullTimeout, StoreTargets, SyncCaptureLinks, Exit,
        GraphChanged, EnsureVirtualSink, RouteNodes, RouteNone, ClearRoutes,
        SetVirtualMicMute, SetDefaultSinkToVirtual, RestoreDefaultSink,
        SetDiscordCaptureTargets, Dispose, Killed, ConnectionCloses, OverrideDefault,
        UndoOverride
  <1>. QED  BY <1>1, PTL DEF Spec, PriorKept

\* As long as nothing is on record, the user's sink is the default.
OverrideRecorded ==
    /\ metadata /\ mdefault \in Default /\ prior \in {"none", "user"}
    /\ Running /\ prior = "none" => configured = "user" /\ mdefault = "user"
    /\ pc = "disposed" => configured = "user"

\* It is kept if the mirror knew the default and the client does not restore by itself.
LEMMA OverrideStep ==
    ASSUME TypeOK, "restoreDefault" \notin Ops, OverrideRecorded, [Next]_vars
    PROVE  OverrideRecorded'
  <1>. USE DEF OverrideRecorded, serverVars, mirrorVars, handles, Running, Default
  <1>1. CASE UNCHANGED vars
    BY <1>1 DEF vars, backendVars, sessionVars
  <1>2. CASE World
    BY <1>2
    DEF World, Meanwhile, sessionVars, Environment, PeerAppears, PeerDisappears, StrayForms,
        Events, NodeEvent, VirtualNodeEvent, PortEvent, StrayEvent, StrayRemoved, MetadataEvent,
        DefaultEvent, Effective
  <1>3. CASE SetDefaultSinkToVirtual
    BY <1>3 DEF SetDefaultSinkToVirtual, Serve, Receive, OverrideDefault
  <1>4. CASE RestoreDefaultSink
    BY <1>4 DEF RestoreDefaultSink, Serve, Receive
  <1>5. CASE Dispose
    BY <1>5 DEF Dispose, Serve, Receive, UndoOverride
  <1>6. CASE Exit \/ Killed
    BY <1>6 DEF Exit, Killed, ConnectionCloses
  <1>7. CASE SinkReady
    <2>1. Running'
      BY <1>7, NextPoint DEF SinkReady
    <2>2. CASE OverrideDefault
      BY <1>7, <2>1, <2>2 DEF SinkReady, OverrideDefault
    <2>3. CASE UNCHANGED <<prior, configured>>
      BY <1>7, <2>1, <2>3 DEF SinkReady
    <2>. QED  BY <1>7, <2>2, <2>3 DEF SinkReady
  <1>8. CASE \/ EnsureSink \/ EnsureMic \/ LinkMonitorToMic \/ MicTimeout \/ SinkTimeout
            \/ RouteLink \/ EnsureNullSink \/ NullReady \/ NullTimeout \/ StoreTargets
            \/ SyncCaptureLinks \/ GraphChanged
    <2>1. Running /\ Running'
      BY <1>8, NextPoint
      DEF EnsureSink, EnsureMic, LinkMonitorToMic, MicTimeout, SinkTimeout, RouteLink,
          EnsureNullSink, NullReady, NullTimeout, StoreTargets, SyncCaptureLinks, GraphChanged
    <2>2. UNCHANGED <<metadata, mdefault, prior, configured>>
      BY <1>8
      DEF EnsureSink, EnsureMic, LinkMonitorToMic, MicTimeout, SinkTimeout, RouteLink,
          EnsureNullSink, NullReady, NullTimeout, StoreTargets, SyncCaptureLinks, GraphChanged,
          backendVars
    <2>. QED  BY <2>1, <2>2
  <1>9. CASE \/ EnsureVirtualSink \/ RouteNodes \/ RouteNone \/ ClearRoutes
            \/ SetVirtualMicMute \/ SetDiscordCaptureTargets
    <2>1. Running /\ Running'
      BY <1>9
      DEF EnsureVirtualSink, RouteNodes, RouteNone, ClearRoutes, SetVirtualMicMute,
          SetDiscordCaptureTargets, Take, Serve, Receive
    <2>2. UNCHANGED <<metadata, mdefault, prior, configured>>
      BY <1>9
      DEF EnsureVirtualSink, RouteNodes, RouteNone, ClearRoutes, SetVirtualMicMute,
          SetDiscordCaptureTargets, backendVars
    <2>. QED  BY <2>1, <2>2
  <1>. QED
    BY <1>1, <1>2, <1>3, <1>4, <1>5, <1>6, <1>7, <1>8, <1>9 DEF Next, Step, Client

\* Where the mirror knows the default from the start, and the client does not call
\* restore_default_sink itself, dispose gives the user's sink back.
THEOREM UserSinkIsGivenBack ==
    ASSUME MetadataKnown, "restoreDefault" \notin Ops
    PROVE  Spec => []DefaultGivenBack
  <1>1. Init => OverrideRecorded
    BY DEF Init, BackendInit, OverrideRecorded, Default, Running
  <1>2. TypeOK /\ OverrideRecorded /\ [Next]_vars => OverrideRecorded'
    BY OverrideStep
  <1>3. OverrideRecorded => DefaultGivenBack
    BY DEF OverrideRecorded, DefaultGivenBack
  <1>. QED  BY <1>1, <1>2, <1>3, Typing, PTL DEF Spec

--------------------------------------------------------------------------------
(* The native backend implements AudioSharing. *)

Heard == {<<l.src, "sink">> : l \in {k \in live : IntoSink(k)}}
         \cup {<<l.src, "capture">> : l \in {k \in live : IntoCapture(k)}}

\* The sharing's variables.
LEMMA SelectionType ==
    ASSUME TypeOK
    PROVE  [p \in {"sink", "capture"} |->
              IF p = "capture" THEN targets ELSE IF req.op = "route" THEN req.nodes ELSE {}]
                 \in [{"sink", "capture"} -> SUBSET Selectable]
  BY DEF TypeOK, SessionTypeOK, Request

\* No link is heard that does not exist, and a new node hears no old link.
LEMMA HeardLess ==
    ASSUME IInv, live' \subseteq live, NEW v \in SUBSET VNode,
           nodes' \subseteq nodes \cup v, \A x \in v : x.n = counter
    PROVE  Heard' \subseteq Heard
  <1>1. ASSUME NEW l \in live, IntoSink(l)' PROVE IntoSink(l)
    <2>1. l.dst \in nodes
      <3>1. l.dst \in nodes \/ l.dst \in Peer
        BY DEF IInv, EndsCurrent, Current
      <3>2. l.dst \in VNode
        BY <1>1 DEF IInv, TypeOK, BackendTypeOK, IntoSink
      <3>. QED  BY <3>1, <3>2, PeersAreNotOurs
    <2>. QED  BY <1>1, <2>1 DEF IntoSink
  <1>2. \A l \in live : IntoCapture(l)' <=> IntoCapture(l)
    BY DEF IntoCapture
  <1>. QED  BY <1>1, <1>2 DEF Heard

\* A link that a loop over selected nodes adds is heard only where it is permitted.
LEMMA HeardMore ==
    ASSUME IInv, UNCHANGED nodes, NEW new, live' \subseteq live \cup new,
           \A l \in new : /\ IntoSink(l) => <<l.src, "sink">> \in Sharing!Permitted
                          /\ IntoCapture(l) => <<l.src, "capture">> \in Sharing!Permitted
    PROVE  Heard' \subseteq Heard \cup Sharing!Permitted
  <1>1. \A l : (IntoSink(l)' <=> IntoSink(l)) /\ (IntoCapture(l)' <=> IntoCapture(l))
    BY DEF IntoSink, IntoCapture
  <1>. QED  BY <1>1 DEF Heard

\* The connections that may be made.
LEMMA PermittedIs ==
    ASSUME TypeOK
    PROVE  /\ req.op = "route" => \A a \in req.nodes : <<a, "sink">> \in Sharing!Permitted
           /\ \A a \in targets : <<a, "capture">> \in Sharing!Permitted
  BY DEF TypeOK, SessionTypeOK, Request, Sharing!Permitted, Sharing!Place

\* An answer has replaced what was heard before.
LEMMA AnsweredReplaced ==
    IInv /\ SInv => /\ Answered("route") \/ Answered("clear") => Sharing!Replaced("sink")
                    /\ Answered("targets") => Sharing!Replaced("capture")
  <1>. SUFFICES ASSUME IInv, SInv
                PROVE  /\ Answered("route") \/ Answered("clear") => Sharing!Replaced("sink")
                       /\ Answered("targets") => Sharing!Replaced("capture")
    OBVIOUS
  <1>1. /\ \A x \in Heard : x[2] = "sink" => \E l \in routeLinks : x[1] = l.src
        /\ \A x \in Heard : x[2] = "capture" => \E l \in captureLinks : x[1] = l.src
    BY LinksByPlace DEF Heard
  <1>2. ASSUME Answered("route") \/ Answered("clear") PROVE Sharing!Replaced("sink")
    BY <1>1, <1>2
    DEF SInv, AnswersHold, RequestInHand, Answered, Heard, Sharing!Replaced
  <1>3. ASSUME Answered("targets") PROVE Sharing!Replaced("capture")
    BY <1>1, <1>3
    DEF SInv, AnswersHold, SelectionStored, Answered, Heard, Sharing!Replaced
  <1>. QED  BY <1>2, <1>3

\* The same for the next state.
LEMMA AnsweredReplacedNext ==
    ASSUME IInv', SInv'
    PROVE  /\ (Answered("route") \/ Answered("clear"))' => Sharing!Replaced("sink")'
           /\ Answered("targets")' => Sharing!Replaced("capture")'
  BY AnsweredReplaced, PTL

\* A part of a handler may make permitted links, and answer the request.
LEMMA AnsweringStep ==
    ASSUME IInv, SInv, IInv', SInv', pc \notin {"idle", "disposed", "exited"}, pc' # "exited",
           \E ok : Reply(ok) \/ UNCHANGED req,
           UNCHANGED targets, Heard' \subseteq Heard \cup Sharing!Permitted
    PROVE  Sharing!Next
  <1>1. req.status = "busy" /\ req \in Request
    BY DEF SInv, RequestInHand, IInv, TypeOK, SessionTypeOK
  <1>2. req'.op = req.op /\ req'.nodes = req.nodes
    BY <1>1 DEF Reply, Request
  <1>3. CASE req'.status = "ok" /\ req.op = "route"
    BY <1>1, <1>2, <1>3, AnsweredReplacedNext
    DEF Answered, Heard, Sharing!Accept, Sharing!Place, Sharing!Next
  <1>4. CASE req'.status = "ok" /\ req.op = "targets"
    BY <1>1, <1>2, <1>4, AnsweredReplacedNext
    DEF Answered, Heard, Sharing!Accept, Sharing!Place, Sharing!Next
  <1>5. CASE ~(req'.status = "ok" /\ req.op \in {"route", "targets"})
    <2>1. req.op # "clear"
      BY <1>1 DEF SInv, RequestInHand, IInv, TypeOK, SessionTypeOK, Point
    <2>2. Sharing!Connect
      BY <1>1, <1>2, <1>5, <2>1 DEF Answered, Heard, Sharing!Connect
    <2>. QED  BY <2>2 DEF Sharing!Next
  <1>. QED  BY <1>3, <1>4, <1>5

\* A request is taken: nothing new is heard.
LEMMA TakingStep ==
    ASSUME IInv, SInv, IInv', SInv', pc # "exited", pc' # "exited", ~Answered("targets")',
           Heard' \subseteq Heard
    PROVE  Sharing!Next
  <1>1. [p \in {"sink", "capture"} |->
           IF p = "capture" THEN targets' ELSE IF req'.op = "route" THEN req'.nodes ELSE {}]
              \in [{"sink", "capture"} -> SUBSET Selectable]
    BY DEF IInv, TypeOK, SessionTypeOK, Request
  <1>2. Sharing!Select
    BY <1>1, AnsweredReplacedNext DEF Heard, Answered, Sharing!Select, Sharing!Place
  <1>. QED  BY <1>2 DEF Sharing!Next

\* Every step is one of AudioSharing, or changes nothing that a client can tell.
LEMMA SharingStep ==
    ASSUME IInv, SInv, IInv', SInv', [Next]_vars
    PROVE  [Sharing!Next]_(Sharing!sharingVars)
  <1>. USE DEF serverVars, proxyVars, handles
  <1>t. TypeOK /\ TypeOK' /\ nodes \subseteq VNode /\ counter \in Nat
    BY DEF IInv, TypeOK, BackendTypeOK
  <1>h. ASSUME live' \subseteq live, nodes' \subseteq nodes PROVE Heard' \subseteq Heard
    <2>1. PICK none \in SUBSET VNode : none = {}
      OBVIOUS
    <2>. QED  BY <1>h, <2>1, HeardLess
  <1>n. ASSUME live' = live, NEW name \in VName, CreateVirtualNode(name)
        PROVE  Heard' \subseteq Heard
    <2>1. NewNode(name) \in VNode
      BY <1>t, <1>n, NewNodeType
    <2>2. PICK v \in SUBSET VNode : v = {NewNode(name)}
      BY <2>1
    <2>3. nodes' \subseteq nodes \cup v /\ \A x \in v : x.n = counter
      BY <1>n, <2>2 DEF CreateVirtualNode, NewNode
    <2>. QED  BY <1>n, <2>3, HeardLess
  <1>1. CASE UNCHANGED vars
    <2>1. Heard' = Heard
      BY <1>1 DEF vars, backendVars, Heard, IntoSink, IntoCapture
    <2>. QED
      BY <1>1, <2>1 DEF vars, sessionVars, Heard, Answered, Sharing!sharingVars
  <1>2. CASE World
    <2>1. live' \subseteq live /\ nodes' \subseteq nodes
      BY <1>2
      DEF World, Meanwhile, Environment, PeerAppears, PeerDisappears, StrayForms, Events,
          NodeEvent, VirtualNodeEvent, PortEvent, StrayEvent, StrayRemoved, MetadataEvent,
          DefaultEvent
    <2>2. UNCHANGED <<pc, req, targets>>
      BY <1>2 DEF World, Meanwhile, sessionVars
    <2>3. Sharing!Lose
      BY <1>h, <2>1, <2>2 DEF Heard, Answered, Sharing!Lose
    <2>. QED  BY <2>3 DEF Sharing!Next
  <1>3. CASE \/ EnsureVirtualSink \/ RouteNodes \/ RouteNone \/ ClearRoutes
            \/ SetVirtualMicMute \/ SetDefaultSinkToVirtual \/ RestoreDefaultSink
            \/ SetDiscordCaptureTargets \/ Dispose
    <2>. USE DEF EnsureVirtualSink, RouteNodes, RouteNone, ClearRoutes, SetVirtualMicMute,
                 SetDefaultSinkToVirtual, RestoreDefaultSink, SetDiscordCaptureTargets, Dispose
    <2>1. pc # "exited" /\ pc' # "exited" /\ ~Answered("targets")'
      BY <1>3 DEF Take, Serve, Receive, Answered
    <2>2. live' \subseteq live /\ nodes' \subseteq nodes
      BY <1>3 DEF DropRoutes, Relink, backendVars
    <2>. QED  BY <1>h, <2>1, <2>2, TakingStep
  <1>4. CASE \/ EnsureSink \/ EnsureMic \/ MicTimeout \/ SinkReady \/ SinkTimeout
            \/ EnsureNullSink \/ NullReady \/ NullTimeout
    <2>. USE DEF EnsureSink, EnsureMic, MicTimeout, SinkReady, SinkTimeout, EnsureNullSink,
                 NullReady, NullTimeout
    <2>1. Heard' \subseteq Heard
      BY <1>4, <1>h, <1>n DEF backendVars, VName
    <2>2. /\ pc \notin {"idle", "disposed", "exited"} /\ pc' # "exited"
          /\ UNCHANGED targets
      BY <1>4, NextPoint
    <2>3. \E ok : Reply(ok) \/ UNCHANGED req
      BY <1>4 DEF AfterMic, Ensured, SinkInfo
    <2>. QED  BY <2>1, <2>2, <2>3, AnsweringStep
  <1>5. CASE LinkMonitorToMic
    <2>1. PICK s \in ReadyNodes("sink"), m \in ReadyNodes("mic") :
             \E new \in Created(LinksBetween(s, m)) : Relink(new, {})
      BY <1>5 DEF LinkMonitorToMic
    <2>2. PICK new \in Created(LinksBetween(s, m)) : Relink(new, {})
      BY <2>1
    <2>3. /\ m.name = "mic" /\ m \in VNode /\ s \in Node
      BY <1>t DEF ReadyNodes, NamedSeen, TypeOK, BackendTypeOK, Node
    <2>4. \A l \in new : l.dst = m
      BY <1>t, <2>3, LinksBetweenType DEF Created, Node
    <2>5. \A l \in new : ~IntoSink(l) /\ ~IntoCapture(l)
      BY <2>3, <2>4, PeersAreNotOurs DEF IntoSink, IntoCapture, Peer
    <2>6. live' \subseteq live \cup new /\ UNCHANGED <<nodes, targets>>
      BY <1>5, <2>2 DEF LinkMonitorToMic, Relink
    <2>7. Heard' \subseteq Heard \cup Sharing!Permitted
      BY <2>5, <2>6, HeardMore
    <2>8. \E ok : Reply(ok) \/ UNCHANGED req
      BY <1>5 DEF LinkMonitorToMic, AfterMic, Ensured
    <2>9. pc = "micLink" /\ pc' # "exited"
      BY <1>5, NextPoint DEF LinkMonitorToMic
    <2>. QED  BY <2>6, <2>7, <2>8, <2>9, AnsweringStep
  <1>6. CASE RouteLink
    <2>1. /\ pc = "route" /\ pc' # "exited" /\ UNCHANGED <<nodes, targets>>
          /\ \E ok : Reply(ok)
      BY <1>6, NextPoint DEF RouteLink
    <2>2. CASE UNCHANGED live
      BY <1>h, <2>1, <2>2, AnsweringStep
    <2>3. ASSUME NEW s \in ReadyNodes("sink"), NEW pass \in Linkable(req.nodes, req.filter),
                 NEW new \in Created(LinksFromTo(pass, {s})), ReplaceRoutes(new)
          PROVE  Sharing!Next
      <3>1. req.nodes \in SUBSET Selectable /\ req.op = "route"
        BY <1>t, <2>1 DEF SInv, RequestInHand, TypeOK, SessionTypeOK, Request
      <3>2. pass \subseteq req.nodes /\ pass \subseteq App
        BY <1>t, <3>1, LinkableSelected, LinkableApps
      <3>3. s \in VNode /\ pass \subseteq Node /\ {s} \subseteq Node
        BY <1>t, <3>2 DEF ReadyNodes, NamedSeen, TypeOK, BackendTypeOK, Node, Peer
      <3>4. \A l \in new : l.src \in req.nodes /\ l.dst = s
        BY <1>t, <3>2, <3>3, WantedType
      <3>5. \A l \in new : /\ IntoSink(l) => <<l.src, "sink">> \in Sharing!Permitted
                           /\ IntoCapture(l) => <<l.src, "capture">> \in Sharing!Permitted
        BY <1>t, <3>1, <3>3, <3>4, PermittedIs, PeersAreNotOurs DEF IntoCapture, Peer
      <3>6. live' \subseteq live \cup new
        BY <2>3 DEF ReplaceRoutes, Relink
      <3>7. Heard' \subseteq Heard \cup Sharing!Permitted
        BY <2>1, <3>5, <3>6, HeardMore
      <3>. QED  BY <2>1, <3>7, AnsweringStep
    <2>. QED  BY <1>6, <2>2, <2>3 DEF RouteLink
  <1>7. CASE StoreTargets
    <2>1. pc = "targets" /\ pc' # "exited" /\ ~Answered("targets")'
      BY <1>t, <1>7
      DEF StoreTargets, Reply, Answered, SInv, RequestInHand, TypeOK, SessionTypeOK, Request
    <2>2. Heard' \subseteq Heard
      BY <1>h, <1>7 DEF StoreTargets, backendVars
    <2>. QED  BY <2>1, <2>2, TakingStep
  <1>8. CASE SyncCaptureLinks \/ GraphChanged
    <2>1. UNCHANGED <<nodes, targets>> /\ \E ok \in BOOLEAN : SyncTo(ok)
      BY <1>8 DEF SyncCaptureLinks, GraphChanged
    <2>2. Heard' \subseteq Heard \cup Sharing!Permitted
      <3>1. CASE targets = {}
        BY <1>h, <2>1, <3>1 DEF SyncTo, TearDownCaptures, Relink
      <3>2. CASE targets # {}
        <4>1. PICK pass \in Linkable(targets, filter) :
                \E new \in Created(LinksFromTo(pass, Unlinked)) : Relink(new, {})
          BY <2>1, <3>2 DEF SyncTo
        <4>2. PICK new \in Created(LinksFromTo(pass, Unlinked)) : Relink(new, {})
          BY <4>1
        <4>3. targets \in SUBSET Selectable
          BY <1>t DEF TypeOK, SessionTypeOK
        <4>4. pass \subseteq targets /\ pass \subseteq App
          BY <1>t, <4>3, LinkableSelected, LinkableApps
        <4>5. pass \subseteq Node /\ Unlinked \subseteq Capture /\ Unlinked \subseteq Node
          BY <4>4 DEF Node, Peer, Unlinked, UsableCaptures
        <4>6. \A l \in new : l.src \in targets /\ l.dst \in Capture
          BY <1>t, <4>4, <4>5, WantedType
        <4>7. \A l \in new : /\ IntoSink(l) => <<l.src, "sink">> \in Sharing!Permitted
                             /\ IntoCapture(l) => <<l.src, "capture">> \in Sharing!Permitted
          BY <1>t, <4>6, PermittedIs, PeersAreNotOurs DEF IntoSink, Peer
        <4>8. live' \subseteq live \cup new
          BY <4>2 DEF Relink
        <4>. QED  BY <2>1, <4>7, <4>8, HeardMore
      <3>. QED  BY <3>1, <3>2
    <2>3. CASE SyncCaptureLinks
      <3>1. pc = "sync" /\ pc' # "exited" /\ \E ok : Reply(ok)
        BY <2>3 DEF SyncCaptureLinks, Reply
      <3>. QED  BY <2>1, <2>2, <3>1, AnsweringStep
    <2>4. CASE GraphChanged
      <3>1. Sharing!Connect
        BY <2>1, <2>2, <2>4 DEF GraphChanged, Heard, Answered, Sharing!Connect
      <3>. QED  BY <3>1 DEF Sharing!Next
    <2>. QED  BY <1>8, <2>3, <2>4
  <1>9. CASE Exit \/ Killed
    <2>1. /\ pc # "exited" /\ pc' = "exited" /\ live' = {}
          /\ req' = req \/ req' = [req EXCEPT !.op = "kill"]
      BY <1>9 DEF Exit, Killed, ConnectionCloses
    <2>2. Heard' = {}
      BY <2>1 DEF Heard
    <2>3. [p \in {"sink", "capture"} |->
             IF p = "capture" THEN targets' ELSE IF req'.op = "route" THEN req'.nodes ELSE {}]
                \in [{"sink", "capture"} -> SUBSET Selectable]
      BY <1>t DEF TypeOK, SessionTypeOK, Request
    <2>4. \A op \in {"targets", "route", "clear"} : Answered(op)' => Answered(op)
      BY <1>t, <2>1 DEF Answered, TypeOK, SessionTypeOK, Request
    <2>5. Sharing!Close
      BY <2>1, <2>2, <2>3, <2>4 DEF Heard, Sharing!Close, Sharing!Place
    <2>. QED  BY <2>5 DEF Sharing!Next
  <1>. QED
    BY <1>1, <1>2, <1>3, <1>4, <1>5, <1>6, <1>7, <1>8, <1>9 DEF Next, Step, Client

\* A session of the native backend is a helper as its client knows it.
THEOREM NativeImplementsSharing == Spec => ImplementsSharing
  <1>1. Init => Sharing!Init
    BY DEF Init, BackendInit, Answered, Sharing!Init, Sharing!Place
  <1>2. IInv /\ SInv /\ IInv' /\ SInv' /\ [Next]_vars =>
           [Sharing!Next]_(Sharing!sharingVars)
    BY SharingStep
  <1>. QED  BY <1>1, <1>2, AnswersInvariance, PTL DEF Spec, ImplementsSharing, Sharing!Spec

--------------------------------------------------------------------------------
(* The virtual mic's links. They are made once, right after the mic, and a retry skips     *)
(* them; state_native.rs says what is lost without them. *)

\* No attempt to make the mic's links fails, by a wait that ends or by create_link.
MicAttemptsSucceed == ~(pc = "micLink" /\ req'.status = "error")

\* Then whoever finds a mic handle finds the links as well.
MicDone ==
    VirtualMic =>
        /\ Running /\ micHandle # {} /\ pc # "micLink" => micLinks # {}
        /\ pc = "sinkWait" => micHandle # {}
        /\ Answered("ensure") => micHandle # {} /\ Running

\* Every step keeps it.
LEMMA MicDoneStep ==
    ASSUME IInv, SInv, MicDone, VirtualMic, MicAttemptsSucceed, [Next]_vars
    PROVE  MicDone'
  <1>t. req \in Request /\ pc \in Point /\ Running = (pc \notin {"disposed", "exited"})
    BY DEF IInv, TypeOK, SessionTypeOK, Running
  <1>r. RequestInHand /\ MicUnlinked
    BY DEF IInv, SInv
  <1>. USE DEF MicDone, Answered, Running, Reply, Request
  <1>1. CASE UNCHANGED vars
    BY <1>1 DEF vars, sessionVars, handles
  <1>2. CASE World
    BY <1>2 DEF World, Meanwhile, sessionVars, handles
  <1>3. CASE \/ EnsureVirtualSink \/ RouteNodes \/ RouteNone \/ ClearRoutes
            \/ SetVirtualMicMute \/ SetDefaultSinkToVirtual \/ RestoreDefaultSink
            \/ SetDiscordCaptureTargets
    BY <1>t, <1>3
    DEF EnsureVirtualSink, RouteNodes, RouteNone, ClearRoutes, SetVirtualMicMute,
        SetDefaultSinkToVirtual, RestoreDefaultSink, SetDiscordCaptureTargets, handles, Take,
        Serve, Receive
  <1>4. CASE Dispose \/ Exit \/ Killed
    BY <1>t, <1>r, <1>4
    DEF Dispose, Serve, Receive, Exit, Killed, ConnectionCloses, handles, RequestInHand
  <1>5. CASE EnsureSink
    BY <1>t, <1>5 DEF EnsureSink
  <1>6. CASE EnsureMic
    <2>1. CASE micHandle # {} /\ AfterMic /\ UNCHANGED <<micHandle, micLinks>>
      BY <1>t, <1>6, <2>1 DEF EnsureMic, AfterMic, Ensured
    <2>2. CASE pc' = "micLink" /\ UNCHANGED req
      BY <1>t, <1>r, <1>6, <2>2 DEF EnsureMic, RequestInHand
    <2>3. CASE Reply(FALSE) /\ UNCHANGED <<micHandle, micLinks>> /\ micHandle = {}
      BY <1>t, <2>3
    <2>. QED  BY <1>6, <2>1, <2>2, <2>3 DEF EnsureMic
  <1>7. CASE LinkMonitorToMic
    <2>1. PICK s \in ReadyNodes("sink"), m \in ReadyNodes("mic") :
             /\ PortsSeen(s, "out") # {}
             /\ \E new \in Created(LinksBetween(s, m)) :
                   /\ micLinks' = micLinks \cup new
                   /\ IF new = LinksBetween(s, m) THEN AfterMic ELSE Reply(FALSE)
      BY <1>7 DEF LinkMonitorToMic
    <2>2. ~Reply(FALSE)
      BY <1>t, <1>7 DEF MicAttemptsSucceed, LinkMonitorToMic
    <2>3. micLinks' = micLinks \cup LinksBetween(s, m) /\ AfterMic
      BY <2>1, <2>2
    <2>4. micLinks' # {}
      <3>1. PortsSeen(m, "in") # {}
        BY <2>1 DEF ReadyNodes, Ready, PortsSeen
      <3>. QED  BY <2>1, <2>3, <3>1, SomethingToLink
    <2>5. micHandle # {} /\ UNCHANGED micHandle /\ pc = "micLink"
      BY <1>7, <1>r DEF LinkMonitorToMic, MicUnlinked
    <2>. QED  BY <1>t, <2>3, <2>4, <2>5 DEF AfterMic, Ensured
  <1>8. CASE MicTimeout
    BY <1>t, <1>8 DEF MicTimeout, MicAttemptsSucceed
  <1>9. CASE SinkReady
    BY <1>t, <1>9 DEF SinkReady, SinkInfo, Ensured, handles
  <1>10. CASE SinkTimeout \/ NullTimeout \/ NullReady \/ StoreTargets
    BY <1>t, <1>r, <1>10 DEF SinkTimeout, NullTimeout, NullReady, StoreTargets, handles,
       RequestInHand
  <1>11. CASE EnsureNullSink \/ RouteLink \/ SyncCaptureLinks \/ GraphChanged
    BY <1>t, <1>r, <1>11
    DEF EnsureNullSink, RouteLink, SyncCaptureLinks, GraphChanged, RequestInHand
  <1>. QED
    BY <1>1, <1>2, <1>3, <1>4, <1>5, <1>6, <1>7, <1>8, <1>9, <1>10, <1>11
    DEF Next, Step, Client

\* A session with a virtual mic that accepted ensureVirtualSink has linked its mic, however
\* the calls interleave and whatever else fails, as long as no attempt to link it failed
\* before: that the handle is stored ahead of the links is the only way to a silent mic.
THEOREM MicIsAlwaysLinked == Spec /\ [][MicAttemptsSucceed]_vars => []MicIsLinked
  <1>1. Init => MicDone
    BY DEF Init, MicDone, Answered
  <1>2. IInv /\ SInv /\ MicDone /\ [Next]_vars /\ [MicAttemptsSucceed]_vars => MicDone'
    <2>. SUFFICES ASSUME IInv, SInv, MicDone, [Next]_vars, [MicAttemptsSucceed]_vars, VirtualMic
                  PROVE  MicDone'
      BY DEF MicDone
    <2>1. CASE UNCHANGED vars
      BY <2>1 DEF vars, sessionVars, handles, MicDone, Answered, Running
    <2>2. CASE MicAttemptsSucceed
      BY <2>2, MicDoneStep
    <2>. QED  BY <2>1, <2>2
  <1>3. MicDone /\ IInv /\ SInv => MicIsLinked
    BY DEF MicDone, MicIsLinked, IInv, SInv, RequestInHand, Answered, TypeOK, SessionTypeOK, Point,
           Running
  <1>. QED  BY <1>1, <1>2, <1>3, AnswersInvariance, PTL DEF Spec

--------------------------------------------------------------------------------
(* What the sentences on routing and on captures are true of. *)

\* A link that is new was made by one of three loops: to a capture from the selection for
\* captures, to the sink from the routed selection, or to the mic.
LEMMA NewLinks ==
    ASSUME IInv, SInv, [Next]_vars, NEW l \in live', l \notin live
    PROVE  \/ /\ l.dst \in Capture /\ l.src \in targets
              /\ pc \in {"idle", "sync"} /\ UNCHANGED targets
           \/ l.dst \in VNode /\ l.dst.name = "sink" /\ RouteLink
           \/ l.dst \in VNode /\ l.dst.name = "mic"
  <1>t. TypeOK /\ targets \in SUBSET Selectable /\ req.nodes \in SUBSET Selectable
    BY DEF IInv, TypeOK, SessionTypeOK, Request
  <1>v. \A name \in {"sink", "mic"} : ReadyNodes(name) \subseteq {v \in VNode : v.name = name}
    BY <1>t, NamedSeenType DEF TypeOK, BackendTypeOK
  <1>1. CASE LinkMonitorToMic
    <2>1. PICK s \in ReadyNodes("sink"), m \in ReadyNodes("mic") :
             \E new \in Created(LinksBetween(s, m)) : Relink(new, {})
      BY <1>1 DEF LinkMonitorToMic
    <2>2. l \in LinksBetween(s, m)
      BY <2>1 DEF Created, Relink
    <2>3. l.dst = m
      BY <1>t, <1>v, <2>2, LinksBetweenType DEF TypeOK, BackendTypeOK, Node
    <2>. QED  BY <1>v, <2>3
  <1>2. CASE RouteLink
    <2>1. PICK s \in ReadyNodes("sink"), pass \in Linkable(req.nodes, req.filter) :
             \E new \in Created(LinksFromTo(pass, {s})) : ReplaceRoutes(new)
      BY <1>2 DEF RouteLink
    <2>2. PICK new \in Created(LinksFromTo(pass, {s})) : ReplaceRoutes(new)
      BY <2>1
    <2>3. pass \subseteq Node /\ {s} \subseteq Node
      BY <1>t, <1>v, LinkableApps DEF Node, Peer
    <2>4. l \in new
      BY <2>2 DEF ReplaceRoutes, Relink
    <2>5. l.dst = s
      BY <1>t, <2>3, <2>4, WantedType
    <2>. QED  BY <1>2, <1>v, <2>5
  <1>3. CASE SyncCaptureLinks \/ GraphChanged
    <2>1. UNCHANGED targets /\ pc \in {"idle", "sync"} /\ \E ok \in BOOLEAN : SyncTo(ok)
      BY <1>3 DEF SyncCaptureLinks, GraphChanged
    <2>2. targets # {}
      BY <2>1 DEF SyncTo, TearDownCaptures, Relink
    <2>3. PICK pass \in Linkable(targets, filter) :
             \E new \in Created(LinksFromTo(pass, Unlinked)) : Relink(new, {})
      BY <2>1, <2>2 DEF SyncTo
    <2>4. PICK new \in Created(LinksFromTo(pass, Unlinked)) : Relink(new, {})
      BY <2>3
    <2>5. pass \subseteq targets /\ pass \subseteq App
      BY <1>t, LinkableSelected, LinkableApps
    <2>6. pass \subseteq Node /\ Unlinked \subseteq Capture /\ Unlinked \subseteq Node
      BY <2>5 DEF Node, Peer, Unlinked, UsableCaptures
    <2>7. l \in new
      BY <2>4 DEF Relink
    <2>. QED  BY <1>t, <2>1, <2>5, <2>6, <2>7, WantedType
  <1>4. CASE World \/ UNCHANGED vars
    BY <1>4
    DEF World, Meanwhile, Environment, PeerAppears, PeerDisappears, StrayForms, Events,
        NodeEvent, VirtualNodeEvent, PortEvent, StrayEvent, StrayRemoved, MetadataEvent,
        DefaultEvent, vars, backendVars
  <1>5. CASE Client \/ Exit
    BY <1>5
    DEF Client, EnsureVirtualSink, RouteNodes, RouteNone, ClearRoutes, SetVirtualMicMute,
        SetDefaultSinkToVirtual, RestoreDefaultSink, SetDiscordCaptureTargets, Dispose, Killed,
        Exit, ConnectionCloses, DropRoutes, Relink, backendVars
  <1>6. CASE \/ EnsureSink \/ EnsureMic \/ MicTimeout \/ SinkReady \/ SinkTimeout
            \/ EnsureNullSink \/ NullReady \/ NullTimeout \/ StoreTargets
    BY <1>6
    DEF EnsureSink, EnsureMic, MicTimeout, SinkReady, SinkTimeout, EnsureNullSink, NullReady,
        NullTimeout, StoreTargets, backendVars
  <1>. QED  BY <1>1, <1>2, <1>3, <1>4, <1>5, <1>6 DEF Next, Step

\* The client's selections for captures only add to what its captures are linked to.
SelectionsAdd ==
    SetDiscordCaptureTargets =>
        req'.nodes = {} \/ \A l \in live : IntoCapture(l) => l.src \in req'.nodes

\* Then no capture hears what is selected no more, nor what the request in hand drops.
CapturesIn(S) == \A l \in live : IntoCapture(l) => l.src \in S

CapturesSelected ==
    /\ targets # {} => CapturesIn(targets)
    /\ pc \in {"null", "nullWait", "targets"} /\ req.nodes # {} => CapturesIn(req.nodes)

\* Every step keeps it.
LEMMA CapturesSelectedStep ==
    ASSUME IInv, SInv, CapturesSelected, SelectionsAdd, [Next]_vars
    PROVE  CapturesSelected'
  <1>1. \A l \in live' : IntoCapture(l)' =>
           l \in live \/ (l.src \in targets /\ pc \in {"idle", "sync"} /\ UNCHANGED targets)
    <2>1. ASSUME NEW l \in live', l \notin live, l.dst \in Capture
          PROVE  l.src \in targets /\ pc \in {"idle", "sync"} /\ UNCHANGED targets
      BY <2>1, NewLinks, PeersAreNotOurs DEF Peer
    <2>. QED  BY <2>1 DEF IntoCapture
  <1>2. CASE SetDiscordCaptureTargets
    <2>1. UNCHANGED <<live, targets>>
      BY <1>2 DEF SetDiscordCaptureTargets, backendVars
    <2>2. req'.nodes = {} \/ CapturesIn(req.nodes)'
      BY <1>2, <2>1 DEF SelectionsAdd, CapturesIn, IntoCapture
    <2>. QED  BY <2>1, <2>2 DEF CapturesSelected, CapturesIn, IntoCapture
  <1>3. CASE StoreTargets
    <2>1. /\ UNCHANGED live /\ targets' = req.nodes /\ pc = "targets"
          /\ pc' \in {"sync", "idle"}
      BY <1>3 DEF StoreTargets, backendVars, Reply
    <2>. QED  BY <2>1 DEF CapturesSelected, CapturesIn, IntoCapture
  <1>4. CASE ~SetDiscordCaptureTargets /\ ~StoreTargets
    <2>1. UNCHANGED targets \/ targets' = {}
      BY <1>4
      DEF vars, sessionVars, Next, Step, Client, World, Meanwhile, EnsureSink, EnsureMic,
          LinkMonitorToMic, MicTimeout, SinkReady, SinkTimeout, RouteLink, EnsureNullSink,
          NullReady, NullTimeout, SyncCaptureLinks, Exit, GraphChanged, EnsureVirtualSink,
          RouteNodes, RouteNone, ClearRoutes, SetVirtualMicMute, SetDefaultSinkToVirtual,
          RestoreDefaultSink, Dispose, Killed, ConnectionCloses
    <2>2. pc' \in {"null", "nullWait", "targets"} =>
             UNCHANGED req /\ pc \in {"null", "nullWait", "targets"}
      BY <1>4, NextPoint
      DEF vars, sessionVars, Next, Step, Client, World, Meanwhile, EnsureSink, EnsureMic,
          LinkMonitorToMic, MicTimeout, SinkReady, SinkTimeout, RouteLink, EnsureNullSink,
          NullReady, NullTimeout, SyncCaptureLinks, Exit, GraphChanged, EnsureVirtualSink,
          RouteNodes, RouteNone, ClearRoutes, SetVirtualMicMute, SetDefaultSinkToVirtual,
          RestoreDefaultSink, Dispose, Killed, ConnectionCloses, Take, Serve, Receive, Reply
    <2>3. targets' # {} => CapturesIn(targets)'
      BY <1>1, <2>1 DEF CapturesSelected, CapturesIn, IntoCapture
    <2>4. pc' \in {"null", "nullWait", "targets"} /\ req'.nodes # {} => CapturesIn(req.nodes)'
      BY <1>1, <2>2 DEF CapturesSelected, CapturesIn, IntoCapture
    <2>. QED  BY <2>3, <2>4 DEF CapturesSelected
  <1>. QED  BY <1>2, <1>3, <1>4

\* An accepted selection has replaced the one before in every capture, as mod.rs says, as
\* long as no selection drops an application that a capture is linked to (or drops all):
\* the links sync_discord_capture_links leaves alone are the only ones that stay wrongly.
THEOREM AddedSelectionsAreFollowed == Spec /\ [][SelectionsAdd]_vars => []CapturesFollowSelection
  <1>1. Init => CapturesSelected
    BY DEF Init, BackendInit, CapturesSelected, CapturesIn
  <1>2. IInv /\ SInv /\ CapturesSelected /\ [Next]_vars /\ [SelectionsAdd]_vars => CapturesSelected'
    <2>. SUFFICES ASSUME IInv, SInv, CapturesSelected, [Next]_vars, [SelectionsAdd]_vars
                  PROVE  CapturesSelected'
      OBVIOUS
    <2>1. CASE UNCHANGED vars
      BY <2>1 DEF vars, backendVars, sessionVars, CapturesSelected, CapturesIn, IntoCapture
    <2>2. CASE SelectionsAdd
      BY <2>2, CapturesSelectedStep
    <2>. QED  BY <2>1, <2>2
  <1>3. IInv /\ SInv /\ CapturesSelected => CapturesFollowSelection
    <2>. SUFFICES ASSUME IInv, SInv, CapturesSelected, Answered("targets")
                  PROVE  CapturesIn(req.nodes)
      BY DEF CapturesFollowSelection, CapturesIn
    <2>1. targets = req.nodes
      BY DEF SInv, SelectionStored
    <2>2. CASE req.nodes = {}
      BY <2>2, LinksByPlace DEF SInv, AnswersHold, CapturesIn
    <2>. QED  BY <2>1, <2>2 DEF CapturesSelected
  <1>. QED  BY <1>1, <1>2, <1>3, AnswersInvariance, PTL DEF Spec

\* No application goes away, and the client routes only applications that do not play
\* into the sink yet.
OthersRouted ==
    /\ \A a \in App : Up(a) => Up(a)'
    /\ RouteNodes => \A l \in live : IntoSink(l) => l.src \notin req'.nodes

\* Then an application is up for good, the selection in hand does not play yet, and the
\* one that was accepted does.
SelectionPlays ==
    /\ \A a \in App : gen[a] \in {0, 1}
    /\ pc \in {"sink", "mic", "micLink", "sinkWait", "route"} =>
          \A l \in live : IntoSink(l) => l.src \notin req.nodes
    /\ RoutedNodesPlay

\* Only route_nodes makes something play into the sink.
LEMMA SinkLinksLess ==
    ASSUME IInv, SInv, [Next]_vars, ~RouteLink, IInv', NEW l \in live', IntoSink(l)'
    PROVE  l \in live /\ IntoSink(l)
  <1>1. l.dst \in VNode /\ l.dst.name = "sink" /\ Capture \cap VNode = {}
    BY PeersAreNotOurs DEF IntoSink, IInv, TypeOK, BackendTypeOK, Peer
  <1>2. l \in live
    BY <1>1, NewLinks
  <1>3. l.dst \in nodes
    BY <1>1, <1>2, PeersAreNotOurs DEF IInv, EndsCurrent, Current
  <1>. QED  BY <1>1, <1>2, <1>3 DEF IntoSink

\* A route is taken away by clear_routes, the next route_nodes or dispose, or when its
\* application goes.
LEMMA RoutesStay ==
    ASSUME IInv, OthersRouted, World \/ GraphChanged, NEW l \in live, IntoSink(l)
    PROVE  l \in live' /\ IntoSink(l)'
  <1>1. l \in routeLinks /\ l.src \in App /\ l.dst \in VNode
    BY LinksByPlace DEF IInv, LinkShapes
  <1>2. UNCHANGED nodes
    BY DEF World, Meanwhile, Environment, PeerAppears, PeerDisappears, StrayForms, Events,
           NodeEvent, VirtualNodeEvent, PortEvent, StrayEvent, StrayRemoved, MetadataEvent,
           DefaultEvent, proxyVars, GraphChanged
  <1>3. CASE GraphChanged
    <2>1. l \notin Retained
      BY <1>1, <1>3 DEF Retained, GraphChanged, IInv, HandlesTracked
    <2>. QED
      BY <1>2, <1>3, <2>1 DEF GraphChanged, SyncTo, TearDownCaptures, Relink, IntoSink
  <1>4. CASE World
    <2>1. ASSUME NEW p \in Peer, PeerDisappears(p)
          PROVE  l \in live'
      <3>1. p # l.dst
        BY <1>1, PeersAreNotOurs
      <3>2. p # l.src
        <4>1. SUFFICES ASSUME p = l.src PROVE FALSE
          OBVIOUS
        <4>2. gen[p] \in Nat /\ gen'[p] = gen[p] + 1
          BY <2>1 DEF PeerDisappears, IInv, TypeOK, BackendTypeOK
        <4>. QED  BY <1>1, <2>1, <4>1, <4>2 DEF PeerDisappears, OthersRouted, Up, Odd
      <3>. QED  BY <2>1, <3>1, <3>2 DEF PeerDisappears
    <2>2. UNCHANGED live \/ \E p \in Peer : PeerDisappears(p)
      BY <1>4
      DEF World, Meanwhile, Environment, PeerAppears, StrayForms, Events, NodeEvent,
          VirtualNodeEvent, PortEvent, StrayEvent, StrayRemoved, MetadataEvent, DefaultEvent
    <2>. QED  BY <1>2, <2>1, <2>2 DEF IntoSink
  <1>. QED  BY <1>3, <1>4

\* The link loop, when it answers that the selection is routed, has made a link that is new
\* to the server: both its ends exist, and they were not linked.
LEMMA RouteLinkPlays ==
    ASSUME IInv, SInv, SelectionPlays, RouteLink, req'.status = "ok"
    PROVE  \E l \in live' : IntoSink(l)'
  <1>t. TypeOK /\ req.nodes \in SUBSET Selectable /\ req.status = "busy" /\ req \in Request
    BY DEF IInv, TypeOK, SessionTypeOK, Request, SInv, RequestInHand, RouteLink
  <1>1. ~Reply(FALSE)
    BY <1>t DEF Reply, Request
  <1>2. PICK s \in ReadyNodes("sink"), pass \in Linkable(req.nodes, req.filter) :
           \E new \in Created(LinksFromTo(pass, {s})) : new # {} /\ ReplaceRoutes(new)
    BY <1>1 DEF RouteLink
  <1>3. PICK new \in Created(LinksFromTo(pass, {s})) : new # {} /\ ReplaceRoutes(new)
    BY <1>2
  <1>4. s \in nodes /\ s \in VNode /\ s.name = "sink" /\ s \notin Peer
    BY <1>t, NamedSeenType, PeersAreNotOurs
    DEF IInv, OwnNodesStay, Running, RouteLink, TypeOK, BackendTypeOK
  <1>5. pass \subseteq App /\ pass \subseteq req.nodes
    BY <1>t, LinkableApps, LinkableSelected
  <1>6. ASSUME NEW a \in pass PROVE Current(a)
    <2>1. a \in Chosen(req.nodes) /\ a \in App /\ a \notin mvirt
      BY <1>t, <1>5, PeersAreNotOurs DEF Linkable, TypeOK, BackendTypeOK, Peer
    <2>2. a \in Peer /\ Odd(mgen[a])
      BY <2>1 DEF Chosen, Seen, Peer
    <2>3. mgen[a] \in Nat /\ mgen[a] <= gen[a] /\ gen[a] \in {0, 1}
      BY <2>1, <2>2 DEF IInv, TypeOK, BackendTypeOK, MirrorBehind, SelectionPlays
    <2>4. mgen[a] = 1 /\ gen[a] = 1
      BY <2>2, <2>3 DEF Odd
    <2>. QED  BY <2>2, <2>4 DEF Current, Up, Odd
  <1>7. PICK l \in new : TRUE
    BY <1>3
  <1>8. l.src \in pass /\ l.dst = s /\ l.n = counter
    <2>1. pass \in SUBSET Node /\ {s} \in SUBSET Node
      BY <1>4, <1>5 DEF Node, Peer
    <2>. QED  BY <1>t, <1>3, <1>7, <2>1, WantedType
  <1>9. Takes(l)
    <2>1. ASSUME NEW k \in live, SameEnds(k, l) PROVE FALSE
      <3>1. k.src = l.src /\ k.dst = s
        BY <1>8, <2>1 DEF SameEnds
      <3>2. IntoSink(k)
        BY <1>4, <3>1 DEF IntoSink
      <3>. QED  BY <1>5, <1>8, <3>1, <3>2 DEF SelectionPlays, RouteLink
    <2>2. Current(l.src) /\ Current(l.dst)
      BY <1>4, <1>6, <1>8 DEF Current
    <2>. QED  BY <2>1, <2>2 DEF Takes
  <1>10. l \notin routeLinks
    <2>1. routeLinks \subseteq createdLinks /\ counter \in Nat
      BY <1>t DEF IInv, HandlesTracked, SessionLinks, RouteLink, TypeOK, BackendTypeOK
    <2>. QED  BY <1>8, <2>1 DEF IInv, FreshHandles
  <1>11. l \in live' /\ nodes' = nodes
    BY <1>3, <1>7, <1>9, <1>10 DEF ReplaceRoutes, Relink, RouteLink
  <1>. QED  BY <1>4, <1>8, <1>11 DEF IntoSink

\* Every step keeps it.
LEMMA SelectionPlaysStep ==
    ASSUME IInv, SInv, IInv', SInv', SelectionPlays, OthersRouted, [Next]_vars
    PROVE  SelectionPlays'
  <1>t. req \in Request /\ req' \in Request /\ pc \in Point
    BY DEF IInv, TypeOK, SessionTypeOK
  <1>1. \A a \in App : gen'[a] \in {0, 1}
    <2>1. CASE UNCHANGED gen
      BY <2>1 DEF SelectionPlays
    <2>2. ASSUME NEW p \in Peer, PeerAppears(p) \/ PeerDisappears(p), NEW a \in App
          PROVE  gen'[a] \in {0, 1}
      <3>1. /\ gen[a] \in {0, 1} /\ gen \in [Peer -> Nat] /\ a \in Peer
            /\ gen' = [gen EXCEPT ![p] = gen[p] + 1]
        BY <2>2 DEF SelectionPlays, IInv, TypeOK, BackendTypeOK, Peer, PeerAppears, PeerDisappears
      <3>2. gen'[a] \in {gen[a], gen[a] + 1}
        BY <3>1
      <3>3. gen[a] = 1 => gen'[a] # 2
        BY DEF OthersRouted, Up, Odd
      <3>. QED  BY <3>1, <3>2, <3>3
    <2>3. UNCHANGED gen \/ \E p \in Peer : PeerAppears(p) \/ PeerDisappears(p)
      BY DEF vars, backendVars, serverVars, Next, Step, Client, World, Meanwhile, Environment,
          StrayForms, Events, NodeEvent, VirtualNodeEvent, PortEvent, StrayEvent, StrayRemoved,
          MetadataEvent, DefaultEvent, EnsureSink, EnsureMic,
          LinkMonitorToMic, MicTimeout, SinkReady, SinkTimeout, RouteLink, EnsureNullSink,
          NullReady, NullTimeout, StoreTargets, SyncCaptureLinks, Exit, GraphChanged,
          EnsureVirtualSink, RouteNodes, RouteNone, ClearRoutes, SetVirtualMicMute,
          SetDefaultSinkToVirtual, RestoreDefaultSink, SetDiscordCaptureTargets, Dispose, Killed,
          ConnectionCloses
    <2>. QED  BY <2>1, <2>2, <2>3
  <1>2. ASSUME pc' \in {"sink", "mic", "micLink", "sinkWait", "route"},
               NEW l \in live', IntoSink(l)'
        PROVE  l.src \notin req'.nodes
    <2>1. ~RouteLink
      BY <1>2 DEF RouteLink, Reply
    <2>2. l \in live /\ IntoSink(l)
      BY <1>2, <2>1, SinkLinksLess
    <2>3. \/ RouteNodes
          \/ req'.nodes = {}
          \/ UNCHANGED req /\ pc \in {"sink", "mic", "micLink", "sinkWait", "route"}
      BY <1>2, <2>1
      DEF vars, sessionVars, Next, Step, Client, World, Meanwhile, EnsureSink, EnsureMic,
          LinkMonitorToMic, MicTimeout, SinkReady, SinkTimeout, SinkInfo, EnsureNullSink,
          NullReady, NullTimeout, StoreTargets, SyncCaptureLinks, Exit, GraphChanged,
          EnsureVirtualSink, RouteNone, ClearRoutes, SetVirtualMicMute,
          SetDefaultSinkToVirtual, RestoreDefaultSink, SetDiscordCaptureTargets, Dispose, Killed,
          ConnectionCloses, Take, Serve, Receive, Reply, AfterMic, Ensured
    <2>. QED  BY <2>2, <2>3 DEF SelectionPlays, OthersRouted
  <1>3. ASSUME Answered("route")', req'.nodes # {}
        PROVE  \E l \in live' : IntoSink(l)'
    <2>1. CASE RouteLink
      BY <1>3, <2>1, RouteLinkPlays DEF Answered
    <2>2. CASE (World \/ GraphChanged) /\ UNCHANGED req
      BY <1>3, <2>2, RoutesStay DEF SelectionPlays, RoutedNodesPlay, Answered
    <2>3. CASE UNCHANGED vars
      BY <1>3, <2>3
      DEF SelectionPlays, RoutedNodesPlay, Answered, IntoSink, vars, backendVars, proxyVars,
          sessionVars
    <2>4. RouteLink \/ ((World \/ GraphChanged) /\ UNCHANGED req) \/ UNCHANGED vars
      <3>1. CASE \/ EnsureVirtualSink \/ RouteNodes \/ RouteNone \/ ClearRoutes
                \/ SetVirtualMicMute \/ SetDefaultSinkToVirtual \/ RestoreDefaultSink
                \/ SetDiscordCaptureTargets \/ Dispose
        BY <1>3, <3>1
        DEF EnsureVirtualSink, RouteNodes, RouteNone, ClearRoutes, SetVirtualMicMute,
            SetDefaultSinkToVirtual, RestoreDefaultSink, SetDiscordCaptureTargets, Dispose,
            Take, Serve, Receive, Answered
      <3>2. CASE Exit \/ Killed
        BY <1>3, <1>t, <3>2
        DEF Exit, Killed, Answered, SInv, RequestInHand, Request
      <3>3. CASE \/ EnsureSink \/ EnsureMic \/ LinkMonitorToMic \/ MicTimeout \/ SinkReady
                \/ SinkTimeout
        <4>1. req.status = "busy"
          BY <3>3 DEF EnsureSink, EnsureMic, LinkMonitorToMic, MicTimeout, SinkReady, SinkTimeout,
                      SInv, RequestInHand
        <4>. QED
          BY <1>3, <1>t, <3>3, <4>1
          DEF EnsureSink, EnsureMic, LinkMonitorToMic, MicTimeout, SinkReady, SinkTimeout,
              SinkInfo, AfterMic, Ensured, Reply, Answered, Request
      <3>4. CASE EnsureNullSink \/ NullReady \/ NullTimeout \/ StoreTargets \/ SyncCaptureLinks
        <4>1. req.op = "targets"
          BY <3>4 DEF EnsureNullSink, NullReady, NullTimeout, StoreTargets, SyncCaptureLinks,
                      SInv, RequestInHand
        <4>. QED
          BY <1>3, <1>t, <3>4, <4>1
          DEF EnsureNullSink, NullReady, NullTimeout, StoreTargets, SyncCaptureLinks, Reply,
              Answered, Request
      <3>5. CASE (World \/ GraphChanged)
        BY <3>5 DEF World, Meanwhile, sessionVars, GraphChanged
      <3>. QED  BY <3>1, <3>2, <3>3, <3>4, <3>5 DEF Next, Step, Client
    <2>. QED  BY <2>1, <2>2, <2>3, <2>4
  <1>. QED  BY <1>1, <1>2, <1>3 DEF SelectionPlays, RoutedNodesPlay

\* After routeNodes was accepted something plays into the virtual sink, as the README says,
\* although it was routed on a graph that is out of date, and whatever create_link did: as
\* long as no application goes away and none is routed that plays there already. Routing
\* what is routed is the only call that silences it.
THEOREM OtherRoutesPlay == Spec /\ [][OthersRouted]_vars => []RoutedNodesPlay
  <1>1. Init => SelectionPlays
    BY DEF Init, BackendInit, SelectionPlays, RoutedNodesPlay, Answered, Peer
  <1>2. IInv /\ SInv /\ IInv' /\ SInv' /\ SelectionPlays /\ [Next]_vars /\ [OthersRouted]_vars
            => SelectionPlays'
    <2>. SUFFICES ASSUME IInv, SInv, IInv', SInv', SelectionPlays, [Next]_vars, [OthersRouted]_vars
                  PROVE  SelectionPlays'
      OBVIOUS
    <2>1. CASE UNCHANGED vars
      BY <2>1
      DEF vars, backendVars, serverVars, proxyVars, sessionVars, SelectionPlays, RoutedNodesPlay,
          Answered, IntoSink
    <2>2. CASE OthersRouted
      BY <2>2, SelectionPlaysStep
    <2>. QED  BY <2>1, <2>2
  <1>3. SelectionPlays => RoutedNodesPlay
    BY DEF SelectionPlays
  <1>. QED  BY <1>1, <1>2, <1>3, AnswersInvariance, PTL DEF Spec
================================================================================
