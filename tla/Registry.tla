-------------------------------- MODULE Registry --------------------------------
(***************************************************************************)
(* The graph mirror of the native backend: what the registry listener of   *)
(* patchbay/pw_backend.rs (run_loop) makes of the events of the server,    *)
(* down to the single port, and the links routing.rs plans on it.          *)
(* PwBackend has the same mirror in the terms its sessions need.           *)
(*                                                                         *)
(* Ids are shared by nodes, ports and links and are given out again. The   *)
(* serial (object.serial, never used twice) tells incarnations apart; the  *)
(* listener does not look at it.                                           *)
(***************************************************************************)
EXTENDS PortMapping, FiniteSets, SequencesExt

CONSTANTS
    Id,
    InOrder,     \* events arrive in the order of the changes
    Limits       \* bounds; a behaviour keeps to one of them

Dir == {"in", "out"}

\* How many objects are ever made and removed, how many titles change, how many events are
\* on the way, and the channels and port.id properties of ports ("bare": it has none).
ASSUME RegistryConstants ==
    /\ Id \subseteq Nat /\ InOrder \in BOOLEAN
    /\ \A m \in Limits : {m.made, m.removals, m.titles, m.queue} \subseteq Nat

VARIABLES
    limits,
    objects,      \* server: the nodes, ports and links there are
    made, removals, titles,
    queue,        \* events on the way
    nodes,        \* state.nodes: NodeRecords; title stands for their props
    links,        \* state.links
    port_owner,
    known_globals,
    node_watchers \* bound proxies: the id, and the incarnation it was bound to

server == <<limits, objects, made, removals, titles>>
mirror == <<nodes, links, port_owner, known_globals, node_watchers>>
registryVars == <<server, queue, mirror>>

--------------------------------------------------------------------------------
(* The server. *)

Of(kind) == {x \in objects : x.kind = kind}
Used == {x.id : x \in objects}
PortsOf(n) == {p \in Of("port") : p.node = n.id}

\* The lowest id that is free.
NextId == {i \in Id \ Used : \A j \in Id \ Used : i <= j}

Room(n) == Len(queue) + n <= limits.queue

Announce(x) ==
    /\ made < limits.made /\ Room(1)
    /\ objects' = objects \cup {x} /\ made' = made + 1
    /\ queue' = Append(queue, [type |-> "global", id |-> x.id, object |-> x])
    /\ UNCHANGED <<limits, removals, titles, mirror>>

NodeAdded == \E i \in NextId :
    Announce([kind |-> "node", id |-> i, serial |-> made, title |-> 0])

\* port.id counts the ports of a node and direction.
PortAdded ==
    \E i \in NextId, n \in Of("node"), d \in Dir, c \in limits.channels, bare \in limits.bare :
        LET count == Cardinality({p \in PortsOf(n) : p.dir = d}) IN
        Announce([kind |-> "port", id |-> i, serial |-> made, node |-> n.id, dir |-> d,
                  channel |-> c, index |-> IF bare THEN NoValue ELSE count])

LinkAdded == \E i \in NextId, o, p \in Of("port") :
    /\ o.dir = "out" /\ p.dir = "in"
    /\ \A l \in Of("link") : <<l.out, l.inp>> # <<o.id, p.id>>
    /\ Announce([kind |-> "link", id |-> i, serial |-> made, out |-> o.id, inp |-> p.id])

\* A node takes its ports along and a port its links; those are gone first.
Removed(x) ==
    LET ports == IF x.kind = "node" THEN PortsOf(x) ELSE {x} \cap Of("port")
        lost == {l \in Of("link") : \E p \in ports : p.id \in {l.out, l.inp}}
        gone == SetToSeq(lost \ {x}) \o SetToSeq(ports \ {x}) \o <<x>>
    IN /\ removals < limits.removals /\ removals' = removals + 1 /\ Room(Len(gone))
       /\ objects' = objects \ ToSet(gone)
       /\ queue' = queue \o [k \in DOMAIN gone |-> [type |-> "remove", id |-> gone[k].id]]
       /\ UNCHANGED <<limits, made, titles, mirror>>

\* The registry says nothing of it.
TitleChanged(n) ==
    /\ titles < limits.titles /\ titles' = titles + 1
    /\ objects' = (objects \ {n}) \cup {[n EXCEPT !.title = titles']}
    /\ UNCHANGED <<limits, made, removals, queue, mirror>>

--------------------------------------------------------------------------------
(* The listener. *)

Record(i) == {m \in nodes : m.id = i}

\* A record has a list of ports for each direction: models.rs never reads them but by direction.
NoPorts == [d \in Dir |-> <<>>]

\* A record that is there already hands its ports over. The node is bound unless its id
\* is; at a bind the server tells the properties of the moment.
GlobalNode(x) ==
    LET seen == UNION {{m.ports} : m \in Record(x.id)} IN
    /\ nodes' = (nodes \ Record(x.id)) \cup
                    {[id |-> x.id, serial |-> x.serial, title |-> x.title,
                      ports |-> IF seen = {} THEN NoPorts ELSE CHOOSE s \in seen : TRUE]}
    /\ node_watchers' =
          IF \E w \in node_watchers : w.id = x.id THEN node_watchers
          ELSE node_watchers \cup {[id |-> x.id, serial |-> x.serial]}
    /\ UNCHANGED <<links, port_owner>>

\* Mutant: a second port of a channel takes the place of the first.
Push_ByChannel(ports, x) == Append(SelectSeq(ports, LAMBDA p : p.channel # x.channel), x)

Push(ports, x) == Append(ports, x)

\* A port of a node without a record is dropped.
GlobalPort(x) ==
    /\ port_owner' = port_owner \cup {[id |-> x.id, node |-> x.node, dir |-> x.dir]}
    /\ nodes' = {IF m.id = x.node THEN [m EXCEPT !.ports[x.dir] = Push(@, x)] ELSE m : m \in nodes}
    /\ UNCHANGED <<links, node_watchers>>

GlobalLink(x) ==
    /\ links' = {l \in links : l.id # x.id} \cup {x}
    /\ UNCHANGED <<nodes, port_owner, node_watchers>>

Global(x) ==
    /\ known_globals' = {g \in known_globals : g.id # x.id} \cup {x}
    /\ \/ x.kind = "node" /\ GlobalNode(x)
       \/ x.kind = "port" /\ GlobalPort(x)
       \/ x.kind = "link" /\ GlobalLink(x)

Without(records, i) == {r \in records : r.id # i}

\* Mutants: a link that goes is not noticed; nor is a node; a bound proxy is kept.
GlobalRemove_KeepsLink(i) ==
    /\ nodes' = Without(nodes, i) /\ UNCHANGED links
    /\ port_owner' = Without(port_owner, i)
    /\ known_globals' = Without(known_globals, i)
    /\ node_watchers' = Without(node_watchers, i)
GlobalRemove_KeepsNode(i) ==
    /\ UNCHANGED nodes /\ links' = Without(links, i)
    /\ port_owner' = Without(port_owner, i)
    /\ known_globals' = Without(known_globals, i)
    /\ node_watchers' = Without(node_watchers, i)
GlobalRemove_KeepsProxy(i) ==
    /\ nodes' = Without(nodes, i) /\ links' = Without(links, i)
    /\ port_owner' = Without(port_owner, i)
    /\ known_globals' = Without(known_globals, i)
    /\ UNCHANGED node_watchers

\* By the id alone, whatever it was. A port stays in the list of its node.
GlobalRemove(i) ==
    /\ nodes' = Without(nodes, i) /\ links' = Without(links, i)
    /\ port_owner' = Without(port_owner, i)
    /\ known_globals' = Without(known_globals, i)
    /\ node_watchers' = Without(node_watchers, i)

\* The next event, or, out of order, any with none of its id before it.
Arrives(k) == IF InOrder THEN k = 1 ELSE \A j \in 1..(k - 1) : queue[j].id # queue[k].id

Deliver == \E k \in DOMAIN queue :
    /\ Arrives(k)
    /\ queue' = RemoveAt(queue, k)
    /\ \/ queue[k].type = "global" /\ Global(queue[k].object)
       \/ queue[k].type = "remove" /\ GlobalRemove(queue[k].id)
    /\ UNCHANGED server

\* The info listener of the bound proxy.
Info(w) == \E x \in Of("node"), m \in Record(w.id) :
    /\ x.id = w.id /\ x.serial = w.serial
    /\ m.title # x.title
    /\ nodes' = (nodes \ {m}) \cup {[m EXCEPT !.title = x.title]}
    /\ UNCHANGED <<server, queue, links, port_owner, known_globals, node_watchers>>

--------------------------------------------------------------------------------
RegistryInit ==
    /\ limits \in Limits
    /\ objects = {} /\ made = 0 /\ removals = 0 /\ titles = 0 /\ queue = <<>>
    /\ nodes = {} /\ links = {} /\ port_owner = {} /\ known_globals = {}
    /\ node_watchers = {}

Listener == Deliver \/ \E w \in node_watchers : Info(w)

Changes ==
    \/ NodeAdded \/ PortAdded \/ LinkAdded
    \/ \E x \in objects : Removed(x)
    \/ \E n \in Of("node") : TitleChanged(n)

RegistryNext == Changes \/ Listener

\* The loop thread runs; nothing need ever change on the server.
RegistrySpec == RegistryInit /\ [][RegistryNext]_registryVars /\ WF_registryVars(Listener)

--------------------------------------------------------------------------------
(* Properties *)

Drained == queue = <<>>

\* Once all events are in, every map of the listener has the objects of the server, under
\* their own ids, however often an id went from one object to another of another kind, and
\* the proxy of a node is bound to that node.
MirrorCurrent == Drained =>
    /\ {<<m.id, m.serial>> : m \in nodes} = {<<x.id, x.serial>> : x \in Of("node")}
    /\ {<<w.id, w.serial>> : w \in node_watchers} = {<<x.id, x.serial>> : x \in Of("node")}
    /\ {<<g.id, g.serial>> : g \in known_globals} = {<<x.id, x.serial>> : x \in objects}
    /\ port_owner = {[id |-> p.id, node |-> p.node, dir |-> p.dir] : p \in Of("port")}
    /\ links = Of("link")

\* Every port of the server is listed once by its node.
PortsListed == Drained => \A p \in Of("port") : \E m \in Record(p.node) :
    Cardinality({k \in DOMAIN m.ports[p.dir] : m.ports[p.dir][k] = p}) = 1

\* A node's list never has a port of an earlier node of the same id.
PortsOfThisNode == \A m \in nodes, d \in Dir : \A p \in Ports(m.ports[d]) :
    p.node = m.id /\ p.serial > m.serial

\* Titles catch up: those of a node that took an id over as well.
TitlesCatchUp == []<>(\A x \in Of("node") :
    \E m \in nodes : <<m.id, m.serial, m.title>> = <<x.id, x.serial, x.title>>)

Planned(m, k) == map_ports(m.ports["out"], k.ports["in"])

\* Whatever ports were announced so far and in whichever order, no output of a node that is
\* routed is left without an input as long as the other node has one.
EveryOutputPlays == \A m, k \in nodes :
    k.ports["in"] # <<>> =>
        {x[1] : x \in Planned(m, k)} = Ports(m.ports["out"])

\* With a left and a right input there, a left output plays on left ones and a right output
\* on right ones only, and a mono output on both sides.
SidesKept == \A m, k \in nodes :
    LET ins == k.ports["in"]
        reached(o) == {x[2] : x \in {y \in Planned(m, k) : y[1] = o}}
    IN Side(ins, "left") # {} /\ Side(ins, "right") # {} =>
        \A o \in Ports(m.ports["out"]) : LET role == channel_role(o.channel) IN
            /\ role \in {"left", "right"} => reached(o) = Side(ins, role)
            /\ role = "both" => reached(o) = Side(ins, "left") \cup Side(ins, "right")
================================================================================
