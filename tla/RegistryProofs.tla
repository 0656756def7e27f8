----------------------------- MODULE RegistryProofs -----------------------------
(* Theorems about Registry and PortMapping: any number of objects, ids, events and ports, *)
(* and lists of ports of any length.                                                      *)
EXTENDS Registry, FiniteSetTheorems, SequenceTheorems, WellFoundedInduction, TLAPS

--------------------------------------------------------------------------------
(* PortMapping. *)

\* A set of positions has a first one, so that a search through a list finds it.
LEMMA FirstPosition ==
    ASSUME NEW S \in SUBSET Nat, S # {}
    PROVE  \E i \in S : \A j \in S : i <= j
  <1>. DEFINE R == {ss \in Nat \X Nat : ss[1] < ss[2]}
  <1>1. IsWellFoundedOn(R, Nat)
    BY NatLessThanWellFounded, Zenon DEF OpToRel
  <1>2. PICK i \in S : \A j \in S : ~(<<j, i>> \in R)
    BY <1>1, WFMin
  <1>3. ASSUME NEW j \in S PROVE i <= j
    <2>1. i \in Nat /\ j \in Nat
      OBVIOUS
    <2>2. <<j, i>> \in Nat \X Nat /\ <<j, i>>[1] = j /\ <<j, i>>[2] = i
      BY <2>1
    <2>3. ~(j < i)
      BY <1>2, <2>2
    <2>. QED  BY <2>1, <2>3
  <1>. QED  BY <1>3

\* A list that is not empty has a first and a last port.
LEMMA Ends ==
    ASSUME NEW Port, NEW list \in Seq(Port), list # <<>>
    PROVE  list[1] \in Ports(list) /\ list[Len(list)] \in Ports(list)
  <1>1. DOMAIN list = 1..Len(list) /\ Len(list) \in Nat /\ Len(list) # 0
    OBVIOUS
  <1>. QED  BY <1>1 DEF Ports

\* ByPlace finds one input, whatever the ports are called and wherever they stand.
LEMMA ByPlaceFinds ==
    ASSUME NEW Port, NEW outputs \in Seq(Port), NEW inputs \in Seq(Port), NEW k \in DOMAIN outputs,
           NEW otherwise \in Ports(inputs)
    PROVE  \E i \in Ports(inputs) : ByPlace(k, outputs, inputs, otherwise) = {i}
  <1>. DEFINE same == {i \in DOMAIN inputs : same_port_index(outputs[k], inputs[i])}
              first == CHOOSE i \in same : \A j \in same : i <= j
  <1>1. CASE same # {}
    <2>1. same \in SUBSET Nat
      OBVIOUS
    <2>2. \E i \in same : \A j \in same : i <= j
      BY <1>1, <2>1, FirstPosition
    <2>3. first \in same
      BY <2>2
    <2>4. ByPlace(k, outputs, inputs, otherwise) = {inputs[first]}
      BY <1>1 DEF ByPlace
    <2>. QED  BY <2>3, <2>4 DEF Ports
  <1>2. CASE same = {} /\ k <= Len(inputs)
    <2>1. k \in DOMAIN inputs
      BY <1>2
    <2>. QED  BY <1>2, <2>1 DEF ByPlace, Ports
  <1>3. CASE same = {} /\ ~(k <= Len(inputs))
    BY <1>3 DEF ByPlace
  <1>. QED  BY <1>1, <1>2, <1>3

\* The inputs of an output are inputs, and there is one.
LEMMA InputsFound ==
    ASSUME NEW Port, NEW outputs \in Seq(Port), NEW inputs \in Seq(Port), inputs # <<>>,
           NEW k \in DOMAIN outputs
    PROVE  /\ InputsFor(k, outputs, inputs) # {}
           /\ InputsFor(k, outputs, inputs) \subseteq Ports(inputs)
  <1>1. inputs[1] \in Ports(inputs) /\ inputs[Len(inputs)] \in Ports(inputs)
    BY Ends
  <1>2. /\ LeftInputs(k, outputs, inputs) # {}
        /\ LeftInputs(k, outputs, inputs) \subseteq Ports(inputs)
    <2>1. PICK i \in Ports(inputs) : ByPlace(k, outputs, inputs, inputs[1]) = {i}
      BY <1>1, ByPlaceFinds
    <2>. QED  BY <2>1 DEF LeftInputs, Side
  <1>3. /\ RightInputs(k, outputs, inputs) # {}
        /\ RightInputs(k, outputs, inputs) \subseteq Ports(inputs)
    BY <1>1, ByPlaceFinds DEF RightInputs, Side
  <1>4. BothInputs(inputs) # {} /\ BothInputs(inputs) \subseteq Ports(inputs)
    BY <1>1 DEF BothInputs, Side
  <1>5. /\ UnknownInputs(k, outputs, inputs) # {}
        /\ UnknownInputs(k, outputs, inputs) \subseteq Ports(inputs)
    BY <1>1, ByPlaceFinds DEF UnknownInputs
  <1>. QED  BY <1>2, <1>3, <1>4, <1>5, Zenon DEF InputsFor

\* What an output is mapped to are the inputs found for it, for all the places it stands at.
LEMMA MappedTo ==
    ASSUME NEW Port, NEW outputs \in Seq(Port), NEW inputs \in Seq(Port), inputs # <<>>, NEW x
    PROVE  x \in map_ports(outputs, inputs) <=>
              \E k \in DOMAIN outputs : \E i \in InputsFor(k, outputs, inputs) :
                 x = <<outputs[k], i>>
  BY DEF map_ports

--------------------------------------------------------------------------------

\* Every output plays: no output of the one node is left without an input of the other, and
\* only outputs are linked, to inputs only.
THEOREM EveryOutputIsMapped ==
    ASSUME NEW Port, NEW outputs \in Seq(Port), NEW inputs \in Seq(Port), inputs # <<>>
    PROVE  /\ {x[1] : x \in map_ports(outputs, inputs)} = Ports(outputs)
           /\ map_ports(outputs, inputs) \subseteq Ports(outputs) \X Ports(inputs)
  <1>1. ASSUME NEW x \in map_ports(outputs, inputs)
        PROVE  x[1] \in Ports(outputs) /\ x \in Ports(outputs) \X Ports(inputs)
    <2>1. PICK k \in DOMAIN outputs :
             \E i \in InputsFor(k, outputs, inputs) : x = <<outputs[k], i>>
      BY MappedTo
    <2>2. PICK i \in InputsFor(k, outputs, inputs) : x = <<outputs[k], i>>
      BY <2>1
    <2>3. i \in Ports(inputs) /\ outputs[k] \in Ports(outputs)
      BY InputsFound DEF Ports
    <2>. QED  BY <2>2, <2>3
  <1>2. ASSUME NEW o \in Ports(outputs)
        PROVE  \E x \in map_ports(outputs, inputs) : x[1] = o
    <2>1. PICK k \in DOMAIN outputs : o = outputs[k]
      BY DEF Ports
    <2>2. PICK i \in InputsFor(k, outputs, inputs) : TRUE
      BY InputsFound
    <2>3. <<o, i>> \in map_ports(outputs, inputs)
      BY <2>1, <2>2, MappedTo
    <2>. QED  BY <2>3
  <1>. QED  BY <1>1, <1>2

\* The sides are kept: where there is a left and a right input, a left output plays on the
\* left ones, a right output on the right ones, a mono output on both.
THEOREM SidesAreKept ==
    ASSUME NEW Port, NEW outputs \in Seq(Port), NEW inputs \in Seq(Port),
           Side(inputs, "left") # {}, Side(inputs, "right") # {}, NEW o \in Ports(outputs)
    PROVE  LET role == channel_role(o.channel)
               reached == {x[2] : x \in {y \in map_ports(outputs, inputs) : y[1] = o}}
           IN /\ role = "left" => reached = Side(inputs, "left")
              /\ role = "right" => reached = Side(inputs, "right")
              /\ role = "both" => reached = Side(inputs, "left") \cup Side(inputs, "right")
  <1>. DEFINE role == channel_role(o.channel)
              reached == {x[2] : x \in {y \in map_ports(outputs, inputs) : y[1] = o}}
  <1>1. inputs # <<>>
    BY DEF Side, Ports
  <1>2. ASSUME NEW S, \A k \in DOMAIN outputs :
                         outputs[k] = o => InputsFor(k, outputs, inputs) = S
        PROVE  reached = S
    <2>1. PICK k \in DOMAIN outputs : o = outputs[k]
      BY DEF Ports
    <2>2. ASSUME NEW i \in S PROVE i \in reached
      <3>1. <<o, i>> \in map_ports(outputs, inputs)
        BY <1>1, <1>2, <2>1, <2>2, MappedTo
      <3>2. <<o, i>>[1] = o /\ <<o, i>>[2] = i
        OBVIOUS
      <3>. QED  BY <3>1, <3>2
    <2>3. ASSUME NEW x \in map_ports(outputs, inputs), x[1] = o PROVE x[2] \in S
      <3>1. PICK j \in DOMAIN outputs :
               \E i \in InputsFor(j, outputs, inputs) : x = <<outputs[j], i>>
        BY <1>1, MappedTo
      <3>2. PICK i \in InputsFor(j, outputs, inputs) : x = <<outputs[j], i>>
        BY <3>1
      <3>3. outputs[j] = o /\ x[2] = i
        BY <2>3, <3>2
      <3>. QED  BY <1>2, <3>2, <3>3
    <2>. QED  BY <2>2, <2>3
  <1>3. ASSUME NEW k \in DOMAIN outputs, outputs[k] = o
        PROVE  /\ role = "left" => InputsFor(k, outputs, inputs) = Side(inputs, "left")
               /\ role = "right" => InputsFor(k, outputs, inputs) = Side(inputs, "right")
               /\ role = "both" => InputsFor(k, outputs, inputs) =
                                      Side(inputs, "left") \cup Side(inputs, "right")
    BY <1>3 DEF InputsFor, LeftInputs, RightInputs, BothInputs
  <1>. QED  BY <1>2, <1>3

--------------------------------------------------------------------------------
(* What makes the mirror right: for each id, how the events on the way lead from what the *)
(* mirror shows to what the server has. No event is compared but with those of its id.    *)

Channels == UNION {m.channels : m \in Limits}

ANode == [kind : {"node"}, id : Id, serial : Nat, title : Nat]
APort == [kind : {"port"}, id : Id, serial : Nat, node : Id, dir : Dir, channel : Channels,
          index : Nat \cup {NoValue}]
ALink == [kind : {"link"}, id : Id, serial : Nat, out : Id, inp : Id]
Object == ANode \cup APort \cup ALink

Announcement == [type : {"global"}, id : Id, object : Object]
Farewell == [type : {"remove"}, id : Id]

RegistryTypeOK ==
    /\ limits \in Limits /\ made \in Nat /\ removals \in Nat /\ titles \in Nat
    /\ objects \subseteq Object /\ IsFiniteSet(objects)
    /\ queue \in Seq(Announcement \cup Farewell)
    /\ nodes \subseteq [id : Id, serial : Nat, title : Nat, ports : [Dir -> Seq(APort)]]
    /\ links \subseteq ALink /\ known_globals \subseteq Object
    /\ port_owner \subseteq [id : Id, node : Id, dir : Dir]
    /\ node_watchers \subseteq [id : Id, serial : Nat]

\* One incarnation: only the title of a node ever changes.
Same(x, y) ==
    /\ x.kind = y.kind /\ x.id = y.id /\ x.serial = y.serial
    /\ x.kind # "node" => x = y

Announces(q, k) == k \in DOMAIN q /\ q[k].type = "global"
Removes(q, k, i) == k \in DOMAIN q /\ q[k].type = "remove" /\ q[k].id = i
Pending(q, i) == {k \in DOMAIN q : q[k].id = i}

\* Objects that are there have ids of their own, and a port has its node.
ServerInv ==
    /\ \A x, y \in objects : x.id = y.id => x = y
    /\ \A x \in objects : x.serial < made
    /\ \A p \in Of("port") : \E n \in Of("node") : n.id = p.node

\* Announcements are in the order in which the objects were made; between two of one id
\* there is a removal.
QueueInv ==
    /\ \A k \in DOMAIN queue : Announces(queue, k) =>
           queue[k].object.id = queue[k].id /\ queue[k].object.serial < made
    /\ \A j, k \in DOMAIN queue : Announces(queue, j) /\ Announces(queue, k) /\ j < k =>
           /\ queue[j].object.serial < queue[k].object.serial
           /\ queue[j].id = queue[k].id => \E l \in j..k : Removes(queue, l, queue[k].id)

\* What is announced is there or will be removed, what is removed is gone or will be
\* announced; what the mirror shows, likewise. It shows nothing of an id that will be
\* announced, unless that is removed first.
LagInv ==
    /\ \A k \in DOMAIN queue : Announces(queue, k) =>
           \/ \E x \in objects : Same(queue[k].object, x)
           \/ \E l \in DOMAIN queue : k < l /\ Removes(queue, l, queue[k].id)
    /\ \A x \in objects, k \in DOMAIN queue : Removes(queue, k, x.id) =>
           \E l \in DOMAIN queue : k < l /\ Announces(queue, l) /\ Same(queue[l].object, x)
    /\ \A g \in known_globals :
           \/ \E x \in objects : Same(g, x)
           \/ \E l \in DOMAIN queue : Removes(queue, l, g.id)
    /\ \A x \in objects :
           \/ \E g \in known_globals : Same(g, x)
           \/ \E l \in DOMAIN queue : Announces(queue, l) /\ Same(queue[l].object, x)
    /\ \A k \in DOMAIN queue : Announces(queue, k) =>
           \/ \A g \in known_globals : g.id # queue[k].id
           \/ \E l \in DOMAIN queue : l < k /\ Removes(queue, l, queue[k].id)

Known(kind) == {g \in known_globals : g.kind = kind}

\* The maps of the listener agree with each other at any time.
MapsAgree ==
    /\ \A g, h \in known_globals : g.id = h.id => g = h
    /\ \A m \in nodes : \E g \in Known("node") : g.id = m.id /\ g.serial = m.serial
    /\ \A g \in Known("node") : \E m \in nodes : g.id = m.id /\ g.serial = m.serial
    /\ \A m, n \in nodes : m.id = n.id => m = n
    /\ node_watchers = {[id |-> g.id, serial |-> g.serial] : g \in Known("node")}
    /\ port_owner = {[id |-> g.id, node |-> g.node, dir |-> g.dir] : g \in Known("port")}
    /\ links = Known("link")

\* What is shown is older than what is still to be announced.
Listed(m) == UNION {Ports(m.ports[d]) : d \in Dir}
Older == \A m \in nodes : \A y \in {m} \cup Listed(m) :
    /\ y.serial < made
    /\ \A k \in DOMAIN queue : Announces(queue, k) => y.serial < queue[k].object.serial

Coming(p) == \E k \in DOMAIN queue :
    /\ Announces(queue, k) /\ queue[k].object = p
    /\ \A j \in Pending(queue, p.node) : j < k

ListedOnce(p) ==
    /\ Pending(queue, p.node) = {}
    /\ \E m \in Record(p.node) : \E k \in DOMAIN m.ports[p.dir] :
           \A j \in DOMAIN m.ports[p.dir] : m.ports[p.dir][j] = p <=> j = k

\* A port that is there is announced after everything about its node, or listed once.
PortsInv == \A p \in Of("port") : Coming(p) \/ ListedOnce(p)

RInv ==
    /\ RegistryTypeOK /\ ServerInv /\ QueueInv /\ LagInv /\ MapsAgree /\ Older /\ PortsInv
    /\ PortsOfThisNode

--------------------------------------------------------------------------------
(* What the server does. *)

\* SetToSeq lists a finite set.
LEMMA SetToSeqLists ==
    ASSUME NEW S, IsFiniteSet(S)
    PROVE  SetToSeq(S) \in Seq(S) /\ ToSet(SetToSeq(S)) = S
  <1>. DEFINE n == Cardinality(S)
  <1>1. n \in Nat /\ ExistsBijection(1..n, S)
    BY FS_CardinalityType
  <1>2. \E f \in [1..n -> S] : IsInjective(f)
    BY <1>1 DEF ExistsBijection, Bijection, Injection
  <1>3. SetToSeq(S) \in [1..n -> S] /\ IsInjective(SetToSeq(S))
    BY <1>2 DEF SetToSeq
  <1>4. SetToSeq(S) \in Injection(1..n, S)
    BY <1>3 DEF Injection
  <1>5. IsFiniteSet(1..n) /\ Cardinality(1..n) = n
    BY <1>1, FS_Interval
  <1>6. SetToSeq(S) \in Surjection(1..n, S)
    BY <1>4, <1>5, FS_Injection
  <1>7. SetToSeq(S) \in Seq(S)
    BY <1>1, <1>3
  <1>8. ToSet(SetToSeq(S)) = S
    BY <1>3, <1>6 DEF ToSet, Surjection
  <1>. QED  BY <1>7, <1>8

\* What a list of three parts consists of.
LEMMA ThreeLists ==
    ASSUME NEW S, NEW A \in Seq(S), NEW B \in Seq(S), NEW x \in S
    PROVE  /\ A \o B \o <<x>> \in Seq(S)
           /\ ToSet(A \o B \o <<x>>) = ToSet(A) \cup ToSet(B) \cup {x}
  <1>. DEFINE all == A \o B \o <<x>>
  <1>1. /\ all \in Seq(S) /\ Len(all) = Len(A) + Len(B) + 1
        /\ Len(A) \in Nat /\ Len(B) \in Nat
    OBVIOUS
  <1>2. \A k \in 1..Len(A) : all[k] = A[k]
    OBVIOUS
  <1>3. \A k \in 1..Len(B) : all[k + Len(A)] = B[k]
    OBVIOUS
  <1>4. all[Len(A) + Len(B) + 1] = x
    OBVIOUS
  <1>. HIDE DEF all
  <1>5. ASSUME NEW k \in 1..Len(all) PROVE all[k] \in ToSet(A) \cup ToSet(B) \cup {x}
    <2>1. CASE k <= Len(A)
      BY <1>2, <2>1 DEF ToSet
    <2>2. CASE k > Len(A) /\ k <= Len(A) + Len(B)
      <3>1. PICK j \in 1..Len(B) : k = j + Len(A)
        <4>1. k - Len(A) \in 1..Len(B) /\ k = (k - Len(A)) + Len(A)
          BY <1>1, <2>2
        <4>. QED  BY <4>1, Zenon
      <3>2. all[k] = B[j]
        BY <1>3, <3>1
      <3>. QED  BY <3>2 DEF ToSet
    <2>. QED  BY <1>1, <1>4, <2>1, <2>2
  <1>6. ASSUME NEW k \in 1..Len(A) PROVE A[k] \in ToSet(all)
    BY <1>1, <1>2 DEF ToSet
  <1>7. ASSUME NEW k \in 1..Len(B) PROVE B[k] \in ToSet(all)
    <2>1. k + Len(A) \in 1..Len(all)
      BY <1>1
    <2>. QED  BY <1>1, <1>3, <2>1 DEF ToSet
  <1>8. x \in ToSet(all)
    BY <1>1, <1>4 DEF ToSet
  <1>9. ToSet(all) = ToSet(A) \cup ToSet(B) \cup {x}
    <2>1. ToSet(all) \subseteq ToSet(A) \cup ToSet(B) \cup {x}
      BY <1>1, <1>5 DEF ToSet
    <2>2. ToSet(A) \subseteq ToSet(all)
      BY <1>6 DEF ToSet
    <2>3. ToSet(B) \subseteq ToSet(all)
      BY <1>7 DEF ToSet
    <2>. QED  BY <1>8, <2>1, <2>2, <2>3
  <1>. QED  BY <1>1, <1>9 DEF all

\* Each object that goes is reported by its id.
LEMMA Reports ==
    ASSUME RegistryTypeOK, NEW gone \in Seq(objects)
    PROVE  LET s == [k \in DOMAIN gone |-> [type |-> "remove", id |-> gone[k].id]]
           IN  s \in Seq(Farewell) /\ {s[k].id : k \in DOMAIN s} = {y.id : y \in ToSet(gone)}
  <1>. DEFINE s == [k \in DOMAIN gone |-> [type |-> "remove", id |-> gone[k].id]]
  <1>1. \A k \in DOMAIN gone : gone[k].id \in Id
    <2>1. \A y \in objects : y.id \in Id
      BY DEF RegistryTypeOK, Object, ANode, APort, ALink
    <2>. QED  BY <2>1
  <1>2. s \in Seq(Farewell)
    <2>1. DOMAIN gone = 1..Len(gone) /\ Len(gone) \in Nat
      OBVIOUS
    <2>2. \A k \in 1..Len(gone) : [type |-> "remove", id |-> gone[k].id] \in Farewell
      BY <1>1, <2>1 DEF Farewell
    <2>. QED  BY <2>1, <2>2
  <1>3. {s[k].id : k \in DOMAIN s} = {gone[k].id : k \in DOMAIN gone}
    OBVIOUS
  <1>4. {gone[k].id : k \in DOMAIN gone} = {y.id : y \in ToSet(gone)}
    BY DEF ToSet
  <1>. QED  BY <1>2, <1>3, <1>4

\* An object is made, under an id that nothing has.
Made(x) ==
    /\ x \in Object /\ x.id \notin Used /\ x.serial = made
    /\ x.kind = "port" => \E n \in Of("node") : n.id = x.node
    /\ Announce(x)

LEMMA ServerMakes ==
    ASSUME RegistryTypeOK, NodeAdded \/ PortAdded \/ LinkAdded
    PROVE  \E x : Made(x)
  <1>. USE DEF RegistryTypeOK
  <1>1. CASE NodeAdded
    BY <1>1, RegistryConstants DEF NodeAdded, NextId, Made, Object, ANode
  <1>2. CASE PortAdded
    <2>1. PICK i \in NextId, n \in Of("node"), d \in Dir, c \in limits.channels, bare \in limits.bare :
              LET count == Cardinality({p \in PortsOf(n) : p.dir = d}) IN
              Announce([kind |-> "port", id |-> i, serial |-> made, node |-> n.id, dir |-> d,
                  channel |-> c, index |-> IF bare THEN NoValue ELSE count])
      BY <1>2 DEF PortAdded
    <2>. DEFINE count == Cardinality({p \in PortsOf(n) : p.dir = d})
                x == [kind |-> "port", id |-> i, serial |-> made, node |-> n.id, dir |-> d,
                      channel |-> c, index |-> IF bare THEN NoValue ELSE count]
    <2>2. count \in Nat
      <3>1. {p \in PortsOf(n) : p.dir = d} \in SUBSET objects
        BY DEF PortsOf, Of
      <3>. QED  BY <3>1, FS_Subset, FS_CardinalityType
    <2>3. c \in Channels
      BY DEF Channels
    <2>4. n.id \in Id /\ n \in objects
      BY DEF Of, Object, ANode, APort, ALink
    <2>5. x \in APort
      BY <2>2, <2>3, <2>4, RegistryConstants DEF APort, NextId
    <2>. QED  BY <2>1, <2>5 DEF Made, Object, NextId
  <1>3. CASE LinkAdded
    <2>1. PICK i \in NextId, o \in Of("port"), p \in Of("port") :
             Announce([kind |-> "link", id |-> i, serial |-> made, out |-> o.id, inp |-> p.id])
      BY <1>3 DEF LinkAdded
    <2>2. o.id \in Id /\ p.id \in Id
      BY DEF Of, Object, ANode, APort, ALink
    <2>3. [kind |-> "link", id |-> i, serial |-> made, out |-> o.id, inp |-> p.id] \in ALink
      BY <2>2, RegistryConstants DEF ALink, NextId
    <2>. QED  BY <2>1, <2>3 DEF Made, Object, NextId
  <1>. QED  BY <1>1, <1>2, <1>3

\* Objects go, ports with their node, and each is reported.
Lost(G) ==
    /\ G \in SUBSET objects /\ objects' = objects \ G
    /\ \A p \in Of("port"), n \in G : n.kind = "node" /\ p.node = n.id => p \in G
    /\ \E s \in Seq(Farewell) :
          /\ queue' = queue \o s
          /\ {s[k].id : k \in DOMAIN s} = {x.id : x \in G}
    /\ removals' \in Nat /\ UNCHANGED <<limits, made, titles, mirror>>

LEMMA ServerRemoves ==
    ASSUME RegistryTypeOK, NEW x \in objects, Removed(x)
    PROVE  \E G : Lost(G)
  <1>. USE DEF RegistryTypeOK
  <1>. DEFINE ports == IF x.kind = "node" THEN PortsOf(x) ELSE {x} \cap Of("port")
              lost == {l \in Of("link") : \E p \in ports : p.id \in {l.out, l.inp}}
              A == SetToSeq(lost \ {x})
              B == SetToSeq(ports \ {x})
              gone == A \o B \o <<x>>
              G == lost \cup ports \cup {x}
              s == [k \in DOMAIN gone |-> [type |-> "remove", id |-> gone[k].id]]
  <1>1. G \subseteq objects /\ IsFiniteSet(lost \ {x}) /\ IsFiniteSet(ports \ {x})
    <2>1. lost \in SUBSET objects /\ ports \in SUBSET objects
      BY DEF Of, PortsOf
    <2>. QED  BY <2>1, FS_Subset
  <1>2. A \in Seq(lost \ {x}) /\ ToSet(A) = lost \ {x}
    BY <1>1, SetToSeqLists
  <1>a. B \in Seq(ports \ {x}) /\ ToSet(B) = ports \ {x}
    <2>. HIDE DEF ports
    <2>. QED  BY <1>1, SetToSeqLists
  <1>3. gone \in Seq(objects) /\ ToSet(gone) = G
    <2>. HIDE DEF A, B, lost, ports
    <2>1. A \in Seq(objects) /\ B \in Seq(objects)
      BY <1>1, <1>2, <1>a
    <2>2. gone \in Seq(objects) /\ ToSet(gone) = ToSet(A) \cup ToSet(B) \cup {x}
      BY <2>1, ThreeLists
    <2>. QED  BY <2>2, <1>2, <1>a
  <1>4. s \in Seq(Farewell) /\ {s[k].id : k \in DOMAIN s} = {y.id : y \in G}
    <2>. HIDE DEF gone, G
    <2>. QED  BY <1>3, Reports
  <1>5. \A p \in Of("port"), n \in G : n.kind = "node" /\ p.node = n.id => p \in G
    BY DEF Of, PortsOf
  <1>6. objects' = objects \ G /\ queue' = queue \o s
    BY <1>3, Zenon DEF Removed
  <1>7. removals' \in Nat /\ UNCHANGED <<limits, made, titles, mirror>>
    <2>1. removals' = removals + 1 /\ UNCHANGED <<limits, made, titles, mirror>>
      BY Zenon DEF Removed
    <2>. QED  BY <2>1
  <1>8. G \in SUBSET objects
    BY <1>1
  <1>9. Lost(G)
    BY <1>4, <1>5, <1>6, <1>7, <1>8, Zenon DEF Lost
  <1>. QED  BY <1>9

--------------------------------------------------------------------------------
(* Types. *)

\* What RemoveAt leaves of a list.
LEMMA WithoutOne ==
    ASSUME NEW T, NEW list \in Seq(T), NEW k \in DOMAIN list
    PROVE  /\ RemoveAt(list, k) \in Seq(T) /\ Len(RemoveAt(list, k)) = Len(list) - 1
           /\ \A j \in 1..(Len(list) - 1) :
                 RemoveAt(list, k)[j] = IF j < k THEN list[j] ELSE list[j + 1]
  <1>. DEFINE A == SubSeq(list, 1, k - 1)
              B == SubSeq(list, k + 1, Len(list))
  <1>1. k \in 1..Len(list) /\ Len(list) \in Nat
    OBVIOUS
  <1>2. A \in Seq(T) /\ Len(A) = k - 1 /\ \A j \in 1..(k - 1) : A[j] = list[j]
    BY <1>1
  <1>3. B \in Seq(T) /\ Len(B) = Len(list) - k
    BY <1>1
  <1>4. \A j \in 1..(Len(list) - k) : B[j] = list[k + j]
    BY <1>1
  <1>. HIDE DEF A, B
  <1>5. A \o B \in Seq(T) /\ Len(A \o B) = Len(list) - 1
    BY <1>1, <1>2, <1>3
  <1>6. ASSUME NEW j \in 1..(Len(list) - 1)
        PROVE  (A \o B)[j] = IF j < k THEN list[j] ELSE list[j + 1]
    <2>1. CASE j < k
      BY <1>1, <1>2, <1>3, <2>1
    <2>2. CASE ~(j < k)
      <3>1. (A \o B)[j] = B[j - (k - 1)]
        BY <1>1, <1>2, <1>3, <2>2
      <3>2. PICK i \in 1..(Len(list) - k) : i = j - (k - 1) /\ k + i = j + 1
        <4>1. j - (k - 1) \in 1..(Len(list) - k) /\ k + (j - (k - 1)) = j + 1
          BY <1>1, <2>2
        <4>. QED  BY <4>1, Zenon
      <3>. QED  BY <1>4, <2>2, <3>1, <3>2
    <2>. QED  BY <2>1, <2>2
  <1>. QED  BY <1>5, <1>6 DEF A, B, RemoveAt

\* What stands at a position of the queue.
LEMMA Events ==
    ASSUME RegistryTypeOK, NEW k \in DOMAIN queue
    PROVE  /\ queue[k].id \in Id
           /\ queue[k].type = "global" => queue[k] \in Announcement /\ queue[k].object \in Object
           /\ queue[k].type = "remove" => queue[k] \in Farewell
           /\ queue[k].type \in {"global", "remove"}
  <1>1. queue[k] \in Announcement \cup Farewell
    BY DEF RegistryTypeOK
  <1>. QED  BY <1>1 DEF Announcement, Farewell

LEMMA TypeMade ==
    ASSUME RegistryTypeOK, NEW x, Made(x)
    PROVE  RegistryTypeOK'
  <1>1. x \in Object /\ x.id \in Id /\ objects' = objects \cup {x} /\ made' = made + 1
    BY DEF Made, Announce, Object, ANode, APort, ALink
  <1>2. queue' = Append(queue, [type |-> "global", id |-> x.id, object |-> x])
    BY DEF Made, Announce
  <1>3. queue' \in Seq(Announcement \cup Farewell)
    <2>1. [type |-> "global", id |-> x.id, object |-> x] \in Announcement
      BY <1>1 DEF Announcement
    <2>. QED  BY <1>2, <2>1 DEF RegistryTypeOK
  <1>4. IsFiniteSet(objects')
    BY <1>1, FS_AddElement DEF RegistryTypeOK
  <1>5. UNCHANGED <<limits, removals, titles, nodes, links, port_owner, known_globals, node_watchers>>
    BY DEF Made, Announce, mirror
  <1>. QED  BY <1>1, <1>3, <1>4, <1>5 DEF RegistryTypeOK

LEMMA TypeLost ==
    ASSUME RegistryTypeOK, NEW G, Lost(G)
    PROVE  RegistryTypeOK'
  <1>1. PICK s \in Seq(Farewell) : queue' = queue \o s
    BY DEF Lost
  <1>2. queue' \in Seq(Announcement \cup Farewell)
    BY <1>1 DEF RegistryTypeOK
  <1>3. objects' \subseteq objects /\ IsFiniteSet(objects')
    BY FS_Subset DEF Lost, RegistryTypeOK
  <1>4. UNCHANGED <<limits, made, titles, nodes, links, port_owner, known_globals, node_watchers>>
    BY DEF Lost, mirror
  <1>5. removals' \in Nat
    BY DEF Lost
  <1>. QED  BY <1>2, <1>3, <1>4, <1>5 DEF RegistryTypeOK

LEMMA TypeTitleChanged ==
    ASSUME RegistryTypeOK, NEW n \in Of("node"), TitleChanged(n)
    PROVE  RegistryTypeOK'
  <1>. DEFINE y == [n EXCEPT !.title = titles']
  <1>1. n \in ANode
    BY DEF Of, RegistryTypeOK, Object, ANode, APort, ALink
  <1>2. titles' \in Nat /\ objects' = (objects \ {n}) \cup {y}
    BY DEF TitleChanged, RegistryTypeOK
  <1>3. y \in Object
    BY <1>1, <1>2 DEF Object, ANode
  <1>4. IsFiniteSet(objects')
    <2>1. IsFiniteSet(objects \ {n})
      BY FS_Subset DEF RegistryTypeOK
    <2>. QED  BY <1>2, <2>1, FS_AddElement
  <1>5. UNCHANGED <<limits, made, removals, queue, nodes, links, port_owner, known_globals,
                    node_watchers>>
    BY DEF TitleChanged, mirror
  <1>. QED  BY <1>2, <1>3, <1>4, <1>5 DEF RegistryTypeOK

\* The maps keep their types when an event comes in, whichever it is.
Maps ==
    /\ nodes \subseteq [id : Id, serial : Nat, title : Nat, ports : [Dir -> Seq(APort)]]
    /\ links \subseteq ALink /\ known_globals \subseteq Object
    /\ port_owner \subseteq [id : Id, node : Id, dir : Dir]
    /\ node_watchers \subseteq [id : Id, serial : Nat]

LEMMA TypeGlobal ==
    ASSUME Maps, NEW x \in Object, Global(x)
    PROVE  Maps'
  <1>1. known_globals' \subseteq Object
    BY DEF Global, Maps
  <1>2. CASE x.kind = "node" /\ GlobalNode(x)
    <2>1. x \in ANode
      BY <1>2 DEF Object, ANode, APort, ALink
    <2>. DEFINE seen == UNION {{m.ports} : m \in Record(x.id)}
                list == IF seen = {} THEN NoPorts ELSE CHOOSE s \in seen : TRUE
    <2>2. list \in [Dir -> Seq(APort)]
      <3>1. seen \subseteq [Dir -> Seq(APort)]
        BY DEF Record, Maps
      <3>2. NoPorts \in [Dir -> Seq(APort)]
        BY DEF NoPorts
      <3>. QED  BY <3>1, <3>2
    <2>3. [id |-> x.id, serial |-> x.serial, title |-> x.title, ports |-> list]
             \in [id : Id, serial : Nat, title : Nat, ports : [Dir -> Seq(APort)]]
      BY <2>1, <2>2 DEF ANode
    <2>4. nodes' \subseteq [id : Id, serial : Nat, title : Nat, ports : [Dir -> Seq(APort)]]
      BY <1>2, <2>3 DEF GlobalNode, Maps
    <2>5. node_watchers' \subseteq [id : Id, serial : Nat]
      BY <1>2, <2>1 DEF GlobalNode, Maps, ANode
    <2>. QED  BY <1>1, <1>2, <2>4, <2>5 DEF GlobalNode, Maps
  <1>3. CASE x.kind = "port" /\ GlobalPort(x)
    <2>1. x \in APort
      BY <1>3 DEF Object, ANode, APort, ALink
    <2>2. ASSUME NEW m \in nodes
          PROVE  [m EXCEPT !.ports[x.dir] = Push(@, x)] \in
                    [id : Id, serial : Nat, title : Nat, ports : [Dir -> Seq(APort)]]
      <3>1. m \in [id : Id, serial : Nat, title : Nat, ports : [Dir -> Seq(APort)]]
        BY DEF Maps
      <3>2. Push(m.ports[x.dir], x) \in Seq(APort)
        <4>1. x.dir \in Dir /\ x \in APort /\ m.ports[x.dir] \in Seq(APort)
          BY <2>1, <3>1 DEF APort
        <4>. HIDE DEF APort
        <4>. QED  BY <4>1 DEF Push
      <3>. QED  BY <3>1, <3>2
    <2>3. nodes' \subseteq [id : Id, serial : Nat, title : Nat, ports : [Dir -> Seq(APort)]]
      <3>. DEFINE listed(m) ==
                     IF m.id = x.node THEN [m EXCEPT !.ports[x.dir] = Push(@, x)] ELSE m
      <3>1. nodes' = {listed(m) : m \in nodes}
        BY <1>3, Zenon DEF GlobalPort
      <3>2. \A m \in nodes :
               listed(m) \in [id : Id, serial : Nat, title : Nat, ports : [Dir -> Seq(APort)]]
        BY <2>2, Zenon DEF Maps
      <3>. HIDE DEF listed
      <3>. QED  BY <3>1, <3>2
    <2>4. port_owner' \subseteq [id : Id, node : Id, dir : Dir]
      BY <1>3, <2>1 DEF GlobalPort, Maps, APort
    <2>. QED  BY <1>1, <1>3, <2>3, <2>4 DEF GlobalPort, Maps
  <1>4. CASE x.kind = "link" /\ GlobalLink(x)
    BY <1>1, <1>4 DEF GlobalLink, Maps, Object, ANode, APort, ALink
  <1>. QED  BY <1>2, <1>3, <1>4 DEF Global

LEMMA TypeDeliver ==
    ASSUME RegistryTypeOK, Deliver
    PROVE  RegistryTypeOK'
  <1>1. PICK k \in DOMAIN queue :
           /\ queue' = RemoveAt(queue, k)
           /\ \/ queue[k].type = "global" /\ Global(queue[k].object)
              \/ queue[k].type = "remove" /\ GlobalRemove(queue[k].id)
           /\ UNCHANGED server
    BY DEF Deliver
  <1>2. queue' \in Seq(Announcement \cup Farewell)
    BY <1>1, WithoutOne DEF RegistryTypeOK
  <1>3. Maps
    BY DEF Maps, RegistryTypeOK
  <1>4. Maps'
    <2>1. CASE queue[k].type = "global" /\ Global(queue[k].object)
      BY <1>3, <2>1, Events, TypeGlobal
    <2>2. CASE queue[k].type = "remove" /\ GlobalRemove(queue[k].id)
      BY <1>3, <2>2 DEF GlobalRemove, Without, Maps
    <2>. QED  BY <1>1, <2>1, <2>2
  <1>. QED  BY <1>1, <1>2, <1>4 DEF RegistryTypeOK, Maps, server

LEMMA TypeInfo ==
    ASSUME RegistryTypeOK, NEW w \in node_watchers, Info(w)
    PROVE  RegistryTypeOK'
  <1>1. PICK x \in Of("node"), m \in Record(w.id) :
           /\ nodes' = (nodes \ {m}) \cup {[m EXCEPT !.title = x.title]}
           /\ UNCHANGED <<server, queue, links, port_owner, known_globals, node_watchers>>
    BY DEF Info
  <1>2. x.title \in Nat
    BY DEF Of, RegistryTypeOK, Object, ANode, APort, ALink
  <1>3. m \in [id : Id, serial : Nat, title : Nat, ports : [Dir -> Seq(APort)]]
    BY DEF Record, RegistryTypeOK
  <1>4. [m EXCEPT !.title = x.title] \in
           [id : Id, serial : Nat, title : Nat, ports : [Dir -> Seq(APort)]]
    BY <1>2, <1>3
  <1>. QED  BY <1>1, <1>4 DEF RegistryTypeOK, server

\* Whatever order the events come in, every map holds what it is for: records of nodes with
\* ports in their lists, links, and for each bound proxy an id.
THEOREM RegistryTypesHold == RegistrySpec => []RegistryTypeOK
  <1>1. RegistryInit => RegistryTypeOK
    <2>1. IsFiniteSet({})
      BY FS_EmptySet
    <2>. QED  BY <2>1 DEF RegistryInit, RegistryTypeOK
  <1>2. RegistryTypeOK /\ [RegistryNext]_registryVars => RegistryTypeOK'
    <2> SUFFICES ASSUME RegistryTypeOK, [RegistryNext]_registryVars PROVE RegistryTypeOK'
      OBVIOUS
    <2>1. CASE NodeAdded \/ PortAdded \/ LinkAdded
      BY <2>1, ServerMakes, TypeMade
    <2>2. ASSUME NEW x \in objects, Removed(x) PROVE RegistryTypeOK'
      BY <2>2, ServerRemoves, TypeLost
    <2>3. ASSUME NEW n \in Of("node"), TitleChanged(n) PROVE RegistryTypeOK'
      BY <2>3, TypeTitleChanged
    <2>4. CASE Deliver
      BY <2>4, TypeDeliver
    <2>5. ASSUME NEW w \in node_watchers, Info(w) PROVE RegistryTypeOK'
      BY <2>5, TypeInfo
    <2>6. CASE UNCHANGED registryVars
      BY <2>6 DEF registryVars, server, mirror, RegistryTypeOK
    <2>. QED  BY <2>1, <2>2, <2>3, <2>4, <2>5, <2>6, Zenon DEF RegistryNext, Changes, Listener
  <1>. QED  BY <1>1, <1>2, PTL DEF RegistrySpec

\* Whatever was announced so far and in whichever order, every output of a node that is
\* routed plays.
THEOREM RoutedOutputsPlay == RegistrySpec => []EveryOutputPlays
  <1>1. RegistryTypeOK => EveryOutputPlays
    <2> SUFFICES ASSUME RegistryTypeOK, NEW m \in nodes, NEW k \in nodes,
                        k.ports["in"] # <<>>
                 PROVE  {x[1] : x \in Planned(m, k)} = Ports(m.ports["out"])
      BY Zenon DEF EveryOutputPlays
    <2>1. m.ports["out"] \in Seq(APort) /\ k.ports["in"] \in Seq(APort)
      BY DEF RegistryTypeOK, Dir
    <2>. QED  BY <2>1, EveryOutputIsMapped DEF Planned
  <1>. QED  BY <1>1, RegistryTypesHold, PTL

\* And the sides are kept, in the lists the listener has at any moment.
THEOREM RoutedSidesKept == RegistrySpec => []SidesKept
  <1>1. RegistryTypeOK => SidesKept
    <2> SUFFICES ASSUME RegistryTypeOK, NEW m \in nodes, NEW k \in nodes,
                        Side(k.ports["in"], "left") # {}, Side(k.ports["in"], "right") # {},
                        NEW o \in Ports(m.ports["out"])
                 PROVE  LET role == channel_role(o.channel)
                            reached == {x[2] : x \in {y \in Planned(m, k) : y[1] = o}}
                        IN /\ role \in {"left", "right"} => reached = Side(k.ports["in"], role)
                           /\ role = "both" => reached = Side(k.ports["in"], "left")
                                                  \cup Side(k.ports["in"], "right")
      BY Zenon DEF SidesKept
    <2>1. m.ports["out"] \in Seq(APort) /\ k.ports["in"] \in Seq(APort)
      BY DEF RegistryTypeOK, Dir
    <2>. QED  BY <2>1, SidesAreKept DEF Planned
  <1>. QED  BY <1>1, RegistryTypesHold, PTL

--------------------------------------------------------------------------------
(* The changes on the server keep RInv. *)

LEMMA ObjectIds ==
    ASSUME NEW x \in Object
    PROVE  /\ x.id \in Id /\ x.serial \in Nat /\ x.kind \in {"node", "port", "link"}
           /\ x.kind = "node" <=> x \in ANode
           /\ x.kind = "port" <=> x \in APort
           /\ x.kind = "link" <=> x \in ALink
  BY DEF Object, ANode, APort, ALink

LEMMA ShownPorts ==
    ASSUME RegistryTypeOK, NEW m \in nodes
    PROVE  /\ \A d \in Dir : m.ports[d] \in Seq(APort)
           /\ \A y \in {m} \cup Listed(m) : y.serial \in Nat
  <1>1. m.serial \in Nat /\ \A d \in Dir : m.ports[d] \in Seq(APort)
    BY DEF RegistryTypeOK
  <1>2. ASSUME NEW d \in Dir, NEW y \in Ports(m.ports[d]) PROVE y.serial \in Nat
    <2>1. PICK k \in DOMAIN m.ports[d] : y = m.ports[d][k]
      BY DEF Ports
    <2>2. y \in APort
      BY <1>1, <2>1
    <2>. QED  BY <2>2 DEF APort
  <1>. QED  BY <1>1, <1>2 DEF Listed

\* The queue after an announcement.
LEMMA QueueMade ==
    ASSUME RegistryTypeOK, NEW x, Made(x)
    PROVE  \E n : /\ n \in Nat /\ DOMAIN queue' = DOMAIN queue \cup {n}
                  /\ \A k \in DOMAIN queue : k \in Nat /\ k < n /\ queue'[k] = queue[k]
                  /\ queue'[n].type = "global" /\ queue'[n].id = x.id /\ queue'[n].object = x
  <1>. DEFINE e == [type |-> "global", id |-> x.id, object |-> x]
  <1>1. queue' = Append(queue, e) /\ queue \in Seq(Announcement \cup Farewell)
    BY DEF Made, Announce, RegistryTypeOK
  <1>2. e.type = "global" /\ e.id = x.id /\ e.object = x
    OBVIOUS
  <1>. HIDE DEF e
  <1>3. DOMAIN queue' = 1..(Len(queue) + 1) /\ DOMAIN queue = 1..Len(queue) /\ Len(queue) \in Nat
    BY <1>1
  <1>4. \A k \in DOMAIN queue : k \in Nat /\ k < Len(queue) + 1 /\ queue'[k] = queue[k]
    BY <1>1, <1>3
  <1>5. queue'[Len(queue) + 1] = e
    BY <1>1, <1>3
  <1>6. DOMAIN queue' = DOMAIN queue \cup {Len(queue) + 1}
    BY <1>3
  <1>. QED  BY <1>2, <1>3, <1>4, <1>5, <1>6

LEMMA MadeKeeps ==
    ASSUME RInv, NEW x, Made(x)
    PROVE  RInv'
  <1>. USE DEF RInv
  <1>1. RegistryTypeOK'
    BY TypeMade
  <1>2. PICK n : /\ n \in Nat /\ DOMAIN queue' = DOMAIN queue \cup {n}
                 /\ \A k \in DOMAIN queue : k \in Nat /\ k < n /\ queue'[k] = queue[k]
                 /\ queue'[n].type = "global" /\ queue'[n].id = x.id /\ queue'[n].object = x
    BY QueueMade
  <1>3. /\ objects' = objects \cup {x} /\ made' = made + 1 /\ x.serial = made
        /\ \A y \in objects : y.id # x.id
        /\ x.kind = "port" => \E m \in Of("node") : m.id = x.node
        /\ UNCHANGED <<nodes, links, port_owner, known_globals, node_watchers>>
    BY DEF Made, Announce, mirror, Used
  <1>4. made \in Nat
    BY DEF RegistryTypeOK
  <1>5. \A y \in objects : y.serial \in Nat
    BY ObjectIds DEF RegistryTypeOK
  <1>6. /\ \A k \in DOMAIN queue : Announces(queue', k) <=> Announces(queue, k)
        /\ \A i : \A k \in DOMAIN queue : Removes(queue', k, i) <=> Removes(queue, k, i)
        /\ Announces(queue', n) /\ \A i : ~Removes(queue', n, i)
    BY <1>2 DEF Announces, Removes
  <1>7. ServerInv'
    BY <1>3, <1>4, <1>5 DEF ServerInv, Of
  <1>8. QueueInv'
    <2>1. ASSUME NEW k \in DOMAIN queue', Announces(queue', k)
          PROVE  queue'[k].object.id = queue'[k].id /\ queue'[k].object.serial < made'
      <3>1. CASE k = n
        BY <1>2, <1>3, <1>4, <3>1
      <3>2. CASE k \in DOMAIN queue
        <4>1. queue[k].object.serial \in Nat
          BY <1>6, <2>1, <3>2, Events, ObjectIds DEF Announces
        <4>. QED  BY <1>2, <1>3, <1>4, <1>6, <2>1, <3>2, <4>1 DEF QueueInv
      <3>. QED  BY <1>2, <3>1, <3>2
    <2>2. ASSUME NEW j \in DOMAIN queue', NEW k \in DOMAIN queue',
                 Announces(queue', j), Announces(queue', k), j < k
          PROVE  /\ queue'[j].object.serial < queue'[k].object.serial
                 /\ queue'[j].id = queue'[k].id => \E l \in j..k : Removes(queue', l, queue'[k].id)
      <3>1. j \in DOMAIN queue /\ Announces(queue, j)
        BY <1>2, <1>6, <2>2
      <3>2. CASE k = n
        <4>1. queue[j].object.id = queue[j].id /\ queue[j].object.serial < made
          BY <3>1 DEF QueueInv
        <4>2. ASSUME queue[j].id = x.id PROVE \E l \in j..k : Removes(queue', l, x.id)
          <5>1. ~ \E y \in objects : Same(queue[j].object, y)
            BY <1>3, <4>1, <4>2 DEF Same
          <5>2. PICK l \in DOMAIN queue : j < l /\ Removes(queue, l, x.id)
            BY <3>1, <4>2, <5>1 DEF LagInv
          <5>3. l \in j..k /\ Removes(queue', l, x.id)
            BY <1>2, <1>6, <3>1, <3>2, <5>2
          <5>. QED  BY <5>3
        <4>. QED  BY <1>2, <1>3, <3>1, <3>2, <4>1, <4>2
      <3>3. CASE k \in DOMAIN queue
        <4>1. /\ queue[j].object.serial < queue[k].object.serial
              /\ queue[j].id = queue[k].id => \E l \in j..k : Removes(queue, l, queue[k].id)
          BY <1>6, <2>2, <3>1, <3>3 DEF QueueInv
        <4>2. \A l : Removes(queue, l, queue[k].id) => Removes(queue', l, queue[k].id)
          BY <1>2 DEF Removes
        <4>. QED  BY <1>2, <3>1, <3>3, <4>1, <4>2
      <3>. QED  BY <1>2, <3>2, <3>3
    <2>. QED  BY <2>1, <2>2 DEF QueueInv
  <1>9. LagInv'
    <2>1. ASSUME NEW k \in DOMAIN queue', Announces(queue', k)
          PROVE  \/ \E y \in objects' : Same(queue'[k].object, y)
                 \/ \E l \in DOMAIN queue' : k < l /\ Removes(queue', l, queue'[k].id)
      <3>1. CASE k = n
        BY <1>2, <1>3, <3>1 DEF Same
      <3>2. CASE k \in DOMAIN queue
        BY <1>2, <1>3, <1>6, <2>1, <3>2 DEF LagInv
      <3>. QED  BY <1>2, <3>1, <3>2
    <2>2. ASSUME NEW y \in objects', NEW k \in DOMAIN queue', Removes(queue', k, y.id)
          PROVE  \E l \in DOMAIN queue' : k < l /\ Announces(queue', l) /\ Same(queue'[l].object, y)
      <3>1. k \in DOMAIN queue /\ Removes(queue, k, y.id)
        BY <1>2, <1>6, <2>2
      <3>2. CASE y = x
        BY <1>2, <1>6, <3>1, <3>2 DEF Same
      <3>3. CASE y \in objects
        BY <1>2, <1>6, <3>1, <3>3 DEF LagInv
      <3>. QED  BY <1>3, <3>2, <3>3
    <2>3. ASSUME NEW g \in known_globals'
          PROVE  \/ \E y \in objects' : Same(g, y)
                 \/ \E l \in DOMAIN queue' : Removes(queue', l, g.id)
      BY <1>2, <1>3, <1>6 DEF LagInv
    <2>4. ASSUME NEW y \in objects'
          PROVE  \/ \E g \in known_globals' : Same(g, y)
                 \/ \E l \in DOMAIN queue' : Announces(queue', l) /\ Same(queue'[l].object, y)
      <3>1. CASE y = x
        BY <1>2, <1>6, <3>1 DEF Same
      <3>2. CASE y \in objects
        BY <1>2, <1>3, <1>6, <3>2 DEF LagInv
      <3>. QED  BY <1>3, <3>1, <3>2
    <2>5. ASSUME NEW k \in DOMAIN queue', Announces(queue', k)
          PROVE  \/ \A g \in known_globals' : g.id # queue'[k].id
                 \/ \E l \in DOMAIN queue' : l < k /\ Removes(queue', l, queue'[k].id)
      <3>1. CASE k = n
        <4>1. ASSUME NEW g \in known_globals, g.id = x.id
              PROVE  \E l \in DOMAIN queue : Removes(queue, l, x.id)
          <5>1. ~ \E y \in objects : Same(g, y)
            BY <1>3, <4>1 DEF Same
          <5>. QED  BY <4>1, <5>1 DEF LagInv
        <4>. QED  BY <1>2, <1>3, <1>6, <3>1, <4>1
      <3>2. CASE k \in DOMAIN queue
        BY <1>2, <1>3, <1>6, <2>5, <3>2 DEF LagInv
      <3>. QED  BY <1>2, <3>1, <3>2
    <2>. QED  BY <2>1, <2>2, <2>3, <2>4, <2>5 DEF LagInv
  <1>10. MapsAgree'
    BY <1>3 DEF MapsAgree, Known
  <1>11. Older'
    <2>1. ASSUME NEW m \in nodes, NEW y \in {m} \cup Listed(m)
          PROVE  y.serial < made' /\ \A k \in DOMAIN queue' :
                    Announces(queue', k) => y.serial < queue'[k].object.serial
      <3>1. y.serial < made /\ \A k \in DOMAIN queue :
                    Announces(queue, k) => y.serial < queue[k].object.serial
        BY DEF Older
      <3>2. y.serial \in Nat
        BY ShownPorts
      <3>. QED  BY <1>2, <1>3, <1>4, <1>6, <3>1, <3>2
    <2>. QED  BY <1>3, <2>1 DEF Older, Listed
  <1>12. PortsInv'
    <2>1. ASSUME NEW p \in Of("port")' PROVE Coming(p)' \/ ListedOnce(p)'
      <3>1. PICK m \in Of("node") : m.id = p.node
        BY <1>3 DEF Of, ServerInv
      <3>2. Pending(queue', p.node) = Pending(queue, p.node)
        BY <1>2, <1>3, <3>1 DEF Pending, Of
      <3>3. CASE p = x
        BY <1>2, <1>6, <3>2, <3>3 DEF Coming, Pending
      <3>4. CASE p \in Of("port")
        <4>1. CASE Coming(p)
          BY <1>2, <1>6, <3>2, <4>1 DEF Coming
        <4>2. CASE ListedOnce(p)
          BY <1>3, <3>2, <4>2 DEF ListedOnce, Record
        <4>. QED  BY <3>4, <4>1, <4>2 DEF PortsInv
      <3>. QED  BY <1>3, <3>3, <3>4 DEF Of
    <2>. QED  BY <2>1 DEF PortsInv
  <1>13. PortsOfThisNode'
    BY <1>3 DEF PortsOfThisNode
  <1>. QED  BY <1>1, <1>7, <1>8, <1>9, <1>10, <1>11, <1>12, <1>13

\* The queue after removals.
LEMMA QueueLost ==
    ASSUME RegistryTypeOK, NEW G, Lost(G)
    PROVE  /\ DOMAIN queue \subseteq DOMAIN queue' /\ DOMAIN queue' \subseteq Nat
           /\ \A k \in DOMAIN queue : queue'[k] = queue[k]
           /\ \A k \in DOMAIN queue' \ DOMAIN queue :
                 /\ queue'[k].type = "remove"
                 /\ \E x \in G : x.id = queue'[k].id
                 /\ \A j \in DOMAIN queue : j < k
           /\ \A x \in G : \E k \in DOMAIN queue' \ DOMAIN queue : queue'[k].id = x.id
  <1>1. PICK s \in Seq(Farewell) : /\ queue' = queue \o s
                                   /\ {s[k].id : k \in DOMAIN s} = {x.id : x \in G}
    BY DEF Lost
  <1>. DEFINE n == Len(queue)
  <1>2. queue \in Seq(Announcement \cup Farewell)
    BY DEF RegistryTypeOK
  <1>3. /\ n \in Nat /\ Len(s) \in Nat /\ DOMAIN queue = 1..n /\ DOMAIN s = 1..Len(s)
        /\ DOMAIN queue' = 1..(n + Len(s))
    BY <1>1, <1>2
  <1>4. \A k \in 1..n : queue'[k] = queue[k]
    BY <1>1, <1>2
  <1>5. \A k \in 1..Len(s) : queue'[n + k] = s[k]
    BY <1>1, <1>2
  <1>6. \A k \in 1..Len(s) : s[k].type = "remove"
    <2>1. \A k \in 1..Len(s) : s[k] \in Farewell
      BY <1>1
    <2>. QED  BY <2>1 DEF Farewell
  <1>. HIDE DEF n
  <1>7. ASSUME NEW k \in DOMAIN queue' \ DOMAIN queue
        PROVE  /\ queue'[k].type = "remove" /\ \E x \in G : x.id = queue'[k].id
               /\ \A j \in DOMAIN queue : j < k
    <2>1. PICK j \in 1..Len(s) : k = n + j
      <3>1. k - n \in 1..Len(s) /\ k = n + (k - n)
        BY <1>3
      <3>. QED  BY <3>1, Zenon
    <2>2. queue'[k] = s[j]
      BY <1>5, <2>1
    <2>3. \E x \in G : x.id = s[j].id
      BY <1>1, <1>3
    <2>. QED  BY <1>3, <1>6, <2>1, <2>2, <2>3
  <1>8. ASSUME NEW x \in G PROVE \E k \in DOMAIN queue' \ DOMAIN queue : queue'[k].id = x.id
    <2>1. PICK j \in 1..Len(s) : s[j].id = x.id
      BY <1>1, <1>3
    <2>2. n + j \in DOMAIN queue' \ DOMAIN queue
      BY <1>3
    <2>. QED  BY <1>5, <2>1, <2>2
  <1>. QED  BY <1>3, <1>4, <1>7, <1>8

LEMMA LostKeeps ==
    ASSUME RInv, NEW G, Lost(G)
    PROVE  RInv'
  <1>. USE DEF RInv
  <1>1. RegistryTypeOK'
    BY TypeLost
  <1>2. /\ DOMAIN queue \subseteq DOMAIN queue' /\ DOMAIN queue' \subseteq Nat
        /\ \A k \in DOMAIN queue : queue'[k] = queue[k]
        /\ \A k \in DOMAIN queue' \ DOMAIN queue :
              /\ queue'[k].type = "remove"
              /\ \E x \in G : x.id = queue'[k].id
              /\ \A j \in DOMAIN queue : j < k
        /\ \A x \in G : \E k \in DOMAIN queue' \ DOMAIN queue : queue'[k].id = x.id
    BY QueueLost
  <1>3. /\ G \subseteq objects /\ objects' = objects \ G
        /\ \A p \in Of("port"), n \in G : n.kind = "node" /\ p.node = n.id => p \in G
        /\ UNCHANGED <<made, nodes, links, port_owner, known_globals, node_watchers>>
    BY DEF Lost, mirror
  <1>4. /\ \A k : Announces(queue', k) <=> Announces(queue, k)
        /\ \A k, i : Removes(queue, k, i) => Removes(queue', k, i)
        /\ \A i : \A k \in DOMAIN queue : Removes(queue', k, i) => Removes(queue, k, i)
        /\ \A k : Announces(queue, k) => k \in DOMAIN queue
    BY <1>2 DEF Announces, Removes
  <1>5. ASSUME NEW x \in G
        PROVE  \E l \in DOMAIN queue' :
                  Removes(queue', l, x.id) /\ \A k \in DOMAIN queue : k < l
    BY <1>2 DEF Removes
  <1>6. ServerInv'
    BY <1>3 DEF ServerInv, Of
  <1>7. QueueInv'
    <2>1. \A k \in DOMAIN queue' : Announces(queue', k) =>
             queue'[k].object.id = queue'[k].id /\ queue'[k].object.serial < made'
      BY <1>2, <1>3, <1>4 DEF QueueInv
    <2>2. ASSUME NEW j \in DOMAIN queue', NEW k \in DOMAIN queue',
                 Announces(queue', j), Announces(queue', k), j < k
          PROVE  /\ queue'[j].object.serial < queue'[k].object.serial
                 /\ queue'[j].id = queue'[k].id => \E l \in j..k : Removes(queue', l, queue'[k].id)
      <3>1. j \in DOMAIN queue /\ k \in DOMAIN queue /\ Announces(queue, j) /\ Announces(queue, k)
        BY <1>4, <2>2
      <3>2. /\ queue[j].object.serial < queue[k].object.serial
            /\ queue[j].id = queue[k].id => \E l \in j..k : Removes(queue, l, queue[k].id)
        BY <2>2, <3>1 DEF QueueInv
      <3>. QED  BY <1>2, <1>4, <3>1, <3>2
    <2>. QED  BY <2>1, <2>2 DEF QueueInv
  <1>8. LagInv'
    <2>1. ASSUME NEW k \in DOMAIN queue', Announces(queue', k)
          PROVE  \/ \E y \in objects' : Same(queue'[k].object, y)
                 \/ \E l \in DOMAIN queue' : k < l /\ Removes(queue', l, queue'[k].id)
      <3>1. k \in DOMAIN queue /\ Announces(queue, k) /\ queue'[k] = queue[k]
        BY <1>2, <1>4, <2>1
      <3>2. CASE \E l \in DOMAIN queue : k < l /\ Removes(queue, l, queue[k].id)
        BY <1>2, <1>4, <3>1, <3>2
      <3>3. ASSUME NEW x \in objects, Same(queue[k].object, x)
            PROVE  \/ \E y \in objects' : Same(queue'[k].object, y)
                   \/ \E l \in DOMAIN queue' : k < l /\ Removes(queue', l, queue'[k].id)
        <4>1. x.id = queue[k].id
          BY <3>1, <3>3 DEF Same, QueueInv
        <4>. QED  BY <1>3, <1>5, <3>1, <3>3, <4>1
      <3>. QED  BY <3>1, <3>2, <3>3 DEF LagInv
    <2>2. ASSUME NEW y \in objects', NEW k \in DOMAIN queue', Removes(queue', k, y.id)
          PROVE  \E l \in DOMAIN queue' : k < l /\ Announces(queue', l) /\ Same(queue'[l].object, y)
      <3>1. y \in objects /\ y \notin G
        BY <1>3
      <3>2. k \in DOMAIN queue
        BY <1>2, <1>3, <2>2, <3>1 DEF Removes, ServerInv
      <3>3. Removes(queue, k, y.id)
        BY <1>4, <2>2, <3>2
      <3>. QED  BY <1>2, <1>4, <3>1, <3>2, <3>3 DEF LagInv
    <2>3. ASSUME NEW g \in known_globals'
          PROVE  \/ \E y \in objects' : Same(g, y)
                 \/ \E l \in DOMAIN queue' : Removes(queue', l, g.id)
      <3>1. CASE \E l \in DOMAIN queue : Removes(queue, l, g.id)
        BY <1>2, <1>4, <3>1
      <3>2. ASSUME NEW x \in objects, Same(g, x)
            PROVE  \/ \E y \in objects' : Same(g, y)
                   \/ \E l \in DOMAIN queue' : Removes(queue', l, g.id)
        BY <1>3, <1>5, <3>2 DEF Same
      <3>. QED  BY <1>3, <3>1, <3>2 DEF LagInv
    <2>4. ASSUME NEW y \in objects'
          PROVE  \/ \E g \in known_globals' : Same(g, y)
                 \/ \E l \in DOMAIN queue' : Announces(queue', l) /\ Same(queue'[l].object, y)
      BY <1>2, <1>3, <1>4 DEF LagInv
    <2>5. ASSUME NEW k \in DOMAIN queue', Announces(queue', k)
          PROVE  \/ \A g \in known_globals' : g.id # queue'[k].id
                 \/ \E l \in DOMAIN queue' : l < k /\ Removes(queue', l, queue'[k].id)
      BY <1>2, <1>3, <1>4, <2>5 DEF LagInv
    <2>. QED  BY <2>1, <2>2, <2>3, <2>4, <2>5 DEF LagInv
  <1>9. MapsAgree'
    BY <1>3 DEF MapsAgree, Known
  <1>10. Older'
    BY <1>2, <1>3, <1>4 DEF Older, Listed
  <1>11. PortsInv'
    <2>1. ASSUME NEW p \in Of("port")' PROVE Coming(p)' \/ ListedOnce(p)'
      <3>1. p \in Of("port") /\ p \notin G
        BY <1>3 DEF Of
      <3>2. PICK m \in Of("node") : m.id = p.node
        BY <3>1 DEF ServerInv
      <3>3. ASSUME NEW y \in G PROVE y.id # p.node
        BY <1>3, <3>1, <3>2, <3>3 DEF ServerInv, Of
      <3>4. Pending(queue', p.node) = Pending(queue, p.node)
        BY <1>2, <3>3 DEF Pending
      <3>5. CASE Coming(p)
        BY <1>2, <1>4, <3>4, <3>5 DEF Coming
      <3>6. CASE ListedOnce(p)
        BY <1>3, <3>4, <3>6 DEF ListedOnce, Record
      <3>. QED  BY <3>1, <3>5, <3>6 DEF PortsInv
    <2>. QED  BY <2>1 DEF PortsInv
  <1>12. PortsOfThisNode'
    BY <1>3 DEF PortsOfThisNode
  <1>. QED  BY <1>1, <1>6, <1>7, <1>8, <1>9, <1>10, <1>11, <1>12

LEMMA TitleChangedKeeps ==
    ASSUME RInv, NEW n \in Of("node"), TitleChanged(n)
    PROVE  RInv'
  <1>. USE DEF RInv
  <1>. DEFINE t == [n EXCEPT !.title = titles']
  <1>1. RegistryTypeOK'
    BY TypeTitleChanged
  <1>2. n \in objects /\ n.kind = "node" /\ n \in ANode
    BY ObjectIds DEF Of, RegistryTypeOK
  <1>3. /\ objects' = (objects \ {n}) \cup {t}
        /\ UNCHANGED <<made, queue, nodes, links, port_owner, known_globals, node_watchers>>
    BY DEF TitleChanged, mirror
  <1>4. t.id = n.id /\ t.kind = "node" /\ t.serial = n.serial
    BY <1>2 DEF ANode
  <1>. HIDE DEF t
  <1>5. Of("port")' = Of("port")
    BY <1>2, <1>3, <1>4 DEF Of
  <1>6. \A x : Same(x, t) <=> Same(x, n)
    BY <1>2, <1>4 DEF Same
  <1>7. ServerInv'
    <2>1. \A x, y \in objects' : x.id = y.id => x = y
      BY <1>2, <1>3, <1>4 DEF ServerInv
    <2>2. \A x \in objects' : x.serial < made'
      BY <1>2, <1>3, <1>4 DEF ServerInv
    <2>3. \A p \in Of("port")' : \E m \in Of("node")' : m.id = p.node
      BY <1>2, <1>3, <1>4, <1>5 DEF ServerInv, Of
    <2>. QED  BY <2>1, <2>2, <2>3 DEF ServerInv
  <1>8. QueueInv'
    BY <1>3 DEF QueueInv
  <1>9. LagInv'
    <2>1. \A k \in DOMAIN queue : Announces(queue, k) =>
             \/ \E x \in objects' : Same(queue[k].object, x)
             \/ \E l \in DOMAIN queue : k < l /\ Removes(queue, l, queue[k].id)
      BY <1>2, <1>3, <1>6 DEF LagInv
    <2>2. \A x \in objects', k \in DOMAIN queue : Removes(queue, k, x.id) =>
             \E l \in DOMAIN queue : k < l /\ Announces(queue, l) /\ Same(queue[l].object, x)
      BY <1>2, <1>3, <1>4, <1>6 DEF LagInv
    <2>3. \A g \in known_globals :
             \/ \E x \in objects' : Same(g, x)
             \/ \E l \in DOMAIN queue : Removes(queue, l, g.id)
      BY <1>2, <1>3, <1>6 DEF LagInv
    <2>4. \A x \in objects' :
             \/ \E g \in known_globals : Same(g, x)
             \/ \E l \in DOMAIN queue : Announces(queue, l) /\ Same(queue[l].object, x)
      BY <1>2, <1>3, <1>6 DEF LagInv
    <2>5. \A k \in DOMAIN queue : Announces(queue, k) =>
             \/ \A g \in known_globals : g.id # queue[k].id
             \/ \E l \in DOMAIN queue : l < k /\ Removes(queue, l, queue[k].id)
      BY DEF LagInv
    <2>. QED  BY <1>3, <2>1, <2>2, <2>3, <2>4, <2>5 DEF LagInv
  <1>10. MapsAgree'
    BY <1>3 DEF MapsAgree, Known
  <1>11. Older'
    BY <1>3 DEF Older, Listed
  <1>12. PortsInv'
    BY <1>3, <1>5 DEF PortsInv, Coming, ListedOnce, Record
  <1>13. PortsOfThisNode'
    BY <1>3 DEF PortsOfThisNode
  <1>. QED  BY <1>1, <1>7, <1>8, <1>9, <1>10, <1>11, <1>12, <1>13

--------------------------------------------------------------------------------
(* The listener keeps RInv: props come in, and the event that is next. *)

LEMMA InfoKeeps ==
    ASSUME RInv, NEW w \in node_watchers, Info(w)
    PROVE  RInv'
  <1>. USE DEF RInv
  <1>1. RegistryTypeOK'
    BY TypeInfo
  <1>2. PICK x \in Of("node"), m \in Record(w.id) :
           /\ nodes' = (nodes \ {m}) \cup {[m EXCEPT !.title = x.title]}
           /\ UNCHANGED <<server, queue, links, port_owner, known_globals, node_watchers>>
    BY DEF Info
  <1>. DEFINE t == [m EXCEPT !.title = x.title]
  <1>3. m \in nodes /\ m \in [id : Id, serial : Nat, title : Nat, ports : [Dir -> Seq(APort)]]
    BY DEF Record, RegistryTypeOK
  <1>4. t.id = m.id /\ t.serial = m.serial /\ t.ports = m.ports /\ nodes' = (nodes \ {m}) \cup {t}
    BY <1>2, <1>3
  <1>. HIDE DEF t
  <1>5. UNCHANGED <<objects, made, queue, links, port_owner, known_globals, node_watchers>>
    BY <1>2 DEF server
  <1>6. ServerInv' /\ QueueInv' /\ LagInv'
    BY <1>5 DEF ServerInv, QueueInv, LagInv, Of
  <1>7. MapsAgree'
    <2>1. Known("node")' = Known("node") /\ Known("port")' = Known("port")
          /\ Known("link")' = Known("link")
      BY <1>5 DEF Known
    <2>2. \A y \in nodes' : \E g \in Known("node") : g.id = y.id /\ g.serial = y.serial
      BY <1>3, <1>4 DEF MapsAgree
    <2>3. \A g \in Known("node") : \E y \in nodes' : g.id = y.id /\ g.serial = y.serial
      BY <1>3, <1>4 DEF MapsAgree
    <2>4. \A y, z \in nodes' : y.id = z.id => y = z
      BY <1>3, <1>4 DEF MapsAgree
    <2>. QED  BY <1>5, <2>1, <2>2, <2>3, <2>4 DEF MapsAgree
  <1>8. Older'
    <2>1. ASSUME NEW y \in nodes', NEW z \in {y} \cup Listed(y)
          PROVE  z.serial < made /\ \A k \in DOMAIN queue :
                    Announces(queue, k) => z.serial < queue[k].object.serial
      <3>1. CASE y \in nodes
        BY <3>1 DEF Older
      <3>2. CASE y = t
        <4>1. Listed(t) = Listed(m)
          BY <1>4 DEF Listed
        <4>. QED  BY <1>3, <1>4, <2>1, <3>2, <4>1 DEF Older
      <3>. QED  BY <1>4, <3>1, <3>2
    <2>. QED  BY <1>5, <2>1 DEF Older, Listed
  <1>9. PortsInv'
    <2>1. ASSUME NEW p \in Of("port"), ListedOnce(p) PROVE ListedOnce(p)'
      <3>1. PICK y \in Record(p.node) : \E k \in DOMAIN y.ports[p.dir] :
               \A j \in DOMAIN y.ports[p.dir] : y.ports[p.dir][j] = p <=> j = k
        BY <2>1 DEF ListedOnce
      <3>2. CASE y = m
        <4>1. t \in Record(p.node)'
          BY <1>4, <3>2 DEF Record
        <4>. QED  BY <1>4, <1>5, <2>1, <3>1, <3>2, <4>1 DEF ListedOnce
      <3>3. CASE y # m
        <4>1. y \in Record(p.node)'
          BY <1>4, <3>3 DEF Record
        <4>. QED  BY <1>5, <2>1, <3>1, <4>1 DEF ListedOnce
      <3>. QED  BY <3>2, <3>3
    <2>. QED  BY <1>5, <2>1 DEF PortsInv, Coming, Of
  <1>10. PortsOfThisNode'
    BY <1>3, <1>4 DEF PortsOfThisNode
  <1>. QED  BY <1>1, <1>6, <1>7, <1>8, <1>9, <1>10

\* The queue after an event came in: each of the others is one place nearer.
Nearest ==
    /\ DOMAIN queue \subseteq Nat /\ 1 \in DOMAIN queue /\ DOMAIN queue' \subseteq Nat
    /\ \A k \in DOMAIN queue' : k + 1 \in DOMAIN queue /\ k # 0 /\ queue'[k] = queue[k + 1]
    /\ \A k \in DOMAIN queue : k # 1 => \E j \in DOMAIN queue' : k = j + 1

LEMMA QueueDelivered ==
    ASSUME InOrder, RegistryTypeOK, Deliver
    PROVE  /\ Nearest /\ UNCHANGED <<objects, made>>
           /\ \/ queue[1].type = "global" /\ Global(queue[1].object)
              \/ queue[1].type = "remove" /\ GlobalRemove(queue[1].id)
  <1>1. PICK k \in DOMAIN queue :
           /\ Arrives(k) /\ queue' = RemoveAt(queue, k)
           /\ \/ queue[k].type = "global" /\ Global(queue[k].object)
              \/ queue[k].type = "remove" /\ GlobalRemove(queue[k].id)
           /\ UNCHANGED server
    BY DEF Deliver
  <1>2. k = 1
    BY <1>1 DEF Arrives
  <1>3. queue \in Seq(Announcement \cup Farewell)
    BY DEF RegistryTypeOK
  <1>4. /\ queue' \in Seq(Announcement \cup Farewell) /\ Len(queue') = Len(queue) - 1
        /\ \A j \in 1..(Len(queue) - 1) : queue'[j] = IF j < 1 THEN queue[j] ELSE queue[j + 1]
    BY <1>1, <1>2, <1>3, WithoutOne
  <1>5. DOMAIN queue = 1..Len(queue) /\ DOMAIN queue' = 1..(Len(queue) - 1) /\ Len(queue) \in Nat
    BY <1>3, <1>4
  <1>6. \A j \in DOMAIN queue : j # 1 => j - 1 \in DOMAIN queue' /\ j = (j - 1) + 1
    BY <1>5
  <1>7. Nearest
    BY <1>1, <1>2, <1>4, <1>5, <1>6 DEF Nearest
  <1>. QED  BY <1>1, <1>2, <1>7 DEF server

\* What the queue still holds of an announcement or a removal after the first event.
LEMMA Nearer ==
    ASSUME Nearest
    PROVE  /\ \A k \in DOMAIN queue' : Announces(queue', k) <=> Announces(queue, k + 1)
           /\ \A i : \A k \in DOMAIN queue' : Removes(queue', k, i) <=> Removes(queue, k + 1, i)
           /\ \A i : \A k \in DOMAIN queue : Removes(queue, k, i) /\ ~Removes(queue, 1, i) =>
                 \E j \in DOMAIN queue' : k = j + 1 /\ Removes(queue', j, i)
           /\ \A k \in DOMAIN queue : Announces(queue, k) /\ k # 1 =>
                 \E j \in DOMAIN queue' : k = j + 1 /\ Announces(queue', j)
           /\ \A i : queue[1].id # i /\ Pending(queue, i) = {} => Pending(queue', i) = {}
  <1>1. \A k \in DOMAIN queue' : Announces(queue', k) <=> Announces(queue, k + 1)
    BY DEF Nearest, Announces
  <1>2. \A i : \A k \in DOMAIN queue' : Removes(queue', k, i) <=> Removes(queue, k + 1, i)
    BY DEF Nearest, Removes
  <1>3. \A i : \A k \in DOMAIN queue : Removes(queue, k, i) /\ ~Removes(queue, 1, i) =>
           \E j \in DOMAIN queue' : k = j + 1 /\ Removes(queue', j, i)
    BY <1>2 DEF Nearest
  <1>4. \A k \in DOMAIN queue : Announces(queue, k) /\ k # 1 =>
           \E j \in DOMAIN queue' : k = j + 1 /\ Announces(queue', j)
    BY <1>1 DEF Nearest
  <1>5. \A i : Pending(queue, i) = {} => Pending(queue', i) = {}
    BY DEF Nearest, Pending
  <1>. QED  BY <1>1, <1>2, <1>3, <1>4, <1>5

LEMMA QueueInvDelivered ==
    ASSUME RInv, Nearest, UNCHANGED <<objects, made>>
    PROVE  ServerInv' /\ QueueInv'
  <1>1. ServerInv'
    BY DEF RInv, ServerInv, Of
  <1>2. \A k \in DOMAIN queue' : Announces(queue', k) =>
           queue'[k].object.id = queue'[k].id /\ queue'[k].object.serial < made'
    BY Nearer DEF RInv, QueueInv, Nearest
  <1>3. ASSUME NEW j \in DOMAIN queue', NEW k \in DOMAIN queue',
               Announces(queue', j), Announces(queue', k), j < k
        PROVE  /\ queue'[j].object.serial < queue'[k].object.serial
               /\ queue'[j].id = queue'[k].id => \E l \in j..k : Removes(queue', l, queue'[k].id)
    <2>1. /\ j \in Nat /\ k \in Nat /\ j + 1 < k + 1
          /\ j + 1 \in DOMAIN queue /\ k + 1 \in DOMAIN queue
          /\ Announces(queue, j + 1) /\ Announces(queue, k + 1)
          /\ queue'[j] = queue[j + 1] /\ queue'[k] = queue[k + 1]
      BY <1>3, Nearer DEF Nearest
    <2>2. /\ queue[j + 1].object.serial < queue[k + 1].object.serial
          /\ queue[j + 1].id = queue[k + 1].id =>
                \E l \in (j + 1)..(k + 1) : Removes(queue, l, queue[k + 1].id)
      BY <2>1 DEF RInv, QueueInv
    <2>3. ASSUME NEW l \in (j + 1)..(k + 1), NEW i, Removes(queue, l, i)
          PROVE  \E h \in j..k : Removes(queue', h, i)
      <3>1. l \in DOMAIN queue /\ l # 1
        BY <2>1, <2>3 DEF Removes, Nearest
      <3>2. PICK h \in DOMAIN queue' : l = h + 1
        BY <3>1 DEF Nearest
      <3>3. h \in j..k
        BY <2>1, <3>2 DEF Nearest
      <3>. QED  BY <2>3, <3>2, <3>3, Nearer
    <2>. QED  BY <2>1, <2>2, <2>3
  <1>4. QueueInv'
    BY <1>2, <1>3 DEF QueueInv
  <1>. QED  BY <1>1, <1>4

\* The next event announces x, and nothing of its id is shown.
Shows(x) ==
    /\ Nearest /\ UNCHANGED <<objects, made>>
    /\ Announces(queue, 1) /\ queue[1].object = x /\ queue[1].id = x.id
    /\ x \in Object /\ Global(x)
    /\ \A g \in known_globals : g.id # x.id
    /\ \A m \in nodes : m.id # x.id

LEMMA NothingOfItShown ==
    ASSUME RInv, Nearest, UNCHANGED <<objects, made>>,
           queue[1].type = "global", Global(queue[1].object)
    PROVE  Shows(queue[1].object)
  <1>. USE DEF RInv
  <1>1. 1 \in DOMAIN queue /\ Announces(queue, 1)
    BY DEF Announces, Nearest
  <1>2. queue[1].object \in Object /\ queue[1].id = queue[1].object.id
    BY <1>1, Events DEF QueueInv
  <1>3. \A g \in known_globals : g.id # queue[1].id
    <2>1. ~ \E l \in DOMAIN queue : l < 1 /\ Removes(queue, l, queue[1].id)
      <3>1. queue \in Seq(Announcement \cup Farewell)
        BY DEF RegistryTypeOK
      <3>2. \A l \in DOMAIN queue : ~(l < 1)
        BY <3>1
      <3>. QED  BY <3>2
    <2>. QED  BY <1>1, <2>1 DEF LagInv
  <1>4. \A m \in nodes : m.id # queue[1].id
    BY <1>3 DEF MapsAgree, Known
  <1>. QED  BY <1>1, <1>2, <1>3, <1>4 DEF Shows

LEMMA LagInvShown ==
    ASSUME RInv, NEW x, Shows(x)
    PROVE  LagInv'
  <1>. USE DEF RInv
  <1>1. known_globals' = known_globals \cup {x} /\ objects' = objects
    BY DEF Shows, Global
  <1>2. \A i : ~Removes(queue, 1, i)
    BY DEF Shows, Announces, Removes
  <1>3. Nearest /\ Announces(queue, 1) /\ queue[1].object = x /\ queue[1].id = x.id
    BY DEF Shows
  <1>4. \A k \in DOMAIN queue' : /\ k \in Nat /\ k # 0 /\ k + 1 \in DOMAIN queue
                                 /\ queue'[k] = queue[k + 1]
    BY <1>3 DEF Nearest
  <1>5. ASSUME NEW k \in DOMAIN queue', Announces(queue', k)
        PROVE  \/ \E y \in objects' : Same(queue'[k].object, y)
               \/ \E l \in DOMAIN queue' : k < l /\ Removes(queue', l, queue'[k].id)
    <2>1. Announces(queue, k + 1)
      BY <1>3, <1>5, Nearer
    <2>2. ASSUME NEW l \in DOMAIN queue, k + 1 < l, Removes(queue, l, queue[k + 1].id)
          PROVE  \E h \in DOMAIN queue' : k < h /\ Removes(queue', h, queue[k + 1].id)
      BY <1>2, <1>3, <1>4, <2>2, Nearer
    <2>. QED  BY <1>1, <1>4, <2>1, <2>2 DEF LagInv
  <1>6. ASSUME NEW y \in objects', NEW k \in DOMAIN queue', Removes(queue', k, y.id)
        PROVE  \E l \in DOMAIN queue' : k < l /\ Announces(queue', l) /\ Same(queue'[l].object, y)
    <2>1. Removes(queue, k + 1, y.id)
      BY <1>3, <1>6, Nearer
    <2>2. PICK l \in DOMAIN queue : k + 1 < l /\ Announces(queue, l) /\ Same(queue[l].object, y)
      BY <1>1, <1>4, <2>1 DEF LagInv
    <2>3. l # 1
      BY <1>4, <2>2
    <2>. QED  BY <1>3, <1>4, <2>2, <2>3, Nearer
  <1>7. ASSUME NEW g \in known_globals'
        PROVE  \/ \E y \in objects' : Same(g, y)
               \/ \E l \in DOMAIN queue' : Removes(queue', l, g.id)
    <2>1. \/ \E y \in objects : Same(g, y)
          \/ \E l \in DOMAIN queue : Removes(queue, l, g.id)
      BY <1>1, <1>3 DEF LagInv, Announces
    <2>. QED  BY <1>1, <1>2, <1>3, <2>1, Nearer
  <1>8. ASSUME NEW y \in objects'
        PROVE  \/ \E g \in known_globals' : Same(g, y)
               \/ \E l \in DOMAIN queue' : Announces(queue', l) /\ Same(queue'[l].object, y)
    <2>1. \/ \E g \in known_globals : Same(g, y)
          \/ \E l \in DOMAIN queue : Announces(queue, l) /\ Same(queue[l].object, y)
      BY <1>1 DEF LagInv
    <2>. QED  BY <1>1, <1>3, <1>4, <2>1, Nearer
  <1>9. ASSUME NEW k \in DOMAIN queue', Announces(queue', k)
        PROVE  \/ \A g \in known_globals' : g.id # queue'[k].id
               \/ \E l \in DOMAIN queue' : l < k /\ Removes(queue', l, queue'[k].id)
    <2>1. Announces(queue, k + 1) /\ queue'[k] = queue[k + 1] /\ 1 < k + 1
      BY <1>3, <1>4, <1>9, Nearer
    <2>2. ASSUME NEW l \in DOMAIN queue, l < k + 1, Removes(queue, l, queue[k + 1].id)
          PROVE  \E h \in DOMAIN queue' : h < k /\ Removes(queue', h, queue[k + 1].id)
      <3>1. PICK h \in DOMAIN queue' : l = h + 1 /\ Removes(queue', h, queue[k + 1].id)
        BY <1>2, <1>3, <2>2, Nearer
      <3>. QED  BY <1>4, <2>2, <3>1
    <2>3. CASE \A g \in known_globals : g.id # queue[k + 1].id
      <3>1. CASE x.id = queue[k + 1].id
        <4>1. PICK l \in 1..(k + 1) : Removes(queue, l, queue[k + 1].id)
          BY <1>3, <1>4, <2>1, <3>1 DEF QueueInv, Announces
        <4>2. l # k + 1 /\ l \in DOMAIN queue
          BY <2>1, <4>1 DEF Announces, Removes
        <4>3. l < k + 1
          BY <1>4, <4>1, <4>2
        <4>. QED  BY <2>1, <2>2, <4>1, <4>2, <4>3
      <3>2. CASE x.id # queue[k + 1].id
        BY <1>1, <2>1, <2>3, <3>2
      <3>. QED  BY <3>1, <3>2
    <2>4. CASE \E l \in DOMAIN queue : l < k + 1 /\ Removes(queue, l, queue[k + 1].id)
      BY <2>1, <2>2, <2>4
    <2>. QED  BY <1>4, <2>1, <2>3, <2>4 DEF LagInv
  <1>. QED  BY <1>5, <1>6, <1>7, <1>8, <1>9 DEF LagInv

\* A node comes in without ports, and nothing else changes but its proxy.
LEMMA NodeShown ==
    ASSUME RInv, NEW x, Shows(x), x.kind = "node"
    PROVE  /\ \E r : /\ nodes' = nodes \cup {r} /\ Listed(r) = {}
                     /\ r.id = x.id /\ r.serial = x.serial
                     /\ \A d \in Dir : Ports(r.ports[d]) = {}
           /\ node_watchers' = node_watchers \cup {[id |-> x.id, serial |-> x.serial]}
           /\ UNCHANGED <<links, port_owner>>
  <1>1. GlobalNode(x) /\ Record(x.id) = {}
    BY DEF Shows, Global, Record
  <1>. DEFINE r == [id |-> x.id, serial |-> x.serial, title |-> x.title, ports |-> NoPorts]
  <1>2. nodes' = nodes \cup {r}
    BY <1>1 DEF GlobalNode
  <1>3. \A d \in Dir : Ports(r.ports[d]) = {}
    BY DEF NoPorts, Ports
  <1>4. Listed(r) = {}
    BY <1>3 DEF Listed
  <1>5. ~ \E w \in node_watchers : w.id = x.id
    BY DEF RInv, MapsAgree, Known, Shows
  <1>6. /\ node_watchers' = node_watchers \cup {[id |-> x.id, serial |-> x.serial]}
        /\ UNCHANGED <<links, port_owner>>
    BY <1>1, <1>5 DEF GlobalNode
  <1>7. r.id = x.id /\ r.serial = x.serial
    OBVIOUS
  <1>. HIDE DEF r
  <1>. QED  BY <1>2, <1>3, <1>4, <1>6, <1>7

\* A port comes in at the end of one list of its node, if there is a record of that.
LEMMA PortShown ==
    ASSUME RInv, NEW x, Shows(x), x.kind = "port"
    PROVE  /\ \A m \in nodes : \E r \in nodes' :
                 /\ r.id = m.id /\ r.serial = m.serial
                 /\ \A d \in Dir : r.ports[d] = IF m.id = x.node /\ d = x.dir
                                                THEN Append(m.ports[d], x) ELSE m.ports[d]
           /\ \A r \in nodes' : \E m \in nodes :
                 /\ r.id = m.id /\ r.serial = m.serial
                 /\ \A d \in Dir : r.ports[d] = IF m.id = x.node /\ d = x.dir
                                                THEN Append(m.ports[d], x) ELSE m.ports[d]
           /\ \A r, s \in nodes' : r.id = s.id => r = s
           /\ port_owner' = port_owner \cup {[id |-> x.id, node |-> x.node, dir |-> x.dir]}
           /\ UNCHANGED <<links, node_watchers>>
  <1>. DEFINE listed(m) == IF m.id = x.node THEN [m EXCEPT !.ports[x.dir] = Push(@, x)] ELSE m
  <1>1. /\ port_owner' = port_owner \cup {[id |-> x.id, node |-> x.node, dir |-> x.dir]}
        /\ nodes' = {listed(m) : m \in nodes}
        /\ UNCHANGED <<links, node_watchers>>
    BY Zenon DEF Shows, Global, GlobalNode, GlobalPort, GlobalLink
  <1>2. ASSUME NEW m \in nodes
        PROVE  /\ listed(m).id = m.id /\ listed(m).serial = m.serial
               /\ \A d \in Dir : listed(m).ports[d] = IF m.id = x.node /\ d = x.dir
                                                      THEN Append(m.ports[d], x) ELSE m.ports[d]
    <2>1. m \in [id : Id, serial : Nat, title : Nat, ports : [Dir -> Seq(APort)]]
      BY DEF RInv, RegistryTypeOK
    <2>. QED  BY <2>1 DEF Push
  <1>. HIDE DEF listed
  <1>3. \A r, s \in nodes' : r.id = s.id => r = s
    BY <1>1, <1>2 DEF RInv, MapsAgree
  <1>. QED  BY <1>1, <1>2, <1>3

LEMMA MapsAgreeShown ==
    ASSUME RInv, NEW x, Shows(x)
    PROVE  MapsAgree'
  <1>. USE DEF RInv
  <1>1. known_globals' = known_globals \cup {x} /\ x \in Object
    BY DEF Shows, Global
  <1>2. \A g \in known_globals : g.id # x.id
    BY DEF Shows
  <1>3. \A g, h \in known_globals' : g.id = h.id => g = h
    BY <1>1, <1>2 DEF MapsAgree
  <1>4. CASE x.kind = "node"
    <2>1. /\ Known("node")' = Known("node") \cup {x} /\ Known("port")' = Known("port")
          /\ Known("link")' = Known("link")
      BY <1>1, <1>4 DEF Known
    <2>2. PICK r : /\ nodes' = nodes \cup {r} /\ r.id = x.id /\ r.serial = x.serial
      BY <1>4, NodeShown
    <2>3. /\ node_watchers' = node_watchers \cup {[id |-> x.id, serial |-> x.serial]}
          /\ UNCHANGED <<links, port_owner>>
      BY <1>4, NodeShown
    <2>4. \A m \in nodes' : \E g \in Known("node")' : g.id = m.id /\ g.serial = m.serial
      BY <2>1, <2>2 DEF MapsAgree
    <2>5. \A g \in Known("node")' : \E m \in nodes' : g.id = m.id /\ g.serial = m.serial
      BY <2>1, <2>2 DEF MapsAgree
    <2>6. \A m, n \in nodes' : m.id = n.id => m = n
      BY <2>2 DEF MapsAgree, Shows
    <2>7. node_watchers' = {[id |-> g.id, serial |-> g.serial] : g \in Known("node")'}
      BY <2>1, <2>3 DEF MapsAgree
    <2>. QED  BY <1>3, <2>1, <2>3, <2>4, <2>5, <2>6, <2>7 DEF MapsAgree
  <1>5. CASE x.kind = "port"
    <2>1. /\ Known("node")' = Known("node") /\ Known("port")' = Known("port") \cup {x}
          /\ Known("link")' = Known("link")
      BY <1>1, <1>5 DEF Known
    <2>2. /\ \A m \in nodes : \E r \in nodes' : r.id = m.id /\ r.serial = m.serial
          /\ \A r \in nodes' : \E m \in nodes : r.id = m.id /\ r.serial = m.serial
          /\ \A r, s \in nodes' : r.id = s.id => r = s
          /\ port_owner' = port_owner \cup {[id |-> x.id, node |-> x.node, dir |-> x.dir]}
          /\ UNCHANGED <<links, node_watchers>>
      BY <1>5, PortShown
    <2>3. port_owner' = {[id |-> g.id, node |-> g.node, dir |-> g.dir] : g \in Known("port")'}
      BY <2>1, <2>2 DEF MapsAgree
    <2>4. \A m \in nodes' : \E g \in Known("node")' : g.id = m.id /\ g.serial = m.serial
      BY <2>1, <2>2 DEF MapsAgree
    <2>5. \A g \in Known("node")' : \E m \in nodes' : g.id = m.id /\ g.serial = m.serial
      BY <2>1, <2>2 DEF MapsAgree
    <2>. QED  BY <1>3, <2>1, <2>2, <2>3, <2>4, <2>5 DEF MapsAgree
  <1>6. CASE x.kind = "link"
    <2>1. /\ Known("node")' = Known("node") /\ Known("port")' = Known("port")
          /\ Known("link")' = Known("link") \cup {x}
      BY <1>1, <1>6 DEF Known
    <2>2. GlobalLink(x)
      BY <1>6 DEF Shows, Global
    <2>3. \A l \in links : l.id # x.id
      BY <1>2 DEF MapsAgree, Known
    <2>4. links' = links \cup {x} /\ UNCHANGED <<nodes, port_owner, node_watchers>>
      BY <2>2, <2>3 DEF GlobalLink
    <2>. QED  BY <1>3, <2>1, <2>4 DEF MapsAgree
  <1>. QED  BY <1>1, <1>4, <1>5, <1>6, ObjectIds

\* The ports of a list to which one is added.
LEMMA Added ==
    ASSUME NEW Port, NEW list \in Seq(Port), NEW x
    PROVE  /\ Ports(Append(list, x)) = Ports(list) \cup {x}
           /\ Append(list, x)[Len(list) + 1] = x
           /\ DOMAIN Append(list, x) = DOMAIN list \cup {Len(list) + 1}
           /\ Len(list) + 1 \notin DOMAIN list
           /\ \A k \in DOMAIN list : Append(list, x)[k] = list[k]
  <1>. DEFINE all == Append(list, x)
  <1>1. /\ DOMAIN all = 1..(Len(list) + 1) /\ DOMAIN list = 1..Len(list) /\ Len(list) \in Nat
        /\ all[Len(list) + 1] = x /\ \A k \in DOMAIN list : all[k] = list[k]
    <2>1. list \in Seq(Port \cup {x}) /\ x \in Port \cup {x}
      OBVIOUS
    <2>. QED  BY <2>1
  <1>. HIDE DEF all
  <1>2. DOMAIN all = DOMAIN list \cup {Len(list) + 1} /\ Len(list) + 1 \notin DOMAIN list
    BY <1>1
  <1>3. Ports(all) = Ports(list) \cup {x}
    BY <1>1, <1>2 DEF Ports
  <1>. QED  BY <1>1, <1>2, <1>3 DEF all

\* What the mirror lists after x came in was listed before, or is x.
LEMMA ListedShown ==
    ASSUME RInv, NEW x, Shows(x), NEW r \in nodes'
    PROVE  \/ r.id = x.id /\ r.serial = x.serial /\ \A d \in Dir : Ports(r.ports[d]) = {}
           \/ \E m \in nodes :
                 /\ r.id = m.id /\ r.serial = m.serial
                 /\ \A d \in Dir : \A p \in Ports(r.ports[d]) :
                       p \in Ports(m.ports[d]) \/ (p = x /\ x.node = m.id)
  <1>. DEFINE shown(m) == /\ r.id = m.id /\ r.serial = m.serial
                          /\ \A d \in Dir : \A p \in Ports(r.ports[d]) :
                                p \in Ports(m.ports[d]) \/ (p = x /\ x.node = m.id)
  <1>0. ASSUME r \in nodes PROVE shown(r)
    BY Zenon
  <1>1. CASE x.kind = "node"
    <2>1. PICK y : /\ nodes' = nodes \cup {y} /\ y.id = x.id /\ y.serial = x.serial
                   /\ \A d \in Dir : Ports(y.ports[d]) = {}
      BY <1>1, NodeShown
    <2>. HIDE DEF shown
    <2>2. CASE r \in nodes
      BY <1>0, <2>2 DEF shown
    <2>. QED  BY <2>1, <2>2
  <1>2. CASE x.kind = "port"
    <2>1. PICK m \in nodes :
                 /\ r.id = m.id /\ r.serial = m.serial
                 /\ \A d \in Dir : r.ports[d] = IF m.id = x.node /\ d = x.dir
                                                THEN Append(m.ports[d], x) ELSE m.ports[d]
      BY <1>2, PortShown
    <2>2. \A d \in Dir : m.ports[d] \in Seq(APort)
      BY ShownPorts DEF RInv
    <2>3. \A d \in Dir : Ports(Append(m.ports[d], x)) = Ports(m.ports[d]) \cup {x}
      BY <2>2, Added
    <2>4. ASSUME NEW d \in Dir, NEW p \in Ports(r.ports[d])
          PROVE  p \in Ports(m.ports[d]) \/ (p = x /\ x.node = m.id)
      <3>1. CASE m.id = x.node /\ d = x.dir
        BY <2>1, <2>3, <2>4, <3>1
      <3>2. CASE ~(m.id = x.node /\ d = x.dir)
        <4>1. r.ports[d] = m.ports[d]
          BY <2>1, <3>2
        <4>. QED  BY <2>4, <4>1, Zenon
      <3>. QED  BY <3>1, <3>2
    <2>. QED  BY <2>1, <2>4
  <1>3. CASE x.kind = "link"
    <2>1. nodes' = nodes
      BY <1>3 DEF Shows, Global, GlobalLink
    <2>2. r \in nodes
      BY <2>1
    <2>3. shown(r)
      BY <1>0, <2>2
    <2>. HIDE DEF shown
    <2>. QED  BY <2>2, <2>3 DEF shown
  <1>4. x \in Object
    BY DEF Shows
  <1>. QED  BY <1>1, <1>2, <1>3, <1>4, ObjectIds

LEMMA OlderShown ==
    ASSUME RInv, NEW x, Shows(x)
    PROVE  Older'
  <1>. USE DEF RInv
  <1>1. /\ Nearest /\ UNCHANGED <<objects, made>> /\ Announces(queue, 1) /\ queue[1].object = x
        /\ 1 \in DOMAIN queue
    BY DEF Shows, Announces
  <1>2. \A k \in DOMAIN queue' : /\ 1 < k + 1 /\ k + 1 \in DOMAIN queue
                                 /\ queue'[k] = queue[k + 1]
                                 /\ Announces(queue', k) => Announces(queue, k + 1)
    BY <1>1, Nearer DEF Nearest
  <1>3. /\ x.serial < made
        /\ \A k \in DOMAIN queue' : Announces(queue', k) => x.serial < queue'[k].object.serial
    BY <1>1, <1>2 DEF QueueInv
  <1>4. ASSUME NEW m \in nodes, NEW y \in {m} \cup Listed(m)
        PROVE  /\ y.serial < made
               /\ \A k \in DOMAIN queue' : Announces(queue', k) => y.serial < queue'[k].object.serial
    BY <1>1, <1>2 DEF Older
  <1>5. ASSUME NEW r \in nodes', NEW y \in {r} \cup Listed(r)
        PROVE  /\ y.serial < made
               /\ \A k \in DOMAIN queue' : Announces(queue', k) => y.serial < queue'[k].object.serial
    <2>1. CASE r.serial = x.serial /\ \A d \in Dir : Ports(r.ports[d]) = {}
      <3>1. Listed(r) = {}
        BY <2>1 DEF Listed
      <3>. QED  BY <1>3, <1>5, <2>1, <3>1
    <2>2. ASSUME NEW m \in nodes, r.serial = m.serial,
                 \A d \in Dir : \A p \in Ports(r.ports[d]) : p \in Ports(m.ports[d]) \/ p = x
          PROVE  /\ y.serial < made
                 /\ \A k \in DOMAIN queue' : Announces(queue', k) => y.serial < queue'[k].object.serial
      <3>1. y = r \/ y = x \/ y \in Listed(m)
        BY <1>5, <2>2 DEF Listed
      <3>. QED  BY <1>3, <1>4, <2>2, <3>1
    <2>. QED  BY <2>1, <2>2, ListedShown
  <1>. QED  BY <1>1, <1>5 DEF Older, Listed

LEMMA PortsOfThisNodeShown ==
    ASSUME RInv, NEW x, Shows(x)
    PROVE  PortsOfThisNode'
  <1>. USE DEF RInv
  <1>1. Announces(queue, 1) /\ queue[1].object = x /\ 1 \in DOMAIN queue
    BY DEF Shows, Announces
  <1>2. ASSUME NEW m \in nodes PROVE x.serial > m.serial
    <2>1. m.serial < x.serial
      BY <1>1 DEF Older
    <2>2. m.serial \in Nat /\ x.serial \in Nat
      BY <1>1, ShownPorts, ObjectIds DEF Shows
    <2>. QED  BY <2>1, <2>2
  <1>3. ASSUME NEW r \in nodes', NEW d \in Dir, NEW p \in Ports(r.ports[d])
        PROVE  p.node = r.id /\ p.serial > r.serial
    <2>1. PICK m \in nodes : /\ r.id = m.id /\ r.serial = m.serial
                             /\ p \in Ports(m.ports[d]) \/ (p = x /\ x.node = m.id)
      BY <1>3, ListedShown
    <2>. QED  BY <1>2, <2>1 DEF PortsOfThisNode
  <1>. QED  BY <1>3 DEF PortsOfThisNode

LEMMA PortsInvShown ==
    ASSUME RInv, NEW x, Shows(x), NEW p \in Of("port")
    PROVE  Coming(p)' \/ ListedOnce(p)'
  <1>. USE DEF RInv
  <1>1. /\ Nearest /\ UNCHANGED <<objects, made>> /\ Announces(queue, 1) /\ queue[1].object = x
        /\ 1 \in DOMAIN queue /\ queue[1].id = x.id
    BY DEF Shows, Announces
  <1>2. CASE Coming(p)
    <2>1. PICK k \in DOMAIN queue : /\ Announces(queue, k) /\ queue[k].object = p
                                    /\ \A j \in Pending(queue, p.node) : j < k
      BY <1>2 DEF Coming
    <2>2. CASE k = 1
      <3>1. p = x /\ p.kind = "port"
        BY <1>1, <2>1, <2>2 DEF Of
      <3>2. Pending(queue, p.node) = {}
        <4>1. \A j \in DOMAIN queue : ~(j < 1)
          <5>1. queue \in Seq(Announcement \cup Farewell)
            BY DEF RegistryTypeOK
          <5>. QED  BY <5>1
        <4>. QED  BY <2>1, <2>2, <4>1 DEF Pending
      <3>3. Pending(queue', p.node) = {}
        BY <1>1, <3>2 DEF Nearest, Pending
      <3>4. PICK n \in Of("node") : n.id = p.node
        BY DEF ServerInv
      <3>5. PICK g \in known_globals : Same(g, n)
        <4>1. ASSUME NEW l \in DOMAIN queue, Announces(queue, l), Same(queue[l].object, n) PROVE FALSE
          <5>1. queue[l].id = p.node
            BY <3>4, <4>1 DEF Same, QueueInv
          <5>. QED  BY <3>2, <5>1 DEF Pending
        <4>. QED  BY <3>4, <4>1 DEF LagInv, Of
      <3>6. PICK m \in nodes : m.id = p.node
        BY <3>4, <3>5 DEF MapsAgree, Known, Same, Of
      <3>7. PICK r \in nodes' : r.id = p.node /\ r.ports[p.dir] = Append(m.ports[p.dir], p)
        <4>1. p.dir \in Dir
          BY ObjectIds DEF Of, RegistryTypeOK, APort
        <4>2. PICK r \in nodes' :
                 /\ r.id = m.id
                 /\ \A d \in Dir : r.ports[d] = IF m.id = x.node /\ d = x.dir
                                                THEN Append(m.ports[d], x) ELSE m.ports[d]
          BY <3>1, PortShown
        <4>. QED  BY <3>1, <3>6, <4>1, <4>2
      <3>8. m.ports[p.dir] \in Seq(APort)
        <4>1. p.dir \in Dir
          BY ObjectIds DEF Of, RegistryTypeOK, APort
        <4>. QED  BY <4>1, ShownPorts
      <3>9. ASSUME NEW j \in DOMAIN m.ports[p.dir] PROVE m.ports[p.dir][j] # p
        <4>1. p.dir \in Dir
          BY ObjectIds DEF Of, RegistryTypeOK, APort
        <4>2. m.ports[p.dir][j] \in Listed(m)
          BY <4>1 DEF Listed, Ports
        <4>3. m.ports[p.dir][j].serial < p.serial
          BY <1>1, <3>1, <4>2 DEF Older
        <4>4. p.serial \in Nat
          BY ObjectIds DEF Of, RegistryTypeOK
        <4>. QED  BY <4>3, <4>4
      <3>10. \E k1 \in DOMAIN r.ports[p.dir] :
                \A j \in DOMAIN r.ports[p.dir] : r.ports[p.dir][j] = p <=> j = k1
        <4>. DEFINE list == m.ports[p.dir]
                    all == Append(list, p)
                    k1 == Len(list) + 1
        <4>1. /\ all[k1] = p /\ DOMAIN all = DOMAIN list \cup {k1} /\ k1 \notin DOMAIN list
              /\ \A j \in DOMAIN list : all[j] = list[j]
          BY <3>8, Added
        <4>. HIDE DEF all, k1
        <4>2. \A j \in DOMAIN all : all[j] = p <=> j = k1
          BY <3>9, <4>1
        <4>. QED  BY <3>7, <4>1, <4>2 DEF all
      <3>11. r \in Record(p.node)'
        BY <3>7 DEF Record
      <3>. QED  BY <3>3, <3>10, <3>11 DEF ListedOnce
    <2>3. CASE k # 1
      <3>1. PICK h \in DOMAIN queue' : k = h + 1 /\ Announces(queue', h)
        BY <1>1, <2>1, <2>3, Nearer
      <3>2. queue'[h].object = p
        BY <1>1, <2>1, <3>1 DEF Nearest
      <3>3. ASSUME NEW j \in Pending(queue', p.node) PROVE j < h
        <4>1. j + 1 \in Pending(queue, p.node) /\ j \in Nat /\ h \in Nat
          BY <1>1 DEF Nearest, Pending
        <4>. QED  BY <2>1, <3>1, <4>1
      <3>. QED  BY <3>1, <3>2, <3>3 DEF Coming
    <2>. QED  BY <2>2, <2>3
  <1>3. CASE ListedOnce(p)
    <2>1. Pending(queue', p.node) = {} /\ x.id # p.node
      BY <1>1, <1>3 DEF ListedOnce, Pending, Nearest
    <2>2. PICK m \in nodes : /\ m.id = p.node
                             /\ \E k \in DOMAIN m.ports[p.dir] : \A j \in DOMAIN m.ports[p.dir] :
                                   m.ports[p.dir][j] = p <=> j = k
      BY <1>3 DEF ListedOnce, Record
    <2>3. PICK k \in DOMAIN m.ports[p.dir] : \A j \in DOMAIN m.ports[p.dir] :
                                   m.ports[p.dir][j] = p <=> j = k
      BY <2>2
    <2>4. p.dir \in Dir
      BY ObjectIds DEF Of, RegistryTypeOK, APort
    <2>5. CASE m \in nodes'
      BY <2>1, <2>2, <2>5 DEF ListedOnce, Record
    <2>6. CASE x.kind = "node"
      BY <2>5, <2>6, NodeShown
    <2>7. CASE x.kind = "link"
      BY <2>5, <2>7 DEF Shows, Global, GlobalLink
    <2>8. CASE x.kind = "port"
      <3>1. PICK r \in nodes' : /\ r.id = m.id
                                /\ r.ports[p.dir] = IF m.id = x.node /\ p.dir = x.dir
                                      THEN Append(m.ports[p.dir], x) ELSE m.ports[p.dir]
        BY <2>4, <2>8, PortShown
      <3>2. x # p
        <4>1. p \in Listed(m)
          BY <2>3, <2>4 DEF Listed, Ports
        <4>2. p.serial < x.serial
          BY <1>1, <4>1 DEF Older
        <4>3. p.serial \in Nat
          BY ObjectIds DEF Of, RegistryTypeOK
        <4>. QED  BY <4>2, <4>3
      <3>3. \E k1 \in DOMAIN r.ports[p.dir] :
               \A j \in DOMAIN r.ports[p.dir] : r.ports[p.dir][j] = p <=> j = k1
        <4>1. CASE r.ports[p.dir] = m.ports[p.dir]
          BY <2>2, <4>1
        <4>2. CASE r.ports[p.dir] = Append(m.ports[p.dir], x)
          <5>1. m.ports[p.dir] \in Seq(APort)
            BY <2>4, ShownPorts
          <5>. DEFINE list == m.ports[p.dir]
                      all == Append(list, x)
                      k1 == Len(list) + 1
          <5>2. /\ all[k1] = x /\ DOMAIN all = DOMAIN list \cup {k1} /\ k1 \notin DOMAIN list
                /\ \A j \in DOMAIN list : all[j] = list[j]
            BY <5>1, Added
          <5>. HIDE DEF all, k1
          <5>3. \A j \in DOMAIN all : all[j] = p <=> j = k
            BY <2>3, <3>2, <5>2
          <5>. QED  BY <2>3, <4>2, <5>2, <5>3 DEF all
        <4>. QED  BY <3>1, <4>1, <4>2
      <3>4. r \in Record(p.node)'
        BY <2>2, <3>1 DEF Record
      <3>. QED  BY <2>1, <3>3, <3>4 DEF ListedOnce
    <2>. QED  BY <2>6, <2>7, <2>8, ObjectIds DEF Shows
  <1>. QED  BY <1>2, <1>3 DEF PortsInv

LEMMA ShownKeeps ==
    ASSUME RInv, RegistryTypeOK', NEW x, Shows(x)
    PROVE  RInv'
  <1>1. Nearest /\ UNCHANGED <<objects, made>>
    BY DEF Shows
  <1>2. ServerInv' /\ QueueInv'
    BY <1>1, QueueInvDelivered
  <1>3. PortsInv'
    BY <1>1, PortsInvShown DEF PortsInv, Of
  <1>. QED  BY <1>2, <1>3, LagInvShown, MapsAgreeShown, OlderShown, PortsOfThisNodeShown DEF RInv

LEMMA ForgottenKeeps ==
    ASSUME RInv, RegistryTypeOK', Nearest, UNCHANGED <<objects, made>>,
           queue[1].type = "remove", GlobalRemove(queue[1].id)
    PROVE  RInv'
  <1>. USE DEF RInv
  <1>. DEFINE i == queue[1].id
  <1>1. /\ nodes' = {m \in nodes : m.id # i} /\ links' = {l \in links : l.id # i}
        /\ port_owner' = {o \in port_owner : o.id # i}
        /\ known_globals' = {g \in known_globals : g.id # i}
        /\ node_watchers' = {w \in node_watchers : w.id # i}
        /\ objects' = objects /\ made' = made
    BY DEF GlobalRemove, Without
  <1>2. Removes(queue, 1, i) /\ ~Announces(queue, 1) /\ \A j : Removes(queue, 1, j) => j = i
    BY DEF Removes, Announces, Nearest
  <1>. HIDE DEF i
  <1>3. \A k \in DOMAIN queue' : /\ k \in Nat /\ k # 0 /\ k + 1 \in DOMAIN queue
                                 /\ queue'[k] = queue[k + 1]
    BY DEF Nearest
  <1>4. ServerInv' /\ QueueInv'
    BY QueueInvDelivered
  <1>5. LagInv'
    <2>1. ASSUME NEW k \in DOMAIN queue', Announces(queue', k)
          PROVE  \/ \E y \in objects' : Same(queue'[k].object, y)
                 \/ \E l \in DOMAIN queue' : k < l /\ Removes(queue', l, queue'[k].id)
      <3>1. Announces(queue, k + 1)
        BY <2>1, Nearer
      <3>2. ASSUME NEW l \in DOMAIN queue, k + 1 < l, Removes(queue, l, queue[k + 1].id)
            PROVE  \E h \in DOMAIN queue' : k < h /\ Removes(queue', h, queue[k + 1].id)
        <4>1. PICK h \in DOMAIN queue' : l = h + 1
          BY <1>3, <3>2 DEF Nearest
        <4>. QED  BY <1>3, <3>2, <4>1, Nearer
      <3>. QED  BY <1>1, <1>3, <3>1, <3>2 DEF LagInv
    <2>2. ASSUME NEW y \in objects', NEW k \in DOMAIN queue', Removes(queue', k, y.id)
          PROVE  \E l \in DOMAIN queue' : k < l /\ Announces(queue', l) /\ Same(queue'[l].object, y)
      <3>1. Removes(queue, k + 1, y.id)
        BY <2>2, Nearer
      <3>2. PICK l \in DOMAIN queue : k + 1 < l /\ Announces(queue, l) /\ Same(queue[l].object, y)
        BY <1>1, <1>3, <3>1 DEF LagInv
      <3>3. l # 1
        BY <1>3, <3>2
      <3>. QED  BY <1>3, <3>2, <3>3, Nearer
    <2>3. ASSUME NEW g \in known_globals'
          PROVE  \/ \E y \in objects' : Same(g, y)
                 \/ \E l \in DOMAIN queue' : Removes(queue', l, g.id)
      <3>1. \/ \E y \in objects : Same(g, y)
            \/ \E l \in DOMAIN queue : Removes(queue, l, g.id)
        BY <1>1 DEF LagInv
      <3>2. ~Removes(queue, 1, g.id)
        BY <1>1, <1>2
      <3>. QED  BY <1>1, <3>1, <3>2, Nearer
    <2>4. ASSUME NEW y \in objects'
          PROVE  \/ \E g \in known_globals' : Same(g, y)
                 \/ \E l \in DOMAIN queue' : Announces(queue', l) /\ Same(queue'[l].object, y)
      <3>1. ASSUME NEW l \in DOMAIN queue, Announces(queue, l), Same(queue[l].object, y)
            PROVE  \E h \in DOMAIN queue' : Announces(queue', h) /\ Same(queue'[h].object, y)
        BY <1>2, <1>3, <3>1, Nearer
      <3>2. ASSUME NEW g \in known_globals, Same(g, y)
            PROVE  \/ \E h \in known_globals' : Same(h, y)
                   \/ \E l \in DOMAIN queue : Announces(queue, l) /\ Same(queue[l].object, y)
        <4>1. CASE g.id = i
          <5>1. y.id = i
            BY <3>2, <4>1 DEF Same
          <5>. QED  BY <1>1, <1>2, <5>1 DEF LagInv, Nearest
        <4>2. CASE g.id # i
          BY <1>1, <3>2, <4>2
        <4>. QED  BY <4>1, <4>2
      <3>. QED  BY <1>1, <3>1, <3>2 DEF LagInv
    <2>5. ASSUME NEW k \in DOMAIN queue', Announces(queue', k)
          PROVE  \/ \A g \in known_globals' : g.id # queue'[k].id
                 \/ \E l \in DOMAIN queue' : l < k /\ Removes(queue', l, queue'[k].id)
      <3>1. Announces(queue, k + 1)
        BY <2>5, Nearer
      <3>2. CASE queue[k + 1].id = i
        BY <1>1, <1>3, <3>2
      <3>3. ASSUME queue[k + 1].id # i,
                   NEW l \in DOMAIN queue, l < k + 1, Removes(queue, l, queue[k + 1].id)
            PROVE  \E h \in DOMAIN queue' : h < k /\ Removes(queue', h, queue[k + 1].id)
        <4>1. PICK h \in DOMAIN queue' : l = h + 1 /\ Removes(queue', h, queue[k + 1].id)
          BY <1>2, <3>3, Nearer
        <4>. QED  BY <1>3, <3>3, <4>1
      <3>. QED  BY <1>1, <1>3, <3>1, <3>2, <3>3 DEF LagInv
    <2>. QED  BY <2>1, <2>2, <2>3, <2>4, <2>5 DEF LagInv
  <1>6. MapsAgree'
    <2>1. /\ Known("node")' = {g \in Known("node") : g.id # i}
          /\ Known("port")' = {g \in Known("port") : g.id # i}
          /\ Known("link")' = {g \in Known("link") : g.id # i}
      BY <1>1 DEF Known
    <2>2. \A g, h \in known_globals' : g.id = h.id => g = h
      BY <1>1 DEF MapsAgree
    <2>3. \A m \in nodes' : \E g \in Known("node")' : g.id = m.id /\ g.serial = m.serial
      BY <1>1, <2>1 DEF MapsAgree
    <2>4. \A g \in Known("node")' : \E m \in nodes' : g.id = m.id /\ g.serial = m.serial
      BY <1>1, <2>1 DEF MapsAgree
    <2>5. \A m, n \in nodes' : m.id = n.id => m = n
      BY <1>1 DEF MapsAgree
    <2>6. node_watchers' = {[id |-> g.id, serial |-> g.serial] : g \in Known("node")'}
      BY <1>1, <2>1 DEF MapsAgree
    <2>7. port_owner' = {[id |-> g.id, node |-> g.node, dir |-> g.dir] : g \in Known("port")'}
      BY <1>1, <2>1 DEF MapsAgree
    <2>8. links' = Known("link")'
      BY <1>1, <2>1 DEF MapsAgree
    <2>. QED  BY <2>2, <2>3, <2>4, <2>5, <2>6, <2>7, <2>8 DEF MapsAgree
  <1>7. Older'
    BY <1>1, <1>3, Nearer DEF Older, Listed
  <1>8. PortsInv'
    <2>1. ASSUME NEW p \in Of("port") PROVE Coming(p)' \/ ListedOnce(p)'
      <3>1. CASE Coming(p)
        <4>1. PICK k \in DOMAIN queue : /\ Announces(queue, k) /\ queue[k].object = p
                                        /\ \A j \in Pending(queue, p.node) : j < k
          BY <3>1 DEF Coming
        <4>2. PICK h \in DOMAIN queue' : k = h + 1 /\ Announces(queue', h)
          BY <1>2, <4>1, Nearer
        <4>3. queue'[h].object = p
          BY <1>3, <4>1, <4>2
        <4>4. ASSUME NEW j \in Pending(queue', p.node) PROVE j < h
          <5>1. j + 1 \in Pending(queue, p.node) /\ j \in Nat /\ h \in Nat
            BY <1>3 DEF Pending
          <5>. QED  BY <4>1, <4>2, <5>1
        <4>. QED  BY <4>2, <4>3, <4>4 DEF Coming
      <3>2. CASE ListedOnce(p)
        <4>1. Pending(queue, p.node) = {} /\ p.node # i
          BY <3>2 DEF ListedOnce, Pending, Nearest, i
        <4>2. Pending(queue', p.node) = {}
          BY <4>1, Nearer DEF i
        <4>3. PICK m \in Record(p.node) : \E k \in DOMAIN m.ports[p.dir] :
                 \A j \in DOMAIN m.ports[p.dir] : m.ports[p.dir][j] = p <=> j = k
          BY <3>2 DEF ListedOnce
        <4>4. m \in Record(p.node)'
          BY <1>1, <4>1 DEF Record
        <4>. QED  BY <4>2, <4>3, <4>4 DEF ListedOnce
      <3>. QED  BY <3>1, <3>2 DEF PortsInv
    <2>2. Of("port")' = Of("port")
      BY <1>1 DEF Of
    <2>. QED  BY <2>1, <2>2 DEF PortsInv
  <1>9. PortsOfThisNode'
    BY <1>1 DEF PortsOfThisNode
  <1>. QED  BY <1>4, <1>5, <1>6, <1>7, <1>8, <1>9

LEMMA DeliverKeeps ==
    ASSUME InOrder, RInv, Deliver
    PROVE  RInv'
  <1>1. RegistryTypeOK /\ RegistryTypeOK'
    BY TypeDeliver DEF RInv
  <1>2. /\ Nearest /\ UNCHANGED <<objects, made>>
        /\ \/ queue[1].type = "global" /\ Global(queue[1].object)
           \/ queue[1].type = "remove" /\ GlobalRemove(queue[1].id)
    BY <1>1, QueueDelivered
  <1>3. CASE queue[1].type = "global" /\ Global(queue[1].object)
    BY <1>1, <1>2, <1>3, NothingOfItShown, ShownKeeps
  <1>4. CASE queue[1].type = "remove" /\ GlobalRemove(queue[1].id)
    BY <1>1, <1>2, <1>4, ForgottenKeeps
  <1>. QED  BY <1>2, <1>3, <1>4

--------------------------------------------------------------------------------
(* Theorems of the mirror. The events come in order, as they do on the one socket there is. *)

LEMMA RInvHolds ==
    ASSUME InOrder
    PROVE  RegistrySpec => []RInv
  <1>1. RegistryInit => RInv
    <2> SUFFICES ASSUME RegistryInit PROVE RInv
      OBVIOUS
    <2>1. RegistryTypeOK
      <3>1. IsFiniteSet({})
        BY FS_EmptySet
      <3>. QED  BY <3>1 DEF RegistryInit, RegistryTypeOK
    <2>2. /\ objects = {} /\ nodes = {} /\ links = {} /\ port_owner = {} /\ known_globals = {}
          /\ node_watchers = {} /\ DOMAIN queue = {}
      BY DEF RegistryInit
    <2>3. ServerInv /\ QueueInv /\ LagInv
      BY <2>2 DEF ServerInv, QueueInv, LagInv, Of
    <2>4. MapsAgree /\ Older /\ PortsInv /\ PortsOfThisNode
      BY <2>2 DEF MapsAgree, Older, PortsInv, PortsOfThisNode, Of, Known
    <2>. QED  BY <2>1, <2>3, <2>4 DEF RInv
  <1>2. RInv /\ [RegistryNext]_registryVars => RInv'
    <2> SUFFICES ASSUME RInv, [RegistryNext]_registryVars PROVE RInv'
      OBVIOUS
    <2>1. CASE NodeAdded \/ PortAdded \/ LinkAdded
      BY <2>1, ServerMakes, MadeKeeps DEF RInv
    <2>2. ASSUME NEW x \in objects, Removed(x) PROVE RInv'
      BY <2>2, ServerRemoves, LostKeeps DEF RInv
    <2>3. ASSUME NEW n \in Of("node"), TitleChanged(n) PROVE RInv'
      BY <2>3, TitleChangedKeeps
    <2>4. CASE Deliver
      BY <2>4, DeliverKeeps
    <2>5. ASSUME NEW w \in node_watchers, Info(w) PROVE RInv'
      BY <2>5, InfoKeeps
    <2>6. CASE UNCHANGED registryVars
      <3>1. UNCHANGED <<limits, objects, made, removals, titles, queue>>
            /\ UNCHANGED <<nodes, links, port_owner, known_globals, node_watchers>>
        BY <2>6 DEF registryVars, server, mirror
      <3>2. RegistryTypeOK'
        BY <3>1 DEF RInv, RegistryTypeOK
      <3>3. ServerInv' /\ QueueInv' /\ LagInv'
        BY <3>1 DEF RInv, ServerInv, QueueInv, LagInv, Of
      <3>4. MapsAgree' /\ Older' /\ PortsOfThisNode'
        BY <3>1 DEF RInv, MapsAgree, Older, PortsOfThisNode, Known, Listed
      <3>5. PortsInv'
        BY <3>1 DEF RInv, PortsInv, Coming, ListedOnce, Record, Of
      <3>. QED  BY <3>2, <3>3, <3>4, <3>5 DEF RInv
    <2>. QED  BY <2>1, <2>2, <2>3, <2>4, <2>5, <2>6, Zenon DEF RegistryNext, Changes, Listener
  <1>. QED  BY <1>1, <1>2, PTL DEF RegistrySpec

\* Once every event is in, the mirror is current: each map has the objects of the server,
\* under their own ids, however often an id went from one object to another.
THEOREM MirrorIsCurrent ==
    ASSUME InOrder
    PROVE  RegistrySpec => []MirrorCurrent
  <1>1. RInv => MirrorCurrent
    <2> SUFFICES ASSUME RInv, queue = <<>>
                 PROVE  /\ {<<m.id, m.serial>> : m \in nodes} = {<<x.id, x.serial>> : x \in Of("node")}
                        /\ {<<w.id, w.serial>> : w \in node_watchers} =
                              {<<x.id, x.serial>> : x \in Of("node")}
                        /\ {<<g.id, g.serial>> : g \in known_globals} =
                              {<<x.id, x.serial>> : x \in objects}
                        /\ port_owner = {[id |-> p.id, node |-> p.node, dir |-> p.dir] : p \in Of("port")}
                        /\ links = Of("link")
      BY DEF MirrorCurrent, Drained
    <2>. USE DEF RInv
    <2>1. DOMAIN queue = {}
      OBVIOUS
    <2>2. \A g \in known_globals : \E x \in objects : Same(g, x)
      BY <2>1 DEF LagInv
    <2>3. \A x \in objects : \E g \in known_globals : Same(g, x)
      BY <2>1 DEF LagInv
    <2>4. Known("port") = Of("port") /\ Known("link") = Of("link")
      <3>1. \A g, x : Same(g, x) /\ (g.kind # "node" \/ x.kind # "node") => g = x
        BY DEF Same
      <3>2. \A g : g \in Known("port") <=> g \in Of("port")
        BY <2>2, <2>3, <3>1 DEF Known, Of
      <3>3. \A g : g \in Known("link") <=> g \in Of("link")
        BY <2>2, <2>3, <3>1 DEF Known, Of
      <3>. QED  BY <3>2, <3>3
    <2>5. /\ \A m \in nodes : \E x \in Of("node") : m.id = x.id /\ m.serial = x.serial
          /\ \A x \in Of("node") : \E m \in nodes : m.id = x.id /\ m.serial = x.serial
      BY <2>2, <2>3 DEF MapsAgree, Known, Of, Same
    <2>6. /\ \A w \in node_watchers : \E x \in Of("node") : w.id = x.id /\ w.serial = x.serial
          /\ \A x \in Of("node") : \E w \in node_watchers : w.id = x.id /\ w.serial = x.serial
      <3>1. \A w \in node_watchers : \E g \in Known("node") : w.id = g.id /\ w.serial = g.serial
        BY DEF MapsAgree
      <3>2. \A g \in Known("node") : \E w \in node_watchers : w.id = g.id /\ w.serial = g.serial
        <4>1. ASSUME NEW g \in Known("node")
              PROVE  [id |-> g.id, serial |-> g.serial] \in node_watchers
          BY DEF MapsAgree
        <4>. QED  BY <4>1
      <3>3. /\ \A g \in Known("node") : \E x \in Of("node") : g.id = x.id /\ g.serial = x.serial
            /\ \A x \in Of("node") : \E g \in Known("node") : g.id = x.id /\ g.serial = x.serial
        BY <2>2, <2>3 DEF Known, Of, Same
      <3>4. \A w \in node_watchers : \E x \in Of("node") : w.id = x.id /\ w.serial = x.serial
        BY <3>1, <3>3
      <3>5. \A x \in Of("node") : \E w \in node_watchers : w.id = x.id /\ w.serial = x.serial
        BY <3>2, <3>3
      <3>. QED  BY <3>4, <3>5
    <2>7. {<<m.id, m.serial>> : m \in nodes} = {<<x.id, x.serial>> : x \in Of("node")}
      BY <2>5
    <2>8. {<<w.id, w.serial>> : w \in node_watchers} = {<<x.id, x.serial>> : x \in Of("node")}
      BY <2>6
    <2>9. {<<g.id, g.serial>> : g \in known_globals} = {<<x.id, x.serial>> : x \in objects}
      BY <2>2, <2>3 DEF Same
    <2>10. port_owner = {[id |-> p.id, node |-> p.node, dir |-> p.dir] : p \in Of("port")}
      BY <2>4, Zenon DEF MapsAgree
    <2>11. links = Of("link")
      BY <2>4 DEF MapsAgree
    <2>. QED  BY <2>7, <2>8, <2>9, <2>10, <2>11
  <1>. QED  BY <1>1, RInvHolds, PTL

\* And each port of the server is listed once, by its node and nowhere twice.
THEOREM PortsAreListed ==
    ASSUME InOrder
    PROVE  RegistrySpec => []PortsListed
  <1>1. RInv => PortsListed
    <2> SUFFICES ASSUME RInv, queue = <<>>, NEW p \in Of("port")
                 PROVE  \E m \in Record(p.node) :
                           Cardinality({k \in DOMAIN m.ports[p.dir] : m.ports[p.dir][k] = p}) = 1
      BY DEF PortsListed, Drained
    <2>1. ListedOnce(p)
      BY DEF RInv, PortsInv, Coming, Announces
    <2>a. PICK m \in Record(p.node) : \E k \in DOMAIN m.ports[p.dir] :
             \A j \in DOMAIN m.ports[p.dir] : m.ports[p.dir][j] = p <=> j = k
      BY <2>1 DEF ListedOnce
    <2>2. PICK k \in DOMAIN m.ports[p.dir] :
             \A j \in DOMAIN m.ports[p.dir] : m.ports[p.dir][j] = p <=> j = k
      BY <2>a
    <2>3. {j \in DOMAIN m.ports[p.dir] : m.ports[p.dir][j] = p} = {k}
      BY <2>2
    <2>4. Cardinality({k}) = 1
      BY FS_Singleton
    <2>. QED  BY <2>3, <2>4
  <1>. QED  BY <1>1, RInvHolds, PTL

\* At no time does a node's list have a port of an earlier node of the same id.
THEOREM PortsAreOfThisNode ==
    ASSUME InOrder
    PROVE  RegistrySpec => []PortsOfThisNode
  <1>1. RInv => PortsOfThisNode
    BY DEF RInv
  <1>. QED  BY <1>1, RInvHolds, PTL

\* At any time, with events on the way, the maps of the listener agree with each other: a
\* record for each node that is known and a proxy bound to that node, an owner for each port,
\* an entry for each link, and one object to an id.
THEOREM MapsAlwaysAgree ==
    ASSUME InOrder
    PROVE  RegistrySpec => []MapsAgree
  <1>1. RInv => MapsAgree
    BY DEF RInv
  <1>. QED  BY <1>1, RInvHolds, PTL
================================================================================
