------------------------------ MODULE PortMapping ------------------------------
(***************************************************************************)
(* Which output ports of a node go to which input ports of another         *)
(* (patchbay/routing.rs). A port is a record with the fields channel and   *)
(* index; NoValue stands for a property it does not have. The lists are in *)
(* the order in which the ports were announced.                            *)
(***************************************************************************)
EXTENDS Naturals, Sequences

CONSTANT NoValue

LeftNames == {"FL", "FRONT-LEFT", "SL", "SIDE-LEFT", "RL", "REAR-LEFT", "FLC"}
RightNames == {"FR", "FRONT-RIGHT", "SR", "SIDE-RIGHT", "RR", "REAR-RIGHT", "FRC"}
BothNames == {"FC", "LFE", "RC", "MONO"}

channel_role(channel) ==
    CASE channel \in LeftNames -> "left"
      [] channel \in RightNames -> "right"
      [] channel \in BothNames -> "both"
      [] OTHER -> "unknown"

Ports(list) == {list[k] : k \in DOMAIN list}
Side(list, role) == {p \in Ports(list) : channel_role(p.channel) = role}

same_port_index(left, right) == left.index # NoValue /\ left.index = right.index

\* Mutant: without a port of its index or place an output goes nowhere.
ByPlace_Drop(k, outputs, inputs, otherwise) ==
    LET same == {i \in DOMAIN inputs : same_port_index(outputs[k], inputs[i])} IN
    IF same # {} THEN {inputs[CHOOSE i \in same : \A j \in same : i <= j]}
    ELSE IF k <= Len(inputs) THEN {inputs[k]} ELSE {}

\* The first input of the output's index, else the one at its place, else the given one.
ByPlace(k, outputs, inputs, otherwise) ==
    LET same == {i \in DOMAIN inputs : same_port_index(outputs[k], inputs[i])} IN
    IF same # {} THEN {inputs[CHOOSE i \in same : \A j \in same : i <= j]}
    ELSE IF k <= Len(inputs) THEN {inputs[k]} ELSE {otherwise}

\* Mutant: a left output plays on every input.
LeftInputs_All(k, outputs, inputs) == Ports(inputs)

LeftInputs(k, outputs, inputs) ==
    IF Side(inputs, "left") # {} THEN Side(inputs, "left")
                                 ELSE ByPlace(k, outputs, inputs, inputs[1])

RightInputs(k, outputs, inputs) ==
    IF Side(inputs, "right") # {} THEN Side(inputs, "right")
                                  ELSE ByPlace(k, outputs, inputs, inputs[Len(inputs)])

BothInputs(inputs) ==
    LET sides == Side(inputs, "left") \cup Side(inputs, "right") IN
    IF sides # {} THEN sides ELSE Ports(inputs)

UnknownInputs(k, outputs, inputs) ==
    IF Len(outputs) = 1 THEN Ports(inputs)
                        ELSE ByPlace(k, outputs, inputs, inputs[Len(inputs)])

InputsFor(k, outputs, inputs) ==
    CASE channel_role(outputs[k].channel) = "left" -> LeftInputs(k, outputs, inputs)
      [] channel_role(outputs[k].channel) = "right" -> RightInputs(k, outputs, inputs)
      [] channel_role(outputs[k].channel) = "both" -> BothInputs(inputs)
      [] OTHER -> UnknownInputs(k, outputs, inputs)

map_ports(outputs, inputs) ==
    IF inputs = <<>> THEN {}
    ELSE UNION {{outputs[k]} \X InputsFor(k, outputs, inputs) : k \in DOMAIN outputs}
================================================================================
