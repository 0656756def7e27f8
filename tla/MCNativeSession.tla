---------------------------- MODULE MCNativeSession ----------------------------
(* Values for the model-checking runs of NativeSession. *)
EXTENDS NativeSession

CONSTANTS a1, a2   \* ids of applications

JustA1  == {{}, {a1}}
OneOrBoth == {{a1}, {a1, a2}}
OneOrOther == {{a1}, {a2}}
WithOwn == {{}, {a1}, {a1, "sink", "mic"}}
================================================================================
