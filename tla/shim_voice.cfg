\* One address: a refused capture, then Discord's voice input.
SPECIFICATION Spec
CONSTANTS
    Addr = {s1}
    Input = {i1}
INVARIANTS
    VoiceUntouched
