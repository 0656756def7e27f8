--------------------------- MODULE ShimStreamsProofs ---------------------------
(* Proofs about ShimStreams, for any number of addresses and applications. *)
EXTENDS ShimStreams, TLAPS

(* The invariant at one address: every action but SelectionReplaced changes    *)
(* what it says about the address it works on, and about no other.             *)
At(a) ==
    /\ at[a] \in {"allowed", "refused", "targeted"} => IsCapture(a)
    /\ at[a] \in {"new", "allowed", "refused"} => monitor[a] = {}
    /\ at[a] = "targeted" => (a \in blocked <=> monitor[a] = {})
    /\ at[a] = "redirect" /\ IsCapture(a) => monitor[a] = {}
    /\ at[a] = "pass" /\ IsCapture(a) => monitor[a] # {}
    /\ Recording(a) => source[a] = IF monitor[a] = {} THEN "null" ELSE "app"
    /\ ~changed[a] =>
        /\ at[a] = "allowed" => Allowed(a)
        /\ at[a] = "refused" => ~Allowed(a)
        /\ at[a] \in {"targeted", "redirect", "pass", "recording"} /\ IsCapture(a) =>
               (monitor[a] # {} <=> Allowed(a))

LEMMA Pointwise == IInv <=> TypeOK /\ \A a \in Addr : At(a)
  BY DEF IInv, At, InMonitorCall, NoTargetYet, MarkedOrTargeted, DecidedByList

LEMMA Initially == Init => IInv
  BY DEF Init, IInv, TypeOK, Point, Source, InMonitorCall, NoTargetYet, MarkedOrTargeted,
         DecidedByList, Recording, IsCapture, Allowed

(* What a thread's step leaves alone at the other addresses. *)
Untouched(b) ==
    /\ at'[b] = at[b] /\ wanted'[b] = wanted[b] /\ monitor'[b] = monitor[b]
    /\ source'[b] = source[b] /\ changed'[b] = changed[b]
    /\ b \in blocked' <=> b \in blocked
    /\ listed' = listed

LEMMA OthersUntouched ==
  ASSUME TypeOK, NEW a \in Addr, Discord(a) \/ Shim(a), NEW b \in Addr, b # a
  PROVE  Untouched(b)
<1> USE DEF TypeOK, Untouched, MoveTo
<1>1. CASE \E w \in SUBSET Input : StreamCreated(a, w)
  BY <1>1 DEF StreamCreated
<1>2. CASE StreamFreed(a)
  BY <1>2 DEF StreamFreed
<1>3. CASE IsAllowed(a) \/ Forward(a) \/ Suppress(a)
  BY <1>3 DEF IsAllowed, Forward, Suppress
<1>4. CASE IsBlocked(a) \/ ConnectRecord(a)
  BY <1>4 DEF IsBlocked, ConnectRecord
<1>5. QED
  BY <1>1, <1>2, <1>3, <1>4 DEF Discord, Shim

LEMMA UntouchedKeeps ==
  ASSUME NEW b \in Addr, At(b), Untouched(b)
  PROVE  At(b)'
  BY DEF At, Untouched, IsCapture, Allowed, Recording

(* Every action keeps the types, and the invariant at its own address. *)
LEMMA OwnStep ==
  ASSUME TypeOK, NEW a \in Addr, At(a), Discord(a) \/ Shim(a)
  PROVE  TypeOK' /\ At(a)'
<1> USE DEF TypeOK, Point, Source, At, IsCapture, Allowed, Recording, MoveTo
<1>1. ASSUME NEW w \in SUBSET Input, StreamCreated(a, w)
      PROVE  TypeOK' /\ At(a)'
  BY <1>1 DEF StreamCreated
<1>2. CASE StreamFreed(a)
  BY <1>2 DEF StreamFreed
<1>3. CASE IsAllowed(a)
  BY <1>3 DEF IsAllowed
<1>4. CASE Forward(a)
  BY <1>4 DEF Forward
<1>5. CASE Suppress(a)
  BY <1>5 DEF Suppress
<1>6. CASE IsBlocked(a)
  BY <1>6 DEF IsBlocked
<1>7. CASE ConnectRecord(a)
  BY <1>7 DEF ConnectRecord, Records
<1>8. QED
  BY <1>1, <1>2, <1>3, <1>4, <1>5, <1>6, <1>7 DEF Discord, Shim

LEMMA Inductive == IInv /\ [Next]_vars => IInv'
<1> SUFFICES ASSUME IInv, [Next]_vars
             PROVE  IInv'
  OBVIOUS
<1>1. TypeOK /\ \A b \in Addr : At(b)
  BY Pointwise
<1>2. CASE SelectionReplaced
  BY <1>2 DEF SelectionReplaced, IInv, TypeOK, InMonitorCall, NoTargetYet, MarkedOrTargeted,
              DecidedByList, IsCapture, Allowed, Recording
<1>3. ASSUME NEW a \in Addr, Discord(a) \/ Shim(a)
      PROVE  IInv'
  <2>1. TypeOK' /\ At(a)'
    BY <1>1, <1>3, OwnStep
  <2>2. \A b \in Addr : b # a => At(b)'
    BY <1>1, <1>3, OthersUntouched, UntouchedKeeps
  <2>3. TypeOK' /\ \A b \in Addr : At(b)'
    BY <2>1, <2>2
  <2>4. QED
    BY <2>3 DEF IInv, At, InMonitorCall, NoTargetYet, MarkedOrTargeted, DecidedByList
<1>4. CASE UNCHANGED vars
  BY <1>4 DEF vars, IInv, TypeOK, InMonitorCall, NoTargetYet, MarkedOrTargeted, DecidedByList,
              IsCapture, Allowed, Recording
<1>5. QED
  BY <1>2, <1>3, <1>4 DEF Next

LEMMA Invariance == Spec => []IInv
  BY Initially, Inductive, PTL DEF Spec

\* A capture never records the microphone, in any interleaving of the threads
\* with each other and with changes of the allow-list.
THEOREM MicrophoneIsSafe == Spec => []NeverMicrophone
<1>1. IInv => NeverMicrophone
  BY DEF IInv, MarkedOrTargeted, NeverMicrophone
<1>2. QED
  BY <1>1, Invariance, PTL

\* A listed application is recorded, even at an address that was marked before.
THEOREM ListedAreHeard == Spec => []AllowedHeard
<1>1. IInv => AllowedHeard
  BY DEF IInv, MarkedOrTargeted, DecidedByList, AllowedHeard, Recording
<1>2. QED
  BY <1>1, Invariance, PTL

\* An application that is not listed is replaced by silence.
THEOREM UnlistedAreSilent == Spec => []RefusedSilent
<1>1. IInv => RefusedSilent
  BY DEF IInv, MarkedOrTargeted, DecidedByList, RefusedSilent, Recording
<1>2. QED
  BY <1>1, Invariance, PTL

--------------------------------------------------------------------------------
(* Which streams the comment about Discord's own voice input is true of. *)

\* The allocator gives the voice input no address that a refused capture left marked.
FreshVoice == \A a \in Addr : StreamCreated(a, {}) => a \notin blocked

\* Such a voice stream is never marked and never has a target.
VoiceAt(a) ==
    ~IsCapture(a) =>
        /\ at[a] # "redirect"
        /\ at[a] = "new" => a \notin blocked
        /\ at[a] \in {"new", "pass"} => monitor[a] = {}
        /\ at[a] = "recording" => source[a] = "default"

LEMMA VoiceStep ==
  ASSUME IInv, \A b \in Addr : VoiceAt(b), FreshVoice, [Next]_vars, NEW b \in Addr
  PROVE  VoiceAt(b)'
<1>1. TypeOK /\ At(b) /\ VoiceAt(b)
  BY Pointwise
<1>2. CASE SelectionReplaced \/ UNCHANGED vars
  BY <1>1, <1>2 DEF SelectionReplaced, vars, VoiceAt, IsCapture
<1>3. ASSUME NEW a \in Addr, a # b, Discord(a) \/ Shim(a)
      PROVE  VoiceAt(b)'
  <2>1. Untouched(b)
    BY <1>1, <1>3, OthersUntouched
  <2>2. QED
    BY <1>1, <2>1 DEF VoiceAt, Untouched, IsCapture
<1>4. CASE StreamCreated(b, {})
  BY <1>1, <1>4 DEF StreamCreated, FreshVoice, VoiceAt, IsCapture, MoveTo, TypeOK
<1>5. ASSUME NEW i \in Input, StreamCreated(b, {i})
      PROVE  VoiceAt(b)'
  BY <1>1, <1>5 DEF StreamCreated, VoiceAt, IsCapture, MoveTo, TypeOK
<1>6. CASE StreamFreed(b)
  BY <1>1, <1>6 DEF StreamFreed, VoiceAt, IsCapture, MoveTo, TypeOK
<1>7. CASE IsAllowed(b) \/ Forward(b) \/ Suppress(b)
  BY <1>1, <1>7 DEF IsAllowed, Forward, Suppress, At, VoiceAt, IsCapture, MoveTo, TypeOK
<1>8. CASE IsBlocked(b)
  BY <1>1, <1>8 DEF IsBlocked, At, VoiceAt, IsCapture, MoveTo, TypeOK
<1>9. CASE ConnectRecord(b)
  BY <1>1, <1>9 DEF ConnectRecord, Records, VoiceAt, IsCapture, MoveTo, TypeOK
<1>10. QED
  BY <1>2, <1>3, <1>4, <1>5, <1>6, <1>7, <1>8, <1>9 DEF Next, Discord, Shim

\* Discord's voice input passes through unmodified in every interleaving, as lib.rs says
\* of every other stream, unless its address is one that a refused capture left marked:
\* the mark that is never taken back is the only way to lose the microphone.
THEOREM FreshVoiceUntouched == Spec /\ [][FreshVoice]_vars => []VoiceUntouched
<1> DEFINE VInv == \A a \in Addr : VoiceAt(a)
<1>1. Init => VInv
  BY DEF Init, VoiceAt
<1>2. IInv /\ VInv /\ [Next]_vars /\ [FreshVoice]_vars => VInv'
  <2>1. CASE UNCHANGED vars
    BY <2>1 DEF vars, VoiceAt, IsCapture
  <2>2. CASE FreshVoice
    BY <2>2, VoiceStep
  <2>3. QED
    BY <2>1, <2>2
<1>3. VInv => VoiceUntouched
  BY DEF VoiceAt, VoiceUntouched
<1>4. QED
  <2> HIDE DEF VInv
  <2>1. QED
    BY <1>1, <1>2, <1>3, Invariance, PTL DEF Spec
================================================================================
