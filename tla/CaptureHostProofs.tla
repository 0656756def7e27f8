---------------------------- MODULE CaptureHostProofs ----------------------------
(* Theorems about CaptureHost and CaptureShim, for any number of helpers, Discords   *)
(* and streams, under clients that start a helper only after the last one has gone.  *)
EXTENDS CaptureShim, ShimStreamsProofs

USE HostConstants

--------------------------------------------------------------------------------
(* The inductive invariant. *)

\* Processes that do not run remember nothing, and have no sink and no file open.
OneRuns ==
    /\ \A g, h \in Helper : Running(g) /\ Running(h) => g = h
    /\ \A h \in Helper : Running(h) \/ (h \notin nulls /\ known[h] = {} /\ fd[h] = {})

\* How far the running helper has come with its list. The temporary file is not in force.
TextAt(h) ==
    /\ pc[h] = "fill" => fd[h] = tmp /\ \A i \in tmp : text[i].by = {}
    /\ pc[h] # "fill" => fd[h] = {}
    /\ pc[h] = "rename" => \A i \in tmp : text[i] = [list |-> sel[h], by |-> {h}]
    /\ pc[h] \in {"fill", "rename"} => tmp # {}
    /\ ok[h] => pc[h] = "idle"

ListInProgress ==
    /\ \A p \in Parent : file[p] \cap tmp = {}
    /\ \A i, j \in tmp : i = j
    /\ \A p \in Parent : \A i, j \in file[p] : i = j
    /\ \A h \in Helper : TextAt(h)

\* With one helper there is one null sink at most, and the mirror knows no other.
NullInProgress ==
    /\ \A h \in Helper : known[h] \subseteq nulls
    /\ \A h \in Helper : pc[h] \in {"open", "fill", "rename"} /\ sel[h] # {} => nulls # {}

HInv ==
    /\ HostTypeOK /\ OneRuns /\ ListInProgress /\ NullInProgress
    /\ ListsScoped /\ AcceptedInForce /\ NullWhileSharing

\* Nothing runs and nothing is there.
LEMMA InitHInv == HostInit => HInv
  BY DEF HostInit, HInv, HostTypeOK, OneRuns, ListInProgress, TextAt, NullInProgress,
         ListsScoped, AcceptedInForce, NullWhileSharing, Running, Empty

\* Every step keeps the types.
LEMMA StepType == HostTypeOK /\ [HostNext]_hostVars => HostTypeOK'
  <1>. SUFFICES ASSUME HostTypeOK, [HostNext]_hostVars PROVE HostTypeOK'
    OBVIOUS
  <1>. USE DEF HostTypeOK, directory, sinks, Goto, Fail
  <1>1. CASE UNCHANGED hostVars
    BY <1>1 DEF hostVars
  <1>2. ASSUME NEW h \in Helper, Step(h) PROVE HostTypeOK'
    <2>1. CASE Start(h)
      BY <2>1 DEF Start
    <2>2. CASE Ends(h)
      BY <2>2 DEF Ends
    <2>3. CASE SetTargets(h)
      BY <2>3 DEF SetTargets
    <2>4. CASE EnsureNullSink(h)
      BY <2>4 DEF EnsureNullSink
    <2>5. CASE NullSinkAwaited(h)
      BY <2>5 DEF NullSinkAwaited
    <2>6. CASE Open(h)
      <3>1. Empty \in [list : SUBSET App, by : SUBSET Helper]
        BY DEF Empty
      <3>2. CASE Fail(h) /\ UNCHANGED <<tmp, text, fd>>
        BY <2>6, <3>2 DEF Open
      <3>3. ASSUME NEW i \in Inode, tmp' = {i}, text' = [text EXCEPT ![i] = Empty],
                   fd' = [fd EXCEPT ![h] = {i}], Goto(h, "fill")
            PROVE  HostTypeOK'
        BY <2>6, <3>1, <3>3 DEF Open
      <3>. QED  BY <2>6, <3>2, <3>3 DEF Open, Free
    <2>7. CASE Fill(h)
      <3>1. \A i \in Inode : Written(text[i], h) \subseteq [list : SUBSET App, by : SUBSET Helper]
        BY DEF Written
      <3>. QED  BY <2>7, <3>1 DEF Fill
    <2>8. CASE Rename(h)
      BY <2>8 DEF Rename, Install
    <2>. QED  BY <1>2, <2>1, <2>2, <2>3, <2>4, <2>5, <2>6, <2>7, <2>8 DEF Step
  <1>3. ASSUME NEW h \in Helper, NEW g \in Helper, Hears(h, g) PROVE HostTypeOK'
    BY <1>3 DEF Hears
  <1>. QED  BY <1>1, <1>2, <1>3 DEF HostNext

\* When h takes a step no other helper runs, and what the others know stays.
LEMMA Solo ==
    ASSUME Alone, HostTypeOK, OneRuns, NEW h \in Helper, Step(h), NEW g \in Helper, g # h
    PROVE  /\ pc[g] \in {"new", "gone"} /\ pc'[g] = pc[g]
           /\ g \notin nulls /\ g \notin nulls'
           /\ known[g] = {} /\ known'[g] = {} /\ fd[g] = {} /\ fd'[g] = {}
  <1>. USE DEF HostTypeOK, OneRuns, Running, Goto, Fail, sinks
  <1>1. CASE Start(h)
    BY <1>1 DEF Start
  <1>2. CASE Ends(h)
    BY <1>2 DEF Ends
  <1>3. CASE SetTargets(h)
    BY <1>3 DEF SetTargets
  <1>4. CASE EnsureNullSink(h)
    BY <1>4 DEF EnsureNullSink
  <1>5. CASE NullSinkAwaited(h)
    BY <1>5 DEF NullSinkAwaited
  <1>6. CASE Open(h)
    BY <1>6 DEF Open
  <1>7. CASE Fill(h)
    BY <1>7 DEF Fill
  <1>8. CASE Rename(h)
    BY <1>8 DEF Rename
  <1>. QED
    BY <1>1, <1>2, <1>3, <1>4, <1>5, <1>6, <1>7, <1>8 DEF Step

\* Every step of a helper and every event keeps the rest.
LEMMA StepHInv == ASSUME Alone PROVE HInv /\ [HostNext]_hostVars => HInv'
  <1>. SUFFICES ASSUME HInv, [HostNext]_hostVars PROVE HInv'
    OBVIOUS
  <1>t. HostTypeOK /\ HostTypeOK'
    BY StepType DEF HInv
  <1>1. CASE UNCHANGED hostVars
    BY <1>t, <1>1
    DEF HInv, OneRuns, ListInProgress, TextAt, NullInProgress, ListsScoped, AcceptedInForce,
        NullWhileSharing, Running, hostVars, directory, sinks
  <1>2. ASSUME NEW h \in Helper, Step(h) PROVE HInv'
    <2>s. \A g \in Helper : g # h =>
             /\ pc[g] \in {"new", "gone"} /\ pc'[g] = pc[g]
             /\ g \notin nulls /\ g \notin nulls'
             /\ known[g] = {} /\ known'[g] = {} /\ fd[g] = {} /\ fd'[g] = {}
      BY <1>t, <1>2, Solo DEF HInv
    <2>. USE <1>t, <2>s DEF HInv, HostTypeOK, directory, sinks, Goto
    <2>1. CASE Start(h)
      <3>1. OneRuns'
        BY <2>1 DEF OneRuns, Running, Start
      <3>2. ListInProgress'
        BY <2>1 DEF ListInProgress, TextAt, Start
      <3>3. NullInProgress'
        BY <2>1 DEF NullInProgress, NullWhileSharing, Start
      <3>4. ListsScoped'
        BY <2>1 DEF ListsScoped, ListInProgress, TextAt, Start
      <3>5. AcceptedInForce'
        BY <2>1 DEF AcceptedInForce, ListInProgress, TextAt, Start
      <3>6. NullWhileSharing'
        BY <2>1 DEF NullWhileSharing, NullInProgress, ListInProgress, TextAt, Start
      <3>. QED  BY <3>1, <3>2, <3>3, <3>4, <3>5, <3>6
    <2>2. CASE Ends(h)
      <3>1. OneRuns'
        BY <2>2 DEF OneRuns, Running, Ends
      <3>2. ListInProgress'
        BY <2>2 DEF ListInProgress, TextAt, Ends
      <3>3. NullInProgress'
        BY <2>2 DEF NullInProgress, NullWhileSharing, Ends
      <3>4. ListsScoped'
        BY <2>2 DEF ListsScoped, ListInProgress, TextAt, Ends
      <3>5. AcceptedInForce'
        BY <2>2 DEF AcceptedInForce, ListInProgress, TextAt, Ends
      <3>6. NullWhileSharing'
        BY <2>2 DEF NullWhileSharing, NullInProgress, ListInProgress, TextAt, Ends
      <3>. QED  BY <3>1, <3>2, <3>3, <3>4, <3>5, <3>6
    <2>3. CASE SetTargets(h)
      <3>1. OneRuns'
        BY <2>3 DEF OneRuns, Running, SetTargets
      <3>2. ListInProgress'
        BY <2>3 DEF ListInProgress, TextAt, SetTargets
      <3>3. NullInProgress'
        BY <2>3 DEF NullInProgress, NullWhileSharing, SetTargets
      <3>4. ListsScoped'
        BY <2>3 DEF ListsScoped, ListInProgress, TextAt, SetTargets
      <3>5. AcceptedInForce'
        BY <2>3 DEF AcceptedInForce, ListInProgress, TextAt, SetTargets
      <3>6. NullWhileSharing'
        BY <2>3 DEF NullWhileSharing, NullInProgress, ListInProgress, TextAt, SetTargets
      <3>. QED  BY <3>1, <3>2, <3>3, <3>4, <3>5, <3>6
    <2>4. CASE EnsureNullSink(h)
      <3>1. OneRuns'
        BY <2>4 DEF OneRuns, Running, EnsureNullSink, Exists, Fail
      <3>2. ListInProgress'
        <4>1. pc[h] = "null" /\ pc'[h] \in {"open", "wait", "idle"} /\ ~ok[h]
          BY <2>4, ZenonT(60) DEF ListInProgress, TextAt, EnsureNullSink, Fail
        <4>2. UNCHANGED <<file, tmp, text, sel, ok, fd>>
          BY <2>4 DEF EnsureNullSink
        <4>. QED  BY <4>1, <4>2, SMTT(30) DEF ListInProgress, TextAt
      <3>3. NullInProgress'
        BY <2>4 DEF NullInProgress, NullWhileSharing, EnsureNullSink, Exists, Fail
      <3>4. ListsScoped'
        BY <2>4 DEF ListsScoped, ListInProgress, TextAt, EnsureNullSink, Exists, Fail
      <3>5. AcceptedInForce'
        BY <2>4 DEF AcceptedInForce, ListInProgress, TextAt, EnsureNullSink, Exists, Fail
      <3>6. NullWhileSharing'
        BY <2>4 DEF NullWhileSharing, NullInProgress, ListInProgress, TextAt, EnsureNullSink, Exists, Fail
      <3>. QED  BY <3>1, <3>2, <3>3, <3>4, <3>5, <3>6
    <2>5. CASE NullSinkAwaited(h)
      <3>1. OneRuns'
        BY <2>5, SMTT(30) DEF OneRuns, Running, NullSinkAwaited, Fail
      <3>2. ListInProgress'
        BY <2>5 DEF ListInProgress, TextAt, NullSinkAwaited, Fail
      <3>3. NullInProgress'
        BY <2>5 DEF NullInProgress, NullWhileSharing, NullSinkAwaited, Fail
      <3>4. ListsScoped'
        BY <2>5 DEF ListsScoped, ListInProgress, TextAt, NullSinkAwaited, Fail
      <3>5. AcceptedInForce'
        BY <2>5 DEF AcceptedInForce, ListInProgress, TextAt, NullSinkAwaited, Fail
      <3>6. NullWhileSharing'
        BY <2>5 DEF NullWhileSharing, NullInProgress, ListInProgress, TextAt, NullSinkAwaited, Fail
      <3>. QED  BY <3>1, <3>2, <3>3, <3>4, <3>5, <3>6
    <2>6. CASE Open(h)
      <3>1. OneRuns'
        BY <2>6, ZenonT(60) DEF OneRuns, Running, Open, Free, Empty, Fail
      <3>2. ListInProgress'
        <4>1. CASE Fail(h) /\ UNCHANGED <<tmp, text, fd>>
          BY <2>6, <4>1 DEF ListInProgress, TextAt, Open, Fail
        <4>2. ASSUME NEW i \in IF tmp = {} THEN Free ELSE tmp,
                     tmp' = {i}, text' = [text EXCEPT ![i] = Empty],
                     fd' = [fd EXCEPT ![h] = {i}], pc' = [pc EXCEPT ![h] = "fill"]
              PROVE  ListInProgress'
          <5>1. i \in Inode /\ \A p \in Parent : i \notin file[p]
            BY <4>2 DEF Free, ListInProgress
          <5>2. ~ok[h] /\ UNCHANGED <<file, sel, ok>>
            BY <2>6 DEF Open, ListInProgress, TextAt
          <5>3. TextAt(h)'
            BY <4>2, <5>1, <5>2 DEF TextAt, Empty
          <5>4. \A g \in Helper : g # h => TextAt(g)'
            BY <5>2 DEF ListInProgress, TextAt
          <5>. QED  BY <4>2, <5>1, <5>2, <5>3, <5>4 DEF ListInProgress
        <4>. QED  BY <2>6, <4>1, <4>2 DEF Open
      <3>3. NullInProgress'
        BY <2>6 DEF NullInProgress, NullWhileSharing, Open, Free, Empty, Fail
      <3>4. ListsScoped'
        <4>1. file' = file /\ \A p \in Parent : \A i \in file[p] : text'[i] = text[i]
          BY <2>6 DEF Open, Free, ListInProgress
        <4>. QED  BY <4>1, SMTT(30) DEF ListsScoped
      <3>5. AcceptedInForce'
        BY <2>6 DEF AcceptedInForce, ListInProgress, TextAt, Open, Free, Empty, Fail
      <3>6. NullWhileSharing'
        BY <2>6 DEF NullWhileSharing, NullInProgress, ListInProgress, TextAt, Open, Free, Empty, Fail
      <3>. QED  BY <3>1, <3>2, <3>3, <3>4, <3>5, <3>6
    <2>7. CASE Fill(h)
      <3>1. OneRuns'
        BY <2>7 DEF OneRuns, Running, Fill, Written, Fail
      <3>a. fd[h] = tmp /\ ~ok[h] /\ \A i \in tmp : text[i].by = {}
        BY <2>7 DEF Fill, ListInProgress, TextAt
      <3>b. /\ pc'[h] \in {"idle", "rename"} /\ fd'[h] = {} /\ UNCHANGED <<file, tmp, sel, ok>>
            /\ \A i \in Inode : i \notin tmp => text'[i] = text[i]
            /\ pc'[h] = "rename" =>
                   tmp # {} /\ \A i \in tmp : text'[i] = [list |-> sel[h], by |-> {h}]
        <4>1. fd'[h] = {} /\ UNCHANGED <<file, tmp, sel, ok>>
          BY <2>7 DEF Fill
        <4>2. CASE Fail(h) /\ UNCHANGED text
          BY <4>1, <4>2 DEF Fail
        <4>3. CASE ~(Fail(h) /\ UNCHANGED text)
          <5>0. PICK i \in fd[h] : \E new \in Written(text[i], h) :
                   text' = [text EXCEPT ![i] = new] /\ pc' = [pc EXCEPT ![h] = "rename"]
            BY <2>7, <4>3 DEF Fill
          <5>1. PICK new \in Written(text[i], h) :
                   text' = [text EXCEPT ![i] = new] /\ pc' = [pc EXCEPT ![h] = "rename"]
            BY <5>0
          <5>2. new = [list |-> sel[h], by |-> {h}]
            BY <3>a DEF Written
          <5>3. i \in tmp /\ \A j \in tmp : j = i
            BY <3>a DEF ListInProgress
          <5>. QED  BY <4>1, <5>1, <5>2, <5>3
        <4>. QED  BY <4>2, <4>3
      <3>2. ListInProgress'
        <4>1. TextAt(h)'
          BY <3>a, <3>b DEF TextAt
        <4>2. \A g \in Helper : g # h => TextAt(g)'
          BY <3>b DEF ListInProgress, TextAt
        <4>. QED  BY <3>b, <4>1, <4>2 DEF ListInProgress
      <3>3. NullInProgress'
        BY <2>7 DEF NullInProgress, NullWhileSharing, Fill, Written, Fail
      <3>4. ListsScoped'
        BY <3>b DEF ListsScoped, ListInProgress
      <3>5. AcceptedInForce'
        BY <2>7 DEF AcceptedInForce, ListInProgress, TextAt, Fill, Written, Fail
      <3>6. NullWhileSharing'
        BY <2>7 DEF NullWhileSharing, NullInProgress, ListInProgress, TextAt, Fill, Written, Fail
      <3>. QED  BY <3>1, <3>2, <3>3, <3>4, <3>5, <3>6
    <2>8. CASE Rename(h)
      <3>1. OneRuns'
        BY <2>8 DEF OneRuns, Running, Rename, Install
      <3>2. ListInProgress'
        BY <2>8 DEF ListInProgress, TextAt, Rename, Install
      <3>3. NullInProgress'
        BY <2>8 DEF NullInProgress, NullWhileSharing, Rename, Install
      <3>4. ListsScoped'
        <4>0. UNCHANGED text /\ \A i \in tmp : text[i] = [list |-> sel[h], by |-> {h}]
          BY <2>8 DEF Rename, ListInProgress, TextAt
        <4>1. UNCHANGED text /\ \A i \in tmp : text[i].by = {h}
          BY <4>0
        <4>2. file' = file \/ file' = [file EXCEPT ![ParentOf[h]] = tmp]
          BY <2>8 DEF Rename, Install
        <4>3. ParentOf[h] \in Parent
          OBVIOUS
        <4>. QED  BY <4>1, <4>2, <4>3, SMTT(30) DEF ListsScoped
      <3>5. AcceptedInForce'
        BY <2>8 DEF AcceptedInForce, ListInProgress, TextAt, Rename, Install
      <3>6. NullWhileSharing'
        BY <2>8 DEF NullWhileSharing, NullInProgress, ListInProgress, TextAt, Rename, Install
      <3>. QED  BY <3>1, <3>2, <3>3, <3>4, <3>5, <3>6
    <2>. QED  BY <1>2, <2>1, <2>2, <2>3, <2>4, <2>5, <2>6, <2>7, <2>8 DEF Step
  <1>3. ASSUME NEW h \in Helper, NEW g \in Helper, Hears(h, g) PROVE HInv'
    BY <1>t, <1>3, SMTT(30)
    DEF HInv, HostTypeOK, OneRuns, ListInProgress, TextAt, NullInProgress, ListsScoped,
        AcceptedInForce, NullWhileSharing, Running, Hears, directory, sinks
  <1>. QED  BY <1>1, <1>2, <1>3 DEF HostNext

LEMMA HostInvariance == ASSUME Alone PROVE HostSpec => []HInv
  BY InitHInv, StepHInv, PTL DEF HostSpec

\* What a shim reads is a whole list that a helper of its own Discord wrote
\* (write_discord_capture_allowlist), wherever helpers were stopped.
THEOREM ListsAreScoped == ASSUME Alone PROVE HostSpec => []ListsScoped
  <1>1. HInv => ListsScoped
    BY DEF HInv
  <1>. QED  BY <1>1, HostInvariance, PTL

\* A selection that was accepted is the list in force until the next request.
THEOREM AcceptedStays == ASSUME Alone PROVE HostSpec => []AcceptedInForce
  <1>1. HInv => AcceptedInForce
    BY DEF HInv
  <1>. QED  BY <1>1, HostInvariance, PTL

\* While a helper shares something there is a null sink for what the shim blocks
\* (ensure_discord_capture_null_sink).
THEOREM NullSinkStays == ASSUME Alone PROVE HostSpec => []NullWhileSharing
  <1>1. HInv => NullWhileSharing
    BY DEF HInv
  <1>. QED  BY <1>1, HostInvariance, PTL

--------------------------------------------------------------------------------
(* The composition with the shim. *)

Agreed == listed = InForce

CInv == HInv /\ IInv /\ Agreed

LEMMA InitCInv == CaptureInit => CInv
  <1>. SUFFICES ASSUME CaptureInit PROVE CInv
    OBVIOUS
  <1>1. HInv /\ IInv
    BY InitHInv, Initially DEF CaptureInit
  <1>2. listed = {} /\ file[Shimmed] = {}
    BY ShimConstants DEF CaptureInit, HostInit
  <1>3. InForce = {}
    BY <1>2 DEF InForce
  <1>. QED  BY <1>1, <1>2, <1>3 DEF CInv, Agreed

\* A step of a helper is a step of CaptureHost, and for the streams a new list or none.
LEMMA HostStepIs ==
    ASSUME HostTypeOK', HostStep
    PROVE  HostNext /\ [Next]_vars /\ Agreed'
  <1>1. Agreed'
    BY DEF HostStep, Agreed, InForce
  <1>2. listed' \in SUBSET Input
    <2>1. \A i \in file'[Shimmed] : text'[i].list \subseteq App
      BY ShimConstants DEF HostTypeOK
    <2>. QED  BY <2>1, ShimConstants DEF HostStep, InForce
  <1>3. CASE changed' = changed /\ listed' = listed
    BY <1>1, <1>3 DEF HostStep, vars
  <1>4. CASE changed' = [a \in Addr |-> TRUE]
    BY <1>1, <1>2, <1>4 DEF HostStep, Next, SelectionReplaced
  <1>. QED  BY <1>3, <1>4 DEF HostStep

LEMMA StepCInv == ASSUME Alone PROVE CInv /\ [CaptureNext]_allVars => CInv'
  <1>. SUFFICES ASSUME CInv, [CaptureNext]_allVars PROVE CInv'
    OBVIOUS
  <1>1. ASSUME [HostNext]_hostVars, [Next]_vars, Agreed' PROVE CInv'
    BY <1>1, StepHInv, Inductive DEF CInv
  <1>2. CASE HostStep
    <2>1. HostTypeOK'
      BY <1>2, StepType DEF CInv, HInv, HostStep
    <2>. QED  BY <1>1, <1>2, <2>1, HostStepIs
  <1>3. CASE StreamStep
    <2>1. UNCHANGED hostVars /\ Next
      BY <1>3 DEF StreamStep, Next
    <2>2. UNCHANGED listed
      BY <1>3 DEF StreamStep, Discord, Shim, StreamCreated, StreamFreed, IsAllowed, Forward,
                  Suppress, IsBlocked, ConnectRecord
    <2>3. Agreed'
      BY <2>1, <2>2 DEF CInv, Agreed, InForce, hostVars, directory
    <2>. QED  BY <1>1, <2>1, <2>3
  <1>4. CASE UNCHANGED allVars
    <2>1. UNCHANGED hostVars /\ UNCHANGED vars
      BY <1>4 DEF allVars
    <2>2. Agreed'
      BY <2>1 DEF CInv, Agreed, InForce, hostVars, directory, vars
    <2>. QED  BY <1>1, <2>1, <2>2
  <1>. QED  BY <1>2, <1>3, <1>4 DEF CaptureNext

\* Whatever the helpers do to the lists is a replacement to the shim, and no step of the shim
\* touches what the helpers share: what is proved of either part holds of both together.
THEOREM PartsAreImplemented == CaptureSpec => HostSpec /\ Spec
  <1>1. CaptureInit => HostInit /\ Init /\ HostTypeOK
    BY InitHInv DEF CaptureInit, HInv
  <1>2. HostTypeOK /\ [CaptureNext]_allVars => HostTypeOK' /\ [HostNext]_hostVars /\ [Next]_vars
    <2>. SUFFICES ASSUME HostTypeOK, [CaptureNext]_allVars
                  PROVE  HostTypeOK' /\ [HostNext]_hostVars /\ [Next]_vars
      OBVIOUS
    <2>1. CASE HostStep
      <3>1. HostNext
        BY <2>1 DEF HostStep
      <3>2. HostTypeOK'
        BY <3>1, StepType
      <3>. QED  BY <2>1, <3>1, <3>2, HostStepIs
    <2>2. CASE StreamStep
      BY <2>2, StepType DEF StreamStep, Next
    <2>3. CASE UNCHANGED allVars
      BY <2>3, StepType DEF allVars
    <2>. QED  BY <2>1, <2>2, <2>3 DEF CaptureNext
  <1>. QED  BY <1>1, <1>2, PTL DEF CaptureSpec, HostSpec, Spec

\* From the request to the ear: what a capture records, under a selection that was accepted
\* before it was set up, is what that selection says (set_discord_capture_targets, is_allowed).
THEOREM SelectionIsHeard == ASSUME Alone PROVE CaptureSpec => []HeardIsSelected
  <1>1. CInv => HeardIsSelected
    <2>. SUFFICES ASSUME CInv, NEW a \in Addr, NEW h \in Helper, Recording(a), ~changed[a],
                         ParentOf[h] = Shimmed, pc[h] = "idle", ok[h]
                  PROVE  source[a] = "app" <=> wanted[a] \subseteq sel[h]
      BY DEF HeardIsSelected
    <2>1. PICK i \in file[Shimmed] : text[i] = [list |-> sel[h], by |-> {h}]
      BY DEF CInv, HInv, AcceptedInForce
    <2>2. file[Shimmed] = {i}
      BY <2>1, ShimConstants DEF CInv, HInv, ListInProgress
    <2>3. listed = sel[h]
      BY <2>1, <2>2 DEF CInv, Agreed, InForce
    <2>4. source[a] = "app" <=> Allowed(a)
      BY DEF CInv, IInv, MarkedOrTargeted, DecidedByList, Recording
    <2>. QED  BY <2>3, <2>4 DEF Allowed
  <1>. QED  BY <1>1, InitCInv, StepCInv, PTL DEF CaptureSpec
================================================================================
