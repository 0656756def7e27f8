-------------------------- MODULE LegacySessionProofs --------------------------
(* Theorems about LegacySession, for every value of the constants. *)
EXTENDS LegacySession, TLAPS

USE LegacyConstants DEF server, record, locals, history, legacyVars

--------------------------------------------------------------------------------
(* Type correctness. *)

\* The initial state is well formed.
LEMMA InitType == LegacyInit => LegacyTypeOK
  BY DEF LegacyInit, LegacyTypeOK, Sinks

\* A variable with a part for each helper keeps its type when one part changes.
LEMMA PartType ==
    ASSUME NEW T, NEW f \in [Session -> T], NEW s \in Session, NEW e \in T
    PROVE  [f EXCEPT ![s] = e] \in [Session -> T]
  OBVIOUS

\* What a request leaves behind is well formed.
LEMMA TakeType ==
    ASSUME LegacyTypeOK, NEW s \in Session, NEW op \in Op, NEW sel \in SUBSET Output,
           Take(s, op, sel)
    PROVE  /\ req' \in [Session -> [op : Op \cup {"none"}, sel : SUBSET Output]]
           /\ served' \in 0..MaxRequests
  BY DEF LegacyTypeOK, Take

\* Every step keeps the types.
LEMMA TypeStep == LegacyTypeOK /\ [LegacyNext]_legacyVars => LegacyTypeOK'
  <1>. SUFFICES ASSUME LegacyTypeOK, [LegacyNext]_legacyVars PROVE LegacyTypeOK'
    OBVIOUS
  <1>a. /\ listed \in [Session -> SUBSET Id] /\ desired \in [Session -> SUBSET Route]
        /\ todo \in [Session -> SUBSET Route] /\ kept \in [Session -> SUBSET Route]
        /\ stuck \in [Session -> SUBSET Route] /\ routes \in [Session -> SUBSET Route]
        /\ spared \subseteq Module /\ module_id \in [Session -> Id \cup {0}]
    BY DEF LegacyTypeOK
  <1>b. ASSUME NEW s \in Session, BeginClear(s)
        PROVE  /\ desired' \in [Session -> SUBSET Route] /\ todo' \in [Session -> SUBSET Route]
               /\ kept' \in [Session -> SUBSET Route] /\ stuck' \in [Session -> SUBSET Route]
    BY <1>a, <1>b, PartType DEF BeginClear
  <1>. USE DEF LegacyTypeOK, Goto, Answer, Sinks, Op
  <1>1. ASSUME NEW s \in Session, Start(s) PROVE LegacyTypeOK'
    BY <1>1 DEF Start
  <1>2. ASSUME NEW s \in Session, ListModules(s) PROVE LegacyTypeOK'
    <2>1. Matching(s) \subseteq Module
      BY DEF Matching
    <2>2. {m.n : m \in Matching(s)} \in SUBSET Id
      BY <2>1 DEF Module
    <2>3. [listed EXCEPT ![s] = {m.n : m \in Matching(s)}] \in [Session -> SUBSET Id]
      BY <1>a, <2>2, PartType
    <2>4. listed' \in [Session -> SUBSET Id] /\ spared' \subseteq Module
      BY <1>a, <1>2, <2>1, <2>3 DEF ListModules
    <2>. QED  BY <1>2, <2>4 DEF ListModules
  <1>3. ASSUME NEW s \in Session, Purge(s) PROVE LegacyTypeOK'
    BY <1>3 DEF Purge, Unload, Named
  <1>4. ASSUME NEW s \in Session, Swept(s) PROVE LegacyTypeOK'
    <2>1. tries' \in [Session -> 0..3]
      BY <1>4, SMTT(30) DEF Swept
    <2>. QED  BY <1>4, <2>1, ZenonT(60) DEF Swept
  <1>5. ASSUME NEW s \in Session, Ensure(s) PROVE LegacyTypeOK'
    BY <1>5 DEF Ensure, Take
  <1>6. ASSUME NEW s \in Session, RouteNodes(s) PROVE LegacyTypeOK'
    <2>1. PICK sel \in Selections :
            /\ Take(s, "route", sel)
            /\ res' = [res EXCEPT ![s] = "none"]
            /\ UNCHANGED <<tries, failed>>
            /\ IF sel = {} THEN BeginClear(s)
                           ELSE Goto(s, "look") /\ UNCHANGED <<desired, todo, kept, stuck>>
      BY <1>6 DEF RouteNodes
    <2>2. /\ desired' \in [Session -> SUBSET Route] /\ todo' \in [Session -> SUBSET Route]
          /\ kept' \in [Session -> SUBSET Route] /\ stuck' \in [Session -> SUBSET Route]
      BY <1>a, <1>b, <2>1
    <2>3. pc' \in [Session -> {"new", "list", "purge", "idle", "look", "load", "wait", "mic",
                              "snapshot", "link", "unlink", "unmic", "unsink", "disposed",
                              "gone"}]
      BY <2>1, ZenonT(60) DEF BeginClear
    <2>4. sel \in SUBSET Output /\ "route" \in Op
      BY LegacyConstants DEF LegacyConstants
    <2>. QED  BY <2>1, <2>2, <2>3, <2>4, TakeType DEF Take
  <1>7. ASSUME NEW s \in Session, ClearRoutes(s) PROVE LegacyTypeOK'
    BY <1>7 DEF ClearRoutes, Take, BeginClear
  <1>8. ASSUME NEW s \in Session, Unsupported(s) PROVE LegacyTypeOK'
    BY <1>8 DEF Unsupported, Take
  <1>9. ASSUME NEW s \in Session, Dispose(s) PROVE LegacyTypeOK'
    BY <1>9 DEF Dispose, Take, BeginClear
  <1>10. ASSUME NEW s \in Session, StdinClosed(s) PROVE LegacyTypeOK'
    BY <1>10 DEF StdinClosed, BeginClear
  <1>11. ASSUME NEW s \in Session, Look(s) PROVE LegacyTypeOK'
    BY <1>11, ZenonT(60) DEF Look, Own
  <1>12. ASSUME NEW s \in Session, LoadSink(s) PROVE LegacyTypeOK'
    <2>1. modules' \subseteq Module /\ modules \subseteq modules'
      BY <1>12 DEF LoadSink, FreeId, Module
    <2>2. module_id' \in [Session -> Id \cup {0}]
      <3>1. module_id' = module_id \/ \E n \in Id : module_id' = [module_id EXCEPT ![s] = n]
        BY <1>12 DEF LoadSink, FreeId
      <3>2. \A n \in Id : [module_id EXCEPT ![s] = n] \in [Session -> Id \cup {0}]
        BY <1>a, PartType
      <3>. QED  BY <1>a, <3>1, <3>2, ZenonT(60)
    <2>. QED  BY <1>12, <2>1, <2>2, ZenonT(60) DEF LoadSink
  <1>13. ASSUME NEW s \in Session, SinkReady(s) PROVE LegacyTypeOK'
    BY <1>13 DEF SinkReady
  <1>14. ASSUME NEW s \in Session, SinkTimeout(s) PROVE LegacyTypeOK'
    BY <1>14 DEF SinkTimeout
  <1>15. ASSUME NEW s \in Session, LoadMic(s) PROVE LegacyTypeOK'
    <2>1. modules' \subseteq Module /\ modules \subseteq modules'
      BY <1>15 DEF LoadMic, FreeId, Module
    <2>2. remap_module_id' \in [Session -> Id \cup {0}]
      BY <1>15, ZenonT(60) DEF LoadMic, FreeId
    <2>3. /\ pc' \in [Session -> {"new", "list", "purge", "idle", "look", "load", "wait", "mic",
                                 "snapshot", "link", "unlink", "unmic", "unsink", "disposed",
                                 "gone"}]
          /\ res' \in [Session -> {"none", "ok", "err"}]
      <3>1. CASE Ensured(s)
        BY <3>1, ZenonT(60) DEF Ensured
      <3>2. CASE Answer(s, "err")
        BY <3>2
      <3>. QED  BY <1>15, <3>1, <3>2 DEF LoadMic
    <2>. QED  BY <1>15, <2>1, <2>2, <2>3 DEF LoadMic
  <1>16. ASSUME NEW s \in Session, Snapshot(s) PROVE LegacyTypeOK'
    <2>1. \A m \in ready : Wanted(s, m) \in SUBSET Route
      BY DEF Wanted
    <2>2. /\ desired' \in [Session -> SUBSET Route] /\ todo' \in [Session -> SUBSET Route]
          /\ kept' \in [Session -> SUBSET Route]
      <3>1. CASE UNCHANGED <<desired, todo, kept>>
        BY <1>a, <3>1
      <3>2. ASSUME NEW R \in SUBSET Route, desired' = [desired EXCEPT ![s] = R],
                   todo' = [todo EXCEPT ![s] = R], kept' = [kept EXCEPT ![s] = {}]
            PROVE  /\ desired' \in [Session -> SUBSET Route]
                   /\ todo' \in [Session -> SUBSET Route]
                   /\ kept' \in [Session -> SUBSET Route]
        BY <1>a, <3>2, PartType
      <3>. QED  BY <1>16, <2>1, <3>1, <3>2 DEF Snapshot
    <2>. QED  BY <1>16, <2>2, ZenonT(60) DEF Snapshot
  <1>17. ASSUME NEW s \in Session, MakeLink(s) PROVE LegacyTypeOK'
    BY <1>17 DEF MakeLink, CreateLink
  <1>18. ASSUME NEW s \in Session, LinksMade(s) PROVE LegacyTypeOK'
    <2>1. todo' \in [Session -> SUBSET Route] /\ stuck' \in [Session -> SUBSET Route]
      <3>1. Stale(s) \in SUBSET Route
        BY <1>a DEF Stale
      <3>2. /\ [todo EXCEPT ![s] = Stale(s)] \in [Session -> SUBSET Route]
            /\ [stuck EXCEPT ![s] = {}] \in [Session -> SUBSET Route]
        BY <1>a, <3>1, PartType
      <3>. QED  BY <1>a, <1>18, <3>2 DEF LinksMade
    <2>. QED  BY <1>18, <2>1, ZenonT(60) DEF LinksMade
  <1>19. ASSUME NEW s \in Session, Unlink(s) PROVE LegacyTypeOK'
    <2>1. /\ todo' \in [Session -> SUBSET Route] /\ kept' \in [Session -> SUBSET Route]
          /\ stuck' \in [Session -> SUBSET Route]
      <3>1. PICK r \in Route :
              /\ todo' = [todo EXCEPT ![s] = @ \ {r}]
              /\ kept' = kept \/ kept' = [kept EXCEPT ![s] = @ \cup {r}]
              /\ stuck' = stuck \/ stuck' = [stuck EXCEPT ![s] = @ \cup {r}]
        BY <1>a, <1>19 DEF Unlink, Retain
      <3>2. /\ todo[s] \ {r} \in SUBSET Route /\ kept[s] \cup {r} \in SUBSET Route
            /\ stuck[s] \cup {r} \in SUBSET Route
        BY <1>a
      <3>3. /\ [todo EXCEPT ![s] = @ \ {r}] \in [Session -> SUBSET Route]
            /\ [kept EXCEPT ![s] = @ \cup {r}] \in [Session -> SUBSET Route]
            /\ [stuck EXCEPT ![s] = @ \cup {r}] \in [Session -> SUBSET Route]
        BY <1>a, <3>2, PartType
      <3>. QED  BY <1>a, <3>1, <3>3, ZenonT(60)
    <2>2. links' \subseteq links
      BY <1>19 DEF Unlink, RemoveLink
    <2>. QED  BY <1>19, <2>1, <2>2 DEF Unlink
  <1>20. ASSUME NEW s \in Session, Unlinked(s) PROVE LegacyTypeOK'
    <2>1. routes' \in [Session -> SUBSET Route]
      <3>1. routes' = [routes EXCEPT ![s] = kept[s]] /\ kept[s] \in SUBSET Route
        BY <1>a, <1>20 DEF Unlinked
      <3>. QED  BY <1>a, <3>1, PartType
    <2>2. \/ Answer(s, "ok") /\ UNCHANGED failed
          \/ Answer(s, "err") /\ UNCHANGED failed
          \/ Goto(s, "look") /\ UNCHANGED <<res, failed>>
          \/ /\ Goto(s, "unmic") /\ UNCHANGED res
             /\ failed' = [failed EXCEPT ![s] = @ \/ ~(kept[s] = {})]
      BY <1>20, ZenonT(60) DEF Unlinked
    <2>3. /\ pc' \in [Session -> {"new", "list", "purge", "idle", "look", "load", "wait", "mic",
                                 "snapshot", "link", "unlink", "unmic", "unsink", "disposed",
                                 "gone"}]
          /\ res' \in [Session -> {"none", "ok", "err"}]
          /\ failed' \in [Session -> BOOLEAN]
      BY <2>2, ZenonT(60)
    <2>. QED  BY <1>20, <2>1, <2>3, ZenonT(60) DEF Unlinked
  <1>21. ASSUME NEW s \in Session, UnloadMic(s) PROVE LegacyTypeOK'
    BY <1>21, ZenonT(60) DEF UnloadMic, UnloadById, Unload, Named
  <1>22. ASSUME NEW s \in Session, UnloadSink(s) PROVE LegacyTypeOK'
    BY <1>22, ZenonT(60) DEF UnloadSink, UnloadById, Unload, Named
  <1>23. ASSUME NEW s \in Session, Disposed(s) PROVE LegacyTypeOK'
    <2>1. /\ tries' \in [Session -> 0..3] /\ failed' \in [Session -> BOOLEAN]
          /\ res' \in [Session -> {"none", "ok", "err"}]
      BY <1>23 DEF Disposed
    <2>2. /\ desired' \in [Session -> SUBSET Route] /\ todo' \in [Session -> SUBSET Route]
          /\ kept' \in [Session -> SUBSET Route] /\ stuck' \in [Session -> SUBSET Route]
      BY <1>a, <1>b, <1>23 DEF Disposed
    <2>. QED  BY <1>23, <2>1, <2>2, SMTT(30) DEF Disposed, BeginClear
  <1>24. ASSUME NEW s \in Session, Kill(s) PROVE LegacyTypeOK'
    BY <1>24 DEF Kill
  <1>25. ASSUME NEW m \in modules, SinkShows(m) PROVE LegacyTypeOK'
    BY <1>25 DEF SinkShows
  <1>26. ASSUME NEW o \in Output, AppComes(o) \/ AppGoes(o) PROVE LegacyTypeOK'
    BY <1>26 DEF AppComes, AppGoes
  <1>27. CASE UNCHANGED legacyVars
    BY <1>27
  <1>. QED
    BY <1>1, <1>2, <1>3, <1>4, <1>5, <1>6, <1>7, <1>8, <1>9, <1>10, <1>11, <1>12, <1>13,
       <1>14, <1>15, <1>16, <1>17, <1>18, <1>19, <1>20, <1>21, <1>22, <1>23, <1>24, <1>25,
       <1>26, <1>27 DEF LegacyNext, Serve, Work, World

--------------------------------------------------------------------------------
(* The inductive invariant, helper by helper. *)

\* Ids tell modules apart.
UniqueIds == \A m, k \in modules : m.n = k.n => m = k

\* Between requests the record has every link; in the two loops it is spread over the
\* locals.
LinksAt(s) == \A l \in links : l.by = s =>
    /\ pc[s] = "unlink" => l.route \in todo[s] \cup kept[s]
    /\ pc[s] = "link" =>
          /\ l.route \in routes[s] \cup kept[s]
          /\ l.route \in desired[s] => l.route \in todo[s] \cup kept[s]
    /\ pc[s] \notin {"unlink", "link", "gone"} => l.route \in routes[s]

\* What the loops work on.
PlanAt(s) ==
    /\ pc[s] \in {"snapshot", "link"} => req[s].op = "route" /\ req[s].sel # {}
    /\ pc[s] \in {"link", "unlink"} => \A r \in desired[s] : r[1] \in req[s].sel
    /\ pc[s] = "link" => todo[s] \cup kept[s] \subseteq desired[s]
    /\ pc[s] = "unlink" =>
          /\ req[s].op \in {"route", "clear", "dispose", "eof"}
          /\ todo[s] \subseteq routes[s]
          /\ todo[s] \cap desired[s] = {}
          /\ kept[s] \subseteq desired[s] \cup stuck[s]
    /\ pc[s] \in {"look", "load", "wait", "mic"} =>
          /\ req[s].op \in {"ensure", "route"}
          /\ req[s].op = "route" /\ req[s].sel = {} => routes[s] = {}
    /\ pc[s] \in {"new", "list", "purge"} => req[s].op = "none"
    /\ pc[s] \in {"unmic", "unsink", "disposed"} => req[s].op \in {"dispose", "eof"}

\* The part of SelectionReplaced about s.
SelectedAt(s) ==
    pc[s] = "idle" /\ req[s].op \in {"route", "clear"} /\ res[s] = "ok" =>
        \A l \in links : l.by = s => l.route[1] \in req[s].sel \/ l.route \in stuck[s]

\* A second sink is loaded only when the first has been found late.
ModulesAt(s) ==
    /\ pc[s] = "load" => Own(s) = {} \/ HadLate(s)
    /\ pc[s] # "gone" => \A m \in modules : m.by = s =>
          IF m.kind = "mic" THEN m.n = remap_module_id[s]
                            ELSE m.n = module_id[s] \/ HadLate(s)

\* How far a dispose without an error has come.
DisposedAt(s) == req[s].op = "dispose" =>
    /\ pc[s] \in {"unmic", "unsink", "disposed"} /\ ~failed[s] => routes[s] = {}
    /\ pc[s] \in {"unsink", "disposed"} /\ ~failed[s] => remap_module_id[s] = 0
    /\ pc[s] = "disposed" /\ ~failed[s] => module_id[s] = 0
    /\ res[s] = "ok" =>
          /\ pc[s] = "gone"
          /\ \A l \in links : l.by # s
          /\ \A m \in modules : m.by = s => m.kind = "sink" /\ HadLate(s)

\* The modules of the dead are listed, then gone.
SweptAt(s) == pc[s] \notin {"new", "gone"} =>
    /\ \A t \in before[s] : pc[t] = "gone"
    /\ pc[s] = "purge" /\ tries[s] = 1 =>
          \A m \in modules \ spared : m.by \in before[s] => m.n \in listed[s]
    /\ ~(pc[s] \in {"list", "purge"} /\ tries[s] = 1) =>
          \A m \in modules \ spared : m.by \notin before[s]

At(s) == /\ LinksAt(s) /\ PlanAt(s) /\ SelectedAt(s)
         /\ ModulesAt(s) /\ DisposedAt(s) /\ SweptAt(s)

IInv == LegacyTypeOK /\ UniqueIds /\ \A s \in Session : At(s)

\* It holds initially.
LEMMA InitInv == LegacyInit => IInv
  <1>. SUFFICES ASSUME LegacyInit PROVE IInv
    OBVIOUS
  <1>1. LegacyTypeOK /\ UniqueIds
    BY InitType DEF LegacyInit, UniqueIds
  <1>2. ASSUME NEW s \in Session PROVE At(s)
    BY DEF LegacyInit, At, LinksAt, PlanAt, SelectedAt, ModulesAt, DisposedAt, SweptAt
  <1>. QED  BY <1>1, <1>2 DEF IInv

\* The variables of helper s.
Mine(s) == <<pc[s], req[s], res[s], module_id[s], remap_module_id[s], routes[s], listed[s],
             desired[s], todo[s], kept[s], tries[s], failed[s], before[s], stuck[s]>>

\* What a helper knows of itself stays true whatever the others do: they make no links or
\* modules in its name, and those that are gone make none at all.
LEMMA OthersKeep ==
    ASSUME IInv, NEW s \in Session, Mine(s)' = Mine(s),
           \A l \in links' : l.by = s => l \in links,
           \A m \in modules' : m \in modules \/ (m.by # s /\ pc[m.by] # "gone"),
           late \subseteq late', spared \subseteq spared',
           \A t \in Session : pc[t] = "gone" => pc'[t] = "gone"
    PROVE  At(s)'
  <1>. USE DEF Mine
  <1>1. At(s)
    BY DEF IInv
  <1>2. HadLate(s) => HadLate(s)'
    BY DEF HadLate
  <1>3. LinksAt(s)' /\ PlanAt(s)' /\ SelectedAt(s)'
    BY <1>1 DEF At, LinksAt, PlanAt, SelectedAt
  <1>4. ModulesAt(s)'
    <2>1. Own(s)' \subseteq Own(s)
      BY DEF Own, Sinks
    <2>. QED  BY <1>1, <1>2, <2>1 DEF At, ModulesAt
  <1>5. DisposedAt(s)'
    BY <1>1, <1>2 DEF At, DisposedAt
  <1>6. SweptAt(s)'
    <2>1. before[s] \subseteq Session
      BY DEF IInv, LegacyTypeOK
    <2>. QED  BY <1>1, <2>1, SMTT(30) DEF At, SweptAt
  <1>. QED  BY <1>3, <1>4, <1>5, <1>6 DEF At

\* A step of helper s has to be checked for s alone.
LEMMA StepOf ==
    ASSUME IInv, LegacyTypeOK', UniqueIds', NEW s \in Session, pc[s] # "gone", At(s)',
           \A t \in Session \ {s} : Mine(t)' = Mine(t),
           \A l \in links' : l \in links \/ l.by = s,
           \A m \in modules' : m \in modules \/ m.by = s,
           late \subseteq late', spared \subseteq spared'
    PROVE  IInv'
  <1>1. \A t \in Session : pc[t] = "gone" => pc'[t] = "gone"
    BY DEF Mine
  <1>2. ASSUME NEW t \in Session \ {s} PROVE At(t)'
    <2>1. /\ \A l \in links' : l.by = t => l \in links
          /\ \A m \in modules' : m \in modules \/ (m.by # t /\ pc[m.by] # "gone")
      BY <1>2
    <2>2. Mine(t)' = Mine(t)
      BY <1>2
    <2>. QED  BY <1>1, <2>1, <2>2, OthersKeep
  <1>. QED  BY <1>2 DEF IInv

\* A step leaves the variables of the other helpers alone.
LEMMA Frame ==
    ASSUME LegacyTypeOK, NEW s \in Session, NEW t \in Session, t # s,
           Serve(s) \/ Work(s) \/ Kill(s) \/ StdinClosed(s)
    PROVE  Mine(t)' = Mine(t)
  <1>. USE DEF LegacyTypeOK, Mine, Goto, Answer, Take, BeginClear
  <1>1. CASE Start(s)
    BY <1>1 DEF Start
  <1>2. CASE ListModules(s)
    BY <1>2 DEF ListModules
  <1>3. CASE Purge(s)
    BY <1>3 DEF Purge
  <1>4. CASE Swept(s)
    BY <1>4 DEF Swept
  <1>5. CASE Ensure(s)
    BY <1>5 DEF Ensure
  <1>6. CASE RouteNodes(s)
    BY <1>6 DEF RouteNodes
  <1>7. CASE ClearRoutes(s)
    BY <1>7 DEF ClearRoutes
  <1>8. CASE Unsupported(s)
    BY <1>8 DEF Unsupported
  <1>9. CASE Dispose(s)
    BY <1>9 DEF Dispose
  <1>10. CASE StdinClosed(s)
    BY <1>10 DEF StdinClosed
  <1>11. CASE Look(s)
    BY <1>11 DEF Look
  <1>12. CASE LoadSink(s)
    BY <1>12 DEF LoadSink
  <1>13. CASE SinkReady(s)
    BY <1>13 DEF SinkReady
  <1>14. CASE SinkTimeout(s)
    BY <1>14 DEF SinkTimeout
  <1>15. CASE LoadMic(s)
    BY <1>15 DEF LoadMic, Ensured
  <1>16. CASE Snapshot(s)
    BY <1>16 DEF Snapshot
  <1>17. CASE MakeLink(s)
    BY <1>17 DEF MakeLink
  <1>18. CASE LinksMade(s)
    BY <1>18 DEF LinksMade
  <1>19. CASE Unlink(s)
    BY <1>19 DEF Unlink, Retain
  <1>20. CASE Unlinked(s)
    BY <1>20 DEF Unlinked
  <1>21. CASE UnloadMic(s)
    BY <1>21 DEF UnloadMic, UnloadById
  <1>22. CASE UnloadSink(s)
    BY <1>22 DEF UnloadSink, UnloadById
  <1>23. CASE Disposed(s)
    BY <1>23 DEF Disposed
  <1>24. CASE Kill(s)
    BY <1>24 DEF Kill
  <1>. QED
    BY <1>1, <1>2, <1>3, <1>4, <1>5, <1>6, <1>7, <1>8, <1>9, <1>10, <1>11, <1>12, <1>13,
       <1>14, <1>15, <1>16, <1>17, <1>18, <1>19, <1>20, <1>21, <1>22, <1>23, <1>24
       DEF Serve, Work

\* Only s acts, and only in its own name.
LEMMA Effects ==
    ASSUME IInv, NEW s \in Session, Serve(s) \/ Work(s) \/ Kill(s) \/ StdinClosed(s)
    PROVE  /\ pc[s] # "gone"
           /\ \A l \in links' : l \in links \/ l.by = s
           /\ \A m \in modules' : m \in modules \/ m.by = s
           /\ late \subseteq late' /\ spared \subseteq spared'
  <1>t. LegacyTypeOK /\ At(s)
    BY DEF IInv
  <1>. USE DEF Goto, Answer, Take, LegacyTypeOK
  <1>1. CASE Start(s)
    BY <1>t, <1>1 DEF Start
  <1>2. CASE ListModules(s)
    BY <1>t, <1>2 DEF ListModules, Matching
  <1>3. CASE Purge(s)
    BY <1>t, <1>3 DEF Purge, Unload, Named
  <1>4. CASE Swept(s)
    BY <1>t, <1>4 DEF Swept
  <1>5. CASE Ensure(s)
    BY <1>t, <1>5 DEF Ensure, Take
  <1>6. CASE RouteNodes(s)
    BY <1>t, <1>6 DEF RouteNodes, Take, BeginClear
  <1>7. CASE ClearRoutes(s)
    BY <1>t, <1>7 DEF ClearRoutes, Take, BeginClear
  <1>8. CASE Unsupported(s)
    BY <1>t, <1>8 DEF Unsupported, Take
  <1>9. CASE Dispose(s)
    BY <1>t, <1>9 DEF Dispose, Take, BeginClear
  <1>10. CASE StdinClosed(s)
    BY <1>t, <1>10 DEF StdinClosed, BeginClear
  <1>11. CASE Look(s)
    BY <1>t, <1>11 DEF Look
  <1>12. CASE LoadSink(s)
    BY <1>t, <1>12 DEF LoadSink, FreeId, Named
  <1>13. CASE SinkReady(s)
    BY <1>t, <1>13 DEF SinkReady
  <1>14. CASE SinkTimeout(s)
    BY <1>t, <1>14 DEF SinkTimeout
  <1>15. CASE LoadMic(s)
    BY <1>t, <1>15 DEF LoadMic, Ensured, MicMissing, FreeId, Named
  <1>16. CASE Snapshot(s)
    BY <1>t, <1>16 DEF Snapshot, Wanted
  <1>17. CASE MakeLink(s)
    BY <1>t, <1>17 DEF MakeLink, CreateLink
  <1>18. CASE LinksMade(s)
    BY <1>t, <1>18 DEF LinksMade, Stale
  <1>19. CASE Unlink(s)
    BY <1>t, <1>19 DEF Unlink, RemoveLink, Retain
  <1>20. CASE Unlinked(s)
    BY <1>t, <1>20 DEF Unlinked
  <1>21. CASE UnloadMic(s)
    BY <1>t, <1>21 DEF UnloadMic, UnloadById, Unload, Named
  <1>22. CASE UnloadSink(s)
    BY <1>t, <1>22 DEF UnloadSink, UnloadById, Unload, Named
  <1>23. CASE Disposed(s)
    BY <1>t, <1>23 DEF Disposed, BeginClear
  <1>24. CASE Kill(s)
    BY <1>t, <1>24 DEF Kill
  <1>. QED
    BY <1>1, <1>2, <1>3, <1>4, <1>5, <1>6, <1>7, <1>8, <1>9, <1>10, <1>11, <1>12, <1>13,
       <1>14, <1>15, <1>16, <1>17, <1>18, <1>19, <1>20, <1>21, <1>22, <1>23, <1>24
       DEF Serve, Work

\* A loaded module gets a free id.
LEMMA UniqueStep ==
    ASSUME IInv, NEW s \in Session, Serve(s) \/ Work(s) \/ Kill(s) \/ StdinClosed(s)
    PROVE  UniqueIds'
  <1>t. LegacyTypeOK /\ At(s)
    BY DEF IInv
  <1>. USE DEF UniqueIds, IInv
  <1>1. CASE Start(s)
    BY <1>t, <1>1 DEF Start
  <1>2. CASE ListModules(s)
    BY <1>t, <1>2 DEF ListModules, Matching
  <1>3. CASE Purge(s)
    BY <1>t, <1>3 DEF Purge, Unload, Named
  <1>4. CASE Swept(s)
    BY <1>t, <1>4 DEF Swept
  <1>5. CASE Ensure(s)
    BY <1>t, <1>5 DEF Ensure, Take
  <1>6. CASE RouteNodes(s)
    BY <1>t, <1>6 DEF RouteNodes, Take, BeginClear
  <1>7. CASE ClearRoutes(s)
    BY <1>t, <1>7 DEF ClearRoutes, Take, BeginClear
  <1>8. CASE Unsupported(s)
    BY <1>t, <1>8 DEF Unsupported, Take
  <1>9. CASE Dispose(s)
    BY <1>t, <1>9 DEF Dispose, Take, BeginClear
  <1>10. CASE StdinClosed(s)
    BY <1>t, <1>10 DEF StdinClosed, BeginClear
  <1>11. CASE Look(s)
    BY <1>t, <1>11 DEF Look
  <1>12. CASE LoadSink(s)
    BY <1>t, <1>12 DEF LoadSink, FreeId, Named
  <1>13. CASE SinkReady(s)
    BY <1>t, <1>13 DEF SinkReady
  <1>14. CASE SinkTimeout(s)
    BY <1>t, <1>14 DEF SinkTimeout
  <1>15. CASE LoadMic(s)
    BY <1>t, <1>15 DEF LoadMic, Ensured, MicMissing, FreeId, Named
  <1>16. CASE Snapshot(s)
    BY <1>t, <1>16 DEF Snapshot, Wanted
  <1>17. CASE MakeLink(s)
    BY <1>t, <1>17 DEF MakeLink, CreateLink
  <1>18. CASE LinksMade(s)
    BY <1>t, <1>18 DEF LinksMade, Stale
  <1>19. CASE Unlink(s)
    BY <1>t, <1>19 DEF Unlink, RemoveLink, Retain
  <1>20. CASE Unlinked(s)
    BY <1>t, <1>20 DEF Unlinked
  <1>21. CASE UnloadMic(s)
    BY <1>t, <1>21 DEF UnloadMic, UnloadById, Unload, Named
  <1>22. CASE UnloadSink(s)
    BY <1>t, <1>22 DEF UnloadSink, UnloadById, Unload, Named
  <1>23. CASE Disposed(s)
    BY <1>t, <1>23 DEF Disposed, BeginClear
  <1>24. CASE Kill(s)
    BY <1>t, <1>24 DEF Kill
  <1>. QED
    BY <1>1, <1>2, <1>3, <1>4, <1>5, <1>6, <1>7, <1>8, <1>9, <1>10, <1>11, <1>12, <1>13,
       <1>14, <1>15, <1>16, <1>17, <1>18, <1>19, <1>20, <1>21, <1>22, <1>23, <1>24
       DEF Serve, Work

\* Every link that s makes or keeps is on its record.
LEMMA LinksStep ==
    ASSUME IInv, NEW s \in Session, Serve(s) \/ Work(s) \/ Kill(s) \/ StdinClosed(s)
    PROVE  LinksAt(s)'
  <1>t. LegacyTypeOK /\ At(s)
    BY DEF IInv
  <1>. USE DEF LegacyTypeOK, At, LinksAt, PlanAt, Goto, Answer
  <1>1. CASE Start(s)
    BY <1>t, <1>1 DEF Start
  <1>2. CASE ListModules(s)
    BY <1>t, <1>2 DEF ListModules, Matching
  <1>3. CASE Purge(s)
    BY <1>t, <1>3 DEF Purge, Unload, Named
  <1>4. CASE Swept(s)
    BY <1>t, <1>4 DEF Swept
  <1>5. CASE Ensure(s)
    BY <1>t, <1>5 DEF Ensure, Take
  <1>6. CASE RouteNodes(s)
    BY <1>t, <1>6 DEF RouteNodes, Take, BeginClear
  <1>7. CASE ClearRoutes(s)
    BY <1>t, <1>7 DEF ClearRoutes, Take, BeginClear
  <1>8. CASE Unsupported(s)
    BY <1>t, <1>8 DEF Unsupported, Take
  <1>9. CASE Dispose(s)
    BY <1>t, <1>9 DEF Dispose, Take, BeginClear
  <1>10. CASE StdinClosed(s)
    BY <1>t, <1>10 DEF StdinClosed, BeginClear
  <1>11. CASE Look(s)
    BY <1>t, <1>11 DEF Look
  <1>12. CASE LoadSink(s)
    BY <1>t, <1>12 DEF LoadSink, FreeId, Named
  <1>13. CASE SinkReady(s)
    BY <1>t, <1>13 DEF SinkReady
  <1>14. CASE SinkTimeout(s)
    BY <1>t, <1>14 DEF SinkTimeout
  <1>15. CASE LoadMic(s)
    BY <1>t, <1>15 DEF LoadMic, Ensured, MicMissing, FreeId, Named
  <1>16. CASE Snapshot(s)
    BY <1>t, <1>16 DEF Snapshot, Wanted
  <1>17. CASE MakeLink(s)
    BY <1>t, <1>17 DEF MakeLink, CreateLink
  <1>18. CASE LinksMade(s)
    BY <1>t, <1>18 DEF LinksMade, Stale
  <1>19. CASE Unlink(s)
    BY <1>t, <1>19 DEF Unlink, RemoveLink, Retain
  <1>20. CASE Unlinked(s)
    BY <1>t, <1>20 DEF Unlinked
  <1>21. CASE UnloadMic(s)
    BY <1>t, <1>21 DEF UnloadMic, UnloadById, Unload, Named
  <1>22. CASE UnloadSink(s)
    BY <1>t, <1>22 DEF UnloadSink, UnloadById, Unload, Named
  <1>23. CASE Disposed(s)
    BY <1>t, <1>23 DEF Disposed, BeginClear
  <1>24. CASE Kill(s)
    BY <1>t, <1>24 DEF Kill
  <1>. QED
    BY <1>1, <1>2, <1>3, <1>4, <1>5, <1>6, <1>7, <1>8, <1>9, <1>10, <1>11, <1>12, <1>13,
       <1>14, <1>15, <1>16, <1>17, <1>18, <1>19, <1>20, <1>21, <1>22, <1>23, <1>24
       DEF Serve, Work

\* The loops have the right routes before them.
LEMMA PlanStep ==
    ASSUME IInv, NEW s \in Session, Serve(s) \/ Work(s) \/ Kill(s) \/ StdinClosed(s)
    PROVE  PlanAt(s)'
  <1>t. LegacyTypeOK /\ At(s)
    BY DEF IInv
  <1>. USE DEF LegacyTypeOK, At, PlanAt, Goto, Answer
  <1>1. CASE Start(s)
    BY <1>t, <1>1 DEF Start
  <1>2. CASE ListModules(s)
    BY <1>t, <1>2 DEF ListModules, Matching
  <1>3. CASE Purge(s)
    BY <1>t, <1>3 DEF Purge, Unload, Named
  <1>4. CASE Swept(s)
    BY <1>t, <1>4 DEF Swept
  <1>5. CASE Ensure(s)
    BY <1>t, <1>5 DEF Ensure, Take
  <1>6. CASE RouteNodes(s)
    BY <1>t, <1>6 DEF RouteNodes, Take, BeginClear
  <1>7. CASE ClearRoutes(s)
    BY <1>t, <1>7 DEF ClearRoutes, Take, BeginClear
  <1>8. CASE Unsupported(s)
    BY <1>t, <1>8 DEF Unsupported, Take
  <1>9. CASE Dispose(s)
    BY <1>t, <1>9 DEF Dispose, Take, BeginClear
  <1>10. CASE StdinClosed(s)
    BY <1>t, <1>10 DEF StdinClosed, BeginClear
  <1>11. CASE Look(s)
    BY <1>t, <1>11 DEF Look
  <1>12. CASE LoadSink(s)
    BY <1>t, <1>12 DEF LoadSink, FreeId, Named
  <1>13. CASE SinkReady(s)
    BY <1>t, <1>13 DEF SinkReady
  <1>14. CASE SinkTimeout(s)
    BY <1>t, <1>14 DEF SinkTimeout
  <1>15. CASE LoadMic(s)
    BY <1>t, <1>15 DEF LoadMic, Ensured, MicMissing, FreeId, Named
  <1>16. CASE Snapshot(s)
    BY <1>t, <1>16 DEF Snapshot, Wanted
  <1>17. CASE MakeLink(s)
    BY <1>t, <1>17 DEF MakeLink, CreateLink
  <1>18. CASE LinksMade(s)
    BY <1>t, <1>18 DEF LinksMade, Stale
  <1>19. CASE Unlink(s)
    BY <1>t, <1>19 DEF Unlink, RemoveLink, Retain
  <1>20. CASE Unlinked(s)
    BY <1>t, <1>20 DEF Unlinked
  <1>21. CASE UnloadMic(s)
    BY <1>t, <1>21 DEF UnloadMic, UnloadById, Unload, Named
  <1>22. CASE UnloadSink(s)
    BY <1>t, <1>22 DEF UnloadSink, UnloadById, Unload, Named
  <1>23. CASE Disposed(s)
    BY <1>t, <1>23 DEF Disposed, BeginClear
  <1>24. CASE Kill(s)
    BY <1>t, <1>24 DEF Kill
  <1>. QED
    BY <1>1, <1>2, <1>3, <1>4, <1>5, <1>6, <1>7, <1>8, <1>9, <1>10, <1>11, <1>12, <1>13,
       <1>14, <1>15, <1>16, <1>17, <1>18, <1>19, <1>20, <1>21, <1>22, <1>23, <1>24
       DEF Serve, Work

\* An accepted selection replaces the one before.
LEMMA SelectedStep ==
    ASSUME IInv, NEW s \in Session, Serve(s) \/ Work(s) \/ Kill(s) \/ StdinClosed(s)
    PROVE  SelectedAt(s)'
  <1>t. LegacyTypeOK /\ At(s)
    BY DEF IInv
  <1>. USE DEF LegacyTypeOK, At, LinksAt, PlanAt, SelectedAt, Goto, Answer
  <1>1. CASE Start(s)
    BY <1>t, <1>1 DEF Start
  <1>2. CASE ListModules(s)
    BY <1>t, <1>2 DEF ListModules, Matching
  <1>3. CASE Purge(s)
    BY <1>t, <1>3 DEF Purge, Unload, Named
  <1>4. CASE Swept(s)
    BY <1>t, <1>4 DEF Swept
  <1>5. CASE Ensure(s)
    BY <1>t, <1>5 DEF Ensure, Take
  <1>6. CASE RouteNodes(s)
    BY <1>t, <1>6 DEF RouteNodes, Take, BeginClear
  <1>7. CASE ClearRoutes(s)
    BY <1>t, <1>7 DEF ClearRoutes, Take, BeginClear
  <1>8. CASE Unsupported(s)
    BY <1>t, <1>8 DEF Unsupported, Take
  <1>9. CASE Dispose(s)
    BY <1>t, <1>9 DEF Dispose, Take, BeginClear
  <1>10. CASE StdinClosed(s)
    BY <1>t, <1>10 DEF StdinClosed, BeginClear
  <1>11. CASE Look(s)
    BY <1>t, <1>11 DEF Look
  <1>12. CASE LoadSink(s)
    BY <1>t, <1>12 DEF LoadSink, FreeId, Named
  <1>13. CASE SinkReady(s)
    BY <1>t, <1>13 DEF SinkReady
  <1>14. CASE SinkTimeout(s)
    BY <1>t, <1>14 DEF SinkTimeout
  <1>15. CASE LoadMic(s)
    BY <1>t, <1>15 DEF LoadMic, Ensured, MicMissing, FreeId, Named
  <1>16. CASE Snapshot(s)
    BY <1>t, <1>16 DEF Snapshot, Wanted
  <1>17. CASE MakeLink(s)
    BY <1>t, <1>17 DEF MakeLink, CreateLink
  <1>18. CASE LinksMade(s)
    BY <1>t, <1>18 DEF LinksMade, Stale
  <1>19. CASE Unlink(s)
    BY <1>t, <1>19 DEF Unlink, RemoveLink, Retain
  <1>20. CASE Unlinked(s)
    BY <1>t, <1>20 DEF Unlinked
  <1>21. CASE UnloadMic(s)
    BY <1>t, <1>21 DEF UnloadMic, UnloadById, Unload, Named
  <1>22. CASE UnloadSink(s)
    BY <1>t, <1>22 DEF UnloadSink, UnloadById, Unload, Named
  <1>23. CASE Disposed(s)
    BY <1>t, <1>23 DEF Disposed, BeginClear
  <1>24. CASE Kill(s)
    BY <1>t, <1>24 DEF Kill
  <1>. QED
    BY <1>1, <1>2, <1>3, <1>4, <1>5, <1>6, <1>7, <1>8, <1>9, <1>10, <1>11, <1>12, <1>13,
       <1>14, <1>15, <1>16, <1>17, <1>18, <1>19, <1>20, <1>21, <1>22, <1>23, <1>24
       DEF Serve, Work

\* No module is forgotten.
LEMMA ModulesStep ==
    ASSUME IInv, NEW s \in Session, Serve(s) \/ Work(s) \/ Kill(s) \/ StdinClosed(s)
    PROVE  ModulesAt(s)'
  <1>t. LegacyTypeOK /\ At(s)
    BY DEF IInv
  <1>h. HadLate(s) => HadLate(s)'
    <2>1. late \subseteq late'
      BY Effects
    <2>. QED  BY <2>1 DEF HadLate
  <1>m. \A m \in modules : m.n \in Id /\ m.n # 0 /\ m.kind \in {"sink", "mic"}
    BY <1>t DEF LegacyTypeOK, Module
  <1>o. \A m \in modules : m.kind = "sink" /\ m.by = s => m \in Own(s)
    BY DEF Own, Sinks
  <1>. USE DEF LegacyTypeOK, At, ModulesAt, Goto, Answer
  <1>1. CASE Start(s)
    BY <1>t, <1>h, <1>1 DEF Start
  <1>2. CASE ListModules(s)
    BY <1>t, <1>h, <1>2 DEF ListModules, Matching
  <1>3. CASE Purge(s)
    BY <1>t, <1>h, <1>3 DEF Purge, Unload, Named
  <1>4. CASE Swept(s)
    BY <1>t, <1>h, <1>4 DEF Swept
  <1>5. CASE Ensure(s)
    BY <1>t, <1>h, <1>5 DEF Ensure, Take
  <1>6. CASE RouteNodes(s)
    BY <1>t, <1>h, <1>6 DEF RouteNodes, Take, BeginClear
  <1>7. CASE ClearRoutes(s)
    BY <1>t, <1>h, <1>7 DEF ClearRoutes, Take, BeginClear
  <1>8. CASE Unsupported(s)
    BY <1>t, <1>h, <1>8 DEF Unsupported, Take
  <1>9. CASE Dispose(s)
    BY <1>t, <1>h, <1>9 DEF Dispose, Take, BeginClear
  <1>10. CASE StdinClosed(s)
    BY <1>t, <1>h, <1>10 DEF StdinClosed, BeginClear
  <1>11. CASE Look(s)
    <2>1. CASE pc'[s] # "load"
      BY <1>t, <1>h, <1>11, <2>1 DEF Look
    <2>2. CASE pc'[s] = "load"
      <3>1. Misses(s) /\ late' = late \cup (Own(s) \ ready)
        BY <1>t, <1>11, <2>2 DEF Look
      <3>2. Own(s) = {} \/ Own(s) \ ready # {}
        BY <3>1 DEF Misses, Own
      <3>3. Own(s)' = Own(s)
        BY <1>11 DEF Look, Own, Sinks
      <3>4. Own(s) \ ready # {} => HadLate(s)'
        BY <3>1 DEF HadLate, Own
      <3>. QED  BY <1>t, <1>h, <1>11, <3>2, <3>3, <3>4 DEF Look
    <2>. QED  BY <2>1, <2>2
  <1>12. CASE LoadSink(s)
    BY <1>t, <1>h, <1>m, <1>o, <1>12, SMTT(30) DEF LoadSink, FreeId
  <1>13. CASE SinkReady(s)
    BY <1>t, <1>h, <1>13 DEF SinkReady
  <1>14. CASE SinkTimeout(s)
    BY <1>t, <1>h, <1>14 DEF SinkTimeout
  <1>15. CASE LoadMic(s)
    BY <1>t, <1>h, <1>m, <1>15 DEF LoadMic, Ensured, MicMissing, FreeId
  <1>16. CASE Snapshot(s)
    BY <1>t, <1>h, <1>16 DEF Snapshot, Wanted
  <1>17. CASE MakeLink(s)
    BY <1>t, <1>h, <1>17 DEF MakeLink, CreateLink
  <1>18. CASE LinksMade(s)
    BY <1>t, <1>h, <1>18 DEF LinksMade, Stale
  <1>19. CASE Unlink(s)
    BY <1>t, <1>h, <1>19 DEF Unlink, RemoveLink, Retain
  <1>20. CASE Unlinked(s)
    BY <1>t, <1>h, <1>20 DEF Unlinked
  <1>21. CASE UnloadMic(s)
    BY <1>t, <1>h, <1>21 DEF UnloadMic, UnloadById, Unload, Named
  <1>22. CASE UnloadSink(s)
    BY <1>t, <1>h, <1>22 DEF UnloadSink, UnloadById, Unload, Named
  <1>23. CASE Disposed(s)
    BY <1>t, <1>h, <1>23 DEF Disposed, BeginClear
  <1>24. CASE Kill(s)
    BY <1>t, <1>h, <1>24 DEF Kill
  <1>. QED
    BY <1>1, <1>2, <1>3, <1>4, <1>5, <1>6, <1>7, <1>8, <1>9, <1>10, <1>11, <1>12, <1>13,
       <1>14, <1>15, <1>16, <1>17, <1>18, <1>19, <1>20, <1>21, <1>22, <1>23, <1>24
       DEF Serve, Work

\* A dispose without an error leaves nothing.
LEMMA DisposedStep ==
    ASSUME IInv, NEW s \in Session, Serve(s) \/ Work(s) \/ Kill(s) \/ StdinClosed(s)
    PROVE  DisposedAt(s)'
  <1>t. LegacyTypeOK /\ At(s)
    BY DEF IInv
  <1>. USE DEF LegacyTypeOK, At, LinksAt, PlanAt, ModulesAt, DisposedAt, Goto, Answer
  <1>1. CASE Start(s)
    BY <1>t, <1>1 DEF Start
  <1>2. CASE ListModules(s)
    BY <1>t, <1>2 DEF ListModules, Matching
  <1>3. CASE Purge(s)
    BY <1>t, <1>3 DEF Purge, Unload, Named
  <1>4. CASE Swept(s)
    BY <1>t, <1>4 DEF Swept
  <1>5. CASE Ensure(s)
    BY <1>t, <1>5 DEF Ensure, Take
  <1>6. CASE RouteNodes(s)
    BY <1>t, <1>6 DEF RouteNodes, Take, BeginClear
  <1>7. CASE ClearRoutes(s)
    BY <1>t, <1>7 DEF ClearRoutes, Take, BeginClear
  <1>8. CASE Unsupported(s)
    BY <1>t, <1>8 DEF Unsupported, Take
  <1>9. CASE Dispose(s)
    BY <1>t, <1>9 DEF Dispose, Take, BeginClear
  <1>10. CASE StdinClosed(s)
    BY <1>t, <1>10 DEF StdinClosed, BeginClear
  <1>11. CASE Look(s)
    BY <1>t, <1>11 DEF Look
  <1>12. CASE LoadSink(s)
    BY <1>t, <1>12 DEF LoadSink, FreeId, Named
  <1>13. CASE SinkReady(s)
    BY <1>t, <1>13 DEF SinkReady
  <1>14. CASE SinkTimeout(s)
    BY <1>t, <1>14 DEF SinkTimeout
  <1>15. CASE LoadMic(s)
    BY <1>t, <1>15 DEF LoadMic, Ensured, MicMissing, FreeId, Named
  <1>16. CASE Snapshot(s)
    BY <1>t, <1>16 DEF Snapshot, Wanted
  <1>17. CASE MakeLink(s)
    BY <1>t, <1>17 DEF MakeLink, CreateLink
  <1>18. CASE LinksMade(s)
    BY <1>t, <1>18 DEF LinksMade, Stale
  <1>19. CASE Unlink(s)
    BY <1>t, <1>19 DEF Unlink, RemoveLink, Retain
  <1>20. CASE Unlinked(s)
    <2>1. CASE req[s].op = "dispose"
      <3>1. pc' = [pc EXCEPT ![s] = "unmic"] /\ UNCHANGED <<res, req>>
        BY <1>20, <2>1 DEF Unlinked
      <3>2. failed' = [failed EXCEPT ![s] = @ \/ kept[s] # {}]
        BY <1>20, <2>1 DEF Unlinked
      <3>3. routes' = [routes EXCEPT ![s] = kept[s]] /\ pc[s] = "unlink"
        BY <1>20 DEF Unlinked
      <3>4. res[s] # "ok"
        BY <1>t, <2>1, <3>3
      <3>5. ~failed'[s] => routes'[s] = {}
        BY <1>t, <3>2, <3>3
      <3>. QED  BY <1>t, <2>1, <3>1, <3>4, <3>5
    <2>2. CASE req[s].op # "dispose"
      BY <1>20, <2>2 DEF Unlinked
    <2>. QED  BY <2>1, <2>2
  <1>21. CASE UnloadMic(s)
    BY <1>t, <1>21 DEF UnloadMic, UnloadById, Unload, Named
  <1>22. CASE UnloadSink(s)
    BY <1>t, <1>22 DEF UnloadSink, UnloadById, Unload, Named
  <1>23. CASE Disposed(s)
    <2>1. ASSUME req[s].op = "dispose", res'[s] = "ok"
          PROVE  /\ ~failed[s] /\ routes[s] = {} /\ remap_module_id[s] = 0
                 /\ module_id[s] = 0 /\ pc[s] = "disposed"
      BY <1>t, <1>23, <2>1 DEF Disposed
    <2>2. ASSUME req[s].op = "dispose", res'[s] = "ok" PROVE pc'[s] = "gone"
      BY <1>t, <1>23, <2>1, <2>2 DEF Disposed
    <2>3. ASSUME req[s].op = "dispose", res'[s] = "ok"
          PROVE  /\ \A l \in links : l.by # s
                 /\ \A m \in modules : m.by = s => m.kind = "sink" /\ HadLate(s)
      <3>1. \A m \in modules : m.n # 0 /\ m.kind \in {"sink", "mic"}
        BY <1>t DEF Module
      <3>. QED  BY <1>t, <2>1, <2>3, <3>1, SMTT(30)
    <2>4. links' = links /\ modules' = modules /\ HadLate(s)' = HadLate(s) /\ req' = req
      BY <1>23 DEF Disposed, HadLate
    <2>5. pc'[s] \notin {"unmic", "unsink", "disposed"}
      BY <1>t, <1>23 DEF Disposed, BeginClear
    <2>. QED  BY <2>2, <2>3, <2>4, <2>5
  <1>24. CASE Kill(s)
    BY <1>t, <1>24 DEF Kill
  <1>. QED
    BY <1>1, <1>2, <1>3, <1>4, <1>5, <1>6, <1>7, <1>8, <1>9, <1>10, <1>11, <1>12, <1>13,
       <1>14, <1>15, <1>16, <1>17, <1>18, <1>19, <1>20, <1>21, <1>22, <1>23, <1>24
       DEF Serve, Work

\* A sweep leaves no module of the dead.
LEMMA SweptStep ==
    ASSUME IInv, NEW s \in Session, Serve(s) \/ Work(s) \/ Kill(s) \/ StdinClosed(s)
    PROVE  SweptAt(s)'
  <1>t. LegacyTypeOK /\ At(s)
    BY DEF IInv
  <1>. USE DEF LegacyTypeOK, At, SweptAt, Goto, Answer
  <1>1. CASE Start(s)
    BY <1>t, <1>1 DEF Start
  <1>2. CASE ListModules(s)
    BY <1>t, <1>2 DEF ListModules, Matching
  <1>3. CASE Purge(s)
    BY <1>t, <1>3 DEF Purge, Unload, Named
  <1>4. CASE Swept(s)
    BY <1>t, <1>4 DEF Swept
  <1>5. CASE Ensure(s)
    BY <1>t, <1>5 DEF Ensure, Take
  <1>6. CASE RouteNodes(s)
    BY <1>t, <1>6 DEF RouteNodes, Take, BeginClear
  <1>7. CASE ClearRoutes(s)
    BY <1>t, <1>7 DEF ClearRoutes, Take, BeginClear
  <1>8. CASE Unsupported(s)
    BY <1>t, <1>8 DEF Unsupported, Take
  <1>9. CASE Dispose(s)
    BY <1>t, <1>9 DEF Dispose, Take, BeginClear
  <1>10. CASE StdinClosed(s)
    BY <1>t, <1>10 DEF StdinClosed, BeginClear
  <1>11. CASE Look(s)
    BY <1>t, <1>11 DEF Look
  <1>12. CASE LoadSink(s)
    BY <1>t, <1>12 DEF LoadSink, FreeId, Named
  <1>13. CASE SinkReady(s)
    BY <1>t, <1>13 DEF SinkReady
  <1>14. CASE SinkTimeout(s)
    BY <1>t, <1>14 DEF SinkTimeout
  <1>15. CASE LoadMic(s)
    BY <1>t, <1>15 DEF LoadMic, Ensured, MicMissing, FreeId, Named
  <1>16. CASE Snapshot(s)
    BY <1>t, <1>16 DEF Snapshot, Wanted
  <1>17. CASE MakeLink(s)
    BY <1>t, <1>17 DEF MakeLink, CreateLink
  <1>18. CASE LinksMade(s)
    BY <1>t, <1>18 DEF LinksMade, Stale
  <1>19. CASE Unlink(s)
    BY <1>t, <1>19 DEF Unlink, RemoveLink, Retain
  <1>20. CASE Unlinked(s)
    BY <1>t, <1>20 DEF Unlinked
  <1>21. CASE UnloadMic(s)
    BY <1>t, <1>21 DEF UnloadMic, UnloadById, Unload, Named
  <1>22. CASE UnloadSink(s)
    BY <1>t, <1>22 DEF UnloadSink, UnloadById, Unload, Named
  <1>23. CASE Disposed(s)
    BY <1>t, <1>23 DEF Disposed, BeginClear
  <1>24. CASE Kill(s)
    BY <1>t, <1>24 DEF Kill
  <1>. QED
    BY <1>1, <1>2, <1>3, <1>4, <1>5, <1>6, <1>7, <1>8, <1>9, <1>10, <1>11, <1>12, <1>13,
       <1>14, <1>15, <1>16, <1>17, <1>18, <1>19, <1>20, <1>21, <1>22, <1>23, <1>24
       DEF Serve, Work

\* What the world does keeps the invariant.
LEMMA WorldStep ==
    ASSUME IInv, LegacyTypeOK',
           \/ \E m \in modules : SinkShows(m)
           \/ \E o \in Output : AppComes(o) \/ AppGoes(o)
           \/ UNCHANGED legacyVars
    PROVE  IInv'
  <1>1. /\ links' \subseteq links /\ modules' = modules
        /\ UNCHANGED <<pc, req, res, record, listed, desired, todo, kept, tries, failed, history>>
    BY DEF SinkShows, AppComes, AppGoes
  <1>2. UniqueIds'
    BY <1>1 DEF IInv, UniqueIds
  <1>3. ASSUME NEW s \in Session PROVE At(s)'
    <2>1. Mine(s)' = Mine(s)
      BY <1>1 DEF Mine
    <2>2. /\ \A l \in links' : l.by = s => l \in links
          /\ \A m \in modules' : m \in modules \/ (m.by # s /\ pc[m.by] # "gone")
          /\ late \subseteq late' /\ spared \subseteq spared'
          /\ \A t \in Session : pc[t] = "gone" => pc'[t] = "gone"
      BY <1>1
    <2>. QED  BY <2>1, <2>2, OthersKeep
  <1>. QED  BY <1>2, <1>3 DEF IInv

\* The invariant is inductive.
LEMMA InvStep == IInv /\ [LegacyNext]_legacyVars => IInv'
  <1>. SUFFICES ASSUME IInv, [LegacyNext]_legacyVars PROVE IInv'
    OBVIOUS
  <1>1. LegacyTypeOK /\ LegacyTypeOK'
    BY TypeStep DEF IInv
  <1>2. ASSUME NEW s \in Session, Serve(s) \/ Work(s) \/ Kill(s) \/ StdinClosed(s)
        PROVE  IInv'
    <2>1. /\ pc[s] # "gone"
          /\ \A l \in links' : l \in links \/ l.by = s
          /\ \A m \in modules' : m \in modules \/ m.by = s
          /\ late \subseteq late' /\ spared \subseteq spared'
      BY <1>2, Effects
    <2>2. \A t \in Session \ {s} : Mine(t)' = Mine(t)
      BY <1>1, <1>2, Frame
    <2>3. At(s)'
      BY <1>2, LinksStep, PlanStep, SelectedStep, ModulesStep, DisposedStep, SweptStep DEF At
    <2>4. UniqueIds'
      BY <1>2, UniqueStep
    <2>. QED  BY <1>1, <2>1, <2>2, <2>3, <2>4, StepOf
  <1>3. CASE ~\E s \in Session : Serve(s) \/ Work(s) \/ Kill(s) \/ StdinClosed(s)
    BY <1>1, <1>3, WorldStep DEF LegacyNext, World
  <1>. QED  BY <1>2, <1>3

\* The invariant holds throughout.
LEMMA Invariance == LegacySpec => []IInv
  BY InitInv, InvStep, PTL DEF LegacySpec

--------------------------------------------------------------------------------
(* The theorems. *)

\* LegacyTypeOK: every variable keeps its type.
THEOREM TypesHold == LegacySpec => []LegacyTypeOK
  <1>1. IInv => LegacyTypeOK
    BY DEF IInv
  <1>. QED  BY <1>1, Invariance, PTL

\* A link that a helper has made is on its record or in the locals of the loop that rebuilds
\* the record, so that the next clear_routes or dispose finds it.
THEOREM LinksNeverLost == LegacySpec => []LinksTracked
  <1>1. IInv => LinksTracked
    <2>. SUFFICES ASSUME IInv, NEW l \in links, pc[l.by] # "gone"
                  PROVE  l.route \in routes[l.by] \cup kept[l.by]
      BY DEF LinksTracked
    <2>1. l.by \in Session
      BY DEF IInv, LegacyTypeOK
    <2>. QED  BY <2>1 DEF IInv, At, LinksAt, PlanAt
  <1>. QED  BY <1>1, Invariance, PTL

\* The mic's module is on the record of its helper, and so is the sink's, unless a sink was
\* found late and replaced.
THEOREM ModulesNeverLost == LegacySpec => []ModulesTracked
  <1>1. IInv => ModulesTracked
    <2>. SUFFICES ASSUME IInv, NEW m \in modules, pc[m.by] # "gone"
                  PROVE  IF m.kind = "mic" THEN m.n = remap_module_id[m.by]
                                           ELSE m.n = module_id[m.by] \/ HadLate(m.by)
      BY DEF ModulesTracked
    <2>1. m.by \in Session
      BY DEF IInv, LegacyTypeOK, Module
    <2>. QED  BY <2>1 DEF IInv, At, ModulesAt
  <1>. QED  BY <1>1, Invariance, PTL

\* After its sweep a helper shares the server with no module of a helper that was gone
\* before, save those pactl did not list or unload.
THEOREM SweepIsThorough == LegacySpec => []DeadSwept
  <1>1. IInv => DeadSwept
    BY DEF IInv, At, SweptAt, DeadSwept
  <1>. QED  BY <1>1, Invariance, PTL

\* A selection that was answered ok has replaced the one before.
THEOREM SelectionHolds == LegacySpec => []SelectionReplaced
  <1>1. IInv => SelectionReplaced
    BY DEF IInv, At, SelectedAt, SelectionReplaced
  <1>. QED  BY <1>1, Invariance, PTL

\* A dispose that was answered ok has left nothing, and nothing comes after it.
THEOREM DisposeIsClean == LegacySpec => []DisposedClean
  <1>1. IInv => DisposedClean
    BY DEF IInv, At, DisposedAt, DisposedClean
  <1>. QED  BY <1>1, Invariance, PTL

\* Removing the stale routes never cuts one that the new selection shares with the old.
THEOREM ReplacingIsSeamless == LegacySpec => Seamless
  <1>1. ASSUME IInv, [LegacyNext]_legacyVars, NEW s \in Session, pc[s] = "unlink",
               todo'[s] # todo[s], NEW l \in links \ links'
        PROVE  l.route \notin desired[s]
    <2>1. LegacyTypeOK /\ todo[s] \cap desired[s] = {}
      BY <1>1 DEF IInv, At, PlanAt
    <2>2. ASSUME NEW t \in Session, Serve(t) \/ Work(t) \/ Kill(t) \/ StdinClosed(t)
          PROVE  t = s
      <3>1. CASE t # s
        <4>1. Mine(s)' = Mine(s)
          BY <2>1, <2>2, <3>1, Frame
        <4>. QED  BY <1>1, <4>1 DEF Mine
      <3>. QED  BY <3>1
    <2>3. Serve(s) \/ Work(s) \/ Kill(s) \/ StdinClosed(s)
      <3>1. CASE \/ \E m \in modules : SinkShows(m)
                 \/ \E o \in Output : AppComes(o) \/ AppGoes(o)
                 \/ UNCHANGED legacyVars
        BY <1>1, <3>1 DEF SinkShows, AppComes, AppGoes
      <3>. QED  BY <1>1, <2>2, <3>1 DEF LegacyNext, World
    <2>4. Unlink(s)
      BY <1>1, <2>1, <2>3
         DEF LegacyTypeOK, Serve, Work, Kill, StdinClosed, Take, Ensure, RouteNodes, ClearRoutes,
             Unsupported, Dispose, Start, ListModules, Purge, Swept, Look, LoadSink, SinkReady,
             SinkTimeout, LoadMic, Snapshot, MakeLink, LinksMade, Unlinked, UnloadMic,
             UnloadSink, Disposed
    <2>. QED  BY <2>1, <2>4 DEF Unlink, RemoveLink
  <1>2. IInv /\ [LegacyNext]_legacyVars =>
           \A s \in Session : pc[s] = "unlink" /\ todo'[s] # todo[s] =>
              \A l \in links \ links' : l.route \notin desired[s]
    BY <1>1
  <1>. QED  BY <1>2, Invariance, PTL DEF LegacySpec, Seamless

--------------------------------------------------------------------------------
(* The legacy backend implements AudioSharing. *)

\* A step of another helper, or around the helpers, can only take links of s away.
LEMMA OthersLose ==
    ASSUME IInv, [LegacyNext]_legacyVars, NEW s \in Session,
           ~(Serve(s) \/ Work(s) \/ Kill(s) \/ StdinClosed(s))
    PROVE  UNCHANGED <<pc[s], req[s], res[s]>> /\ \A l \in links' : l.by = s => l \in links
  <1>1. ASSUME NEW t \in Session \ {s}, Serve(t) \/ Work(t) \/ Kill(t) \/ StdinClosed(t)
        PROVE  Mine(s)' = Mine(s) /\ \A l \in links' : l.by = s => l \in links
    <2>1. Mine(s)' = Mine(s)
      BY <1>1, Frame DEF IInv
    <2>2. \A l \in links' : l \in links \/ l.by = t
      BY <1>1, Effects
    <2>. QED  BY <2>1, <2>2
  <1>2. CASE \/ \E m \in modules : SinkShows(m)
             \/ \E o \in Output : AppComes(o) \/ AppGoes(o)
             \/ UNCHANGED legacyVars
    BY <1>2 DEF SinkShows, AppComes, AppGoes
  <1>. QED  BY <1>1, <1>2 DEF Mine, LegacyNext, World

\* What a helper does itself: it ends, or makes a link from a selected output, or takes links
\* away.
LEMMA OwnStep ==
    ASSUME IInv, NEW s \in Session, Serve(s) \/ Work(s) \/ Kill(s) \/ StdinClosed(s)
    PROVE  \/ /\ pc[s] # "gone" /\ pc'[s] = "gone" /\ links' = links
              /\ res'[s] = "ok" /\ req'[s].op \in {"route", "clear"} =>
                    res[s] = "ok" /\ req[s].op \in {"route", "clear"}
           \/ /\ pc[s] # "gone" /\ pc'[s] # "gone" /\ UNCHANGED <<req, res>>
              /\ \A l \in links' : l \in links \/ (l.by = s /\ l.route[1] \in req[s].sel)
           \/ /\ pc[s] # "gone" /\ pc'[s] # "gone"
              /\ links' \subseteq links
  <1>t. LegacyTypeOK /\ PlanAt(s)
    BY DEF IInv, At
  <1>. USE DEF LegacyTypeOK, PlanAt, Goto, Answer
  <1>1. CASE Start(s)
    BY <1>t, <1>1 DEF Start
  <1>2. CASE ListModules(s)
    BY <1>t, <1>2 DEF ListModules, Matching
  <1>3. CASE Purge(s)
    BY <1>t, <1>3 DEF Purge, Unload, Named
  <1>4. CASE Swept(s)
    BY <1>t, <1>4 DEF Swept
  <1>5. CASE Ensure(s)
    BY <1>t, <1>5 DEF Ensure, Take
  <1>6. CASE RouteNodes(s)
    BY <1>t, <1>6 DEF RouteNodes, Take, BeginClear
  <1>7. CASE ClearRoutes(s)
    BY <1>t, <1>7 DEF ClearRoutes, Take, BeginClear
  <1>8. CASE Unsupported(s)
    BY <1>t, <1>8 DEF Unsupported, Take
  <1>9. CASE Dispose(s)
    BY <1>t, <1>9 DEF Dispose, Take, BeginClear
  <1>10. CASE StdinClosed(s)
    BY <1>t, <1>10 DEF StdinClosed, BeginClear
  <1>11. CASE Look(s)
    BY <1>t, <1>11 DEF Look
  <1>12. CASE LoadSink(s)
    BY <1>t, <1>12 DEF LoadSink, FreeId, Named
  <1>13. CASE SinkReady(s)
    BY <1>t, <1>13 DEF SinkReady
  <1>14. CASE SinkTimeout(s)
    BY <1>t, <1>14 DEF SinkTimeout
  <1>15. CASE LoadMic(s)
    BY <1>t, <1>15 DEF LoadMic, Ensured, MicMissing, FreeId, Named
  <1>16. CASE Snapshot(s)
    BY <1>t, <1>16 DEF Snapshot, Wanted
  <1>17. CASE MakeLink(s)
    BY <1>t, <1>17 DEF MakeLink, CreateLink
  <1>18. CASE LinksMade(s)
    BY <1>t, <1>18 DEF LinksMade, Stale
  <1>19. CASE Unlink(s)
    BY <1>t, <1>19 DEF Unlink, RemoveLink, Retain
  <1>20. CASE Unlinked(s)
    BY <1>t, <1>20 DEF Unlinked
  <1>21. CASE UnloadMic(s)
    BY <1>t, <1>21 DEF UnloadMic, UnloadById, Unload, Named
  <1>22. CASE UnloadSink(s)
    BY <1>t, <1>22 DEF UnloadSink, UnloadById, Unload, Named
  <1>23. CASE Disposed(s)
    BY <1>t, <1>23 DEF Disposed, BeginClear
  <1>24. CASE Kill(s)
    BY <1>t, <1>24 DEF Kill
  <1>. QED
    BY <1>1, <1>2, <1>3, <1>4, <1>5, <1>6, <1>7, <1>8, <1>9, <1>10, <1>11, <1>12, <1>13,
       <1>14, <1>15, <1>16, <1>17, <1>18, <1>19, <1>20, <1>21, <1>22, <1>23, <1>24
       DEF Serve, Work

\* Every step of the server, seen by the client of s, is a step of AudioSharing.
LEMMA SharingStep ==
    ASSUME IInv, LegacyTypeOK', [LegacyNext]_legacyVars, NEW s \in Session
    PROVE  [Sharing(s)!Next]_(Sharing(s)!sharingVars)
  <1>. DEFINE Heard == {<<l.route[1], "sink">> : l \in {k \in links : k.by = s}}
  <1>1. /\ (\A l \in links' : l.by = s => l \in links) => Heard' \subseteq Heard
        /\ links' = links => Heard' = Heard
    OBVIOUS
  <1>2. [p \in {"sink", "capture"} |-> IF p = "sink" THEN req'[s].sel ELSE {}]
           \in [{"sink", "capture"} -> SUBSET Output]
    BY DEF LegacyTypeOK
  <1>3. CASE ~(Serve(s) \/ Work(s) \/ Kill(s) \/ StdinClosed(s))
    <2>1. UNCHANGED <<pc[s], req[s], res[s]>> /\ \A l \in links' : l.by = s => l \in links
      BY <1>3, OthersLose
    <2>2. Sharing(s)!Lose
      BY <1>1, <2>1 DEF Sharing!Lose
    <2>. QED  BY <2>2 DEF Sharing!Next
  <1>4. CASE Serve(s) \/ Work(s) \/ Kill(s) \/ StdinClosed(s)
    <2>1. ASSUME pc[s] # "gone", pc'[s] = "gone", links' = links,
                 res'[s] = "ok" /\ req'[s].op \in {"route", "clear"} =>
                    res[s] = "ok" /\ req[s].op \in {"route", "clear"}
          PROVE  Sharing(s)!Close
      BY <1>1, <1>2, <2>1 DEF Sharing!Close, Sharing!Place
    <2>2. ASSUME pc[s] # "gone", pc'[s] # "gone", UNCHANGED <<req, res>>,
                 \A l \in links' : l \in links \/ (l.by = s /\ l.route[1] \in req[s].sel)
          PROVE  Sharing(s)!Connect
      <3>1. Heard' \subseteq Heard \cup Sharing(s)!Permitted
        BY <2>2 DEF Sharing!Permitted, Sharing!Place, LegacyTypeOK, Route
      <3>. QED  BY <2>2, <3>1 DEF Sharing!Connect
    <2>3. ASSUME pc[s] # "gone", pc'[s] # "gone", links' \subseteq links
          PROVE  Sharing(s)!Select
      BY <1>1, <1>2, <2>3 DEF Sharing!Select, Sharing!Place, Sharing!Replaced
    <2>. QED  BY <1>4, <2>1, <2>2, <2>3, OwnStep DEF Sharing!Next
  <1>. QED  BY <1>3, <1>4

\* Every helper on the legacy backend is a helper as its client knows it.
THEOREM LegacyImplementsSharing == LegacySpec => ImplementsSharing
  <1>1. ASSUME LegacyInit, NEW s \in Session PROVE Sharing(s)!Init
    BY <1>1 DEF LegacyInit, Sharing!Init, Sharing!Place
  <1>2. IInv /\ IInv' /\ [LegacyNext]_legacyVars =>
           \A s \in Session : [Sharing(s)!Next]_(Sharing(s)!sharingVars)
    BY SharingStep DEF IInv
  <1>3. LegacyInit => \A s \in Session : Sharing(s)!Init
    BY <1>1
  <1>. QED  BY <1>2, <1>3, Invariance, PTL DEF LegacySpec, ImplementsSharing

--------------------------------------------------------------------------------
(* The half of RequestsEnd that needs no fairness: the loops of a helper come to an end. *)

\* How many more stages helper s goes through at most: the two sweeps of the start, the way
\* of a request, or the calls of dispose, of which tries counts three.
StagesLeft(s) ==
    CASE pc[s] = "new" -> 7
      [] pc[s] = "list" -> 8 - 2 * tries[s]
      [] pc[s] = "purge" -> 7 - 2 * tries[s]
      [] pc[s] = "look" -> 7
      [] pc[s] = "load" -> 6
      [] pc[s] = "wait" -> 5
      [] pc[s] = "mic" -> 4
      [] pc[s] = "snapshot" -> 3
      [] pc[s] = "link" -> 2
      [] pc[s] = "unlink" ->
            IF req[s].op \in {"dispose", "eof"} THEN 16 - 4 * tries[s]
            ELSE IF req[s].op = "route" /\ req[s].sel = {} THEN 8 ELSE 1
      [] pc[s] = "unmic" -> 15 - 4 * tries[s]
      [] pc[s] = "unsink" -> 14 - 4 * tries[s]
      [] pc[s] = "disposed" -> 13 - 4 * tries[s]
      [] OTHER -> 0

\* A stage is done, or one round of the loop it consists of.
Advances(s) ==
    \/ StagesLeft(s)' < StagesLeft(s)
    \/ /\ StagesLeft(s)' = StagesLeft(s)
       /\ todo'[s] \subseteq todo[s] /\ listed'[s] \subseteq listed[s]
       /\ todo'[s] # todo[s] \/ listed'[s] # listed[s]

\* What a helper does brings it closer to the end of its request, and nothing that anybody
\* else does sets it back.
HelpersAdvance ==
    [][\A s \in Session :
          /\ Work(s) => Advances(s)
          /\ pc[s] \notin {"idle", "gone"} =>
                Advances(s) \/ UNCHANGED <<pc[s], req[s], tries[s], todo[s], listed[s]>>]_legacyVars

\* There is something left to do until the helper is idle or gone.
LEMMA StagesType ==
    ASSUME LegacyTypeOK, NEW s \in Session
    PROVE  /\ StagesLeft(s) \in Nat
           /\ StagesLeft(s) = 0 <=> pc[s] \in {"idle", "gone"}
  <1>1. /\ tries[s] \in 0..3
        /\ pc[s] \in {"new", "list", "purge", "idle", "look", "load", "wait", "mic", "snapshot",
                      "link", "unlink", "unmic", "unsink", "disposed", "gone"}
    BY DEF LegacyTypeOK
  <1>2. PICK t \in 0..3 : t = tries[s]
    BY <1>1
  <1>3. CASE pc[s] \in {"idle", "gone"}
    BY <1>3 DEF StagesLeft
  <1>4. CASE pc[s] \in {"new", "look", "load", "wait", "mic", "snapshot", "link"}
    BY <1>4 DEF StagesLeft
  <1>5. CASE pc[s] \in {"list", "purge"}
    BY <1>2, <1>5 DEF StagesLeft
  <1>6. CASE pc[s] = "unlink"
    BY <1>2, <1>6 DEF StagesLeft
  <1>7. CASE pc[s] \in {"unmic", "unsink", "disposed"}
    BY <1>2, <1>7 DEF StagesLeft
  <1>. QED  BY <1>1, <1>3, <1>4, <1>5, <1>6, <1>7

\* Each step of a helper's own.
LEMMA WorkAdvances ==
    ASSUME IInv, LegacyTypeOK', NEW s \in Session, Work(s)
    PROVE  Advances(s)
  <1>t. LegacyTypeOK /\ PlanAt(s)
    BY DEF IInv, At
  <1>d. /\ tries[s] \in 0..3 /\ tries'[s] \in 0..3
        /\ todo[s] \subseteq Route /\ listed[s] \subseteq Id
    BY <1>t DEF LegacyTypeOK
  <1>g. ASSUME NEW label, Goto(s, label) PROVE pc'[s] = label
    BY <1>t, <1>g DEF Goto, LegacyTypeOK
  <1>a. ASSUME NEW result, Answer(s, result) PROVE pc'[s] = "idle"
    BY <1>t, <1>a, <1>g DEF Answer
  <1>i. ASSUME pc'[s] = "idle", pc[s] \notin {"idle", "gone"} PROVE Advances(s)
    BY <1>t, <1>i, StagesType DEF Advances, StagesLeft
  <1>1. CASE Start(s)
    <2>1. pc[s] = "new" /\ pc'[s] = "list" /\ tries'[s] = 1
      BY <1>t, <1>1, <1>g DEF Start, LegacyTypeOK
    <2>. QED  BY <2>1 DEF Advances, StagesLeft
  <1>2. CASE ListModules(s)
    <2>1. pc[s] = "list" /\ pc'[s] = "purge" /\ tries' = tries
      BY <1>2, <1>g DEF ListModules
    <2>. QED  BY <1>d, <2>1 DEF Advances, StagesLeft
  <1>3. CASE Purge(s)
    <2>1. PICK n \in listed[s] : listed' = [listed EXCEPT ![s] = @ \ {n}]
      BY <1>3 DEF Purge
    <2>2. listed'[s] = listed[s] \ {n} /\ n \in listed[s]
      BY <1>t, <2>1 DEF LegacyTypeOK
    <2>3. UNCHANGED <<pc, req, tries, todo>>
      BY <1>3 DEF Purge
    <2>. QED  BY <2>2, <2>3 DEF Advances, StagesLeft
  <1>4. CASE Swept(s)
    <2>1. pc[s] = "purge"
      BY <1>4 DEF Swept
    <2>2. CASE tries[s] = 1
      <3>1. pc'[s] = "list" /\ tries'[s] = 2
        BY <1>t, <1>4, <1>g, <2>2 DEF Swept, LegacyTypeOK
      <3>. QED  BY <2>1, <2>2, <3>1 DEF Advances, StagesLeft
    <2>3. CASE tries[s] # 1
      BY <1>4, <1>g, <1>i, <2>1, <2>3 DEF Swept
    <2>. QED  BY <2>2, <2>3
  <1>5. CASE Look(s) \/ LoadSink(s) \/ SinkReady(s) \/ SinkTimeout(s)
    <2>1. /\ pc[s] \in {"look", "load", "wait"}
          /\ \/ pc'[s] = "idle" \/ pc'[s] = "mic"
             \/ pc[s] = "look" /\ pc'[s] = "load"
             \/ pc[s] = "load" /\ pc'[s] = "wait"
      BY <1>5, <1>g, <1>a DEF Look, LoadSink, SinkReady, SinkTimeout
    <2>. QED  BY <1>i, <2>1 DEF Advances, StagesLeft
  <1>6. CASE LoadMic(s)
    <2>1. pc[s] = "mic" /\ pc'[s] \in {"idle", "snapshot"}
      BY <1>6, <1>g, <1>a DEF LoadMic, Ensured
    <2>. QED  BY <1>i, <2>1 DEF Advances, StagesLeft
  <1>7. CASE Snapshot(s)
    <2>1. pc[s] = "snapshot" /\ pc'[s] \in {"idle", "link"}
      BY <1>7, <1>g, <1>a DEF Snapshot
    <2>. QED  BY <1>i, <2>1 DEF Advances, StagesLeft
  <1>8. CASE MakeLink(s) \/ Unlink(s)
    <2>1. PICK r \in todo[s] : todo' = [todo EXCEPT ![s] = @ \ {r}]
      BY <1>8 DEF MakeLink, Unlink
    <2>2. todo'[s] = todo[s] \ {r} /\ r \in todo[s]
      BY <1>t, <2>1 DEF LegacyTypeOK
    <2>3. UNCHANGED <<pc, req, tries, listed>>
      BY <1>8 DEF MakeLink, Unlink
    <2>. QED  BY <2>2, <2>3 DEF Advances, StagesLeft
  <1>9. CASE LinksMade(s)
    <2>1. pc[s] = "link" /\ pc'[s] \in {"idle", "unlink"} /\ req' = req
      BY <1>9, <1>g, <1>a DEF LinksMade
    <2>2. req[s].op = "route" /\ req[s].sel # {}
      BY <1>t, <2>1 DEF PlanAt
    <2>. QED  BY <1>i, <2>1, <2>2 DEF Advances, StagesLeft
  <1>10. CASE Unlinked(s)
    <2>1. pc[s] = "unlink" /\ tries' = tries
      BY <1>10 DEF Unlinked
    <2>2. \/ pc'[s] = "idle"
          \/ req[s].op = "route" /\ req[s].sel = {} /\ pc'[s] = "look"
          \/ req[s].op \in {"dispose", "eof"} /\ pc'[s] = "unmic"
      BY <1>10, <1>g, <1>a DEF Unlinked
    <2>. QED  BY <1>d, <1>i, <2>1, <2>2 DEF Advances, StagesLeft
  <1>11. CASE UnloadMic(s) \/ UnloadSink(s)
    <2>1. /\ tries' = tries
          /\ \/ pc[s] = "unmic" /\ pc'[s] = "unsink"
             \/ pc[s] = "unsink" /\ pc'[s] = "disposed"
      BY <1>11, <1>g DEF UnloadMic, UnloadSink
    <2>. QED  BY <1>d, <2>1 DEF Advances, StagesLeft
  <1>12. CASE Disposed(s)
    <2>1. /\ pc[s] = "disposed" /\ req' = req /\ req[s].op \in {"dispose", "eof"}
      BY <1>t, <1>12 DEF Disposed, PlanAt
    <2>2. \/ pc'[s] = "gone"
          \/ pc'[s] = "unlink" /\ tries[s] < 3 /\ tries'[s] = tries[s] + 1
      BY <1>t, <1>12, <1>g DEF Disposed, BeginClear, LegacyTypeOK
    <2>. QED  BY <1>d, <2>1, <2>2 DEF Advances, StagesLeft
  <1>. QED
    BY <1>1, <1>2, <1>3, <1>4, <1>5, <1>6, <1>7, <1>8, <1>9, <1>10, <1>11, <1>12 DEF Work

\* A helper that has a request finishes it in a bounded number of rounds, however many other
\* helpers work on the same server and whatever they do, and whatever commands fail: dispose
\* runs three times at most, and each of the loops has what it found at its start to do.
THEOREM HelpersAreFinite == LegacySpec => HelpersAdvance
  <1>1. ASSUME IInv, LegacyTypeOK', [LegacyNext]_legacyVars, NEW s \in Session,
               pc[s] \notin {"idle", "gone"}, ~Work(s)
        PROVE  Advances(s) \/ UNCHANGED <<pc[s], req[s], tries[s], todo[s], listed[s]>>
    <2>t. LegacyTypeOK
      BY <1>1 DEF IInv
    <2>1. CASE Kill(s)
      <3>1. pc'[s] = "gone"
        BY <2>t, <2>1 DEF Kill, Goto, LegacyTypeOK
      <3>. QED  BY <1>1, <2>t, <3>1, StagesType DEF Advances, StagesLeft
    <2>2. ~Serve(s) /\ ~StdinClosed(s)
      BY <1>1
      DEF Serve, StdinClosed, Take, Ensure, RouteNodes, ClearRoutes, Unsupported, Dispose
    <2>3. ASSUME NEW t \in Session, t # s, Serve(t) \/ Work(t) \/ Kill(t) \/ StdinClosed(t)
          PROVE  UNCHANGED <<pc[s], req[s], tries[s], todo[s], listed[s]>>
      BY <2>t, <2>3, Frame DEF Mine
    <2>4. CASE \/ \E m \in modules : SinkShows(m)
               \/ \E o \in Output : AppComes(o) \/ AppGoes(o)
               \/ UNCHANGED legacyVars
      BY <2>4 DEF SinkShows, AppComes, AppGoes, legacyVars, locals
    <2>. QED  BY <1>1, <2>1, <2>2, <2>3, <2>4 DEF LegacyNext, World
  <1>2. IInv /\ LegacyTypeOK' /\ [LegacyNext]_legacyVars =>
          [\A s \in Session :
             /\ Work(s) => Advances(s)
             /\ pc[s] \notin {"idle", "gone"} =>
                   Advances(s)
                   \/ UNCHANGED <<pc[s], req[s], tries[s], todo[s], listed[s]>>]_legacyVars
    BY <1>1, WorkAdvances
  <1>. QED  BY <1>2, TypesHold, Invariance, PTL DEF LegacySpec, HelpersAdvance
================================================================================
