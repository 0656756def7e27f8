------------------------------ MODULE LegacySession ------------------------------
(***************************************************************************)
(* Helpers on the legacy backend (patchbay/state.rs over snapshot.rs and   *)
(* cmd.rs), reached through AudioSharePatchbay (patchbay/mod.rs). Every    *)
(* effect is a child process: pactl loads and unloads modules, pw-link     *)
(* makes and breaks links, pw-dump shows the graph as it is at that        *)
(* moment. A command that returned has taken effect, and between two       *)
(* commands anything may happen: an application goes, a second helper of   *)
(* the same sink prefix starts and sweeps, the helper is killed.           *)
(***************************************************************************)
EXTENDS Naturals, FiniteSets

CONSTANTS
    Session,    \* helpers; each runs once, a restart is another one
    Output,     \* the usable output ports of the applications' nodes
    InitiallyUp,\* those there at the start
    Selections, \* the selections a client asks for, as sets of outputs
    Config,     \* the command line of each helper
    Id,         \* module ids; one that was freed is given out again
    Asks,       \* what is asked of each helper, and whether it is killed
    Fallible,   \* the commands of each helper that may fail for no reason of their own
    MaxRequests,\* requests of all clients together
    MaxMoves    \* applications that come or go

Op == {"ensure", "route", "clear", "dispose", "eof", "unsupported"}

ASSUME LegacyConstants ==
    /\ Selections \subseteq SUBSET Output /\ InitiallyUp \subseteq Output
    /\ Config \in [Session -> [mic : BOOLEAN, named : BOOLEAN, default : BOOLEAN]]
    /\ 0 \notin Id
    /\ Asks \in [Session -> SUBSET (Op \cup {"kill"})]
    /\ Fallible \in [Session -> SUBSET {"list", "load", "unload", "link", "unlink", "dump"}]
    /\ MaxRequests \in Nat /\ MaxMoves \in Nat

\* pipewire-pulse and the graph
VARIABLES
    modules,  \* the loaded null sinks and remapped sources that bear the prefix
    ready,    \* the sinks whose node pw-dump shows with both input ports
    links,    \* links from an output into a sink, with the helper that made them
    up,       \* the outputs that are there
    moves
\* PatchbayState
VARIABLES
    pc, req, res,
    module_id, remap_module_id,   \* 0: None
    routes
\* locals of the running call
VARIABLES
    listed,   \* module ids of `pactl list` still to be unloaded
    desired,  \* desired_routes
    todo,     \* the routes still to be linked or unlinked
    kept,     \* active_routes, retained_stale, failed
    tries,    \* the how manieth sweep, or call of dispose
    failed,   \* dispose has met an error
    served
\* history
VARIABLES
    before,   \* the helpers that were gone when this one started
    spared,   \* modules a sweep could not list or not unload
    late,     \* sinks that were loaded but not ready when ensure_virtual_sink looked
    stuck     \* routes whose removal failed in the last loop

server == <<modules, ready, links, up, moves>>
record == <<module_id, remap_module_id, routes>>
locals == <<listed, desired, todo, kept, tries, failed>>
history == <<before, spared, late, stuck>>
legacyVars == <<server, pc, req, res, record, locals, served, history>>

--------------------------------------------------------------------------------
Module == [n : Id, kind : {"sink", "mic"}, by : Session]
Route == Output \X Id

Fails(s, command) == command \in Fallible[s]
Named(n) == {m \in modules : m.n = n}
FreeId == {n \in Id : Named(n) = {}}
Sinks == {m \in modules : m.kind = "sink"}
Own(s) == {m \in Sinks : m.by = s}

\* PipeWireSnapshot::collect: pw-dump or its parser fails eight times over.
NoGraph(s) == Fails(s, "dump")

\* new() of AudioSharePatchbay drops --virtual-mic beside --sink-becomes-default;
\* PatchbayState::new gives a mic to a helper that has a name for it as well.
HasMic(s) == (Config[s].mic /\ ~Config[s].default) \/ Config[s].named

\* find_virtual_sink: by name, and only if no node has the name, by description, which
\* all helpers share. A sink that is not ready may have its node there already, which
\* then hides others, or not yet.
Finds(s, m) ==
    /\ m \in ready
    /\ m.by = s \/ Own(s) \cap ready = {}
Misses(s) ==
    \/ ready = {}
    \/ \E m \in Sinks \ ready : m.by = s \/ Own(s) \cap ready = {}

\* unload-module takes the links into the sink along.
Unload(ms) ==
    /\ modules' = modules \ ms
    /\ ready' = ready \ ms
    /\ links' = {l \in links : \A m \in ms : l.route[2] # m.n}
    /\ UNCHANGED <<up, moves>>

\* create_link: "exists" is success; an end that is gone is an error.
CreateLink(s, r, made) ==
    LET linked == \E l \in links : l.route = r
        ends == r[1] \in up /\ \E m \in ready : m.n = r[2]
    IN \/ made /\ linked /\ UNCHANGED links
       \/ made /\ ~linked /\ ends /\ links' = links \cup {[route |-> r, by |-> s]}
       \/ ~made /\ ~linked /\ (~ends \/ Fails(s, "link")) /\ UNCHANGED links

\* remove_link: a link that is not there is success.
RemoveLink(s, r, removed) ==
    \/ removed /\ links' = {l \in links : l.route # r}
    \/ /\ ~removed /\ Fails(s, "unlink")
       /\ \E l \in links : l.route = r
       /\ UNCHANGED links

Goto(s, label) == pc' = [pc EXCEPT ![s] = label]

Answer(s, result) ==
    /\ Goto(s, "idle")
    /\ res' = [res EXCEPT ![s] = result]

--------------------------------------------------------------------------------
(* Start: clean_orphaned_modules, with the sink prefix, then with the name of the mic.
   The line of a mic names its master, so the first sweep finds both kinds. *)

Start(s) ==
    /\ pc[s] = "new"
    /\ Goto(s, "list")
    /\ tries' = [tries EXCEPT ![s] = 1]
    /\ before' = [before EXCEPT ![s] = {t \in Session : pc[t] = "gone"}]
    /\ UNCHANGED <<server, req, res, record, listed, desired, todo, kept, failed, served,
                   spared, late, stuck>>

\* Mutant: the first sweep looks for the mics only.
Matching_MicsOnly(s) == {m \in modules : m.kind = "mic"}

Matching(s) == {m \in modules : tries[s] = 1 \/ m.kind = "mic"}

ListModules(s) ==
    /\ pc[s] = "list"
    /\ Goto(s, "purge")
    /\ \/ /\ listed' = [listed EXCEPT ![s] = {m.n : m \in Matching(s)}]
          /\ UNCHANGED spared
       \/ /\ Fails(s, "list")
          /\ spared' = spared \cup Matching(s)
          /\ UNCHANGED listed
    /\ UNCHANGED <<server, req, res, record, desired, todo, kept, tries, failed, served,
                   before, late, stuck>>

\* The result of the command is ignored.
Purge(s) ==
    /\ pc[s] = "purge"
    /\ \E n \in listed[s] :
          /\ listed' = [listed EXCEPT ![s] = @ \ {n}]
          /\ \/ Unload(Named(n)) /\ UNCHANGED spared
             \/ /\ Fails(s, "unload")
                /\ spared' = spared \cup Named(n)
                /\ UNCHANGED server
    /\ UNCHANGED <<pc, req, res, record, desired, todo, kept, tries, failed, served,
                   before, late, stuck>>

Swept(s) ==
    /\ pc[s] = "purge" /\ listed[s] = {}
    /\ IF tries[s] = 1
         THEN Goto(s, "list") /\ tries' = [tries EXCEPT ![s] = 2]
         ELSE Goto(s, "idle") /\ UNCHANGED tries
    /\ UNCHANGED <<server, req, res, record, listed, desired, todo, kept, failed, served,
                   history>>

--------------------------------------------------------------------------------
(* Requests. *)

\* clear_routes takes the record; every removal that fails is put back.
BeginClear(s) ==
    /\ Goto(s, "unlink")
    /\ todo' = [todo EXCEPT ![s] = routes[s]]
    /\ kept' = [kept EXCEPT ![s] = {}]
    /\ desired' = [desired EXCEPT ![s] = {}]
    /\ stuck' = [stuck EXCEPT ![s] = {}]

Take(s, op, sel) ==
    /\ pc[s] = "idle" /\ op \in Asks[s] /\ served < MaxRequests
    /\ served' = served + 1
    /\ req' = [req EXCEPT ![s] = [op |-> op, sel |-> sel]]
    /\ UNCHANGED <<server, record, listed, before, spared, late>>

Ensure(s) ==
    /\ Take(s, "ensure", {})
    /\ Goto(s, "look")
    /\ res' = [res EXCEPT ![s] = "none"]
    /\ UNCHANGED <<desired, todo, kept, tries, failed, stuck>>

RouteNodes(s) == \E sel \in Selections :
    /\ Take(s, "route", sel)
    /\ res' = [res EXCEPT ![s] = "none"]
    /\ UNCHANGED <<tries, failed>>
    /\ IF sel = {} THEN BeginClear(s)
                   ELSE Goto(s, "look") /\ UNCHANGED <<desired, todo, kept, stuck>>

ClearRoutes(s) ==
    /\ Take(s, "clear", {})
    /\ res' = [res EXCEPT ![s] = "none"]
    /\ BeginClear(s)
    /\ UNCHANGED <<tries, failed>>

\* setVirtualMicMute, setDefaultSinkToVirtual and setDiscordCaptureTargets are errors on
\* this backend; restoreDefaultSink and the sync after a graph change do nothing.
Unsupported(s) == \E result \in {"ok", "err"} :
    /\ Take(s, "unsupported", {})
    /\ Answer(s, result)
    /\ UNCHANGED <<desired, todo, kept, tries, failed, stuck>>

\* dispose runs for the request, again in main after the loop, and again in Drop.
Dispose(s) ==
    /\ Take(s, "dispose", {})
    /\ res' = [res EXCEPT ![s] = "none"]
    /\ tries' = [tries EXCEPT ![s] = 1]
    /\ failed' = [failed EXCEPT ![s] = FALSE]
    /\ BeginClear(s)

StdinClosed(s) ==
    /\ pc[s] = "idle" /\ "eof" \in Asks[s]
    /\ req' = [req EXCEPT ![s] = [op |-> "eof", sel |-> {}]]
    /\ res' = [res EXCEPT ![s] = "none"]
    /\ tries' = [tries EXCEPT ![s] = 2]
    /\ failed' = [failed EXCEPT ![s] = FALSE]
    /\ BeginClear(s)
    /\ UNCHANGED <<server, record, listed, served, before, spared, late>>

--------------------------------------------------------------------------------
(* ensure_virtual_sink *)

Look(s) ==
    /\ pc[s] = "look"
    /\ \/ (\E m \in ready : Finds(s, m)) /\ Goto(s, "mic") /\ UNCHANGED <<res, late>>
       \/ /\ Misses(s)
          /\ late' = late \cup (Own(s) \ ready)
          /\ Goto(s, "load") /\ UNCHANGED res
       \/ NoGraph(s) /\ Answer(s, "err") /\ UNCHANGED late
    /\ UNCHANGED <<server, req, record, locals, served, before, spared, stuck>>

LoadSink(s) ==
    /\ pc[s] = "load"
    /\ \/ \E n \in FreeId :
             /\ modules' = modules \cup {[n |-> n, kind |-> "sink", by |-> s]}
             /\ module_id' = [module_id EXCEPT ![s] = n]
             /\ Goto(s, "wait") /\ UNCHANGED res
       \/ /\ Fails(s, "load") \/ FreeId = {}
          /\ Answer(s, "err") /\ UNCHANGED <<modules, module_id>>
    /\ UNCHANGED <<ready, links, up, moves, req, remap_module_id, routes, locals, served,
                   history>>

SinkReady(s) ==
    /\ pc[s] = "wait"
    /\ \E m \in ready : Finds(s, m)
    /\ Goto(s, "mic")
    /\ UNCHANGED <<server, req, res, record, locals, served, history>>

\* Mutant: only a graph that cannot be read ends the loop.
SinkTimeout_ReadErrors(s) ==
    /\ pc[s] = "wait" /\ NoGraph(s)
    /\ Answer(s, "err")
    /\ UNCHANGED <<server, req, record, locals, served, history>>

\* The module is left loaded and its id recorded, until the next attempt.
SinkTimeout(s) ==
    /\ pc[s] = "wait"
    /\ Misses(s) \/ NoGraph(s)
    /\ Answer(s, "err")
    /\ UNCHANGED <<server, req, record, locals, served, history>>

\* The end of ensure_virtual_sink: route_nodes goes on, the other requests are answered.
Ensured(s) ==
    IF req[s].op = "route" /\ req[s].sel # {}
      THEN Goto(s, "snapshot") /\ UNCHANGED res
      ELSE Answer(s, "ok")

\* Mutant: a mic that is there is loaded again.
MicMissing_Always(s) == HasMic(s)

MicMissing(s) == HasMic(s) /\ remap_module_id[s] = 0

LoadMic(s) ==
    /\ pc[s] = "mic"
    /\ \/ /\ ~MicMissing(s)
          /\ Ensured(s) /\ UNCHANGED <<modules, remap_module_id>>
       \/ /\ MicMissing(s)
          /\ \/ \E n \in FreeId :
                   /\ modules' = modules \cup {[n |-> n, kind |-> "mic", by |-> s]}
                   /\ remap_module_id' = [remap_module_id EXCEPT ![s] = n]
                   /\ Ensured(s)
             \/ /\ Fails(s, "load") \/ FreeId = {}
                /\ Answer(s, "err") /\ UNCHANGED <<modules, remap_module_id>>
    /\ UNCHANGED <<ready, links, up, moves, req, module_id, routes, locals, served, history>>

--------------------------------------------------------------------------------
(* route_nodes *)

\* Mutant: every node is routed.
Wanted_Everything(s, m) == {r \in Route : r[1] \in up /\ r[2] = m.n}

\* map_ports gives each output an input of the sink.
Wanted(s, m) == {r \in Route : r[1] \in req[s].sel \cap up /\ r[2] = m.n}

Snapshot(s) ==
    /\ pc[s] = "snapshot"
    /\ \/ \E m \in ready :
             /\ Finds(s, m)
             /\ Wanted(s, m) # {}
             /\ desired' = [desired EXCEPT ![s] = Wanted(s, m)]
             /\ todo' = [todo EXCEPT ![s] = Wanted(s, m)]
             /\ kept' = [kept EXCEPT ![s] = {}]
             /\ Goto(s, "link") /\ UNCHANGED res
       \/ /\ Misses(s) \/ NoGraph(s) \/ req[s].sel \cap up = {}
          /\ Answer(s, "err") /\ UNCHANGED <<desired, todo, kept>>
    /\ UNCHANGED <<server, req, record, listed, tries, failed, served, history>>

\* A link that cannot be made is skipped.
MakeLink(s) ==
    /\ pc[s] = "link"
    /\ \E r \in todo[s], made \in BOOLEAN :
          /\ CreateLink(s, r, made)
          /\ todo' = [todo EXCEPT ![s] = @ \ {r}]
          /\ kept' = [kept EXCEPT ![s] = IF made THEN @ \cup {r} ELSE @]
    /\ UNCHANGED <<modules, ready, up, moves, pc, req, res, record, listed, desired, tries,
                   failed, served, history>>

\* Mutants: old routes are never removed; or all of them are.
Stale_None(s) == {}
Stale_All(s) == routes[s]

Stale(s) == routes[s] \ desired[s]

\* None active: an error, and the record of before stays.
LinksMade(s) ==
    /\ pc[s] = "link" /\ todo[s] = {}
    /\ IF kept[s] = {}
         THEN Answer(s, "err") /\ UNCHANGED <<todo, stuck>>
         ELSE /\ Goto(s, "unlink") /\ UNCHANGED res
              /\ todo' = [todo EXCEPT ![s] = Stale(s)]
              /\ stuck' = [stuck EXCEPT ![s] = {}]
    /\ UNCHANGED <<server, req, record, listed, desired, kept, tries, failed, served,
                   before, spared, late>>

--------------------------------------------------------------------------------
(* The loops that remove links, and dispose *)

\* Mutant: a route whose removal failed is forgotten.
Retain_Drop(s, r) == UNCHANGED kept

Retain(s, r) == kept' = [kept EXCEPT ![s] = @ \cup {r}]

Unlink(s) ==
    /\ pc[s] = "unlink"
    /\ \E r \in todo[s], removed \in BOOLEAN :
          /\ RemoveLink(s, r, removed)
          /\ todo' = [todo EXCEPT ![s] = @ \ {r}]
          /\ IF removed THEN UNCHANGED <<kept, stuck>>
             ELSE Retain(s, r) /\ stuck' = [stuck EXCEPT ![s] = @ \cup {r}]
    /\ UNCHANGED <<modules, ready, up, moves, pc, req, res, record, listed, desired, tries,
                   failed, served, before, spared, late>>

Unlinked(s) ==
    /\ pc[s] = "unlink" /\ todo[s] = {}
    /\ routes' = [routes EXCEPT ![s] = kept[s]]
    /\ LET op == req[s].op  empty == kept[s] = {} IN
         \/ /\ op = "route" /\ req[s].sel # {}
            /\ Answer(s, "ok") /\ UNCHANGED failed
         \/ /\ op = "route" /\ req[s].sel = {} /\ empty
            /\ Goto(s, "look") /\ UNCHANGED <<res, failed>>
         \/ /\ op = "route" /\ req[s].sel = {} /\ ~empty
            /\ Answer(s, "err") /\ UNCHANGED failed
         \/ /\ op = "clear"
            /\ Answer(s, IF empty THEN "ok" ELSE "err") /\ UNCHANGED failed
         \/ /\ op \in {"dispose", "eof"}
            /\ Goto(s, "unmic") /\ UNCHANGED res
            /\ failed' = [failed EXCEPT ![s] = @ \/ ~empty]
    /\ UNCHANGED <<server, req, module_id, remap_module_id, listed, desired, todo, kept,
                   tries, served, history>>

\* unload-module for an id of the record: the id is forgotten when the command succeeds.
UnloadById(s, id) ==
    \/ id[s] = 0 /\ UNCHANGED <<server, id, failed>>
    \/ /\ id[s] # 0 /\ Named(id[s]) # {}
       /\ Unload(Named(id[s]))
       /\ id' = [id EXCEPT ![s] = 0] /\ UNCHANGED failed
    \/ /\ id[s] # 0 /\ (Named(id[s]) = {} \/ Fails(s, "unload"))
       /\ failed' = [failed EXCEPT ![s] = TRUE]
       /\ UNCHANGED <<server, id>>

\* Mutant: the mic is forgotten, not unloaded.
UnloadMic_Skip(s) ==
    /\ pc[s] = "unmic" /\ Goto(s, "unsink")
    /\ remap_module_id' = [remap_module_id EXCEPT ![s] = 0]
    /\ UNCHANGED <<server, failed, req, res, module_id, routes, listed, desired, todo, kept,
                   tries, served, history>>

UnloadMic(s) ==
    /\ pc[s] = "unmic" /\ Goto(s, "unsink")
    /\ UnloadById(s, remap_module_id)
    /\ UNCHANGED <<req, res, module_id, routes, listed, desired, todo, kept, tries, served,
                   history>>

UnloadSink(s) ==
    /\ pc[s] = "unsink" /\ Goto(s, "disposed")
    /\ UnloadById(s, module_id)
    /\ UNCHANGED <<req, res, remap_module_id, routes, listed, desired, todo, kept, tries,
                   served, history>>

\* The client is told of the first call only; the process ends after the third. A call that
\* finds nothing on record does nothing.
Disposed(s) == LET again ==
        tries[s] < 3 /\ (routes[s] # {} \/ remap_module_id[s] # 0 \/ module_id[s] # 0) IN
    /\ pc[s] = "disposed"
    /\ res' = IF tries[s] = 1
                THEN [res EXCEPT ![s] = IF failed[s] THEN "err" ELSE "ok"] ELSE res
    /\ failed' = [failed EXCEPT ![s] = FALSE]
    /\ tries' = [tries EXCEPT ![s] = IF again THEN @ + 1 ELSE @]
    /\ IF again THEN BeginClear(s)
                ELSE Goto(s, "gone") /\ UNCHANGED <<todo, kept, desired, stuck>>
    /\ UNCHANGED <<server, req, record, listed, served, before, spared, late>>

--------------------------------------------------------------------------------
(* What happens around the helpers *)

\* SIGKILL: modules and links belong to the server and stay.
Kill(s) ==
    /\ "kill" \in Asks[s] /\ pc[s] \notin {"new", "gone"}
    /\ Goto(s, "gone")
    /\ UNCHANGED <<server, req, res, record, locals, served, history>>

SinkShows(m) ==
    /\ m.kind = "sink" /\ m \notin ready
    /\ ready' = ready \cup {m}
    /\ UNCHANGED <<modules, links, up, moves, pc, req, res, record, locals, served, history>>

AppComes(o) ==
    /\ o \notin up /\ moves < MaxMoves
    /\ up' = up \cup {o} /\ moves' = moves + 1
    /\ UNCHANGED <<modules, ready, links, pc, req, res, record, locals, served, history>>

AppGoes(o) ==
    /\ o \in up /\ moves < MaxMoves
    /\ up' = up \ {o} /\ moves' = moves + 1
    /\ links' = {l \in links : l.route[1] # o}
    /\ UNCHANGED <<modules, ready, pc, req, res, record, locals, served, history>>

--------------------------------------------------------------------------------
LegacyInit ==
    /\ modules = {} /\ ready = {} /\ links = {} /\ moves = 0
    /\ up = InitiallyUp
    /\ pc = [s \in Session |-> "new"]
    /\ req = [s \in Session |-> [op |-> "none", sel |-> {}]]
    /\ res = [s \in Session |-> "none"]
    /\ module_id = [s \in Session |-> 0] /\ remap_module_id = [s \in Session |-> 0]
    /\ routes = [s \in Session |-> {}]
    /\ listed = [s \in Session |-> {}] /\ desired = [s \in Session |-> {}]
    /\ todo = [s \in Session |-> {}] /\ kept = [s \in Session |-> {}]
    /\ tries = [s \in Session |-> 0] /\ failed = [s \in Session |-> FALSE]
    /\ served = 0
    /\ before = [s \in Session |-> {}] /\ spared = {} /\ late = {}
    /\ stuck = [s \in Session |-> {}]

Serve(s) == Ensure(s) \/ RouteNodes(s) \/ ClearRoutes(s) \/ Unsupported(s) \/ Dispose(s)

\* The steps of a helper that has something to do.
Work(s) ==
    \/ Start(s) \/ ListModules(s) \/ Purge(s) \/ Swept(s)
    \/ Look(s) \/ LoadSink(s) \/ SinkReady(s) \/ SinkTimeout(s) \/ LoadMic(s)
    \/ Snapshot(s) \/ MakeLink(s) \/ LinksMade(s)
    \/ Unlink(s) \/ Unlinked(s) \/ UnloadMic(s) \/ UnloadSink(s) \/ Disposed(s)

World ==
    \/ \E s \in Session : Kill(s) \/ StdinClosed(s)
    \/ \E m \in modules : SinkShows(m)
    \/ \E o \in Output : AppComes(o) \/ AppGoes(o)

LegacyNext == (\E s \in Session : Serve(s) \/ Work(s)) \/ World

LegacySpec == LegacyInit /\ [][LegacyNext]_legacyVars

\* Commands return, and the loop of the sink ends after three seconds.
LegacyFairSpec == LegacySpec /\ \A s \in Session : WF_legacyVars(Work(s))

--------------------------------------------------------------------------------
(* Properties *)

LegacyTypeOK ==
    /\ modules \subseteq Module /\ ready \subseteq Sinks
    /\ links \subseteq [route : Route, by : Session]
    /\ up \subseteq Output /\ moves \in 0..MaxMoves
    /\ pc \in [Session -> {"new", "list", "purge", "idle", "look", "load", "wait", "mic",
                           "snapshot", "link", "unlink", "unmic", "unsink", "disposed",
                           "gone"}]
    /\ req \in [Session -> [op : Op \cup {"none"}, sel : SUBSET Output]]
    /\ res \in [Session -> {"none", "ok", "err"}]
    /\ module_id \in [Session -> Id \cup {0}]
    /\ remap_module_id \in [Session -> Id \cup {0}]
    /\ routes \in [Session -> SUBSET Route]
    /\ listed \in [Session -> SUBSET Id]
    /\ desired \in [Session -> SUBSET Route] /\ todo \in [Session -> SUBSET Route]
    /\ kept \in [Session -> SUBSET Route]
    /\ tries \in [Session -> 0..3] /\ failed \in [Session -> BOOLEAN]
    /\ served \in 0..MaxRequests
    /\ before \in [Session -> SUBSET Session]
    /\ spared \subseteq Module /\ late \subseteq Module
    /\ stuck \in [Session -> SUBSET Route]

\* No link is forgotten: whatever helper s has linked and is still there, it has on record
\* for the next clear_routes or dispose, whichever links and removals failed on the way.
LinksTracked == \A l \in links : pc[l.by] # "gone" =>
    l.route \in routes[l.by] \cup kept[l.by]

HadLate(s) == \E m \in late : m.by = s

\* No mic is forgotten, and a sink only by a helper that once found a sink of its own not
\* ready when it looked, and has replaced it.
ModulesTracked == \A m \in modules : pc[m.by] # "gone" =>
    IF m.kind = "mic" THEN m.n = remap_module_id[m.by]
                      ELSE m.n = module_id[m.by] \/ HadLate(m.by)

\* Once a helper has swept, nothing is left of those that were gone when it started,
\* save what pactl would not list or unload.
DeadSwept == \A s \in Session : pc[s] \notin {"new", "list", "purge", "gone"} =>
    \A m \in modules \ spared : m.by \notin before[s]

\* An accepted selection has replaced the one before: every link this helper made is from a
\* selected output, or pw-link refused to remove it.
SelectionReplaced == \A s \in Session :
    pc[s] = "idle" /\ req[s].op \in {"route", "clear"} /\ res[s] = "ok" =>
        \A l \in links : l.by = s => l.route[1] \in req[s].sel \/ l.route \in stuck[s]

\* A dispose that was answered ok has left no link, no mic and, if there has never been more
\* than one to care for, no sink, for good.
DisposedClean == \A s \in Session :
    req[s].op = "dispose" /\ res[s] = "ok" =>
        /\ \A l \in links : l.by # s
        /\ \A m \in modules : m.by = s => m.kind = "sink" /\ HadLate(s)

\* A new selection is linked before the old one is cut, and never cuts a link both share.
Seamless == [][\A s \in Session :
    pc[s] = "unlink" /\ todo'[s] # todo[s] =>
        \A l \in links \ links' : l.route \notin desired[s]]_legacyVars

\* Every request is answered, whatever fails, and a disposed helper ends.
RequestsEnd == \A s \in Session : (pc[s] # "idle") ~> (pc[s] \in {"idle", "gone", "new"})

\* Each helper is a helper as its client knows it: it links what was selected and nothing
\* else, and nothing any more once it is gone.
Sharing(s) == INSTANCE AudioSharing WITH
    App <- Output,
    Lingers <- TRUE,
    wanted <- [p \in {"sink", "capture"} |-> IF p = "sink" THEN req[s].sel ELSE {}],
    heard <- {<<l.route[1], "sink">> : l \in {k \in links : k.by = s}},
    answered <- IF res[s] = "ok" /\ req[s].op \in {"route", "clear"} THEN {"sink"} ELSE {},
    open <- pc[s] # "gone"

\* (This is \A s \in Session : Sharing(s)!Spec, with the quantifier inside the box.)
ImplementsSharing ==
    /\ \A s \in Session : Sharing(s)!Init
    /\ [][\A s \in Session : [Sharing(s)!Next]_(Sharing(s)!sharingVars)]_legacyVars
================================================================================
