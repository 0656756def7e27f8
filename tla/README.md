# Verifying patchcord

patchcord shares the audio of chosen applications on a PipeWire desktop: a Rust
helper process routes applications into a virtual sink (with an optional virtual
microphone) and into the per-application capture streams of Discord, and a small
Node.js library drives the helper over a pipe. Two more artefacts make Discord
cooperate: a shared library injected into it, and a tool that injects it.

This directory holds TLA+ models of that program, the TLC configurations that
check them on small instances, and TLAPS proofs about the core for every value of
its constants.

    tlc -workers 2 -config routing.cfg MCNativeSession.tla     # one run
    tlapm NativeSharingProofs.tla                              # one module of proofs

## 1. The system

Paths are relative to `src/`; `patchbay/` is `crates/patchcord/src/patchbay/`.

| Component | Source | State it keeps | Operations |
|---|---|---|---|
| Main loop | `crates/patchcord/src/main.rs` | a queue of messages from two threads: the requests read from stdin, and graph changes of the loop thread | one message at a time: dispatch a request and write its reply, or sync the capture links; `Dispose` or the end of stdin ends the process |
| Native session | `patchbay/state_native.rs` | handles of the sink, the mic and the null sink; link handles of routes, of the mic and of every capture; the capture selection and its filter; the default sink from before an override | `ensure_virtual_sink`, `route_nodes`, `clear_routes`, `set_virtual_mic_mute`, `set_default_sink_to_virtual`, `restore_default_sink`, `set_discord_capture_targets`, `sync_discord_capture_links`, `dispose`, and the queries |
| PipeWire backend | `patchbay/pw_backend.rs` | a thread of its own with the proxies of everything created, by handle, and a mirror of the registry and of the default metadata | commands over a channel, each answered; events of the server update the mirror and send `GraphChanged` |
| Facade | `patchbay/mod.rs` | which of the two backends is in use, a cached detection of PipeWire | delegation; validation of the configuration |
| Port matching | `patchbay/routing.rs` | none | `map_ports`: which output is linked to which inputs |
| Data model | `patchbay/models.rs` | none | port lookups, the recognition of capture nodes, `RouteFilter` |
| Legacy backend | `patchbay/state.rs`, `snapshot.rs`, `cmd.rs`, `error.rs` | a module id, the set of active routes | the same promises through `pactl` and `pw-link` |
| Client library | `node/patchcord.js` | pending requests by id, closing and closed flags, timers | send, match replies, time out, dispose, abort |
| Shim | `crates/discord-capture-shim/src/lib.rs` | the set of blocked stream addresses; reads the allow-list file | `pa_stream_set_monitor_stream`, `pa_stream_connect_record` |
| Setup tool | `crates/discord-capture-shim/src/bin/setup.rs` | the addon file, its backup and temporary files | patch, restore |

Interactions. The client writes requests to the helper's stdin and reads replies
and events from its stdout. The main loop calls the session; the session sends
commands to the loop thread and waits for each answer; the loop thread talks to
the PipeWire server and hears of everything, its own creations included, through
asynchronous events. The session and the shim share a file, the allow-list,
which the session replaces by a rename and the shim reads at every call. The
session's null sink is where the shim sends the streams it blocks. All helpers of one
user share that sink, the directory of the lists and the server.

### What is hard, and what makes each part correct

**Native session and backend.** Everything the session decides, it decides on a
mirror that lags behind the server. Nodes appear one event at a time (node, then
ports), commands can fail, waits poll for two or three seconds and give up, and
an application or a capture can vanish, and its id be given to another, between
any two steps. It is correct when

- no link is lost track of: what exists on the server is in one of the session's
  lists, so that it can be removed, and every handle in a list has a proxy;
- `route_nodes` leaves the new selection and nothing else linked to the sink, and
  no routing call touches the links that feed the virtual mic;
- nothing of ours is played back into the sink or a capture;
- an empty selection silences every capture, the allow-list names selected
  applications only, and captures follow the selection;
- the default sink from before an override is remembered and given back;
- the main loop always returns to its queue, and captures and links from null
  sinks that appear at any time are dealt with eventually.

**Client library.** Replies, two kinds of timers, failed writes and the exit of
the process race. Correct: every promise is settled, `dispose()` ends, and ends
only after the helper, nothing follows the dispose request.

**Shim.** It knows streams by address, several threads call it, addresses are
used again and it is never told that a stream was freed. Correct: a capture
never records the microphone; it records its application exactly if that is
listed; other streams are left alone.

**Setup tool.** It can stop at any file operation. Correct: the addon is never
torn, the backup exists before the first patch and is never a patched file.

**Legacy backend.** Every effect is a child process that may fail, modules and
links outlive the helper, and other helpers sweep up at their start. Correct: no
link or module is forgotten, stale routes go and those that could not be removed
are retried, a new selection never interrupts what it shares with the old one,
and what the dead left behind is removed.

**Registry mirror, port matching.** Ids are shared by all kinds of objects and
given out again, ports come one by one in any order of channels, some without a
channel or an index. Correct: the mirror ends up with the graph of the server,
nothing of a removed object passes to its successor, and every output reaches the
input of its own side, or some input at all.

**Facade.** Two backends do the same with different means; what is heard, and what
an accepted request means, must not depend on which one it is.

`PROJECT.json` lists every hazard at its line with the properties that cover it,
or why none does.

## 2. Modules

    AudioSharing  <- - -  NativeSession, LegacySession     (INSTANCE: what both implement)

    PwBackend <-- NativeSession <-- MCNativeSession                       (runs)
                                <-- NativeSessionProofs <-- NativeSharingProofs
    PortMapping <-- Registry <-- MCRegistry                               (run)
                             <-- RegistryProofs
    LegacySession <-- MCLegacySession                                     (run)
                  <-- LegacySessionProofs
    CaptureHost, ShimStreams <-- CaptureShim <-- MCCaptureShim            (run)
                                             <-- CaptureHostProofs
    ShimStreams                                                           (run)
                <-- ShimStreamsProofs <-- CaptureHostProofs
    ClientProtocol <-- ClientProtocolProofs
    SetupTool <-- SetupToolProofs

### AudioSharing: what a client may rely on

The abstract specification of `AudioSharePatchbay` (`patchbay/mod.rs`): two places
(the virtual sink, the captures), a selection `wanted` for each, what is connected
(`heard`), the places whose last request was accepted (`answered`) and whether
the helper runs (`open`). An application is connected to a place only while it is
selected for it or was selected when it was connected; an accepted selection has
replaced the one before; a helper that is gone connects nothing.

`NativeSession` implements it with `Lingers = FALSE`: `heard` is read off the links
that exist on the server, not off the lists of the session, so that a link the
session had lost would show. `LegacySession` implements it once for every helper
with `Lingers = TRUE`: a removal that `pw-link` refuses keeps the link (the route is
on record for the next attempt), and the links outlive the helper. What `pw-link`
did not refuse to remove is `SelectionReplaced`. `Replaced` is weaker for captures,
since a linked capture keeps its link until nothing is selected any more
(section 5).

### PwBackend: the server, the loop thread, its mirror

State in three groups. *Server*: `gen` (odd while a registry id of another
program's node is in use; each use is an incarnation), the links this process
made that exist (`live`), links from null sinks into captures that others made
(`stray`), the configured default sink. *Proxies*: what was created, by handle.
*Mirror*: everything the events have announced so far, which is all that
`Command::Snapshot` returns. `PeerAppears`, `PeerDisappears` and `StrayForms` are
the environment; `NodeEvent`, `PortEvent` and the others are the handlers of
`run_loop`, each for one object, in any order between objects. `Relink` is
`CreateLink` and `DestroyLink` together with the link-factory: a link comes to
life if its ends still are what the mirror took them for and no link joins the
same ports.

### NativeSession: one session, driven by the main loop

`pc` is the point the main loop has reached: `idle` between messages, and a point
for each wait in which a handler sleeps. Between two such points a handler works
on one snapshot and sends commands, and that is one action: a change on the
server in between is indistinguishable from one just before, not yet mirrored.
Each list of the `NativeSession` struct is a variable of its own; `muted`,
`allowed` (the allow-list file) and `req` (the request in hand or the last one,
and how it ended) are the outputs.

| Code | Actions |
|---|---|
| `ensure_virtual_sink`, `ensure_virtual_mic`, `link_monitor_to_mic` | `EnsureVirtualSink`/`RouteNodes`, `EnsureSink`, `EnsureMic`, `LinkMonitorToMic`, `MicTimeout`, `SinkReady`, `SinkTimeout` |
| `route_nodes`, `clear_routes` | `RouteNodes`, `RouteNone`, `RouteLink`, `ClearRoutes` |
| default sink override | `OverrideDefault` (in `SinkReady`), `SetDefaultSinkToVirtual`, `RestoreDefaultSink` |
| `set_discord_capture_targets` | `SetDiscordCaptureTargets`, `EnsureNullSink`, `NullReady`, `NullTimeout`, `StoreTargets`, `SyncCaptureLinks` |
| `sync_discord_capture_links` on a graph change | `GraphChanged` |
| end of the process | `Dispose`, `Exit`, `Killed` |

What is abstracted. A filter lets any subset of the nodes pass, since
`should_link` asks about links of other programs. Nodes have one port for each
channel and direction. The ports of a node go with it. Links whose ends have
become other objects are refused, as the server refuses ports that are gone.
Graph changes that wait in the queue are one flag: a sync that finds nothing new
does nothing. The null sink's monitor is represented by the links from it only.
Captures are not selectable. The mic together with a sink that becomes the
default exists only by way of `--virtual-mic-name`, and `routing.cfg` is that
configuration.

### Registry and PortMapping: the mirror down to the port, and the plan of links

`Registry` is the listener of `run_loop` in the detail `PwBackend` leaves out:
nodes, ports and links are objects of one id space, ids are given out again
lowest first, events wait in a queue, a node's record collects its ports, and
titles come from a bound proxy, one for each id. `NodeAdded`, `PortAdded`,
`LinkAdded`, `Removed` and `TitleChanged` are the server; `Deliver` (with
`GlobalNode`, `GlobalPort`, `GlobalLink`, `GlobalRemove`) and `Info` are the
listener. A serial number that the code never looks at tells incarnations
apart. A record has a list of ports for each direction instead of one list, since
nothing reads the ports of a node but `output_ports` and `input_ports`
(`models.rs:178`), which filter by direction and keep the order. `PortMapping` is `map_ports` of `routing.rs` in full: roles of channels,
port indexes, places in the list, and the fallbacks.

`InOrder` says that events arrive in the order of the changes, as they do on one
socket. The comment at `pw_backend.rs:419` means to cope with the other case, a
port announced before its node, but the record of such a port is dropped, and
with `InOrder = FALSE` `PortsListed` is violated: the order of the events is all
that keeps ports from being lost.

### LegacySession: helpers that call pactl, pw-link and pw-dump

Any number of helpers of one sink prefix on one server. A command is one action: a
child process that returned has taken effect, and what it sees is the graph of
that moment. `pc[s]` is the next command of helper `s`; `module_id`,
`remap_module_id` and `routes` are its `PatchbayState`, and `todo`, `kept`,
`desired`, `listed`, `tries`, `failed` the locals of the running function.

| Code (`patchbay/state.rs`) | Actions |
|---|---|
| `new`, `clean_orphaned_modules` | `Start`, `ListModules`, `Purge`, `Swept` (two sweeps) |
| `ensure_virtual_sink` | `Ensure`, `Look`, `LoadSink`, `SinkReady`, `SinkTimeout`, `LoadMic` |
| `route_nodes` | `RouteNodes`, `Snapshot`, `MakeLink`, `LinksMade`, `Unlink`, `Unlinked` |
| `clear_routes` | `ClearRoutes`, `Unlink`, `Unlinked` |
| `dispose`, called by the request, by `main` and by `Drop` | `Dispose`, `StdinClosed`, then `Unlink`, `Unlinked`, `UnloadMic`, `UnloadSink`, `Disposed` |
| `snapshot.rs`, `cmd.rs` | `Finds`, `Misses`, `NoGraph`, `CreateLink`, `RemoveLink`, `Unload` |
| what `mod.rs` refuses on this backend | `Unsupported` |

What is abstracted. A selection is a set of output ports, one for each node;
`pactl` and `pw-dump` name things, and the model has the object. A sink that is
loaded shows in the graph at any later time (`SinkShows`). A link fails without a
reason of its own only if it is not there yet. The eight attempts to read the
graph are one choice. `before`, `spared`, `late` and `stuck` are history for the
properties: who was gone when a helper started, which modules a sweep could not
list or unload, which sinks were loaded and not ready when their helper looked,
and which routes were not removed.

### CaptureHost: what helpers of one user share

`set_discord_capture_targets` again, for any number of helpers of any number of
Discords, down to the single file operation and with nothing else: the directory of
the allow-lists and the null sinks. Files are inodes, so that a helper goes on
writing to a file that another has renamed; `text` is what an inode holds and whose
writes it consists of. A write over bytes of another may leave any mixture.
`SetTargets`, `EnsureNullSink`, `NullSinkAwaited`, `Open`, `Fill` and `Rename` are the
steps of the call, each of which may fail; `Ends` is the end of the process, at any
of them; `Hears` keeps the mirror. A selection stands for the serials that are
listed (which those are is `AllowList` of `NativeSession`), and it counts as accepted
when the list is in place, although the links made after that may still fail. What
the shims read at any time is `file`, and what they redirect to is `nulls`.

With `Alone` a helper starts only after the last one has ended. For one Discord that
is what a client gets that awaits `dispose()`, by `HelperGone` of `ClientProtocol`. For
two Discords nothing in the code sees to it; what happens then is in section 6.

### ShimStreams

`at[a]` is the point the thread of the stream at address `a` has reached in the
two interposed functions: the decision (reading the file, looking up the mark) is
one step, acting on it the next, so that threads and the replacement of the file
come in between. `Forward` holds the lock around the removal of the mark and
calls the real function after it; the two are one step, because the address is
in use and no other thread acts on it. Freeing and allocating are Discord's. What the
server does with a stream that has a monitor target and is connected to the null
sink as well is left open (it may record either); the shim is shown never to make
one.

### CaptureShim: helpers and shim together

The composition of `CaptureHost` and `ShimStreams` for one Discord, `Shimmed`. The
`listed` of `ShimStreams` is no longer any set that may change at any time: it is what the
file of that Discord says (`InForce`). A step of a helper is a step of `CaptureHost`
that may change it, a step of a stream leaves the helpers alone. `HeardIsSelected` spans
the whole way, from `set_discord_capture_targets` over the temporary file, the rename and
the two interposed calls to what a capture records.

### SetupTool

`pc` is the next file operation of the current run. `fs::write` and `fs::copy`
are two steps, create and fill, and a rename is one. `Stopped` ends a run
anywhere: every operation can return an error, and the process can die. Discord
may install a new version at any point.

### ClientProtocol

The library runs on one JavaScript thread: an event and the continuations of the
promises it settles are one action. `outcome` is the map of pending requests
together with what became of every promise. `helper` and `killed` separate the
signal, the end of the process and the report of it; the helper may answer
late, hang or die. A timer may fire at any time while it is armed. `dispose()` also
ends the helper's stdin, but only after the dispose request, at which the helper
leaves its loop anyway; an end of input without one comes from an application that
died, and is a `HelperExits` here.

## 3. Runs

| Run | What is asked | Bounds, and why they suffice |
|---|---|---|
| `routing` | links to the sink after `route_nodes`/`clear_routes`, the mic's links, the default sink; `AudioSharing` for routes | two applications, selections of one or both so that they overlap, three requests (ensure, route, route again or clear); creates and waits may fail. Applications do not come and go here |
| `capture` | bookkeeping of capture links, silence, allow-list, feedback; `AudioSharing` for captures and routes together | a capture whose id is used twice (`CaptureGens = 3`: appear, vanish, appear), an application that goes away, two requests among route, targets, dispose, selections that name our own nodes |
| `responsive` | no handler waits forever | no fairness for events: the server may announce nothing |
| `capture_liveness` | strays are removed, captures get linked | a capture that comes late and goes, our null sink and one of another session, strays that form again and again. No id is used twice and nodes have one channel: the code does not survive either (section 6) |
| `legacy` | records of links and modules, sweeps, replacement of selections, dispose, every request ends; `AudioSharing` for each helper | a helper of which everything is asked and whose commands may all fail, and a second one that starts before, during or after its life, sweeps, and shares its sink; three module ids, so that two sinks and a mic use them up; two requests (a selection and its replacement, an ensure and a dispose, ...) followed by the end of input, one application that comes or goes. Free ids are given out lowest first (`LowestId`, an action constraint). The safety properties also hold with three requests (3.2 million states), which is too long to repeat each time |
| `registry` | the mirror against the server, the planned links | one of three bounds (`Limits`) for each behaviour. `Churn`: five objects and two removals, a title, four events under way: a node goes with its ports and links, and its id comes back for a node, a port or a link before the listener has heard of it. `Roles`: two nodes and three ports of every channel role, with and without index. `Pairs`: two ports on each side |
| `shim` | what a capture records, from the accepted selection on; the list in force and its owner; the null sink | three helpers of two Discords, the third after the first for the same Discord, one after the other (`Alone`); any number of requests, which select an application or nothing. Three inodes are enough for two lists and the temporary file; they are interchangeable (symmetry). One address without a bound on reuse, one application that may be listed and one that is not: the threads of two addresses share nothing but the set of marks, of which each touches its own; the proofs of section 4 hold for any number |
| `setup` | torn files, backups | any number of runs, one update |
| `client` | promises, `dispose()` | two requests, two concurrent callers |
| `replace_selection`, `route_again`, `shim_voice` | a sentence of the documentation that the code does not keep (section 5) | the smallest instance that shows it |

Deadlock is not checked where the system really stops: the helpers have exited,
the client has nothing more to send, the server changes no more, or the addon is
patched and has no backup. Every property of a passing run has a mutant in
`PROJECT.json`: a change of one definition, the way a bug in that code would look,
under which the run fails.

### Fairness

`FairSpec` of `NativeSession`: each object's events are delivered, since the
socket delivers in order what the server sends; the main loop takes its next
step, since nothing blocks it but waits that have deadlines; `GraphChanged` is
taken from the queue. There is none for the client, for other programs or for
failures. `StepSpec` has the main loop's alone. `LegacyFairSpec`: each helper takes
its next step, since every command returns (with an error, perhaps) and the one
wait gives up after three seconds; that a sink ever shows is not assumed.
`RegistrySpec`: the loop thread handles its events; the server need not change.
`FairSpec` of `ClientProtocol`: armed timers fire, a process that was killed ends,
and its exit is reported. The helper is not fair: it may hang for ever, and
`dispose()` must return all the same. The other modules have safety properties
only.

## 4. Proofs

All theorems hold for every value of the constants that satisfies the named
assumptions (`PeersDisjoint`, `BackendConstants`, `PeersAreNotOurs`,
`SessionConstants`, `LegacyConstants`, `HostConstants`, `ShimConstants`, `ClientConstants`,
`SetupConstants`, `RegistryConstants`; `ShimStreams` and `PortMapping` need none). `PROJECT.json` lists the theorems with
the properties they state.

**NativeSessionProofs**: `Typing`, `HandlesAlwaysTracked`, `NoLinkIsOrphaned`,
`MicStaysPlumbed`, `NothingFeedsBack`. `NoOrphanLinks` is not inductive: the
session forgets the links of a capture when its *mirror* does not show the
capture. That is right only because the mirror is never ahead of the server
(`MirrorBehind`), a link joins incarnations that the mirror had caught up with
when it was made and disappears with either of them (`EndsCurrent`), and our own
nodes, which the mirror may not show, stay as long as the session runs
(`OwnNodesStay`). Handles are told apart by the counter (`FreshHandles`).
`MicPlumbingIntact` needs to know which list joins what (`LinkShapes`,
`HandleNames`), so that replacing routes or tearing down captures cannot reach a
link into the mic, and that the mic is linked at most once (`MicUnlinked`). The
conjunction `IInv` is proved with one step for each action, over two groups of
lemmas: what `Relink` does to handles and links, and that a step which leaves
the session's lists alone keeps the invariant.

**NativeSharingProofs**: `RoutesAreReplaced`, `NothingHeard`,
`AllowListIsSelected`, `PriorIsKept`, `UserSinkIsGivenBack` and
`NativeImplementsSharing`. They rest on `IInv` and on a second invariant `SInv`: which
request is in hand at each point (`RequestInHand`), that the selection and the file
are in place before the links are made (`SelectionStored`), and what an answer says
of the session's lists (`AnswersHold`); through `NoOrphanLinks` that becomes a
statement about the links on the server. `UserSinkIsGivenBack` has an invariant of
its own (`OverrideRecorded`) and two assumptions in its statement: the mirror knows
the default sink when the session starts (`MetadataKnown`), and the client does not
restore it in between. Without the first the code records nothing (section 6).
The refinement has one step for each action of `Next`, mapped to `Select`,
`Connect`, `Accept`, `Close`, `Lose` or a stutter.

**LegacySessionProofs**: `TypesHold`, `LinksNeverLost`, `ModulesNeverLost`,
`SweepIsThorough`, `SelectionHolds`, `DisposeIsClean`, `ReplacingIsSeamless`,
`LegacyImplementsSharing`, for any number of helpers. `IInv` is the type invariant,
that no two modules have one id, and `At(s)` for each helper: what holds at the
point it has reached. A link of a helper is on its record, or in `kept` or `todo`
while a loop rebuilds the record; `kept` and `todo` lie within the old routes or the
wanted ones, which is what makes an `ok` mean that the selection was replaced. That
a sink is forgotten only by a helper that once found one of its own late follows from
`Look`: a helper misses the sink only if it has none, or has one that is not ready,
and then `HadLate` is true for ever. The actions of other helpers are dealt with once
(`OthersKeep`): they add links and modules of their own only, and take away what
they like.

**CaptureHostProofs**: `ListsAreScoped`, `AcceptedStays`, `NullSinkStays`,
`SelectionIsHeard`, for any number of helpers, Discords and streams under `Alone`, which is
an assumption of the statements: without it they are false (section 6); and
`PartsAreImplemented`, which does not need it. The invariant `HInv` follows the one
inode from `Open` to `Rename` (`TextAt`): it is in no list while it is written, and empty
before the helper that runs writes to it. `PartsAreImplemented` maps every step of the
composition to a step of `CaptureHost` and to a step of `ShimStreams`, or a stutter, so
that the theorems about the parts hold of the whole: the list is replaced only the way
`ShimStreams` assumes. `SelectionIsHeard` joins `HInv`, the invariant of
`ShimStreamsProofs` and that both speak of the same list (`Agreed`).

**RegistryProofs**: `MirrorIsCurrent`, `PortsAreListed`, `PortsAreOfThisNode`,
`MapsAlwaysAgree`, for any number of objects, ids and events under way. That a queue of
events, applied to the end, yields the graph of the server looks like an induction over
the queue. `RInv` does without one: it says, for each id, how the events that are still
under way lead from what the mirror shows to what the server has (`LagInv`). What is
announced is there or will be removed; what is removed is gone or will be announced again;
what the mirror shows is there or will be removed; what is there is shown or will be
announced; and of an id that will be announced the mirror shows nothing, or a removal
comes first. With an empty queue, that is the graph. Each change on the server appends
events that keep it, because an id is not used twice at a time (`ServerInv`), and each event
that comes in keeps it, because between two announcements of an id there is a removal
(`QueueInv`). Ports need more, for their record outlives them: what a record lists is older than
whatever will be announced (`Older`), and the announcement of a port comes after every event of the id
of its node (`Coming`), after which that node's record lists it once (`ListedOnce`). TLC checked `RInv`
on the bounds of the run `registry` first. `InOrder` is an assumption of the statements:
there is one socket. `RegistryTypesHold` does without it, and `RoutedOutputsPlay` and
`RoutedSidesKept` follow from it and from what is said of `map_ports` for lists
of any length (`EveryOutputIsMapped`, `SidesAreKept`).

**SetupToolProofs**: `TornComesFromBackup`, `BackupStaysOriginal`,
`BackupComesFirst`, for any number of runs and updates.

**ShimStreamsProofs**: `MicrophoneIsSafe`, `ListedAreHeard`, `UnlistedAreSilent`.
The invariant is pointwise in the address: after `set_monitor_stream` a capture
is marked or has a target, never both (`MarkedOrTargeted`), before it there is no
target, and while the list is unchanged the decision is what the list says.

**ClientProtocolProofs**: `EveryPromiseSettled`, `HelperIsGone`,
`NothingAfterDispose`. The last needs that ids grow along the pipe (`IdsGrow`),
the second that the exit promise is resolved by the end of the process alone
(`GoneIsOver`).

### Where the documentation is right

Three runs show a sentence of the documentation to be false (section 5), and `MicIsLinked`
is false without a run (section 6). Four theorems say how far each sentence goes: it holds of
every behaviour in which one thing does not happen, which is stated as a condition on the
steps, `Spec /\ [][Condition]_vars => []Sentence`. Everything else of the model may still
happen.

| Theorem | Sentence | As long as |
|---|---|---|
| `FreshVoiceUntouched` | `VoiceUntouched` | the allocator gives Discord's voice input no address that a refused capture left marked (`FreshVoice`) |
| `AddedSelectionsAreFollowed` | `CapturesFollowSelection` | no selection drops an application a capture is linked to, save one that drops all (`SelectionsAdd`) |
| `OtherRoutesPlay` | `RoutedNodesPlay` | no application goes away, and routes name none that plays into the sink already (`OthersRouted`) |
| `MicIsAlwaysLinked` | `MicIsLinked` | no attempt to make the mic's links failed before (`MicAttemptsSucceed`) |

The conditions are the ones the counterexamples violate, so a theorem leaves no other
cause. `OthersRouted` is the widest: an application that restarts is a new node, which an
earlier route does not name.

### What liveness rests on

Liveness under fairness and ENABLED are out of the prover's reach. What can be proved is
the part of each argument that speaks of single steps, which is where a design goes wrong:

- `HandlersAreFinite` (for `HelperResponsive`) and `HelpersAreFinite` (for `RequestsEnd`): a
  measure of what a handler has left (`PartsLeft`, `StagesLeft`) goes down with every part
  of it, and nothing that the others do makes it go up. In a loop of the legacy
  backend the list it works through shrinks while the measure stays.
- `WakeUpsAreNotLost` (for `CapturesLinked` and `StraysCleared`): while there is something for a
  sync to do, a sync is at hand or `graph_changed` is set, so the next turn of the loop
  does it. It assumes what the runs of the two properties assume, that `create_link` succeeds
  (`~Fallible`) and that no filter is set. That a sync which can leaves nothing to do is
  `SyncIsThorough`; that whatever the listener changes tells the session is `WorldWakes`.
- `SomebodyWakesCallers` (for `DisposeEnds`): while a caller of `dispose()` waits, the exit has
  not been seen yet, and the timer is armed or the process was killed.

Left to TLC: that the steps these theorems speak of are enabled and are taken, hence the
liveness properties themselves (`HelperResponsive`, `StraysCleared`, `CapturesLinked`,
`RequestsEnd`, `DisposeEnds`, `TitlesCatchUp`). Every invariant and action property that a
passing run checks is stated by a theorem.

## 5. Where the code and its documentation disagree

Each is a run that ends with a counterexample, and an entry under `findings`.

- `replace_selection`: a linked capture is skipped by later syncs, so a new
  non-empty selection does not replace the old one (`state_native.rs:668`).
- `route_again`: routing an application that is routed already creates duplicate
  links, which the server refuses, and then destroys the old ones
  (`state_native.rs:412`). How the server treats duplicates is an assumption
  about the link-factory.
- `shim_voice`: a voice stream at the address of a freed, blocked capture is sent
  to the null sink (`lib.rs:281`).

## 6. Known, but without a run

Seen while modelling; no run keeps showing them.

Native backend:
- After the mic's links failed once, the stored `mic_handle` makes every later
  `ensureVirtualSink` succeed with a mic that is not linked (`state_native.rs:281`
  and `:287`); `MicIsLinked` of `NativeSession` states the contrary and is false.
- A retry after a timed-out `ensure_virtual_sink` makes a second sink.
- A capture whose ports arrive one by one is linked for one channel only, and a
  capture id that is used again before a sync inherits the entry of its
  predecessor (`state_native.rs:668`).
- An override taken before the default is known remembers nothing
  (`state_native.rs:837`).
- An empty `XDG_RUNTIME_DIR` counts as set for the helper (`state_native.rs:907`) and
  as missing for the shim (`lib.rs:135`), which then read and write different lists.
- The list stays in force after `dispose`, and is not rewritten when a selected
  application comes back with another serial.
- A node lists ports that are gone until it goes itself (`pw_backend.rs:526`), and
  `map_ports` may choose them by index or place.
- `with_extension` replaces the parent's pid in `discord-capture-allowed.<pid>`, so the
  helpers of two Discords write one temporary file, `discord-capture-allowed.tmp`, and one
  renames into place what the other has just truncated (`state_native.rs:539`), although "a
  reader must never observe a partially-written file" (`:537`) and the list is
  "per-Discord-instance" (`:899`). Two helpers of one Discord at a time do the same. With
  `Alone = FALSE` and two helpers `shim.cfg` shows `ListsScoped` violated.
- A helper that finds the null sink of another one never makes its own, and goes on
  sharing when that one has ended: the streams its shim blocks have nowhere to go
  (`state_native.rs:562`), though `lib.rs:200` calls the sink "always-available". With
  `Alone = FALSE` `NullWhileSharing` is violated.
- The comment in `DestroyLink` (`pw_backend.rs:685`) speaks of a fallback by
  registry id for unknown handles; the code answers with an error.

Configuration:
- The exclusion in `mod.rs:140` looks at `virtual_mic` only: with
  `--virtual-mic-name` and `--sink-becomes-default` a helper has both, which the
  comment at `mod.rs:46` says is impossible. `LegacySession` (`HasMic`) and `routing.cfg`
  have that combination.
- The default name of the mic has no pid in it, unlike the one in `README.md:116`.

Legacy backend:
- A sink that shows only after the wait has given up is replaced by a second one
  at the next attempt, and its module id is forgotten: `dispose` leaves it loaded,
  contrary to the test `test_integration_virtual_sink_lifecycle` ("Virtual sink
  should be removed from the system after dispose", `state.rs:546`). `ModulesTracked`
  and `DisposedClean` except exactly that case (`HadLate`).
- The sweep of a helper that starts takes the modules of live helpers of the same
  prefix along. Such a helper makes itself a new sink at the next request, but
  `remap_module_id` stays set and its mic is never made again.
- A helper that does not find its sink by name takes any sink with the description
  all helpers share, routes into it, and may later have two.

Setup tool:
- A backup that was cut short is trusted by later runs and restored
  (`setup.rs:146`); `NeverTorn` of `SetupTool` states the contrary and is false.
  `TornOnlyByBackup` says that nothing else tears the addon.

## 7. Plan

Done: the models of section 2, the abstract specification, both refinements and the
composition of helpers and shim, the
theorems of section 4. What remains, in order of importance:

1. Two native sessions that override the default sink one after the other.
2. `NativeSession` with `CaptureShim`: which serials are listed, and the links that are
   made besides the list.
3. `RouteFilter` and the configuration: argument parsing, the choice of the backend.
4. `Registry` as a refinement of the mirror in `PwBackend`.

Not modelled: logging, the build, the examples and the spike routine; the ELF
rewriter (one step from an original to a patched file); parsing and layout of
requests and replies; the queries (`list_shareable_nodes`, `find_screencast_hint`),
which change nothing; the cached detection of PipeWire, whose refusal ends a
request the way an unreadable graph does; a loop thread that cannot connect, after which every command fails;
PulseAudio and Discord beyond what the shim sees of them.
