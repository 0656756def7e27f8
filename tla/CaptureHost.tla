------------------------------ MODULE CaptureHost ------------------------------
(***************************************************************************)
(* What the helpers of one user share besides the audio graph: the         *)
(* directory of the allow-lists ($XDG_RUNTIME_DIR/patchcord) and the null  *)
(* sink of a fixed name, as set_discord_capture_targets uses them          *)
(* (patchbay/state_native.rs). There is one list for each Discord, named   *)
(* by the pid of the parent of its helpers; its shim reads that list at    *)
(* any time. NativeSession has the rest of the call, for one helper.       *)
(***************************************************************************)
CONSTANTS
    Helper,      \* helpers; each runs once, a restart is another one
    Parent,      \* the Discords that spawn them
    ParentOf,    \* getppid()
    App,
    Selections,  \* what clients select: the serials that are to be listed
    Inode,
    Alone        \* a client starts a helper after it has seen the last one exit

ASSUME HostConstants ==
    /\ ParentOf \in [Helper -> Parent]
    /\ Selections \subseteq SUBSET App
    /\ Alone \in BOOLEAN

VARIABLES
    file,   \* discord-capture-allowed.<ppid>: its inode, {} while there is none
    tmp,    \* the temporary file
    text    \* what an inode holds, and whose writes it consists of
VARIABLES
    nulls,  \* the helpers whose null sink is on the server
    known   \* the null sinks the mirror of a helper shows, by owner
VARIABLES
    pc, sel, ok,  \* a helper, the selection last asked of it, and that it was accepted
    fd            \* the inode it has open

directory == <<file, tmp, text>>
sinks == <<nulls, known>>
hostVars == <<directory, sinks, pc, sel, ok, fd>>

Running(h) == pc[h] \notin {"new", "gone"}
Goto(h, label) == pc' = [pc EXCEPT ![h] = label]
Fail(h) == Goto(h, "idle")

--------------------------------------------------------------------------------
(* A helper comes and goes. *)

Start(h) ==
    /\ pc[h] = "new"
    /\ Alone => \A g \in Helper : ~Running(g)
    /\ Goto(h, "idle")
    /\ UNCHANGED <<directory, sinks, sel, ok, fd>>

\* The end of the process, after dispose or by a signal: the null sink goes, the lists stay.
Ends(h) ==
    /\ Running(h)
    /\ Goto(h, "gone")
    /\ nulls' = nulls \ {h}
    /\ fd' = [fd EXCEPT ![h] = {}] /\ known' = [known EXCEPT ![h] = {}]
    /\ sel' = [sel EXCEPT ![h] = {}] /\ ok' = [ok EXCEPT ![h] = FALSE]
    /\ UNCHANGED directory

\* The mirror of a helper hears of a null sink that came or went.
Hears(h, g) ==
    /\ Running(h) /\ (g \in nulls) # (g \in known[h])
    /\ known' = [known EXCEPT ![h] = IF g \in nulls THEN @ \cup {g} ELSE @ \ {g}]
    /\ UNCHANGED <<directory, nulls, pc, sel, ok, fd>>

--------------------------------------------------------------------------------
(* set_discord_capture_targets *)

SetTargets(h) ==
    /\ pc[h] = "idle"
    /\ \E S \in Selections :
          /\ sel' = [sel EXCEPT ![h] = S]
          /\ Goto(h, IF S = {} THEN "open" ELSE "null")
    /\ ok' = [ok EXCEPT ![h] = FALSE]
    /\ UNCHANGED <<directory, sinks, fd>>

Exists(h) == h \in nulls \/ known[h] # {}

\* Mutant: that the sink could not be created is ignored.
EnsureNullSink_Ignored(h) ==
    /\ pc[h] = "null"
    /\ \/ Exists(h) /\ Goto(h, "open") /\ UNCHANGED nulls
       \/ ~Exists(h) /\ nulls' = nulls \cup {h} /\ Goto(h, "wait")
       \/ ~Exists(h) /\ Goto(h, "open") /\ UNCHANGED nulls
    /\ UNCHANGED <<directory, known, sel, ok, fd>>

\* Its own or one the mirror shows will do; else it is created, which may fail.
EnsureNullSink(h) ==
    /\ pc[h] = "null"
    /\ \/ Exists(h) /\ Goto(h, "open") /\ UNCHANGED nulls
       \/ ~Exists(h) /\ nulls' = nulls \cup {h} /\ Goto(h, "wait")
       \/ ~Exists(h) /\ Fail(h) /\ UNCHANGED nulls
    /\ UNCHANGED <<directory, known, sel, ok, fd>>

\* wait_for_node_ready: any sink of the name, or three seconds.
NullSinkAwaited(h) ==
    /\ pc[h] = "wait"
    /\ \/ known[h] # {} /\ Goto(h, "open")
       \/ known[h] = {} /\ Fail(h)
    /\ UNCHANGED <<directory, sinks, sel, ok, fd>>

Empty == [list |-> {}, by |-> {}]
Free == {i \in Inode : i \notin tmp /\ (\A p \in Parent : i \notin file[p])
                                    /\ (\A g \in Helper : i \notin fd[g])}

\* Mutant: what another run left in the temporary file stays.
Open_Keeps(h) ==
    /\ pc[h] = "open"
    /\ \/ Fail(h) /\ UNCHANGED <<tmp, text, fd>>
       \/ \E i \in IF tmp = {} THEN Free ELSE tmp :
             /\ tmp' = {i}
             /\ text' = IF tmp = {} THEN [text EXCEPT ![i] = Empty] ELSE text
             /\ fd' = [fd EXCEPT ![h] = {i}]
             /\ Goto(h, "fill")
    /\ UNCHANGED <<file, sinks, sel, ok>>

\* fs::write creates the temporary file or truncates the one that is there; with_extension
\* has replaced the pid, so it has the same name for all parents.
Open(h) ==
    /\ pc[h] = "open"
    /\ \/ Fail(h) /\ UNCHANGED <<tmp, text, fd>>
       \/ \E i \in IF tmp = {} THEN Free ELSE tmp :
             /\ tmp' = {i}
             /\ text' = [text EXCEPT ![i] = Empty]
             /\ fd' = [fd EXCEPT ![h] = {i}]
             /\ Goto(h, "fill")
    /\ UNCHANGED <<file, sinks, sel, ok>>

\* What one write over the bytes of others leaves: all of it, or some mixture of lines.
Written(old, h) ==
    {[list |-> sel[h], by |-> {h}]} \cup
    IF old.by = {} THEN {} ELSE [list : SUBSET App, by : {old.by \cup {h}}]

\* The text is written from the start of the file, which is closed then.
Fill(h) ==
    /\ pc[h] = "fill"
    /\ \/ Fail(h) /\ UNCHANGED text
       \/ \E i \in fd[h] : \E new \in Written(text[i], h) :
             text' = [text EXCEPT ![i] = new] /\ Goto(h, "rename")
    /\ fd' = [fd EXCEPT ![h] = {}]
    /\ UNCHANGED <<file, tmp, sinks, sel, ok>>

Install(h) ==
    /\ tmp # {}
    /\ file' = [file EXCEPT ![ParentOf[h]] = tmp]
    /\ tmp' = {}

\* Mutant: that the rename failed is ignored.
Rename_Ignored(h) ==
    /\ pc[h] = "rename" /\ Goto(h, "idle")
    /\ Install(h) \/ UNCHANGED <<file, tmp>>
    /\ ok' = [ok EXCEPT ![h] = TRUE]
    /\ UNCHANGED <<text, sinks, sel, fd>>

\* It may fail, and does if another helper has renamed the file away.
Rename(h) ==
    /\ pc[h] = "rename" /\ Goto(h, "idle")
    /\ \/ Install(h) /\ ok' = [ok EXCEPT ![h] = TRUE]
       \/ UNCHANGED <<file, tmp, ok>>
    /\ UNCHANGED <<text, sinks, sel, fd>>

--------------------------------------------------------------------------------
HostInit ==
    /\ file = [p \in Parent |-> {}] /\ tmp = {} /\ text = [i \in Inode |-> Empty]
    /\ nulls = {} /\ known = [h \in Helper |-> {}]
    /\ pc = [h \in Helper |-> "new"] /\ sel = [h \in Helper |-> {}]
    /\ ok = [h \in Helper |-> FALSE] /\ fd = [h \in Helper |-> {}]

Step(h) ==
    \/ Start(h) \/ Ends(h) \/ SetTargets(h) \/ EnsureNullSink(h) \/ NullSinkAwaited(h)
    \/ Open(h) \/ Fill(h) \/ Rename(h)

HostNext == \E h \in Helper : Step(h) \/ \E g \in Helper : Hears(h, g)

HostSpec == HostInit /\ [][HostNext]_hostVars

--------------------------------------------------------------------------------
(* Properties *)

HostTypeOK ==
    /\ file \in [Parent -> SUBSET Inode] /\ tmp \subseteq Inode
    /\ text \in [Inode -> [list : SUBSET App, by : SUBSET Helper]]
    /\ nulls \subseteq Helper /\ known \in [Helper -> SUBSET Helper]
    /\ pc \in [Helper -> {"new", "idle", "null", "wait", "open", "fill", "rename", "gone"}]
    /\ sel \in [Helper -> SUBSET App] /\ ok \in [Helper -> BOOLEAN]
    /\ fd \in [Helper -> SUBSET Inode]

\* What the shim of a Discord reads is a whole list of a helper of that Discord, wherever
\* any helper was stopped while it wrote one.
ListsScoped == \A p \in Parent : \A i \in file[p] :
    \E h \in Helper : ParentOf[h] = p /\ text[i].by = {h}

\* An accepted selection is what the shim goes by from then on.
AcceptedInForce == \A h \in Helper : pc[h] = "idle" /\ ok[h] =>
    \E i \in file[ParentOf[h]] : text[i] = [list |-> sel[h], by |-> {h}]

\* While a helper shares something, the streams its shim blocks have a null sink to go to.
NullWhileSharing == \A h \in Helper : pc[h] = "idle" /\ ok[h] /\ sel[h] # {} => nulls # {}
================================================================================
