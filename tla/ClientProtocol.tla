---------------------------- MODULE ClientProtocol ----------------------------
(***************************************************************************)
(* The client library (node/patchcord.js) and the helper's message loop    *)
(* (crates/patchcord/src/main.rs) at the two ends of a pair of pipes.      *)
(*                                                                         *)
(* The library runs on one JavaScript thread. An event (a line, a timer,   *)
(* the child's exit, a write that failed) is handled to its end, and the   *)
(* continuations of the promises it settles run before the next one, so    *)
(* both are one action here. The helper may take any time for a request,   *)
(* hang, or end at any point, and the library hears of its exit later,     *)
(* before or after the last lines it wrote.                                *)
(***************************************************************************)
EXTENDS Naturals, Sequences

CONSTANTS
    Disposer,    \* callers of dispose(), concurrent ones included
    MaxRequests  \* bound: requests besides dispose

ASSUME ClientConstants == MaxRequests \in Nat

VARIABLES
    outcome,    \* #pending and the promises: how each request ended
    nextId,     \* #nextId
    closed,     \* #closed
    closing,    \* #closing
    timer,      \* dispose's shutdown timer is armed
    gone,       \* #exitPromise is resolved
    caller,     \* where each call of dispose() is
    disposeId,  \* id of the dispose request, 0 for none
    stdin,      \* request lines the helper has not read
    stdout,     \* replies the library has not read
    helper,     \* the helper process
    killed      \* SIGKILL was sent; the process may take a moment to end

clientVars == <<outcome, nextId, closed, closing, timer, gone, caller, disposeId>>
vars == <<clientVars, stdin, stdout, helper, killed>>

Id == 1..(MaxRequests + 1)

Reply == {"ok", "remote"}    \* a result, or an error of the helper

TypeOK ==
    /\ outcome \in [Id -> Reply \cup {"unsent", "pending", "exited", "aborted", "write"}]
    /\ nextId \in 1..(MaxRequests + 2)
    /\ closed \in BOOLEAN /\ closing \in BOOLEAN /\ timer \in BOOLEAN /\ gone \in BOOLEAN
    /\ caller \in [Disposer -> {"idle", "reply", "exit", "waiting", "done", "threw"}]
    /\ disposeId \in Id \cup {0}
    /\ stdin \in Seq(Id)
    /\ stdout \in Seq([id : Id, reply : Reply])
    /\ helper \in {"failed", "running", "leaving", "exited"}
    /\ killed \in BOOLEAN

--------------------------------------------------------------------------------
(* Helpers. *)

Pending == {r \in Id : outcome[r] = "pending"}

\* #failAll.
FailAll(how) ==
    /\ outcome' = [r \in Id |-> IF r \in Pending THEN how ELSE outcome[r]]
    /\ closed' = TRUE
    /\ closing' = TRUE

\* dispose() returns once the child is gone, unless its request failed for
\* another reason than the exit.
Returns == IF outcome'[disposeId] \in {"ok", "exited"} THEN "done" ELSE "threw"

\* The calls of dispose() go on with what the event has settled, and all of them
\* wait for the exit. The one that sent the request also ends stdin, which tells
\* the helper nothing: before the end of its input it reads the dispose request.
Resume ==
    LET answered == disposeId # 0 /\ outcome'[disposeId] # "pending"
        sender(d) == caller[d] \in {"reply", "exit"}
    IN  caller' = [d \in Disposer |->
                      IF sender(d) /\ answered THEN IF gone' THEN Returns ELSE "exit"
                      ELSE IF caller[d] = "waiting" /\ gone' THEN "done"
                      ELSE caller[d]]

\* A line for the helper; nobody reads it when the process is gone. A stdin that
\* is destroyed already is a write that fails at once.
Send ==
    /\ outcome' = [outcome EXCEPT ![nextId] = "pending"]
    /\ nextId' = nextId + 1
    /\ stdin' = IF helper \in {"running", "leaving"} THEN Append(stdin, nextId) ELSE stdin

--------------------------------------------------------------------------------
(* Calls of the application. *)

\* Mutant: a library that is closing takes more requests.
Request_WhenClosing ==
    /\ ~closed /\ nextId <= MaxRequests
    /\ Send
    /\ UNCHANGED <<closed, closing, timer, gone, caller, disposeId, stdout, helper, killed>>

\* A request; when closed or closing it is rejected at once.
Request ==
    /\ ~closed /\ ~closing /\ nextId <= MaxRequests
    /\ Send
    /\ UNCHANGED <<closed, closing, timer, gone, caller, disposeId, stdout, helper, killed>>

\* The first call of dispose().
Dispose(d) ==
    /\ caller[d] = "idle" /\ ~closed /\ ~closing
    /\ closing' = TRUE
    /\ timer' = TRUE
    /\ Send
    /\ disposeId' = nextId
    /\ caller' = [caller EXCEPT ![d] = "reply"]
    /\ UNCHANGED <<closed, gone, stdout, helper, killed>>

\* Mutant: a call on a closed library does not wait for the exit.
DisposeAgain_ClosedReturns(d) ==
    /\ caller[d] = "idle" /\ (closed \/ closing)
    /\ caller' = [caller EXCEPT ![d] = IF closed \/ gone THEN "done" ELSE "waiting"]
    /\ UNCHANGED <<outcome, nextId, closed, closing, timer, gone, disposeId, stdin,
                   stdout, helper, killed>>

\* Any other call awaits the exit.
DisposeAgain(d) ==
    /\ caller[d] = "idle" /\ (closed \/ closing)
    /\ caller' = [caller EXCEPT ![d] = IF gone THEN "done" ELSE "waiting"]
    /\ UNCHANGED <<outcome, nextId, closed, closing, timer, gone, disposeId, stdin,
                   stdout, helper, killed>>

--------------------------------------------------------------------------------
(* Events of the library. *)

\* #handleLine: a reply for a request that is pending.
HandleLine ==
    /\ stdout # <<>> /\ ~gone
    /\ LET r == Head(stdout) IN
          outcome' = IF r.id \in Pending THEN [outcome EXCEPT ![r.id] = r.reply] ELSE outcome
    /\ stdout' = Tail(stdout)
    /\ UNCHANGED <<nextId, closed, closing, timer, gone, disposeId, stdin, helper, killed>>
    /\ Resume

\* The callback of stdin.write: the pipe broke.
WriteFailed(r) ==
    /\ r \in Pending /\ helper \in {"failed", "exited"}
    /\ outcome' = [outcome EXCEPT ![r] = "write"]
    /\ UNCHANGED <<nextId, closed, closing, timer, gone, disposeId, stdin, stdout, helper, killed>>
    /\ Resume

\* Mutant: the child is left alone.
AbortProcess_NoKill == FailAll("aborted") /\ UNCHANGED killed

\* #abortProcess.
AbortProcess == FailAll("aborted") /\ killed' = TRUE

RequestTimedOut ==
    /\ Pending # {}
    /\ AbortProcess
    /\ UNCHANGED <<nextId, timer, gone, disposeId, stdin, stdout, helper>>
    /\ Resume

ShutdownTimedOut ==
    /\ timer
    /\ timer' = FALSE
    /\ AbortProcess
    /\ UNCHANGED <<nextId, gone, disposeId, stdin, stdout, helper>>
    /\ Resume

\* Mutant: requests without a reply are left to their timers.
ChildExited_NoFailAll ==
    /\ helper = "exited" /\ ~gone
    /\ gone' = TRUE
    /\ timer' = FALSE
    /\ closed' = TRUE /\ closing' = TRUE
    /\ stdout' = <<>>
    /\ UNCHANGED <<outcome, nextId, disposeId, stdin, helper, killed>>
    /\ Resume

\* The 'exit' event: lines that were not read yet are dropped.
ChildExited ==
    /\ helper = "exited" /\ ~gone
    /\ gone' = TRUE
    /\ timer' = FALSE
    /\ FailAll("exited")
    /\ stdout' = <<>>
    /\ UNCHANGED <<nextId, disposeId, stdin, helper, killed>>
    /\ Resume

\* The 'error' event: the child could not be spawned.
SpawnFailed ==
    /\ helper = "failed" /\ ~gone
    /\ gone' = TRUE
    /\ timer' = FALSE
    /\ AbortProcess
    /\ UNCHANGED <<nextId, disposeId, stdin, stdout, helper>>
    /\ Resume

--------------------------------------------------------------------------------
(* The helper: main and handle_request. *)

\* One request is answered; dispose ends the loop.
HandleRequest ==
    /\ helper = "running" /\ stdin # <<>>
    /\ \E reply \in Reply :
          stdout' = Append(stdout, [id |-> Head(stdin), reply |-> reply])
    /\ stdin' = Tail(stdin)
    /\ helper' = IF Head(stdin) = disposeId THEN "leaving" ELSE helper
    /\ UNCHANGED <<clientVars, killed>>

\* main returns, or the process ends for any other reason; what it has written
\* can still be read.
HelperExits ==
    /\ helper \in {"running", "leaving"}
    /\ helper' = "exited"
    /\ stdin' = <<>>
    /\ UNCHANGED <<clientVars, stdout, killed>>

--------------------------------------------------------------------------------

Init ==
    /\ outcome = [r \in Id |-> "unsent"]
    /\ nextId = 1
    /\ closed = FALSE /\ closing = FALSE /\ timer = FALSE /\ gone = FALSE
    /\ caller = [d \in Disposer |-> "idle"]
    /\ disposeId = 0
    /\ stdin = <<>> /\ stdout = <<>>
    /\ helper \in {"running", "failed"}
    /\ killed = FALSE

Application == Request \/ \E d \in Disposer : Dispose(d) \/ DisposeAgain(d)

Events ==
    \/ HandleLine \/ RequestTimedOut \/ ShutdownTimedOut \/ ChildExited \/ SpawnFailed
    \/ \E r \in Id : WriteFailed(r)

Helper == HandleRequest \/ HelperExits

Next == Application \/ Events \/ Helper

Spec == Init /\ [][Next]_vars

\* Timers fire, a killed process ends and an exit is reported; the helper may hang.
FairSpec ==
    /\ Spec
    /\ WF_vars(killed /\ HelperExits)
    /\ WF_vars(RequestTimedOut) /\ WF_vars(ShutdownTimedOut)
    /\ WF_vars(ChildExited) /\ WF_vars(SpawnFailed)

--------------------------------------------------------------------------------
(* Properties. *)

Finished(d) == caller[d] \in {"done", "threw"}

\* No promise is left behind when the library is closed, whichever of the reply,
\* the timers, the exit and a failed write came first.
ClosedSettlesAll == closed => Pending = {}

\* When dispose() has returned or thrown, to whichever caller, the helper is gone.
HelperGone == \A d \in Disposer : Finished(d) => helper \in {"failed", "exited"}

\* The helper is asked nothing after dispose, which ends its session.
DisposeIsLast ==
    \A i \in 1..Len(stdin) : stdin[i] = disposeId => i = Len(stdin)

\* Every call of dispose() ends, even if the helper hangs.
DisposeEnds == \A d \in Disposer : caller[d] # "idle" ~> Finished(d)

(* What makes the invariants inductive. *)

\* The exit promise is resolved by the end of the process alone, and a call of
\* dispose() returns after it.
GoneIsOver ==
    /\ gone => helper \in {"failed", "exited"}
    /\ \A d \in Disposer : Finished(d) => gone

\* Ids grow, and the dispose request is the last one to be sent.
IdsGrow ==
    /\ \A i \in 1..Len(stdin) : stdin[i] < nextId
    /\ ~closing => nextId <= MaxRequests + 1 /\ disposeId = 0
    /\ closed => closing

IInv == TypeOK /\ ClosedSettlesAll /\ GoneIsOver /\ IdsGrow /\ DisposeIsLast
================================================================================
