-------------------------- MODULE ClientProtocolProofs --------------------------
(* Proofs about ClientProtocol, for any number of requests and callers. *)
EXTENDS ClientProtocol, SequenceTheorems, TLAPS

LEMMA Initially == Init => IInv
<1> SUFFICES ASSUME Init
             PROVE  IInv
  OBVIOUS
<1> USE ClientConstants DEF Init
<1>1. TypeOK
  <2>1. stdin \in Seq(Id) /\ stdout \in Seq([id : Id, reply : Reply])
    BY EmptySeq
  <2>2. nextId \in 1..(MaxRequests + 2)
    OBVIOUS
  <2>3. /\ outcome \in [Id -> Reply \cup {"unsent", "pending", "exited", "aborted", "write"}]
        /\ caller \in [Disposer -> {"idle", "reply", "exit", "waiting", "done", "threw"}]
    OBVIOUS
  <2>4. QED
    BY <2>1, <2>2, <2>3 DEF TypeOK
<1>2. ClosedSettlesAll /\ GoneIsOver /\ IdsGrow /\ DisposeIsLast
  BY DEF ClosedSettlesAll, Pending, GoneIsOver, Finished, IdsGrow, DisposeIsLast
<1>3. QED
  BY <1>1, <1>2 DEF IInv

(* Where the callers of dispose() get to by a continuation. *)
LEMMA Resuming ==
  ASSUME TypeOK, GoneIsOver, Resume, gone' \in BOOLEAN, gone => gone'
  PROVE  /\ caller' \in [Disposer -> {"idle", "reply", "exit", "waiting", "done", "threw"}]
         /\ \A d \in Disposer : Finished(d)' => gone'
  BY DEF TypeOK, GoneIsOver, Resume, Returns, Finished

(* What FailAll leaves behind. *)
LEMMA FailingAll ==
  ASSUME TypeOK, NEW how \in {"exited", "aborted"}, FailAll(how)
  PROVE  /\ outcome' \in [Id -> Reply \cup {"unsent", "pending", "exited", "aborted", "write"}]
         /\ closed' = TRUE /\ closing' = TRUE
         /\ Pending' = {}
  BY DEF TypeOK, FailAll, Pending

(* A new request at the end of stdin. *)
LEMMA Sending ==
  ASSUME IInv, ~closing, Send, nextId \in Id
  PROVE  /\ outcome' \in [Id -> Reply \cup {"unsent", "pending", "exited", "aborted", "write"}]
         /\ nextId' = nextId + 1
         /\ stdin' \in Seq(Id)
         /\ \A i \in 1..Len(stdin') : stdin'[i] < nextId'
         /\ \A i \in 1..Len(stdin') : stdin'[i] = nextId => i = Len(stdin')
<1> USE ClientConstants
<1>1. stdin \in Seq(Id) /\ nextId \in Nat /\ \A i \in 1..Len(stdin) : stdin[i] \in Nat
  BY DEF IInv, TypeOK, Id
<1>2. \A i \in 1..Len(stdin) : stdin[i] < nextId
  BY DEF IInv, IdsGrow
<1>3. outcome' \in [Id -> Reply \cup {"unsent", "pending", "exited", "aborted", "write"}]
  BY DEF IInv, TypeOK, Send
<1>4. CASE stdin' = Append(stdin, nextId)
  BY <1>1, <1>2, <1>3, <1>4 DEF Send
<1>5. CASE stdin' = stdin
  BY <1>1, <1>2, <1>3, <1>5 DEF Send
<1>6. QED
  BY <1>4, <1>5 DEF Send

(* An event that sends nothing and leaves the pipe to the helper alone. *)
LEMMA PipeUntouched ==
  ASSUME IInv, UNCHANGED <<stdin, nextId, disposeId>>, closing => closing', closed' => closing'
  PROVE  IdsGrow' /\ DisposeIsLast'
  BY DEF IInv, IdsGrow, DisposeIsLast

LEMMA Inductive == IInv /\ [Next]_vars => IInv'
<1> SUFFICES ASSUME IInv, [Next]_vars
             PROVE  IInv'
  OBVIOUS
<1> USE ClientConstants
<1>t. TypeOK /\ ClosedSettlesAll /\ GoneIsOver /\ IdsGrow /\ DisposeIsLast
  BY DEF IInv
<1>1. CASE Request
  <2>1. nextId \in Id /\ ~closing /\ Send
    BY <1>1, <1>t DEF Request, TypeOK, Id
  <2>2. disposeId = 0 /\ disposeId' = 0
    BY <1>1, <1>t, <2>1 DEF Request, IdsGrow
  <2>3. TypeOK'
    BY <1>1, <1>t, <2>1, Sending DEF Request, TypeOK, Id
  <2>4. IdsGrow'
    BY <1>1, <1>t, <2>1, <2>2, Sending DEF Request, IdsGrow, TypeOK
  <2>5. DisposeIsLast'
    BY <1>t, <2>1, <2>2, <2>3, Sending DEF DisposeIsLast, TypeOK, Id
  <2>6. ClosedSettlesAll' /\ GoneIsOver'
    BY <1>1, <1>t DEF Request, ClosedSettlesAll, GoneIsOver, Finished
  <2>7. QED
    BY <2>3, <2>4, <2>5, <2>6 DEF IInv
<1>2. ASSUME NEW d \in Disposer, Dispose(d)
      PROVE  IInv'
  <2>1. nextId \in Id /\ ~closing /\ Send
    BY <1>2, <1>t DEF Dispose, TypeOK, Id, IdsGrow
  <2>2. disposeId' = nextId
    BY <1>2 DEF Dispose
  <2>3. TypeOK'
    BY <1>2, <1>t, <2>1, Sending DEF Dispose, TypeOK, Id
  <2>4. IdsGrow'
    BY <1>2, <1>t, <2>1, Sending DEF Dispose, IdsGrow
  <2>5. DisposeIsLast'
    BY <2>1, <2>2, Sending DEF DisposeIsLast
  <2>6. ClosedSettlesAll'
    BY <1>2 DEF Dispose, ClosedSettlesAll
  <2>7. GoneIsOver'
    BY <1>2, <1>t DEF Dispose, GoneIsOver, Finished, TypeOK
  <2>8. QED
    BY <2>3, <2>4, <2>5, <2>6, <2>7 DEF IInv
<1>3. ASSUME NEW d \in Disposer, DisposeAgain(d)
      PROVE  IInv'
  BY <1>3, <1>t DEF DisposeAgain, IInv, TypeOK, ClosedSettlesAll, Pending, GoneIsOver, Finished,
                    IdsGrow, DisposeIsLast
<1>4. CASE HandleLine
  <2>1. /\ Resume /\ stdout' = Tail(stdout) /\ stdout # <<>>
        /\ UNCHANGED <<nextId, closed, closing, timer, gone, disposeId, stdin, helper, killed>>
        /\ outcome' = [outcome EXCEPT ![Head(stdout).id] = Head(stdout).reply] \/ outcome' = outcome
    BY <1>4 DEF HandleLine
  <2>2. Head(stdout) \in [id : Id, reply : Reply] /\ Tail(stdout) \in Seq([id : Id, reply : Reply])
    BY <1>t, <2>1, HeadTailProperties DEF TypeOK
  <2>3. TypeOK'
    BY <1>t, <2>1, <2>2, Resuming DEF TypeOK
  <2>4. Pending' \subseteq Pending
    BY <1>t, <2>1, <2>2 DEF Pending, TypeOK, Reply
  <2>5. ClosedSettlesAll' /\ GoneIsOver'
    BY <1>t, <2>1, <2>4, Resuming DEF ClosedSettlesAll, GoneIsOver, TypeOK
  <2>6. QED
    BY <1>t, <2>1, <2>3, <2>5, PipeUntouched DEF IInv, IdsGrow
<1>5. ASSUME NEW r \in Id, WriteFailed(r)
      PROVE  IInv'
  <2>1. /\ Resume
        /\ UNCHANGED <<nextId, closed, closing, timer, gone, disposeId, stdin, stdout, helper,
                       killed>>
        /\ outcome' = [outcome EXCEPT ![r] = "write"]
    BY <1>5 DEF WriteFailed
  <2>2. TypeOK'
    BY <1>t, <2>1, Resuming DEF TypeOK
  <2>3. Pending' \subseteq Pending
    BY <1>t, <2>1 DEF Pending, TypeOK
  <2>4. ClosedSettlesAll' /\ GoneIsOver'
    BY <1>t, <2>1, <2>3, Resuming DEF ClosedSettlesAll, GoneIsOver, TypeOK
  <2>5. QED
    BY <1>t, <2>1, <2>2, <2>4, PipeUntouched DEF IInv, IdsGrow
<1>6. CASE RequestTimedOut \/ ShutdownTimedOut
  <2>1. /\ FailAll("aborted") /\ Resume
        /\ killed' = TRUE /\ timer' \in BOOLEAN
        /\ UNCHANGED <<nextId, gone, disposeId, stdin, stdout, helper>>
    BY <1>6, <1>t DEF RequestTimedOut, ShutdownTimedOut, AbortProcess, TypeOK
  <2>2. TypeOK'
    BY <1>t, <2>1, Resuming, FailingAll DEF TypeOK
  <2>3. ClosedSettlesAll' /\ GoneIsOver'
    BY <1>t, <2>1, Resuming, FailingAll DEF ClosedSettlesAll, GoneIsOver, TypeOK
  <2>4. QED
    BY <1>t, <2>1, <2>2, <2>3, FailingAll, PipeUntouched DEF IInv
<1>7. CASE ChildExited \/ SpawnFailed
  <2>1. /\ FailAll("exited") \/ FailAll("aborted")
        /\ Resume
        /\ gone' = TRUE /\ timer' = FALSE /\ killed' \in BOOLEAN
        /\ helper \in {"failed", "exited"}
        /\ stdout' \in Seq([id : Id, reply : Reply])
        /\ UNCHANGED <<nextId, disposeId, stdin, helper>>
    BY <1>7, <1>t, EmptySeq DEF ChildExited, SpawnFailed, AbortProcess, TypeOK
  <2>2. TypeOK'
    BY <1>t, <2>1, Resuming, FailingAll DEF TypeOK
  <2>3. ClosedSettlesAll' /\ GoneIsOver'
    BY <1>t, <2>1, Resuming, FailingAll DEF ClosedSettlesAll, GoneIsOver
  <2>4. QED
    BY <1>t, <2>1, <2>2, <2>3, FailingAll, PipeUntouched DEF IInv
<1>8. CASE HandleRequest
  <2>1. /\ Len(stdin) \in Nat /\ Head(stdin) \in Id /\ Tail(stdin) \in Seq(Id)
        /\ Len(Tail(stdin)) = Len(stdin) - 1
        /\ \A i \in 1..Len(Tail(stdin)) : Tail(stdin)[i] = stdin[i + 1]
    BY <1>8, <1>t, HeadTailProperties, LenProperties DEF HandleRequest, TypeOK
  <2>3. TypeOK'
    BY <1>8, <1>t, <2>1 DEF HandleRequest, TypeOK, clientVars
  <2>2. /\ Len(stdin') = Len(stdin) - 1
        /\ \A i \in 1..Len(stdin') : i + 1 \in 1..Len(stdin) /\ stdin'[i] = stdin[i + 1]
    BY <1>8, <2>1 DEF HandleRequest
  <2>6. /\ nextId' = nextId /\ closing' = closing /\ closed' = closed
        /\ disposeId' = disposeId
    BY <1>8 DEF HandleRequest, clientVars
  <2>7. IdsGrow'
    BY <1>t, <2>2, <2>6 DEF IInv, IdsGrow
  <2>8. DisposeIsLast'
    <3>1. SUFFICES ASSUME NEW i \in 1..Len(stdin'), stdin'[i] = disposeId
                   PROVE  i = Len(stdin')
      BY <2>6 DEF DisposeIsLast
    <3>2. i + 1 = Len(stdin)
      BY <1>t, <2>2, <3>1 DEF IInv, DisposeIsLast
    <3>3. QED
      BY <2>1, <2>2, <3>1, <3>2
  <2>5. ClosedSettlesAll' /\ GoneIsOver'
    BY <1>8, <1>t DEF HandleRequest, ClosedSettlesAll, Pending, GoneIsOver, Finished, clientVars
  <2>9. QED
    BY <2>3, <2>5, <2>7, <2>8 DEF IInv
<1>9. CASE HelperExits
  <2>1. stdin' \in Seq(Id) /\ (stdin' = stdin \/ Len(stdin') = 0)
    BY <1>9, <1>t, EmptySeq DEF HelperExits, TypeOK
  <2>2. QED
    BY <1>9, <1>t, <2>1
       DEF HelperExits, IInv, TypeOK, ClosedSettlesAll, Pending, GoneIsOver, Finished,
           IdsGrow, DisposeIsLast, clientVars
<1>10. CASE UNCHANGED vars
  BY <1>10, <1>t DEF vars, clientVars, IInv, TypeOK, ClosedSettlesAll, Pending, GoneIsOver,
                     Finished, IdsGrow, DisposeIsLast
<1>11. QED
  BY <1>1, <1>2, <1>3, <1>4, <1>5, <1>6, <1>7, <1>8, <1>9, <1>10
     DEF Next, Application, Events, Helper

LEMMA Invariance == Spec => []IInv
  BY Initially, Inductive, PTL DEF Spec

\* A closed library has settled every promise it gave, in any order of replies,
\* timers, failed writes and the exit.
THEOREM EveryPromiseSettled == Spec => []ClosedSettlesAll
<1>1. IInv => ClosedSettlesAll
  BY DEF IInv
<1>2. QED
  BY <1>1, Invariance, PTL

\* No call of dispose() returns while the helper is still there.
THEOREM HelperIsGone == Spec => []HelperGone
<1>1. IInv => HelperGone
  BY DEF IInv, GoneIsOver, HelperGone
<1>2. QED
  BY <1>1, Invariance, PTL

\* Nothing follows the dispose request on its way to the helper.
THEOREM NothingAfterDispose == Spec => []DisposeIsLast
<1>1. IInv => DisposeIsLast
  BY DEF IInv
<1>2. QED
  BY <1>1, Invariance, PTL

--------------------------------------------------------------------------------
(* The half of DisposeEnds that needs no fairness: somebody is always going to wake *)
(* the callers of dispose().                                                       *)

Waits(d) == caller[d] \in {"reply", "exit", "waiting"}

\* A caller waits only while the exit is not known, and then the shutdown timer is armed or
\* the process was killed.
NobodyWaitsInVain == \A d \in Disposer : Waits(d) => ~gone /\ (timer \/ killed)

\* What makes it inductive.
WInv ==
    /\ closing /\ ~gone => timer \/ killed
    /\ gone => closed /\ closing
    /\ \A d \in Disposer :
          /\ Waits(d) => closing /\ ~gone
          /\ caller[d] \in {"reply", "exit"} => disposeId # 0

LEMMA WaitingStep == IInv /\ WInv /\ [Next]_vars => WInv'
<1> SUFFICES ASSUME IInv, WInv, [Next]_vars
             PROVE  WInv'
  OBVIOUS
<1>t. TypeOK /\ IdsGrow /\ ClosedSettlesAll
  BY DEF IInv
<1>c. caller \in [Disposer -> {"idle", "reply", "exit", "waiting", "done", "threw"}]
  BY <1>t DEF TypeOK
<1>1. CASE Request
  BY <1>1 DEF Request, WInv, Waits
<1>2. ASSUME NEW d \in Disposer, Dispose(d)
      PROVE  WInv'
  <2>1. nextId \in 1..(MaxRequests + 2) /\ disposeId' = nextId
    BY <1>2, <1>t DEF Dispose, TypeOK
  <2>2. disposeId' # 0
    BY <2>1, ClientConstants
  <2>3. ~closing /\ ~closed /\ closing' = TRUE /\ timer' = TRUE /\ gone' = gone
    BY <1>2 DEF Dispose
  <2>4. ~gone
    BY <2>3 DEF WInv
  <2>5. QED
    BY <2>2, <2>3, <2>4 DEF WInv, Waits
<1>3. ASSUME NEW d \in Disposer, DisposeAgain(d)
      PROVE  WInv'
  <2>1. /\ closing /\ UNCHANGED <<closed, closing, timer, gone, disposeId, killed>>
        /\ caller' = [caller EXCEPT ![d] = IF gone THEN "done" ELSE "waiting"]
    BY <1>3, <1>t DEF DisposeAgain, IdsGrow
  <2>2. QED
    BY <1>c, <2>1 DEF WInv, Waits
<1>4. CASE HandleLine \/ \E r \in Id : WriteFailed(r)
  <2>1. Resume /\ UNCHANGED <<closed, closing, timer, gone, disposeId, killed>>
    BY <1>4 DEF HandleLine, WriteFailed
  <2>2. \A d \in Disposer : caller'[d] \in {"reply", "exit"} => caller[d] \in {"reply", "exit"}
    BY <1>c, <2>1 DEF Resume, Returns
  <2>3. \A d \in Disposer : Waits(d)' => Waits(d)
    BY <1>c, <2>1 DEF Resume, Returns, Waits
  <2>4. QED
    BY <2>1, <2>2, <2>3 DEF WInv
<1>5. CASE RequestTimedOut \/ ShutdownTimedOut
  <2>1. /\ Resume /\ UNCHANGED <<gone, disposeId>>
        /\ killed' = TRUE /\ closed' = TRUE /\ closing' = TRUE
    BY <1>5 DEF RequestTimedOut, ShutdownTimedOut, AbortProcess, FailAll
  <2>2. \A d \in Disposer : caller'[d] \in {"reply", "exit"} => caller[d] \in {"reply", "exit"}
    BY <1>c, <2>1 DEF Resume, Returns
  <2>3. \A d \in Disposer : Waits(d)' => Waits(d)
    BY <1>c, <2>1 DEF Resume, Returns, Waits
  <2>4. QED
    BY <2>1, <2>2, <2>3 DEF WInv
<1>6. CASE ChildExited \/ SpawnFailed
  <2>1. /\ Resume /\ UNCHANGED disposeId
        /\ gone' = TRUE /\ closed' = TRUE /\ closing' = TRUE
        /\ FailAll("exited") \/ FailAll("aborted")
    BY <1>6 DEF ChildExited, SpawnFailed, AbortProcess, FailAll
  <2>2. Pending' = {} /\ disposeId \in Id \cup {0}
    BY <1>t, <2>1, FailingAll DEF TypeOK
  <2>3. ASSUME NEW d \in Disposer
        PROVE  ~Waits(d)'
    <3>1. CASE caller[d] \in {"reply", "exit"}
      <4>1. disposeId # 0 /\ outcome'[disposeId] # "pending"
        BY <2>2, <3>1 DEF WInv, Pending
      <4>2. caller'[d] = Returns
        BY <2>1, <3>1, <4>1 DEF Resume
      <4>3. QED
        BY <4>2 DEF Returns, Waits
    <3>2. CASE caller[d] \notin {"reply", "exit"}
      BY <1>c, <2>1, <3>2 DEF Resume, Waits
    <3>3. QED
      BY <3>1, <3>2
  <2>4. QED
    BY <2>1, <2>3 DEF WInv, Waits
<1>7. CASE Helper \/ UNCHANGED vars
  <2>1. UNCHANGED <<closed, closing, timer, gone, caller, disposeId, killed>>
    BY <1>7 DEF Helper, HandleRequest, HelperExits, vars, clientVars
  <2>2. QED
    BY <2>1 DEF WInv, Waits
<1>8. QED
  BY <1>1, <1>2, <1>3, <1>4, <1>5, <1>6, <1>7 DEF Next, Application, Events

\* Whoever called dispose() and was not answered can count on a timer that has not fired
\* yet, or on the exit of a process that was killed: a request timing out, a failed write
\* or another call of dispose() never disarms the one without the other.
THEOREM SomebodyWakesCallers == Spec => []NobodyWaitsInVain
<1>1. Init => WInv
  BY DEF Init, WInv, Waits
<1>2. WInv => NobodyWaitsInVain
  BY DEF WInv, NobodyWaitsInVain
<1>3. QED
  BY <1>1, <1>2, WaitingStep, Invariance, PTL DEF Spec
================================================================================
