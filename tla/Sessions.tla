------------------------------ MODULE Sessions ------------------------------
(***************************************************************************)
(* The requests made of one conversation thread: messages, answers to an   *)
(* approval, cancels and one scheduled task (main.py, runtime/threads.py,  *)
(* api/events.py).  Each request becomes a task of the event loop; tasks   *)
(* take turns at every await.  What the graph does is modelled by what its *)
(* stream shows: an item for every node, and the node's checkpoint, which  *)
(* LangGraph writes after the item.                                        *)
(***************************************************************************)
EXTENDS Naturals, Sequences, FiniteSets

CONSTANTS
    Jobs,           \* bound: requests
    MaxItems,       \* bound: nodes one stream runs through
    MaxAsks,        \* bound: approvals asked for
    Failing,        \* exceptions happen: no model, database, graph
    Crashing,       \* the process stops and is started again
    Scheduled,      \* the thread may be that of a scheduled task
    None

ASSUME JobsAssumption == IsFiniteSet(Jobs) /\ None \notin Jobs
ASSUME BoundsAssumption == MaxItems \in Nat /\ MaxAsks \in Nat
ASSUME FlagsAssumption == {Failing, Crashing, Scheduled} \subseteq BOOLEAN

VARIABLES
    \* The checkpoint.
    status,         \* "none", "running", "waiting", "done", "cancelled"
    pending,        \* approval_id, 0 when there is none
    \* runtime/threads.py
    active,         \* active_threads[thread_id]
    flag,           \* thread_id in cancel_requested
    owner, queue,   \* the thread's asyncio.Lock and who waits for it
    \* Tasks.
    ready,          \* tasks created and not yet started, in that order
    pc,
    kind,           \* "chat", "resume", "cancel" or "scheduled"
    id, decision,   \* the answer a request carries
    defer,          \* defer_cancel_once
    stream,         \* [left, stage, unwritten]: the graph behind the iterator
    \* The interface (App.tsx) of the thread's client: "busy" since it sent a
    \* message, "free" after a done; "away" or "forgotten" where the done it waited
    \* for was told to nobody.
    client,
    \* Observability.
    lastId,
    answered,       \* approvals whose answer is in the checkpoint
    stopped,        \* approvals that were pending when a cancel was accepted
    since           \* jobs that had arrived when the standing cancel came

checkpoint == <<status, pending>>
registry == <<active, flag>>
lock == <<owner, queue, ready>>
request == <<kind, id, decision>>
history == <<lastId, answered, stopped, since>>
vars == <<checkpoint, registry, lock, pc, request, defer, stream, client, history>>

-----------------------------------------------------------------------------
NoStream == [left |-> 0, stage |-> "none", unwritten |-> "none"]

Init ==
    /\ status = "none" /\ pending = 0
    /\ active = 0 /\ flag = FALSE
    /\ owner = None /\ queue = <<>> /\ ready = <<>>
    /\ pc = [j \in Jobs |-> "new"]
    /\ kind = [j \in Jobs |-> "none"]
    /\ id = [j \in Jobs |-> 0] /\ decision = [j \in Jobs |-> "none"]
    /\ defer = [j \in Jobs |-> FALSE]
    /\ stream = [j \in Jobs |-> NoStream]
    /\ client = "free"
    /\ lastId = 0 /\ answered = {} /\ stopped = {} /\ since = {}

Goto(j, from, to) == pc[j] = from /\ pc' = [pc EXCEPT ![j] = to]
Opens(j, stage, first) ==
    stream' = [stream EXCEPT ![j] = [left |-> MaxItems, stage |-> stage,
                                     unwritten |-> first]]

Arrived == {j \in Jobs : pc[j] # "new"}
OnSchedule == \E j \in Jobs : kind[j] = "scheduled"

-----------------------------------------------------------------------------
(* The handlers of requests: none of them awaits anything.                 *)

\* create_task: the event loop starts tasks in the order they were created.
Created(j, k) ==
    /\ Goto(j, "new", "born")
    /\ kind' = [kind EXCEPT ![j] = k]
    /\ ready' = Append(ready, j)

\* A message registers its thread before its task starts.  The client shows the
\* thread of a scheduled task like any other and messages can be sent to it.
ChatArrives(j) ==
    /\ Created(j, "chat")
    /\ active' = active + 1
    /\ client' = "busy"
    /\ UNCHANGED <<checkpoint, flag, owner, queue, id, decision, defer, stream, history>>

\* An answer is let in when it names the approval that is pending now.
AnswerArrives(j, d) ==
    /\ pending # 0
    /\ Created(j, "resume")
    /\ id' = [id EXCEPT ![j] = pending] /\ decision' = [decision EXCEPT ![j] = d]
    /\ UNCHANGED <<checkpoint, registry, owner, queue, defer, stream, client, history>>

\* request_cancel: for a registered thread, or one whose checkpoint says so.
CancelArrives(j) ==
    /\ active > 0 \/ status \in {"running", "waiting"}
    /\ Created(j, "cancel")
    /\ flag' = TRUE
    /\ since' = Arrived
    /\ stopped' = IF pending = 0 THEN stopped ELSE stopped \cup {pending}
    /\ UNCHANGED <<checkpoint, active, owner, queue, id, decision, defer, stream,
                   client, lastId, answered>>

\* The scheduler calls start_stream itself and hands over the iterator: such a
\* stream has no registration and no lock.  Its thread id is a fresh one.  One that
\* fails before its first item leaves nothing behind.
ScheduledArrives(j) ==
    /\ Scheduled /\ Arrived = {}
    /\ Goto(j, "new", "check")
    /\ kind' = [kind EXCEPT ![j] = "scheduled"]
    /\ Opens(j, "run", "running")
    /\ UNCHANGED <<checkpoint, registry, lock, id, decision, defer, client, history>>

-----------------------------------------------------------------------------
(* The thread's lock.                                                      *)

\* asyncio.Lock is fair: a task that finds others waiting waits behind them.
Free == owner = None /\ queue = <<>>

Starts(j) == ready # <<>> /\ Head(ready) = j /\ ready' = Tail(ready)

TakeLock(j) ==
    IF Free
    THEN Goto(j, "born", "locked") /\ owner' = j /\ UNCHANGED queue
    ELSE Goto(j, "born", "queued") /\ queue' = Append(queue, j) /\ UNCHANGED owner

\* Mutant: messages and answers do not take the lock.
EnterUnlocked(j) ==
    /\ Starts(j) /\ kind[j] # "cancel"
    /\ Goto(j, "born", "locked")
    /\ UNCHANGED <<owner, queue>>
    /\ UNCHANGED <<checkpoint, registry, request, defer, stream, client, history>>

Enter(j) ==
    /\ Starts(j) /\ kind[j] # "cancel"
    /\ TakeLock(j)
    /\ UNCHANGED <<checkpoint, registry, request, defer, stream, client, history>>

\* Mutant: a cancel is left for the running stream to notice.
ToRejectNever == FALSE

\* _resolve_cancelled_approval looks for a pending approval before it asks for
\* the lock; when it cannot, it gives up.
ToReject == pending # 0

EnterCancel(j) ==
    /\ Starts(j) /\ kind[j] = "cancel"
    /\ \/ /\ ToReject
          /\ TakeLock(j)
          /\ id' = [id EXCEPT ![j] = pending]
          /\ decision' = [decision EXCEPT ![j] = "reject"]
       \/ /\ ~ToReject \/ Failing
          /\ Goto(j, "born", "ended")
          /\ UNCHANGED <<owner, queue, id, decision>>
    /\ UNCHANGED <<checkpoint, registry, kind, defer, stream, client, history>>

Grant(j) ==
    /\ owner = None /\ queue # <<>> /\ Head(queue) = j
    /\ owner' = j /\ queue' = Tail(queue)
    /\ Goto(j, "queued", "locked")
    /\ UNCHANGED <<checkpoint, registry, ready, request, defer, stream, client, history>>

\* Mutant: a message that leaves while an approval is pending keeps the lock.
FreedUnlessPending(j) ==
    IF kind[j] = "chat" /\ pending # 0 THEN owner ELSE None
Freed(j) == None

Unregistered == active - 1

\* The lock is released and, for a message, the finally of _start_chat runs: a
\* cancel is forgotten unless an approval is pending.  The state that says so
\* may be unreadable (no runtime, or an exception); then it counts as empty.
Leave(j) ==
    /\ Goto(j, "leave", "ended")
    /\ owner' = IF owner = j THEN Freed(j) ELSE owner
    /\ IF kind[j] = "chat"
       THEN /\ active' = Unregistered
            /\ \/ flag' = (flag /\ pending # 0)
               \/ Failing /\ flag' = FALSE
       ELSE UNCHANGED registry
    /\ UNCHANGED <<checkpoint, queue, ready, request, defer, stream, client, history>>

-----------------------------------------------------------------------------
(* _start_chat and _resume_approval, with the lock held.                   *)

\* The client frees itself when it hears done and at nothing else.  An answer or a
\* cancel over REST names no client, and the done at its end is told to nobody: the
\* interface takes that way when it is not connected, and asks for the state when it
\* is again (ClientView).  The events of a scheduled thread go to everyone.
TellDone(j) ==
    \/ client' = "free"
    \/ /\ kind[j] \in {"resume", "cancel"} /\ ~OnSchedule
       /\ client' = IF client = "busy" THEN "away" ELSE client

\* Mutant: a failure is only logged.
TellFailureToLog(j) == UNCHANGED client

\* _fail_terminal sends a done.
TellFailure(j) == TellDone(j)

StartFails(j) ==
    /\ Failing
    /\ Goto(j, "locked", "leave")
    /\ TellFailure(j)
    /\ UNCHANGED <<checkpoint, registry, lock, request, defer, stream, history>>

\* The client is told an error, which does not free it.
ChatDeclined(j) ==
    /\ kind[j] = "chat" /\ pending # 0
    /\ Goto(j, "locked", "leave")
    /\ UNCHANGED <<checkpoint, registry, lock, request, defer, stream, client, history>>

\* start_stream returns a generator: the first write waits for the first next().
ChatStreams(j) ==
    /\ kind[j] = "chat" /\ pending = 0
    /\ Goto(j, "locked", "check")
    /\ Opens(j, "run", "running")
    /\ UNCHANGED <<checkpoint, registry, lock, request, defer, client, history>>

\* Mutant: the answer is not compared again once the lock is held.
StillPendingUnchecked(j) == TRUE
StillPending(j) == pending # 0 /\ pending = id[j]

\* Mutant: only the task a cancel has started itself rejects.
CancellingItself(j) == kind[j] = "cancel"
Cancelling(j) == kind[j] = "cancel" \/ flag

\* Answered meanwhile; or to be approved, and changed since it was shown.  An error
\* is all the client hears.
AnswerRefused(j) ==
    /\ kind[j] \in {"resume", "cancel"}
    /\ ~StillPending(j) \/ (decision[j] = "approve" /\ ~Cancelling(j))
    /\ Goto(j, "locked", "leave")
    /\ UNCHANGED <<checkpoint, registry, lock, request, defer, stream, client, history>>

AnswerStreams(j) ==
    /\ kind[j] \in {"resume", "cancel"} /\ StillPending(j)
    /\ Goto(j, "locked", "check")
    /\ decision' = [decision EXCEPT ![j] = IF Cancelling(j) THEN "reject" ELSE @]
    /\ defer' = [defer EXCEPT ![j] = Cancelling(j)]
    /\ Opens(j, "resume", "none")
    /\ UNCHANGED <<checkpoint, registry, lock, kind, id, client, history>>

-----------------------------------------------------------------------------
(* _run_stream.                                                            *)

\* The runtime was retired and closed since it gave the iterator: retain_stream raises
\* before the try, and nobody is told.
StreamRefused(j) ==
    /\ Failing
    /\ kind[j] = "chat" => pending = 0
    /\ kind[j] # "chat" => StillPending(j)
    /\ Goto(j, "locked", "leave")
    /\ client' = IF kind[j] = "chat" /\ client = "busy" THEN "forgotten" ELSE client
    /\ UNCHANGED <<checkpoint, registry, lock, request, defer, stream, history>>

\* Before each item: was the thread cancelled?  A rejection sent on behalf of a
\* cancel is let through once.
Check(j) ==
    /\ ~flag \/ defer[j]
    /\ Goto(j, "check", "next")
    /\ defer' = [defer EXCEPT ![j] = @ /\ ~flag]
    /\ UNCHANGED <<checkpoint, registry, lock, request, stream, client, history>>

\* The cancellation goes to the checkpoint; when that fails it is only logged.
Stop(j) ==
    /\ flag /\ ~defer[j]
    /\ Goto(j, "check", "leave")
    /\ flag' = FALSE
    /\ \/ status' = "cancelled" /\ pending' = 0
       \/ Failing /\ UNCHANGED checkpoint
    /\ TellDone(j) \/ (Failing /\ TellFailure(j))
    /\ UNCHANGED <<active, lock, request, defer, stream, history>>

\* next() runs in a worker thread; other tasks run meanwhile.  First it writes
\* what the item before left to write.
Write(j) ==
    /\ pc[j] = "next" /\ stream[j].unwritten # "none"
    /\ status' = stream[j].unwritten
    /\ IF stream[j].unwritten = "waiting"
       THEN lastId' = lastId + 1 /\ pending' = lastId + 1
       ELSE pending' = 0 /\ UNCHANGED lastId
    /\ answered' = IF stream[j].stage = "answered"
                   THEN answered \cup {id[j]} ELSE answered
    /\ stream' = [stream EXCEPT
                    ![j].unwritten = "none",
                    ![j].stage = CASE status' = "waiting" -> "ask"
                                   [] status' = "done"    -> "over"
                                   [] OTHER               -> "run"]
    /\ UNCHANGED <<registry, lock, pc, request, defer, client, stopped, since>>

\* A node has run.  After an answer the approval node comes first; a node may
\* ask, end the run, or just go on.
Item(j, s) ==
    /\ stream[j].unwritten = "none" /\ stream[j].left > 0
    /\ \/ stream[j].stage = "resume" /\ pending = id[j] /\ s = "running"
       \/ stream[j].stage = "run" /\ (s = "waiting" => lastId < MaxAsks)
    /\ Goto(j, "next", "check")
    /\ stream' = [stream EXCEPT
                    ![j] = [left |-> @.left - 1, unwritten |-> s,
                            stage |-> IF @.stage = "resume" THEN "answered"
                                                            ELSE @.stage]]
    /\ UNCHANGED <<checkpoint, registry, lock, request, defer, client, history>>

\* The wait was cancelled before the graph read it: the reflecting node comes
\* next and changes nothing.
ItemTooLate(j) ==
    /\ stream[j].stage = "resume" /\ pending # id[j]
    /\ Goto(j, "next", "check")
    /\ stream' = [stream EXCEPT ![j].stage = "over"]
    /\ UNCHANGED <<checkpoint, registry, lock, request, defer, client, history>>

\* The interrupt is an item of its own.
ItemInterrupt(j) ==
    /\ stream[j].stage = "ask" /\ stream[j].unwritten = "none"
    /\ Goto(j, "next", "check")
    /\ stream' = [stream EXCEPT ![j].stage = "over"]
    /\ UNCHANGED <<checkpoint, registry, lock, request, defer, client, history>>

\* Out of nodes (a bound of the model), the run ends.
LastItem(j) ==
    /\ stream[j].stage = "run" /\ stream[j].unwritten = "none"
    /\ stream[j].left = 0
    /\ Goto(j, "next", "check")
    /\ stream' = [stream EXCEPT ![j].unwritten = "done"]
    /\ UNCHANGED <<checkpoint, registry, lock, request, defer, client, history>>

\* The graph raises, or the checkpoint cannot be read at the end.
StreamRaises(j) ==
    /\ Failing
    /\ pc[j] \in {"next", "finish"} /\ Goto(j, pc[j], "leave")
    /\ TellFailure(j)
    /\ UNCHANGED <<checkpoint, registry, lock, request, defer, stream, history>>

Exhausted(j) ==
    /\ stream[j].stage = "over" /\ stream[j].unwritten = "none"
    /\ Goto(j, "next", "finish")
    /\ UNCHANGED <<checkpoint, registry, lock, request, defer, stream, client,
                   history>>

\* Whether the client is told done or shown an approval depends on the checkpoint as
\* it is by then.
Finish(j) ==
    /\ Goto(j, "finish", "leave")
    /\ IF status = "waiting" THEN UNCHANGED client ELSE TellDone(j)
    /\ UNCHANGED <<checkpoint, registry, lock, request, defer, stream, history>>

-----------------------------------------------------------------------------
\* Everything but the checkpoint is lost, and every connection.
Crash ==
    /\ Crashing
    /\ pc' = [j \in Jobs |-> IF pc[j] \in {"new", "ended"} THEN pc[j] ELSE "lost"]
    /\ active' = 0 /\ flag' = FALSE
    /\ owner' = None /\ queue' = <<>> /\ ready' = <<>>
    /\ client' = IF client = "busy" THEN "away" ELSE client
    /\ UNCHANGED <<checkpoint, request, defer, stream, history>>

Work(j) ==
    \/ Enter(j) \/ EnterCancel(j) \/ Grant(j) \/ Leave(j)
    \/ StartFails(j) \/ ChatDeclined(j) \/ ChatStreams(j)
    \/ AnswerRefused(j) \/ AnswerStreams(j) \/ StreamRefused(j)
    \/ Check(j) \/ Stop(j) \/ Write(j)
    \/ \E s \in {"running", "waiting", "done"} : Item(j, s)
    \/ ItemTooLate(j) \/ ItemInterrupt(j) \/ LastItem(j) \/ StreamRaises(j)
    \/ Exhausted(j) \/ Finish(j)

Arrives(j) ==
    \/ ChatArrives(j) \/ CancelArrives(j) \/ ScheduledArrives(j)
    \/ \E d \in {"approve", "reject"} : AnswerArrives(j, d)

Next == Crash \/ \E j \in Jobs : Arrives(j) \/ Work(j)

Spec == Init /\ [][Next]_vars

\* The event loop runs every task that can run; requests come as they please.
FairSpec == Spec /\ \A j \in Jobs : WF_vars(Work(j))

-----------------------------------------------------------------------------
Streaming(j) == pc[j] \in {"check", "next", "finish"}

TypeOK ==
    /\ status \in {"none", "running", "waiting", "done", "cancelled"}
    /\ pending \in 0 .. lastId /\ lastId \in Nat
    /\ active = Cardinality({j \in Jobs : kind[j] = "chat"
                                /\ pc[j] \notin {"ended", "lost"}})
    /\ flag \in BOOLEAN /\ owner \in Jobs \cup {None} /\ queue \in Seq(Jobs)
    /\ ready \in Seq(Jobs)
    /\ pc \in [Jobs -> {"new", "born", "queued", "locked", "check", "next",
                        "finish", "leave", "ended", "lost"}]
    /\ kind \in [Jobs -> {"none", "chat", "resume", "cancel", "scheduled"}]
    /\ id \in [Jobs -> 0 .. lastId]
    /\ decision \in [Jobs -> {"none", "approve", "reject"}]
    /\ defer \in [Jobs -> BOOLEAN]
    /\ stream \in [Jobs -> [left : 0 .. MaxItems,
                            stage : {"none", "run", "resume", "answered", "ask",
                                     "over"},
                            unwritten : {"none", "running", "waiting", "done"}]]
    /\ client \in {"free", "busy", "away", "forgotten"}

\* The messages and answers of one conversation take turns: two streams never
\* write the same checkpoint at once.  (thread_lock, "async with" in main.py)
OneStream ==
    OnSchedule \/ \A i, j \in Jobs : Streaming(i) /\ Streaming(j) => i = j

\* However often an approval is answered at once (two clicks, REST and WebSocket,
\* a cancel), nobody resumes the graph with it after it was answered.
AnsweredOnce ==
    \A j \in Jobs : Streaming(j) /\ stream[j].stage = "resume"
                        => id[j] \notin answered

\* A cancelled thread runs again, and not for a message.
Revived ==
    /\ status = "cancelled" /\ status' # "cancelled"
    /\ ~ \E j \in Jobs : kind[j] = "chat" /\ Streaming(j)

\* A cancelled conversation stays cancelled until a new message is sent: no answer
\* that was already waiting for the lock brings it back to life.
CancelledStands == [][OnSchedule \/ ~Revived]_vars

\* An accepted cancel of a waiting thread is stronger than an approval sent before
\* or after it: no stream starts with it any more.
CancelNeverApproves ==
    [][\A j \in Jobs :
          pc[j] = "locked" /\ pc'[j] = "check" /\ decision'[j] = "approve"
              => id[j] \notin stopped]_vars

\* Nothing is under way.
Quiet == \A j \in Jobs : pc[j] \in {"new", "ended", "lost"}

\* When all requests of a thread are over and its client is busy still, an approval
\* waits for its answer: whoever declined, failed, cancelled or answered on the way,
\* the last to go on told the client done.  Three ends are told to nobody and named
\* apart: that of an answer over REST and that of a process that stops ("away"), and
\* that of a message whose runtime was closed under it ("forgotten": retain_stream
\* raises outside every try, main.py:321, against the comment at main.py:256).
EveryChatTold == Quiet /\ client = "busy" => pending # 0

\* Every task gets the lock in time and ends.
JobsEnd == \A j \in Jobs : pc[j] = "born" ~> pc[j] = "ended"

\* A cancel of a waiting thread ends the wait.
CancelEndsWait ==
    \A i \in 1 .. MaxAsks : (flag /\ pending = i) ~> pending # i

\* threads.py:38 promises that a cancel mark never hurts a later request: a
\* message that arrived after the cancel is not stopped by it.
LaterRequestsUnharmed ==
    \A j \in Jobs : kind[j] = "chat" /\ pc[j] = "check" /\ flag => j \in since
=============================================================================
