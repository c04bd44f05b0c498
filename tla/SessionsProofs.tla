--------------------------- MODULE SessionsProofs ---------------------------
(***************************************************************************)
(* The lock of a thread keeps its requests apart, for any number of them,  *)
(* of nodes and of approvals, whatever fails and however often the process *)
(* stops: a thread that no scheduled task streams on behind the lock's     *)
(* back (~Scheduled).                                                      *)
(***************************************************************************)
EXTENDS Sessions, Integers, TLAPS

Shape ==
    /\ pc \in [Jobs -> {"new", "born", "queued", "locked", "check", "next",
                        "finish", "leave", "ended", "lost"}]
    /\ kind \in [Jobs -> {"none", "chat", "resume", "cancel", "scheduled"}]
    /\ id \in [Jobs -> Nat]
    /\ decision \in [Jobs -> {"none", "approve", "reject"}]
    /\ stream \in [Jobs -> [left : Int,
                            stage : {"none", "run", "resume", "answered", "ask",
                                     "over"},
                            unwritten : {"none", "running", "waiting", "done"}]]

\* Whoever has got past the lock owns it.
Locked ==
    \A j \in Jobs : pc[j] \in {"locked", "check", "next", "finish", "leave"}
                        => owner = j

\* The approval that is pending was never answered.
Fresh ==
    /\ lastId \in Nat /\ pending \in 0 .. lastId
    /\ answered \subseteq 1 .. lastId /\ pending \notin answered

\* A stream that carries an answer carries the one to the pending approval.
Carries ==
    \A j \in Jobs : Streaming(j) /\ stream[j].stage \in {"resume", "answered"}
                        => pending = id[j] /\ pending # 0

\* A stream that is left running over a cancelled checkpoint is a message's.
Cancelled ==
    status = "cancelled" =>
        /\ pending = 0
        /\ \A j \in Jobs : Streaming(j) => kind[j] = "chat"

IInv == Shape /\ Locked /\ Fresh /\ Carries /\ Cancelled

-----------------------------------------------------------------------------
USE DEF Streaming, Goto, checkpoint, registry, request, history, lock

\* The invariant holds at first.
LEMMA Initially == Init => IInv
<1> SUFFICES ASSUME Init PROVE IInv
  OBVIOUS
<1> USE DEF Init, NoStream
<1>1. Shape
  BY DEF Shape
<1>2. Locked
  BY DEF Locked
<1>3. Fresh
  BY DEF Fresh
<1>4. Carries /\ Cancelled
  BY DEF Carries, Cancelled
<1>5. QED
  BY <1>1, <1>2, <1>3, <1>4 DEF IInv

-----------------------------------------------------------------------------
\* The state stays well formed.
LEMMA ShapeNext ==
  ASSUME IInv, NEW j \in Jobs, Arrives(j) \/ Work(j)
  PROVE  Shape'
<1> USE DEF IInv, Shape, Fresh
<1>1. CASE ChatArrives(j) \/ CancelArrives(j)
  BY <1>1 DEF ChatArrives, CancelArrives, Created
<1>2. ASSUME NEW d \in {"approve", "reject"}, AnswerArrives(j, d) PROVE Shape'
  BY <1>2 DEF AnswerArrives, Created
<1>3. CASE ScheduledArrives(j)
  BY <1>3, BoundsAssumption DEF ScheduledArrives, Opens
<1>4. CASE Enter(j) \/ Grant(j) \/ Leave(j)
  BY <1>4 DEF Enter, TakeLock, Grant, Leave
<1>5. CASE EnterCancel(j)
  <2>1. UNCHANGED stream /\ kind' = kind
    BY <1>5 DEF EnterCancel
  <2>2. pending \in Nat
    OBVIOUS
  <2>3. \/ id' = [id EXCEPT ![j] = pending]
           /\ decision' = [decision EXCEPT ![j] = "reject"]
        \/ UNCHANGED <<id, decision>>
    BY <1>5 DEF EnterCancel
  <2>4. \E to \in {"ended", "locked", "queued"} : pc' = [pc EXCEPT ![j] = to]
    BY <1>5 DEF EnterCancel, TakeLock
  <2>5. QED
    BY <2>1, <2>2, <2>3, <2>4
<1>6. CASE StartFails(j) \/ ChatDeclined(j) \/ AnswerRefused(j) \/ StreamRefused(j)
  BY <1>6 DEF StartFails, ChatDeclined, AnswerRefused, StreamRefused
<1>7. CASE ChatStreams(j)
  BY <1>7, BoundsAssumption DEF ChatStreams, Opens
<1>8. CASE AnswerStreams(j)
  BY <1>8, BoundsAssumption DEF AnswerStreams, Opens
<1>9. CASE Check(j) \/ Stop(j) \/ Exhausted(j) \/ Finish(j) \/ StreamRaises(j)
  BY <1>9 DEF Check, Stop, Exhausted, Finish, StreamRaises
<1>10. CASE Write(j)
  <2>1. UNCHANGED <<pc, kind, id, decision>>
    BY <1>10 DEF Write
  <2>2. PICK to \in {"ask", "over", "run"} :
           stream' = [stream EXCEPT ![j].unwritten = "none", ![j].stage = to]
    BY <1>10 DEF Write
  <2>3. stream' = [stream EXCEPT
                     ![j] = [stream[j] EXCEPT !.unwritten = "none", !.stage = to]]
    BY <2>2
  <2>4. QED
    BY <2>1, <2>3
<1>11. ASSUME NEW s \in {"running", "waiting", "done"}, Item(j, s) PROVE Shape'
  BY <1>11 DEF Item
<1>12. CASE ItemTooLate(j) \/ ItemInterrupt(j) \/ LastItem(j)
  <2>1. UNCHANGED <<kind, id, decision>> /\ pc' = [pc EXCEPT ![j] = "check"]
    BY <1>12 DEF ItemTooLate, ItemInterrupt, LastItem
  <2>2. \/ stream' = [stream EXCEPT ![j].stage = "over"]
        \/ stream' = [stream EXCEPT ![j].unwritten = "done"]
    BY <1>12 DEF ItemTooLate, ItemInterrupt, LastItem
  <2>3. QED
    BY <2>1, <2>2
<1>13. QED
  BY <1>1, <1>2, <1>3, <1>4, <1>5, <1>6, <1>7, <1>8, <1>9, <1>10, <1>11, <1>12
     DEF Arrives, Work

\* The lock changes hands only where nobody holds it or its owner lets go.
LEMMA LockedNext ==
  ASSUME ~Scheduled, IInv, NEW j \in Jobs, Arrives(j) \/ Work(j)
  PROVE  Locked'
<1> USE DEF IInv, Shape, Locked
<1>1. CASE Arrives(j)
  BY <1>1 DEF Arrives, ChatArrives, CancelArrives, AnswerArrives, ScheduledArrives,
              Created
<1>2. CASE Enter(j)
  BY <1>2, JobsAssumption DEF Enter, TakeLock, Free
<1>3. CASE EnterCancel(j)
  BY <1>3, JobsAssumption DEF EnterCancel, TakeLock, Free
<1>4. CASE Grant(j) \/ Leave(j)
  <2>1. CASE Grant(j)
    BY <2>1, JobsAssumption DEF Grant
  <2>2. CASE Leave(j)
    <3>1. pc[j] = "leave" /\ pc' = [pc EXCEPT ![j] = "ended"]
      BY <2>2 DEF Leave
    <3>2. QED
      BY <3>1
  <2>3. QED
    BY <1>4, <2>1, <2>2
<1>5. CASE StartFails(j) \/ ChatDeclined(j) \/ ChatStreams(j)
             \/ AnswerRefused(j) \/ AnswerStreams(j) \/ StreamRefused(j)
  BY <1>5 DEF StartFails, ChatDeclined, ChatStreams, AnswerRefused, AnswerStreams,
              StreamRefused
<1>6. CASE Check(j) \/ Stop(j) \/ Write(j) \/ ItemTooLate(j) \/ ItemInterrupt(j)
             \/ LastItem(j) \/ StreamRaises(j) \/ Exhausted(j) \/ Finish(j)
  BY <1>6 DEF Check, Stop, Write, ItemTooLate, ItemInterrupt, LastItem,
              StreamRaises, Exhausted, Finish
<1>7. ASSUME NEW s \in {"running", "waiting", "done"}, Item(j, s) PROVE Locked'
  BY <1>7 DEF Item
<1>8. QED
  BY <1>1, <1>2, <1>3, <1>4, <1>5, <1>6, <1>7 DEF Work

\* Only a stream writes the checkpoint, and one at a time streams.
LEMMA Alone ==
  IInv => \A i, j \in Jobs : Streaming(i) /\ Streaming(j) => i = j
  BY DEF IInv, Locked

\* Every step but Write and Stop leaves the checkpoint and its history alone.
LEMMA Untouched ==
  ASSUME NEW j \in Jobs, Arrives(j) \/ Work(j), ~Write(j), ~Stop(j)
  PROVE  UNCHANGED <<status, pending, lastId, answered>>
<1>1. CASE Arrives(j)
  BY <1>1 DEF Arrives, ChatArrives, CancelArrives, AnswerArrives, ScheduledArrives
<1>2. CASE Enter(j) \/ EnterCancel(j) \/ Grant(j) \/ Leave(j)
  BY <1>2 DEF Enter, EnterCancel, Grant, Leave
<1>3. CASE StartFails(j) \/ ChatDeclined(j) \/ ChatStreams(j)
             \/ AnswerRefused(j) \/ AnswerStreams(j) \/ StreamRefused(j)
  BY <1>3 DEF StartFails, ChatDeclined, ChatStreams, AnswerRefused, AnswerStreams,
              StreamRefused
<1>4. CASE Check(j) \/ ItemTooLate(j) \/ ItemInterrupt(j) \/ LastItem(j)
             \/ StreamRaises(j) \/ Exhausted(j) \/ Finish(j)
  BY <1>4 DEF Check, ItemTooLate, ItemInterrupt, LastItem, StreamRaises, Exhausted,
              Finish
<1>5. CASE \E s \in {"running", "waiting", "done"} : Item(j, s)
  BY <1>5 DEF Item
<1>6. QED
  BY <1>1, <1>2, <1>3, <1>4, <1>5 DEF Work

\* The approvals are numbered upwards; a stream that answers one carries its id.
LEMMA FreshNext ==
  ASSUME IInv, NEW j \in Jobs, Arrives(j) \/ Work(j)
  PROVE  Fresh'
<1> USE DEF IInv, Fresh
<1>1. CASE Write(j)
  <2>1. stream[j].stage = "answered" => id[j] = pending /\ pending # 0
    BY <1>1 DEF Write, Carries
  <2>2. answered' \subseteq answered \cup {id[j]}
    BY <1>1 DEF Write
  <2>3. stream[j].stage # "answered" => answered' = answered
    BY <1>1 DEF Write
  <2>4. \/ pending' = 0 /\ lastId' = lastId
        \/ pending' = lastId + 1 /\ lastId' = lastId + 1
    BY <1>1 DEF Write
  <2>5. QED
    BY <2>1, <2>2, <2>3, <2>4
<1>2. CASE Stop(j)
  BY <1>2 DEF Stop
<1>3. CASE ~Write(j) /\ ~Stop(j)
  <2>1. UNCHANGED <<status, pending, lastId, answered>>
    BY <1>3, Untouched
  <2>2. QED
    BY <2>1
<1>4. QED
  BY <1>1, <1>2, <1>3

\* No stream but the one that answers changes the approval it answers.
LEMMA CarriesNext ==
  ASSUME ~Scheduled, IInv, NEW j \in Jobs, Arrives(j) \/ Work(j)
  PROVE  Carries'
<1> SUFFICES ASSUME NEW k \in Jobs, Streaming(k)',
                    (stream[k].stage \in {"resume", "answered"})'
             PROVE  pending' = id'[k] /\ pending' # 0
  BY DEF Carries
<1> USE DEF IInv, Shape, Carries
<1>1. CASE Write(j) \/ Stop(j)
  <2>1. k = j
    BY <1>1, Alone DEF Write, Stop
  <2>2. FALSE
    BY <1>1, <2>1 DEF Write, Stop
  <2>3. QED
    BY <2>2
<1>2. CASE ~Write(j) /\ ~Stop(j)
  <2>1. UNCHANGED pending
    BY <1>2, Untouched
  <2>2. CASE Arrives(j)
    BY <2>1, <2>2 DEF Arrives, ChatArrives, CancelArrives, AnswerArrives,
                      ScheduledArrives, Created
  <2>3. CASE Enter(j) \/ EnterCancel(j) \/ Grant(j) \/ Leave(j)
    <3>1. stream' = stream /\ k # j /\ pc'[k] = pc[k] /\ id'[k] = id[k]
      BY <2>3 DEF Enter, EnterCancel, TakeLock, Grant, Leave
    <3>2. QED
      BY <2>1, <3>1
  <2>4. CASE StartFails(j) \/ ChatDeclined(j) \/ AnswerRefused(j)
               \/ StreamRefused(j) \/ StreamRaises(j) \/ Finish(j)
    BY <2>1, <2>4 DEF StartFails, ChatDeclined, AnswerRefused, StreamRefused, StreamRaises,
                      Finish
  <2>5. CASE ChatStreams(j)
    BY <2>1, <2>5 DEF ChatStreams, Opens
  <2>6. CASE AnswerStreams(j)
    BY <2>1, <2>6 DEF AnswerStreams, Opens, StillPending
  <2>7. CASE Check(j) \/ Exhausted(j)
    BY <2>1, <2>7 DEF Check, Exhausted
  <2>8. CASE ItemTooLate(j) \/ ItemInterrupt(j) \/ LastItem(j)
    BY <2>1, <2>8 DEF ItemTooLate, ItemInterrupt, LastItem
  <2>9. ASSUME NEW s \in {"running", "waiting", "done"}, Item(j, s)
        PROVE  pending' = id'[k] /\ pending' # 0
    BY <2>1, <2>9 DEF Item
  <2>10. QED
    BY <1>2, <2>2, <2>3, <2>4, <2>5, <2>6, <2>7, <2>8, <2>9 DEF Work
<1>3. QED
  BY <1>1, <1>2

\* A cancel ends the only stream there is; an answer finds nothing pending.
LEMMA CancelledNext ==
  ASSUME ~Scheduled, IInv, NEW j \in Jobs, Arrives(j) \/ Work(j)
  PROVE  Cancelled'
<1> USE DEF IInv, Shape, Cancelled
<1>1. CASE Write(j)
  BY <1>1 DEF Write
<1>2. CASE Stop(j)
  <2>1. \A k \in Jobs : ~Streaming(k)'
    BY <1>2, Alone DEF Stop
  <2>2. (status' = "cancelled" /\ pending' = 0) \/ UNCHANGED checkpoint
    BY <1>2 DEF Stop
  <2>3. QED
    BY <2>1, <2>2
<1>3. CASE ~Write(j) /\ ~Stop(j)
  <2> SUFFICES ASSUME status = "cancelled", NEW k \in Jobs, Streaming(k)'
               PROVE  kind'[k] = "chat"
    BY <1>3, Untouched
  <2>1. CASE Arrives(j)
    <3>1. pc' = [pc EXCEPT ![j] = "born"] /\ \E c : kind' = [kind EXCEPT ![j] = c]
      BY <2>1 DEF Arrives, ChatArrives, CancelArrives, AnswerArrives, ScheduledArrives, Created
    <3>2. PICK c : kind' = [kind EXCEPT ![j] = c]
      BY <3>1
    <3>3. k # j /\ pc'[k] = pc[k] /\ kind'[k] = kind[k]
      BY <3>1, <3>2
    <3>4. QED
      BY <3>3
  <2>2. CASE Enter(j) \/ EnterCancel(j) \/ Grant(j) \/ Leave(j)
    <3>1. kind' = kind /\ k # j /\ pc'[k] = pc[k]
      BY <2>2 DEF Enter, EnterCancel, TakeLock, Grant, Leave
    <3>2. QED
      BY <3>1
  <2>3. CASE StartFails(j) \/ ChatDeclined(j) \/ AnswerRefused(j)
               \/ StreamRefused(j) \/ StreamRaises(j) \/ Finish(j)
    BY <2>3 DEF StartFails, ChatDeclined, AnswerRefused, StreamRefused, StreamRaises,
                      Finish
  <2>4. CASE ChatStreams(j) \/ AnswerStreams(j)
    BY <2>4 DEF ChatStreams, AnswerStreams, StillPending
  <2>5. CASE Check(j) \/ Exhausted(j) \/ ItemTooLate(j) \/ ItemInterrupt(j) \/ LastItem(j)
    BY <2>5 DEF Check, Exhausted, ItemTooLate, ItemInterrupt, LastItem
  <2>6. ASSUME NEW s \in {"running", "waiting", "done"}, Item(j, s)
        PROVE  kind'[k] = "chat"
    BY <2>6 DEF Item
  <2>7. QED
    BY <1>3, <2>1, <2>2, <2>3, <2>4, <2>5, <2>6 DEF Work
<1>4. QED
  BY <1>1, <1>2, <1>3

\* The invariant is inductive where no stream is scheduled.
LEMMA IInvNext == ~Scheduled /\ IInv /\ [Next]_vars => IInv'
<1> SUFFICES ASSUME ~Scheduled, IInv, [Next]_vars PROVE IInv'
  OBVIOUS
<1>1. ASSUME NEW j \in Jobs, Arrives(j) \/ Work(j) PROVE IInv'
  <2>1. Shape' /\ Locked' /\ Fresh'
    BY <1>1, ShapeNext, LockedNext, FreshNext
  <2>2. Carries' /\ Cancelled'
    BY <1>1, CarriesNext, CancelledNext
  <2>3. QED
    BY <2>1, <2>2 DEF IInv
<1>2. CASE Crash
  <2> USE <1>2 DEF IInv, Crash
  <2>1. Shape'
    BY DEF Shape
  <2>2. \A j \in Jobs : pc'[j] \in {"new", "ended", "lost"}
    BY DEF Shape
  <2>3. Locked' /\ Fresh' /\ Carries' /\ Cancelled'
    BY <2>2 DEF Locked, Fresh, Carries, Cancelled
  <2>4. QED
    BY <2>1, <2>3
<1>3. CASE UNCHANGED vars
  BY <1>3 DEF vars, IInv, Shape, Locked, Fresh, Carries, Cancelled
<1>4. QED
  BY <1>1, <1>2, <1>3 DEF Next

-----------------------------------------------------------------------------
\* Two streams never run on one thread at once.
THEOREM OneAtATime ==
  ASSUME ~Scheduled
  PROVE  Spec => []OneStream
<1>0. IInv /\ [Next]_vars => IInv'
  BY IInvNext
<1>1. IInv => OneStream
  BY Alone DEF OneStream
<1>2. QED
  BY <1>0, <1>1, Initially, PTL DEF Spec

\* An approval that was answered is not given to the graph again.
THEOREM AnswersSafe ==
  ASSUME ~Scheduled
  PROVE  Spec => []AnsweredOnce
<1>0. IInv /\ [Next]_vars => IInv'
  BY IInvNext
<1>1. IInv => AnsweredOnce
  BY DEF IInv, Fresh, Carries, AnsweredOnce
<1>2. QED
  BY <1>0, <1>1, Initially, PTL DEF Spec

\* No answer starts a cancelled thread again.
THEOREM CancelSafe ==
  ASSUME ~Scheduled
  PROVE  Spec => CancelledStands
<1>0. IInv /\ [Next]_vars => IInv'
  BY IInvNext
<1>1. IInv /\ [Next]_vars => [OnSchedule \/ ~Revived]_vars
  <2> SUFFICES ASSUME IInv, Next, Revived PROVE FALSE
    OBVIOUS
  <2>1. PICK j \in Jobs : Arrives(j) \/ Work(j)
    BY DEF Next, Crash, Revived
  <2>2. Write(j)
    BY <2>1, Untouched DEF Stop, Revived
  <2>3. Streaming(j) /\ kind[j] = "chat"
    BY <2>2 DEF Write, IInv, Cancelled, Revived
  <2>4. QED
    BY <2>3 DEF Revived
<1>2. QED
  BY <1>0, <1>1, Initially, PTL DEF Spec, CancelledStands

-----------------------------------------------------------------------------
(* What the client is told, and what a cancel stops.                       *)

Steps == {"new", "born", "queued", "locked", "check", "next", "finish", "leave",
          "ended", "lost"}

\* Who is still to tell the client, should it be busy.
Owes(j) == (kind[j] = "chat" /\ pc[j] \in {"born", "queued", "locked"}) \/ Streaming(j)

\* A busy client has an approval to answer or a task that will free it.
Owed ==
    /\ pc \in [Jobs -> Steps] /\ kind \in [Jobs -> {"none", "chat", "resume", "cancel", "scheduled"}]
    /\ lastId \in Nat
    /\ status = "waiting" => pending # 0
    /\ client = "busy" => pending # 0 \/ \E j \in Jobs : Owes(j)

\* Tasks that a step does not move go on owing what they owe.
LEMMA OthersOwe ==
  ASSUME Owed, client = "busy", NEW j \in Jobs, pending' = pending,
         \A k \in Jobs \ {j} : pc'[k] = pc[k] /\ kind'[k] = kind[k],
         Owes(j) => Owes(j)' \/ pending # 0
  PROVE  pending' # 0 \/ \E k \in Jobs : Owes(k)'
<1>1. CASE pending # 0
  BY <1>1
<1>2. CASE pending = 0
  <2>1. PICK k \in Jobs : Owes(k)
    BY <1>2 DEF Owed
  <2>2. Owes(k)'
    BY <1>2, <2>1 DEF Owes
  <2>3. QED
    BY <2>2
<1>3. QED
  BY <1>1, <1>2

\* Whatever fails, whoever streams and however often the process stops.
LEMMA OwedNext == Owed /\ [Next]_vars => Owed'
<1> SUFFICES ASSUME Owed, [Next]_vars PROVE Owed'
  OBVIOUS
<1> USE DEF Steps
<1> DEFINE Due == pending # 0 \/ \E k \in Jobs : Owes(k)
           Kinds == {"none", "chat", "resume", "cancel", "scheduled"}
<1>0. /\ pc \in [Jobs -> Steps] /\ kind \in [Jobs -> Kinds] /\ lastId \in Nat
      /\ status = "waiting" => pending # 0
      /\ client = "busy" => Due
  BY DEF Owed
<1>1. CASE Crash
  BY <1>0, <1>1 DEF Crash, Owed
<1>2. CASE UNCHANGED vars
  BY <1>0, <1>2 DEF vars, Owed, Owes
<1>3. ASSUME NEW j \in Jobs, Arrives(j) PROVE Owed'
  <2>1. /\ UNCHANGED checkpoint /\ lastId' = lastId
        /\ pc[j] = "new"
        /\ \/ client' = client
           \/ pc'[j] = "born" /\ kind'[j] = "chat"
        /\ \E to \in {"born", "check"} : pc' = [pc EXCEPT ![j] = to]
        /\ \E c \in Kinds : kind' = [kind EXCEPT ![j] = c]
    <3>1. CASE ChatArrives(j)
      BY <1>0, <3>1 DEF ChatArrives, Created
    <3>2. CASE CancelArrives(j)
      BY <1>0, <3>2 DEF CancelArrives, Created
    <3>3. CASE ScheduledArrives(j)
      BY <1>0, <3>3 DEF ScheduledArrives
    <3>4. ASSUME NEW d \in {"approve", "reject"}, AnswerArrives(j, d)
          PROVE  <2>1!1 /\ <2>1!2 /\ <2>1!3 /\ <2>1!4 /\ <2>1!5
      BY <1>0, <3>4 DEF AnswerArrives, Created
    <3>5. QED
      BY <1>3, <3>1, <3>2, <3>3, <3>4 DEF Arrives
  <2>2. /\ pc' \in [Jobs -> Steps] /\ kind' \in [Jobs -> Kinds]
        /\ \A k \in Jobs \ {j} : pc'[k] = pc[k] /\ kind'[k] = kind[k]
    BY <1>0, <2>1
  <2>3. client' = "busy" => Due'
    <3>1. CASE client' = client /\ client = "busy"
      BY <2>1, <2>2, <3>1, OthersOwe DEF Owes
    <3>2. CASE pc'[j] = "born" /\ kind'[j] = "chat"
      BY <3>2 DEF Owes
    <3>3. QED
      BY <2>1, <3>1, <3>2
  <2>4. QED
    BY <1>0, <2>1, <2>2, <2>3 DEF Owed
<1>4. ASSUME NEW j \in Jobs, Write(j) PROVE Owed'
  <2>1. /\ UNCHANGED <<pc, kind>> /\ pc[j] = "next"
        /\ \/ lastId' = lastId + 1 /\ pending' = lastId + 1
           \/ lastId' = lastId /\ status' # "waiting"
    BY <1>4 DEF Write
  <2>2. Due'
    BY <2>1 DEF Owes
  <2>3. status' = "waiting" => pending' # 0
    BY <1>0, <2>1
  <2>4. QED
    BY <1>0, <2>1, <2>2, <2>3 DEF Owed
<1>5. ASSUME NEW j \in Jobs, Stop(j) PROVE Owed'
  <2>1. /\ client' # "busy" /\ UNCHANGED <<kind, lastId>>
        /\ pc' = [pc EXCEPT ![j] = "leave"]
        /\ UNCHANGED checkpoint \/ status' = "cancelled"
    BY <1>5 DEF Stop, TellDone, TellFailure
  <2>2. pc' \in [Jobs -> Steps]
    BY <1>0, <2>1
  <2>3. QED
    BY <1>0, <2>1, <2>2 DEF Owed
<1>6. ASSUME NEW j \in Jobs, Work(j), ~Write(j), ~Stop(j) PROVE Owed'
  <2>1. UNCHANGED checkpoint /\ UNCHANGED <<lastId, kind>>
    BY <1>6 DEF Work, Enter, EnterCancel, Grant, Leave, StartFails, ChatDeclined,
       ChatStreams, AnswerRefused, AnswerStreams, StreamRefused, Check, Item, ItemTooLate,
       ItemInterrupt, LastItem, StreamRaises, Exhausted, Finish
  <2>2. /\ \E to \in Steps : pc' = [pc EXCEPT ![j] = to]
        /\ client' = "busy" => client = "busy" /\ (Owes(j) => Owes(j)' \/ pending # 0)
    <3>1. CASE Enter(j) \/ Grant(j) \/ Leave(j)
      BY <1>0, <3>1 DEF Enter, TakeLock, Grant, Leave, Owes
    <3>2. CASE EnterCancel(j)
      BY <1>0, <3>2 DEF EnterCancel, TakeLock, Owes
    <3>3. CASE StartFails(j) \/ StreamRaises(j)
      BY <1>0, <3>3 DEF StartFails, StreamRaises, TellFailure, TellDone
    <3>4. CASE ChatDeclined(j) \/ AnswerRefused(j) \/ StreamRefused(j)
      BY <1>0, <3>4 DEF ChatDeclined, AnswerRefused, StreamRefused, Owes
    <3>5. CASE ChatStreams(j) \/ AnswerStreams(j) \/ Check(j) \/ Exhausted(j)
      BY <1>0, <3>5 DEF ChatStreams, AnswerStreams, Check, Exhausted, Owes
    <3>6. CASE ItemTooLate(j) \/ ItemInterrupt(j) \/ LastItem(j)
      BY <1>0, <3>6 DEF ItemTooLate, ItemInterrupt, LastItem, Owes
    <3>7. ASSUME NEW s \in {"running", "waiting", "done"}, Item(j, s)
          PROVE  <2>2!1 /\ <2>2!2
      BY <1>0, <3>7 DEF Item, Owes
    <3>8. CASE Finish(j)
      BY <1>0, <3>8 DEF Finish, TellDone
    <3>9. QED
      BY <1>6, <3>1, <3>2, <3>3, <3>4, <3>5, <3>6, <3>7, <3>8 DEF Work
  <2>3. /\ pc' \in [Jobs -> Steps]
        /\ \A k \in Jobs \ {j} : pc'[k] = pc[k] /\ kind'[k] = kind[k]
    BY <1>0, <2>1, <2>2
  <2>4. client' = "busy" => Due'
    BY <2>1, <2>2, <2>3, OthersOwe
  <2>5. QED
    BY <1>0, <2>1, <2>3, <2>4 DEF Owed
<1>7. QED
  BY <1>1, <1>2, <1>3, <1>4, <1>5, <1>6 DEF Next

\* A client left busy has an approval to answer, whatever was declined, failed or was
\* cancelled (main.py:459): but for the ends that are told to nobody.
THEOREM EveryoneTold == Spec => []EveryChatTold
<1>1. Init => Owed
  BY DEF Init, Owed, Steps
<1>2. Owed => EveryChatTold
  BY DEF Owed, Owes, EveryChatTold, Quiet
<1>3. QED
  BY <1>1, <1>2, OwedNext, PTL DEF Spec

\* The mark of a cancel stays while the approval it stopped is pending, and only
\* answers approve.
Marked ==
    /\ stopped \subseteq 1 .. lastId
    /\ pending \in stopped => flag
    /\ \A j \in Jobs : decision[j] = "approve" => kind[j] = "resume" /\ pc[j] # "new"

\* Without failures and restarts a mark is given up only with its approval.
LEMMA MarkedNext ==
  ASSUME ~Failing, ~Crashing, IInv, Marked, [Next]_vars
  PROVE  Marked'
<1> USE DEF IInv, Shape, Marked
<1>0. lastId \in Nat /\ pending \in 0 .. lastId
  BY DEF Fresh
<1>1. ASSUME NEW j \in Jobs, Arrives(j) PROVE Marked'
  <2>1. CASE ChatArrives(j) \/ ScheduledArrives(j)
    BY <2>1 DEF ChatArrives, ScheduledArrives, Created
  <2>2. CASE CancelArrives(j)
    BY <1>0, <2>2 DEF CancelArrives, Created
  <2>3. ASSUME NEW d \in {"approve", "reject"}, AnswerArrives(j, d) PROVE Marked'
    BY <2>3 DEF AnswerArrives, Created
  <2>4. QED
    BY <1>1, <2>1, <2>2, <2>3 DEF Arrives
<1>2. ASSUME NEW j \in Jobs, Leave(j) PROVE Marked'
  <2>1. /\ UNCHANGED <<stopped, pending, lastId, decision, kind>>
        /\ pc' = [pc EXCEPT ![j] = "ended"]
        /\ flag' = flag \/ flag' = (flag /\ pending # 0)
    BY <1>2 DEF Leave
  <2>2. pending \in stopped => pending # 0
    BY <1>0
  <2>3. QED
    BY <2>1, <2>2
<1>3. ASSUME NEW j \in Jobs, Stop(j) PROVE Marked'
  <2>1. /\ UNCHANGED <<stopped, lastId, decision, kind>> /\ pending' = 0
        /\ pc' = [pc EXCEPT ![j] = "leave"]
    BY <1>3 DEF Stop
  <2>2. QED
    BY <1>0, <2>1
<1>4. ASSUME NEW j \in Jobs, Write(j) PROVE Marked'
  <2>1. /\ UNCHANGED <<stopped, decision, kind, pc, flag>>
        /\ \/ pending' = 0 /\ lastId' = lastId
           \/ pending' = lastId + 1 /\ lastId' = lastId + 1
    BY <1>4 DEF Write
  <2>2. QED
    BY <1>0, <2>1
<1>5. ASSUME NEW j \in Jobs, EnterCancel(j) \/ AnswerStreams(j) PROVE Marked'
  <2>1. /\ UNCHANGED <<stopped, pending, flag, lastId, kind>>
        /\ \/ decision' = decision
           \/ decision' = [decision EXCEPT ![j] = "reject"]
        /\ \E to \in {"queued", "locked", "ended", "check"} : pc' = [pc EXCEPT ![j] = to]
    BY <1>5 DEF EnterCancel, TakeLock, AnswerStreams
  <2>2. QED
    BY <2>1
<1>6. ASSUME NEW j \in Jobs, Work(j), ~Leave(j), ~Stop(j), ~Write(j), ~EnterCancel(j),
             ~AnswerStreams(j)
      PROVE  Marked'
  <2>1. /\ UNCHANGED <<stopped, pending, flag, lastId, decision, kind>>
        /\ \E to \in {"queued", "locked", "check", "next", "finish", "leave"} :
              pc' = [pc EXCEPT ![j] = to]
    BY <1>6 DEF Work, Enter, TakeLock, Grant, StartFails, ChatDeclined, ChatStreams,
       AnswerRefused, StreamRefused, Check, ItemTooLate, ItemInterrupt, LastItem, StreamRaises,
       Exhausted, Finish, Item
  <2>2. QED
    BY <2>1
<1>7. CASE Crash
  BY <1>7 DEF Crash
<1>8. CASE UNCHANGED vars
  BY <1>8 DEF vars
<1>9. QED
  BY <1>1, <1>2, <1>3, <1>4, <1>5, <1>6, <1>7, <1>8 DEF Next

\* A step moves one task.
LEMMA OneMoves ==
  ASSUME pc \in [Jobs -> Steps], NEW i \in Jobs, Arrives(i) \/ Work(i), NEW j \in Jobs, j # i
  PROVE  pc'[j] = pc[j]
<1>1. CASE Arrives(i)
  BY <1>1 DEF Arrives, ChatArrives, CancelArrives, AnswerArrives, ScheduledArrives, Created
<1>2. CASE Work(i)
  <2>1. pc' = pc \/ \E to \in Steps : pc' = [pc EXCEPT ![i] = to]
    BY <1>2 DEF Work, Enter, EnterCancel, TakeLock, Grant, Leave, StartFails, ChatDeclined,
       ChatStreams, AnswerRefused, AnswerStreams, StreamRefused, Check, Stop, Write, Item, ItemTooLate,
       ItemInterrupt, LastItem, StreamRaises, Exhausted, Finish, Steps
  <2>2. QED
    BY <2>1
<1>3. QED
  BY <1>1, <1>2

\* With the lock held a stream begins, or the task leaves.
LEMMA Unlocked ==
  ASSUME pc \in [Jobs -> Steps], NEW j \in Jobs, Arrives(j) \/ Work(j),
         pc[j] = "locked", pc'[j] = "check"
  PROVE  ChatStreams(j) \/ AnswerStreams(j)
<1>1. CASE Arrives(j)
  BY <1>1 DEF Arrives, ChatArrives, CancelArrives, AnswerArrives, ScheduledArrives, Created
<1>2. CASE Work(j)
  BY <1>2 DEF Work, Enter, EnterCancel, TakeLock, Grant, Leave, StartFails, ChatDeclined,
     AnswerRefused, StreamRefused, Check, Stop, Write, Item, ItemTooLate, ItemInterrupt, LastItem,
     StreamRaises, Exhausted, Finish
<1>3. QED
  BY <1>1, <1>2

\* A cancel that was accepted while an approval was pending is stronger than an
\* approval sent before or after it, where nothing fails (main.py:495).
THEOREM CancelWins ==
  ASSUME ~Scheduled, ~Failing, ~Crashing
  PROVE  Spec => CancelNeverApproves
<1>1. Init => Marked
  BY DEF Init, Marked
<1>2. IInv /\ [Next]_vars => IInv'
  BY IInvNext
<1>3. IInv /\ Marked /\ [Next]_vars => Marked'
  BY MarkedNext
<1>4. IInv /\ Marked /\ [Next]_vars
         => [\A j \in Jobs : pc[j] = "locked" /\ pc'[j] = "check" /\ decision'[j] = "approve"
                                 => id[j] \notin stopped]_vars
  <2> SUFFICES ASSUME IInv, Marked, Next, NEW j \in Jobs,
                      pc[j] = "locked", pc'[j] = "check", decision'[j] = "approve"
               PROVE  id[j] \notin stopped
    BY DEF vars
  <2>1. PICK i \in Jobs : Arrives(i) \/ Work(i)
    BY DEF Next, Crash
  <2>2. i = j
    BY <2>1, OneMoves DEF IInv, Shape, Steps
  <2>3. ChatStreams(j) \/ AnswerStreams(j)
    BY <2>1, <2>2, Unlocked DEF IInv, Shape, Steps
  <2>4. AnswerStreams(j)
    BY <2>3 DEF ChatStreams, Marked
  <2>5. ~Cancelling(j) /\ pending = id[j]
    BY <2>4 DEF AnswerStreams, StillPending, IInv, Shape
  <2>6. QED
    BY <2>5 DEF Cancelling, Marked
<1>5. QED
  BY <1>1, <1>2, <1>3, <1>4, Initially, PTL DEF Spec, CancelNeverApproves
=============================================================================
