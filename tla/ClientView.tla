----------------------------- MODULE ClientView -----------------------------
(***************************************************************************)
(* What the desktop client shows of its conversations (App.tsx, state.ts,  *)
(* api/client.ts) and what the back end knows of them (main.py), over a    *)
(* WebSocket that breaks and is opened again: api/connections.py drops the *)
(* events of a client that is not there, and the client asks for the state *)
(* of its threads after every opening.  Of a conversation's messages and   *)
(* tasks only what the events do to busy and to the approvals is kept.  A  *)
(* first item and its checkpoint are one step, and so are the last one and *)
(* what is told of it; the question what becomes of a busy conversation is *)
(* answered at once.  The back end goes on: its stop is left out, and so   *)
(* is a stream the closed runtime refuses (Sessions, StreamRefused).       *)
(***************************************************************************)
EXTENDS Naturals, Sequences, FiniteSets, Functions

CONSTANTS
    Chats, Timed,     \* the threads of conversations and of scheduled tasks
    Nobody,           \* no thread
    MaxMessages,      \* bound: messages sent
    MaxApprovals,     \* bound: approvals a thread asks for
    MaxDrops          \* bound: how often the connection breaks

Talkers == Chats \cup Timed

ASSUME ClientAssumption ==
    /\ IsFiniteSet(Talkers) /\ Chats \cap Timed = {} /\ Nobody \notin Talkers
    /\ {MaxMessages, MaxApprovals, MaxDrops} \subseteq Nat

VARIABLES
    \* The back end, for every thread.
    stage,          \* "idle", or where its stream is
    saved,          \* the checkpoint: "none", "running", "waiting" or "ended"
    asked,          \* approval_id of its last approval
    waiting,        \* messages that wait for its lock
    told,           \* whether the events of its stream are sent to the client
    \* The connection.
    link, wire,     \* events on their way, lost when it breaks
    gets,           \* answers to GET /api/threads/{id}, not yet handled
    answering,      \* the approval of POST /api/approvals/respond, if one is under way
    \* The client.
    active, busy,   \* threadId and busy of the conversation in the foreground
    views,          \* threadViews: "none", "busy" or "idle"
    detached,       \* detachedThreadIdsRef
    approvals,      \* approvalQueue, without its order: the first is any of them
    \* Observability.
    sent,           \* messages, and starts of scheduled tasks, of every thread
    newest,         \* the thread of the last message that was sent without one
    drops,
    astray          \* one of the gaps named at BusyAgrees has happened

server == <<stage, saved, asked, waiting, told>>
network == <<link, wire, gets, answering>>
shown == <<active, busy, views, detached, approvals>>
ghosts == <<sent, newest, drops, astray>>
clientVars == <<server, network, shown, ghosts>>

ClientInit ==
    /\ stage = [t \in Talkers |-> "idle"] /\ saved = [t \in Talkers |-> "none"]
    /\ asked = [t \in Talkers |-> 0] /\ waiting = [t \in Talkers |-> 0]
    /\ told = [t \in Talkers |-> TRUE]
    /\ link = "up" /\ wire = <<>> /\ gets = {} /\ answering = {}
    /\ active = Nobody /\ busy = FALSE /\ views = [t \in Talkers |-> "none"]
    /\ detached = {} /\ approvals = {}
    /\ sent = [t \in Talkers |-> 0] /\ newest = Nobody /\ drops = 0 /\ astray = FALSE

-----------------------------------------------------------------------------
\* ConnectionManager.send: nothing is kept for a client that is not there.
Send(t, type, id, to) ==
    wire' = IF link = "up" /\ to
            THEN Append(wire, [thread |-> t, type |-> type, id |-> id]) ELSE wire

\* The approval a thread waits for can be answered.
Pending(t) == saved[t] = "waiting" /\ stage[t] = "idle"

To(t, place) == stage' = [stage EXCEPT ![t] = place]

\* _start_chat once it has the lock.
BeginChat(t) ==
    /\ stage[t] = "idle" /\ waiting[t] > 0
    /\ waiting' = [waiting EXCEPT ![t] = @ - 1]
    /\ IF saved[t] = "waiting" THEN Send(t, "error", 0, TRUE) /\ UNCHANGED <<stage, told>>
       ELSE To(t, "begun") /\ told' = [told EXCEPT ![t] = TRUE] /\ UNCHANGED wire
    /\ UNCHANGED <<saved, asked, link, gets, answering, shown, ghosts>>

\* A scheduled task, whose events are sent to every client.
FireTimed(t) ==
    /\ t \in Timed /\ sent[t] = 0
    /\ sent' = [sent EXCEPT ![t] = 1] /\ To(t, "begun")
    /\ UNCHANGED <<saved, asked, waiting, told, network, shown, newest, drops, astray>>

\* What a stream has to tell finds no receiver, though the client is there.
Untold(t) ==
    astray' = (link = "up" /\ ~told[t]) /\ UNCHANGED <<sent, newest, drops>>

\* The first item of a stream with its checkpoint; until then the last one is read.
FirstItem(t) ==
    /\ stage[t] = "begun" /\ To(t, "running") /\ saved' = [saved EXCEPT ![t] = "running"]
    /\ Send(t, IF saved[t] = "waiting" THEN "approval" ELSE "node", 0, told[t])
    /\ Untold(t)
    /\ UNCHANGED <<asked, waiting, told, link, gets, answering, shown>>

\* The end of _run_stream: an approval is asked for, or it is over, by a cancel or not.
EndStream(t) ==
    /\ stage[t] = "running" /\ To(t, "idle")
    /\ \/ /\ asked[t] < MaxApprovals /\ asked' = [asked EXCEPT ![t] = @ + 1]
          /\ saved' = [saved EXCEPT ![t] = "waiting"]
          /\ Send(t, "approval_required", asked[t] + 1, told[t])
       \/ /\ saved' = [saved EXCEPT ![t] = "ended"] /\ Send(t, "done", 0, told[t])
          /\ UNCHANGED asked
    /\ Untold(t)
    /\ UNCHANGED <<waiting, told, link, gets, answering, shown>>

\* The handler of _run_stream, and those of a start and of a resume that fail: done is told,
\* and no checkpoint says that it is over.  A decision that fails leaves its approval to be
\* decided again, which the client takes down.
StreamRaises(t) ==
    /\ stage[t] \in {"begun", "running"} /\ To(t, "idle")
    /\ Send(t, "done", 0, told[t])
    /\ astray' = ((link = "up" /\ ~told[t]) \/ saved[t] = "waiting")
    /\ UNCHANGED <<saved, asked, waiting, told, link, gets, answering, shown,
                   sent, newest, drops>>

\* Nothing happens in the thread any more, and its checkpoint, if any, says running.
Stranded(t) == stage[t] = "idle" /\ waiting[t] = 0 /\ saved[t] \in {"none", "running"}

\* The client shows the thread busy.
ShownBusy(t) == views[t] = "busy" \/ (t = active /\ busy)

\* _resume_approval; over REST only a scheduled thread's events have a receiver.
Resume(t) ==
    /\ To(t, "begun") /\ told' = [told EXCEPT ![t] = link = "up" \/ t \in Timed]
    /\ UNCHANGED <<saved, asked, waiting>>

\* A cancel ends the wait for an approval; a running stream may end anyway.
CancelAt(t) == IF Pending(t) THEN Resume(t) ELSE UNCHANGED server

-----------------------------------------------------------------------------
\* isBackgroundEvent.
Background(t) == t \in Timed \/ t \in detached \/ active \notin {Nobody, t}

\* Mutant: the approvals of the background are dropped, as they once were.
OfferedForeground(a) == IF Background(a[1]) THEN approvals ELSE approvals \cup {a}

\* addToApprovalQueue, and the filter that ends a thread's approvals.
Offered(a) == approvals \cup {a}
Without(t) == {a \in approvals : a[1] # t}

\* reduceThreadEvent: only done frees a view, and whatever opens one finds it busy.
Reduced(view, type) ==
    IF type = "done" THEN "idle" ELSE IF view = "none" THEN "busy" ELSE view

\* handleSocketEvent.
Handle(type, t, id) ==
    /\ IF Background(t)
       THEN views' = [views EXCEPT ![t] = Reduced(@, type)] /\ UNCHANGED <<active, busy>>
       ELSE active' = t /\ busy' = (busy /\ type # "done") /\ UNCHANGED views
    /\ approvals' = IF type = "approval_required" THEN Offered(<<t, id>>)
                    ELSE IF type \in {"done", "approval"} THEN Without(t)
                    ELSE approvals
    /\ UNCHANGED detached

\* A refusal that opens a view marks it busy although nothing runs; an event of an earlier
\* conversation that was not detached is taken for one of the new conversation.
Misplaced(type, t) ==
    IF Background(t) THEN type = "error" /\ views[t] = "none"
    ELSE active = Nobody /\ (t # newest \/ views[t] = "busy")

\* The next event of the socket.
Receive ==
    /\ wire # <<>> /\ wire' = Tail(wire)
    /\ LET e == Head(wire) IN
       /\ Handle(e.type, e.thread, e.id)
       /\ astray' = Misplaced(e.type, e.thread)
    /\ UNCHANGED <<server, link, gets, answering, sent, newest, drops>>

-----------------------------------------------------------------------------
\* The connection breaks; requests under way may fail with it.
Break ==
    /\ link = "up" /\ drops < MaxDrops
    /\ link' = "down" /\ wire' = <<>> /\ drops' = drops + 1 /\ gets' \in {gets, {}}

Drop == Break /\ UNCHANGED <<server, answering, shown, sent, newest, astray>>

\* Mutant: only the conversation in the foreground is asked about.
ToReconcileActive == {active} \ {Nobody}

\* The threads whose state is asked for when a connection is open.
ToReconcile == ({active} \ {Nobody}) \cup {t \in Talkers : views[t] = "busy"}

\* What thread_state answers; a thread without a checkpoint is not found.
Answer(t) == [thread |-> t, status |-> saved[t], id |-> asked[t]]

\* An approval of a thread that goes on, which is not the one it waits for.
Outdated(t) ==
    \E a \in approvals :
        a[1] = t /\ saved[t] # "ended" /\ ~(saved[t] = "waiting" /\ asked[t] = a[2])

\* scheduleReconnect and onOpen.  The answers are those of the opening: one that is read
\* later tells what the events tell.  No other thread's approval is looked after, and no
\* answer frees a thread whose stream has raised.
Open ==
    /\ link = "down" /\ link' = "up"
    /\ gets' = gets \cup {Answer(t) : t \in {u \in ToReconcile : saved[u] # "none"}}
    /\ astray' = \E t \in Talkers :
                    IF t \in ToReconcile THEN Outdated(t) \/ (ShownBusy(t) /\ Stranded(t))
                    ELSE saved[t] = "waiting" \/ Without(t) # approvals
    /\ UNCHANGED <<server, wire, answering, shown, sent, newest, drops>>

\* reconciliationEvents: what an answer is turned into.
EventOf(status) ==
    CASE status = "waiting" -> "approval_required"
      [] status = "ended" -> "done"
      [] OTHER -> "tool_result"

\* An answer that events have overtaken is handled all the same, and one that says running
\* may open the view of a thread whose stream has raised.
Reconcile(g) ==
    /\ g \in gets /\ gets' = gets \ {g}
    /\ Handle(EventOf(g.status), g.thread, g.id)
    /\ astray' = \/ g # Answer(g.thread) \/ Misplaced(EventOf(g.status), g.thread)
                 \/ Stranded(g.thread) /\ ShownBusy(g.thread)' /\ ~ShownBusy(g.thread)
    /\ UNCHANGED <<server, link, wire, answering, sent, newest, drops>>

-----------------------------------------------------------------------------
Messages == FoldFunction(+, 0, sent)

\* The thread a message goes to; the back end names a new one.
Addressed == IF active = Nobody THEN {t \in Chats : sent[t] = 0} ELSE {active}

Accepted(t) ==
    /\ waiting' = [waiting EXCEPT ![t] = @ + 1] /\ sent' = [sent EXCEPT ![t] = @ + 1]
    /\ UNCHANGED <<stage, saved, asked, told>>

\* sendChat over the socket, where it may be lost with the connection, or over REST,
\* whose answer names the thread (one that fails changes nothing).
SendChat(t) ==
    /\ ~busy /\ t \in Addressed /\ Messages < MaxMessages
    /\ busy' = TRUE /\ newest' = IF active = Nobody THEN t ELSE newest
    /\ \/ link = "up" /\ Accepted(t) /\ UNCHANGED <<network, active, drops>>
       \/ Break /\ UNCHANGED <<server, answering, active, sent>>
       \/ link = "down" /\ Accepted(t) /\ active' = t /\ UNCHANGED <<network, drops>>
    /\ UNCHANGED <<views, detached, approvals, astray>>

\* decideApproval, for the first approval of the queue (bound: one refusal under way).
Decide(a) ==
    /\ answering = {}
    /\ LET t == a[1]
           stands == Pending(t) /\ asked[t] = a[2] IN
       \/ /\ stands /\ Resume(t)
          /\ answering' = IF link = "up" THEN {} ELSE {a}
          /\ UNCHANGED wire
       \/ /\ ~stands /\ link = "up" /\ Send(t, "error", 0, TRUE)
          /\ \A i \in DOMAIN wire : wire[i].type # "error"
          /\ UNCHANGED <<server, answering>>
    /\ UNCHANGED <<link, gets, shown, ghosts>>

\* Over REST the first approval of the queue is removed, whichever it is by then.
Decided(a) ==
    /\ answering' = {}
    /\ \/ approvals = {} /\ UNCHANGED <<approvals, astray>>
       \/ \E b \in approvals : approvals' = approvals \ {b} /\ astray' = (b # a)
    /\ UNCHANGED <<server, link, wire, gets, active, busy, views, detached,
                   sent, newest, drops>>

-----------------------------------------------------------------------------
\* endWorkflows and the activity centre's stop.
Stop(t) ==
    /\ ShownBusy(t) /\ Pending(t) /\ Resume(t)
    /\ UNCHANGED <<network, shown, ghosts>>

\* requestNewConversation: a conversation that is not busy is dropped.
NewConversation ==
    /\ ~busy /\ active # Nobody /\ active' = Nobody
    /\ UNCHANGED <<server, network, busy, views, detached, approvals, ghosts>>

\* handleNewChatChoice: a busy one is left in the background, with a cancel or not.
Leave ==
    /\ busy /\ active' = Nobody /\ busy' = FALSE
    /\ IF active = Nobody THEN UNCHANGED <<server, views, detached>>
       ELSE /\ views' = [views EXCEPT ![active] = "busy"]
            /\ detached' = detached \cup {active}
            /\ CancelAt(active) \/ UNCHANGED server
    /\ UNCHANGED <<network, approvals, ghosts>>

\* switchToThread; the events of a scheduled thread stay in the background even so.
Switch(t) ==
    /\ views[t] # "none"
    /\ active' = t /\ busy' = (views[t] = "busy")
    /\ views' = [views EXCEPT ![t] = "none"] /\ detached' = detached \ {t}
    /\ astray' = (t \in Timed)
    /\ UNCHANGED <<server, network, approvals, sent, newest, drops>>

\* The watchdog: no event for BUSY_STALL_TIMEOUT_MS.
Watchdog ==
    /\ busy /\ wire = <<>> /\ busy' = FALSE
    /\ UNCHANGED <<server, network, active, views, detached, approvals, ghosts>>

\* Behaviours are followed up to the first of the gaps.
ClientNext ==
    /\ ~astray
    /\ \/ \E t \in Talkers :
             \/ BeginChat(t) \/ FireTimed(t)
             \/ FirstItem(t) \/ EndStream(t) \/ StreamRaises(t)
             \/ SendChat(t) \/ Stop(t) \/ Switch(t)
       \/ \E g \in gets : Reconcile(g)
       \/ \E a \in approvals : Decide(a)
       \/ \E a \in answering : Decided(a)
       \/ Receive \/ Drop \/ Open \/ NewConversation \/ Leave \/ Watchdog

ClientSpec == ClientInit /\ [][ClientNext]_clientVars

-----------------------------------------------------------------------------
\* Nothing is under way between the client and the back end.
Settled ==
    /\ link = "up" /\ wire = <<>> /\ gets = {} /\ answering = {}
    /\ \A t \in Talkers : stage[t] = "idle" /\ waiting[t] = 0

(***************************************************************************)
(* The gaps of the code, where the client and the back end come apart:     *)
(* an approval of a thread that is neither in the foreground nor busy is   *)
(* not asked about after a reconnection, and one that was answered while   *)
(* the connection was down stays (Open, Outdated); an answer to such a     *)
(* question is handled although events have overtaken it (Reconcile); a    *)
(* new conversation takes events of an earlier one for its own, and a      *)
(* refusal opens a busy view (Misplaced); the answer of a REST approval    *)
(* removes whichever approval is the first by then (Decided); a scheduled  *)
(* thread stays in the background when it is switched to (Switch); nobody  *)
(* is told of a conversation that goes on after a REST approval (Untold,   *)
(* StreamRaises).  And a stream that raises leaves no terminal checkpoint: *)
(* when its done was lost, no answer frees the thread (Open), one that     *)
(* says running may even show it busy again (Reconcile), and an approval   *)
(* whose decision failed waits again while the client has taken it down    *)
(* (StreamRaises).  README section 4 has the lines.                        *)
(***************************************************************************)

\* Short of these gaps, whatever is lost while the connection is down, a thread that is
\* shown as busy, in the foreground or behind it, has not ended: it waits for an approval
\* (App.tsx:285).
BusyAgrees ==
    Settled /\ ~astray => \A t \in Talkers : ShownBusy(t) => Pending(t)

\* The approvals the client offers for a thread it follows are those that can be answered:
\* none is missing after a reconnection, none stays after its thread was cancelled or
\* went on (state.ts:213, App.tsx:168).
ApprovalsAgree ==
    Settled /\ ~astray =>
       \A t \in Talkers :
          {a \in approvals : a[1] = t} = (IF Pending(t) THEN {<<t, asked[t]>>} ELSE {})
=============================================================================
