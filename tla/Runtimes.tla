------------------------------ MODULE Runtimes ------------------------------
(***************************************************************************)
(* The life of an AgentRuntime (main.py get_runtime and reset_runtime,     *)
(* agent/graph.py retain_stream to close).  A chat takes the current       *)
(* runtime, building one if there is none, and streams on it; saving the   *)
(* model settings swaps the current runtime out and retires it.  The event *)
(* loop, the scheduler's threads and the thread pool that serves the       *)
(* settings run at once: an action is one locked region, or one unlocked   *)
(* read or write of a shared variable.                                     *)
(***************************************************************************)
EXTENDS Naturals, FiniteSets

CONSTANTS
    Runtimes,       \* bound: runtimes that can be built
    Callers,        \* threads that start a stream
    Savers,         \* threads that save the model settings
    None

Threads == Callers \cup Savers

ASSUME RuntimesAssumption == None \notin Runtimes
ASSUME ThreadsAssumption == IsFiniteSet(Callers) /\ Callers \cap Savers = {}

VARIABLES
    current,        \* the global _runtime
    made,           \* runtimes built so far
    retired, closed, active,    \* per runtime; active: active_stream_count
    pc,
    rt              \* the runtime a thread has in hand

vars == <<current, made, retired, closed, active, pc, rt>>

Init ==
    /\ current = None /\ made = {}
    /\ retired = [r \in Runtimes |-> FALSE]
    /\ closed = [r \in Runtimes |-> FALSE]
    /\ active = [r \in Runtimes |-> 0]
    /\ pc = [t \in Threads |-> "idle"]
    /\ rt = [t \in Threads |-> None]

Goto(t, from, to) == pc[t] = from /\ pc' = [pc EXCEPT ![t] = to]

-----------------------------------------------------------------------------
\* get_runtime: the first look is taken without the lock.
Look(t) ==
    /\ Goto(t, "idle", IF current = None THEN "make" ELSE "fetch")
    /\ UNCHANGED <<current, made, retired, closed, active, rt>>

\* Mutant: the lock is taken, but nobody looks again.
NeedsOneUnchecked == TRUE

\* Somebody else may have built one while this thread waited for the lock.
NeedsOne == current = None

\* Building fails when no model is configured; the caller reports it.
Make(t) ==
    /\ pc[t] = "make"
    /\ IF NeedsOne
       THEN \/ \E r \in Runtimes \ made :
                  /\ current' = r /\ made' = made \cup {r}
                  /\ Goto(t, "make", "fetch")
            \/ Goto(t, "make", "told") /\ UNCHANGED <<current, made>>
       ELSE Goto(t, "make", "fetch") /\ UNCHANGED <<current, made>>
    /\ UNCHANGED <<retired, closed, active, rt>>

\* return _runtime: the global is read once more, again without the lock.
Fetch(t) ==
    /\ Goto(t, "fetch", "start")
    /\ rt' = [rt EXCEPT ![t] = current]
    /\ UNCHANGED <<current, made, retired, closed, active>>

\* The chat is declined, or there is nothing to ask: the global was None by
\* then, or the checkpoint's connection is closed.  _start_chat reports it.
Declined(t) ==
    /\ Goto(t, "start", "told")
    /\ UNCHANGED <<current, made, retired, closed, active, rt>>

Start(t) ==
    /\ Goto(t, "start", "retain")
    /\ rt[t] # None /\ ~closed[rt[t]]
    /\ UNCHANGED <<current, made, retired, closed, active, rt>>

\* retain_stream is called before the try of _run_stream.
Retain(t) ==
    /\ Goto(t, "retain", "streaming")
    /\ ~closed[rt[t]]
    /\ active' = [active EXCEPT ![rt[t]] = @ + 1]
    /\ UNCHANGED <<current, made, retired, closed, rt>>

RetainRefused(t) ==
    /\ Goto(t, "retain", "silent")
    /\ closed[rt[t]]
    /\ UNCHANGED <<current, made, retired, closed, active, rt>>

\* Mutant: the last stream of a retired runtime leaves it open.
LastOneOutForgets(r, n) == FALSE
LastOneOut(r, n) == retired[r] /\ n = 0

\* release_stream decides under the lock and closes after it.
Release(t) ==
    /\ pc[t] = "streaming"
    /\ LET r == rt[t]
           n == IF active[r] = 0 THEN 0 ELSE active[r] - 1
       IN  /\ active' = [active EXCEPT ![r] = n]
           /\ Goto(t, "streaming", IF LastOneOut(r, n) THEN "closing" ELSE "idle")
    /\ UNCHANGED <<current, made, retired, closed, rt>>

\* A chat that ended is followed by the next one.
Again(t) ==
    /\ pc[t] \in {"told", "silent"}
    /\ Goto(t, pc[t], "idle")
    /\ UNCHANGED <<current, made, retired, closed, active, rt>>

-----------------------------------------------------------------------------
SomeToRetire == current # None

\* reset_runtime: swap under the lock, retire after it.  (Bound: there is always
\* a runtime left to build.)
Swap(s) ==
    /\ Goto(s, "idle", "retire")
    /\ SomeToRetire /\ made # Runtimes
    /\ rt' = [rt EXCEPT ![s] = current] /\ current' = None
    /\ UNCHANGED <<made, retired, closed, active>>

Retire(s) ==
    /\ pc[s] = "retire"
    /\ retired' = [retired EXCEPT ![rt[s]] = TRUE]
    /\ Goto(s, "retire", IF active[rt[s]] = 0 THEN "closing" ELSE "idle")
    /\ UNCHANGED <<current, made, closed, active, rt>>

\* Mutant: close trusts what its caller saw.
MayCloseUnchecked(r) == ~closed[r]

\* close looks again: a stream may have come since the caller decided.
MayClose(r) == ~closed[r] /\ active[r] = 0

Close(t) ==
    /\ Goto(t, "closing", "idle")
    /\ closed' = [closed EXCEPT ![rt[t]] = @ \/ MayClose(rt[t])]
    /\ UNCHANGED <<current, made, retired, active, rt>>

-----------------------------------------------------------------------------
Caller(t) ==
    \/ Look(t) \/ Make(t) \/ Fetch(t) \/ Declined(t) \/ Start(t) \/ Retain(t)
    \/ RetainRefused(t) \/ Release(t) \/ Again(t) \/ Close(t)

Saver(s) == Swap(s) \/ Retire(s) \/ Close(s)

Next == (\E t \in Callers : Caller(t)) \/ (\E s \in Savers : Saver(s))

Spec == Init /\ [][Next]_vars

-----------------------------------------------------------------------------
Places == {"idle", "make", "fetch", "start", "retain", "streaming", "closing",
           "told", "silent", "retire"}

TypeOK ==
    /\ current \in Runtimes \cup {None} /\ made \subseteq Runtimes
    /\ retired \in [Runtimes -> BOOLEAN] /\ closed \in [Runtimes -> BOOLEAN]
    /\ active \in [Runtimes -> Nat]
    /\ pc \in [Threads -> Places]
    /\ rt \in [Threads -> Runtimes \cup {None}]
    /\ \A t \in Threads :
          pc[t] \in {"retain", "streaming", "closing", "retire"} => rt[t] # None

\* A runtime is never closed under a stream that has started on it, however the
\* settings are saved meanwhile.  (retain_stream, retire, close)
StreamsKeepTheirRuntime ==
    \A t \in Callers : pc[t] = "streaming" => ~closed[rt[t]]

\* No runtime is forgotten open: one that was swapped out and has no stream left
\* is closed, or some thread is about to close or retire it.  (release_stream)
NoneLeftOpen ==
    \A r \in made :
        \/ current = r \/ closed[r] \/ active[r] > 0
        \/ \E t \in Threads : rt[t] = r /\ pc[t] \in {"retire", "closing"}

\* Every runtime that serves new requests is the current one, until the thread
\* that swapped it out has retired it: two chats that find none at the same time
\* do not build one each.  (double-checked lock of get_runtime)
OneServing ==
    \A r \in made :
        \/ current = r \/ retired[r]
        \/ \E s \in Savers : rt[s] = r /\ pc[s] = "retire"
=============================================================================
