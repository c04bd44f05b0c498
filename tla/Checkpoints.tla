---------------------------- MODULE Checkpoints ----------------------------
(***************************************************************************)
(* The clean-up of old conversations when a runtime is created             *)
(* (cleanup_checkpoints, agent/checkpoints.py), while conversations that   *)
(* still use the runtime before it go on.                                  *)
(***************************************************************************)
EXTENDS Naturals, FiniteSets

CONSTANTS
    Talks,          \* threads
    MaxSessions,    \* max_sessions
    MaxAge,         \* max_age_days
    MaxTime         \* bound of the clock

ASSUME CheckpointsAssumption == MaxSessions \in Nat /\ MaxAge \in Nat /\ MaxTime \in Nat

VARIABLES
    latest,         \* per thread: the time of its last checkpoint, 0 for none
    waits,          \* threads that wait for an approval
    time,
    clean,          \* off, read, sort, delete
    rows,           \* threads still to be read
    sessions,       \* what was read: threads that may go, with their times
    victims,
    touched         \* history: threads written, or not readable, since the clean-up began

ckVars == <<latest, waits, time, clean, rows, sessions, victims, touched>>

CkInit ==
    /\ latest = [t \in Talks |-> 0] /\ waits = {} /\ time = 1
    /\ clean = "off" /\ rows = {} /\ sessions = {} /\ victims = {} /\ touched = {}

\* A conversation writes a checkpoint; it waits for an approval or not.
Talk(t) ==
    /\ latest[t] < time /\ latest' = [latest EXCEPT ![t] = time]
    /\ waits' \in {waits \cup {t}, waits \ {t}}
    /\ touched' = touched \cup {t}
    /\ UNCHANGED <<time, clean, rows, sessions, victims>>

Tick ==
    /\ time < MaxTime /\ time' = time + 1
    /\ UNCHANGED <<latest, waits, clean, rows, sessions, victims, touched>>

-----------------------------------------------------------------------------
Known == {t \in Talks : latest[t] > 0}

\* SELECT DISTINCT thread_id.
CleanBegin ==
    /\ clean = "off" /\ Known # {} /\ clean' = "read" /\ rows' = Known
    /\ sessions' = {} /\ victims' = {} /\ touched' = {}
    /\ UNCHANGED <<latest, waits, time>>

\* Mutant: an approval that is due protects nothing.
ProtectedNone(t) == FALSE
Protected(t) == t \in waits

\* The state of a thread and its last checkpoint; a state that cannot be read counts
\* as empty.
CleanRead(t) ==
    /\ clean = "read" /\ t \in rows /\ rows' = rows \ {t}
    /\ \/ /\ sessions' = IF Protected(t) THEN sessions
                         ELSE sessions \cup {<<latest[t], t>>}
          /\ UNCHANGED touched
       \/ sessions' = sessions \cup {<<latest[t], t>>} /\ touched' = touched \cup {t}
    /\ UNCHANGED <<latest, waits, time, clean, victims>>

\* The first MaxSessions stay and so do the young ones, unless there is no limit of age.
Expendable(s, rank) == rank[s] >= MaxSessions /\ (MaxAge > 0 => s[1] + MaxAge < time)

\* Sorted by time, the newest first, in whatever order where it is the same.
CleanSort ==
    /\ clean = "read" /\ rows = {} /\ clean' = "delete"
    /\ \E rank \in {r \in [sessions -> 0 .. Cardinality(sessions) - 1] :
                       \A s, o \in sessions :
                          s # o => r[s] # r[o] /\ (o[1] > s[1] => r[o] < r[s])} :
          victims' = {s[2] : s \in {x \in sessions : Expendable(x, rank)}}
    /\ UNCHANGED <<latest, waits, time, rows, sessions, touched>>

WaitsWithout(t) == waits \ {t}

\* The rows of one thread, committed or rolled back.
CleanDelete(t) ==
    /\ clean = "delete" /\ t \in victims /\ victims' = victims \ {t}
    /\ \/ latest' = [latest EXCEPT ![t] = 0] /\ waits' = WaitsWithout(t)
       \/ UNCHANGED <<latest, waits>>
    /\ UNCHANGED <<time, clean, rows, sessions, touched>>

CleanEnd ==
    /\ clean = "delete" /\ victims = {} /\ clean' = "off"
    /\ UNCHANGED <<latest, waits, time, rows, sessions, victims, touched>>

CkNext ==
    \/ Tick \/ CleanBegin \/ CleanSort \/ CleanEnd
    \/ \E t \in Talks : Talk(t) \/ CleanRead(t) \/ CleanDelete(t)

CkSpec == CkInit /\ [][CkNext]_ckVars

-----------------------------------------------------------------------------
\* Types; only a thread that exists waits.
CkTypeOK ==
    /\ latest \in [Talks -> 0 .. MaxTime] /\ waits \subseteq Known
    /\ clean \in {"off", "read", "delete"}
    /\ sessions \subseteq (1 .. MaxTime) \X Talks /\ victims \subseteq Talks

\* "Approvals that are due and the most recent sessions are always kept": a clean-up
\* deletes no thread that waits, none of the MaxSessions newest and none that is
\* young.  (A thread that goes on between being read and being deleted, or whose
\* state cannot be read, is the exception.)
ConversationsKept ==
    [][\A t \in Talks : latest[t] > 0 /\ latest'[t] = 0 =>
          \/ t \in touched
          \/ /\ t \notin waits
             /\ Cardinality({u \in Talks \ {t} : latest[u] >= latest[t]}) >= MaxSessions
             /\ MaxAge > 0 => latest[t] + MaxAge < time]_ckVars
=============================================================================
