------------------------------ MODULE PathLocks ------------------------------
(***************************************************************************)
(* The locks on directories (tools/path_locks.py) as the tools take them.  *)
(* The agent, previews, rules, duplicate clean-up and roll-backs run in    *)
(* threads of their own.  Each takes the locks of the directories it       *)
(* touches; some hold one already when filesystem.py takes them again.     *)
(* A directory is its place in the order of the lock keys.  FileStore does *)
(* the work under the locks and shows that it takes them as said here.     *)
(***************************************************************************)
EXTENDS Naturals, Sequences

CONSTANTS
    N,              \* directories
    Trash,          \* the one that is .butler-trash
    Threads,
    Cleaning        \* previews delete, and duplicates are cleaned up

ASSUME DirsAssumption == N \in Nat /\ Trash \in 1 .. N
ASSUME CleaningAssumption == Cleaning \in BOOLEAN

Dirs == 1 .. N
Folders == Dirs \ {Trash}

VARIABLES
    calls,          \* acquires the thread has still to enter, outer one first
    want,           \* keys the acquire it is in has still to lock
    held            \* keys it has locked, in that order (an RLock counts)

locks == <<calls, want, held>>

-----------------------------------------------------------------------------
\* filesystem.move_file, rename_file, delete_file, restore_operation: one
\* acquire of the directory a file leaves and the one it goes to.
Direct == {<<p>> : p \in Dirs \X Dirs}

\* watcher.poll_rule and the moves and renames of a preview hold the same locks
\* around the call.
Wrapped == {<<p, p>> : p \in Folders \X Folders}

\* A preview's delete and duplicates.cleanup hold the directory's own lock when
\* delete_file takes that and the trash's.
WrappedDelete == {<< <<d, d>>, <<d, Trash>> >> : d \in Folders}

Operations == Direct \cup Wrapped \cup (IF Cleaning THEN WrappedDelete ELSE {})

\* The keys of one acquire: without repetition, in ascending order.
Sorted(p) ==
    IF p[1] = p[2] THEN <<p[1]>>
    ELSE IF p[1] < p[2] THEN p ELSE <<p[2], p[1]>>

Holds(t, d) == \E i \in DOMAIN held[t] : held[t][i] = d

MayTake(t, d) == \A u \in Threads \ {t} : ~Holds(u, d)

Idle(t) == calls[t] = <<>> /\ want[t] = <<>> /\ held[t] = <<>>

-----------------------------------------------------------------------------
LocksInit ==
    /\ calls = [t \in Threads |-> <<>>]
    /\ want = [t \in Threads |-> <<>>]
    /\ held = [t \in Threads |-> <<>>]

Call(t, op) ==
    /\ Idle(t)
    /\ calls' = [calls EXCEPT ![t] = op]
    /\ UNCHANGED <<want, held>>

Enter(t) ==
    /\ want[t] = <<>> /\ calls[t] # <<>>
    /\ want' = [want EXCEPT ![t] = Sorted(Head(calls[t]))]
    /\ calls' = [calls EXCEPT ![t] = Tail(@)]
    /\ UNCHANGED held

Lock(t) ==
    /\ want[t] # <<>> /\ MayTake(t, Head(want[t]))
    /\ held' = [held EXCEPT ![t] = Append(@, Head(want[t]))]
    /\ want' = [want EXCEPT ![t] = Tail(@)]
    /\ UNCHANGED calls

\* All that the thread asked for is locked; the innermost work is done here.
Inside(t) == calls[t] = <<>> /\ want[t] = <<>> /\ held[t] # <<>>

\* The locks go back in reverse order.
Unlock(t) ==
    /\ Inside(t)
    /\ held' = [held EXCEPT ![t] = SubSeq(@, 1, Len(@) - 1)]
    /\ UNCHANGED <<calls, want>>

\* The process ends and starts again; the locks were in its memory only.
Restart ==
    /\ calls' = [t \in Threads |-> <<>>]
    /\ want' = [t \in Threads |-> <<>>]
    /\ held' = [t \in Threads |-> <<>>]

LocksNext ==
    \/ \E t \in Threads : \/ \E op \in Operations : Call(t, op)
                          \/ Enter(t) \/ Lock(t) \/ Unlock(t)
    \/ Restart

LocksSpec == LocksInit /\ [][LocksNext]_locks

-----------------------------------------------------------------------------
LocksOK ==
    /\ calls \in [Threads -> Seq(Dirs \X Dirs)]
    /\ want \in [Threads -> Seq(Dirs)]
    /\ held \in [Threads -> Seq(Dirs)]

Blocks(u, t) ==
    Holds(u, Head(want[t])) /\ ~MayTake(t, Head(want[t]))

Stuck(S) ==
    S # {} /\ \A t \in S : want[t] # <<>> /\ \E u \in S : Blocks(u, t)

\* No threads wait for each other in a circle: the keys are taken in one order,
\* and a lock taken again inside is one the thread has.  (PathLockManager.acquire;
\* path_locks.py:3 and 4 say the sorted order is there to avoid deadlocks)
NobodyStuck == \A S \in SUBSET Threads : ~Stuck(S)
=============================================================================
