------------------------------ MODULE FileStore ------------------------------
(***************************************************************************)
(* The files and the operation log: tools/filesystem.py and tools/trash.py *)
(* under the locks of PathLocks, with the callers that move files          *)
(* concurrently: the agent's tools, the items of a preview, automatic      *)
(* rules, restoring from the trash and rolling a conversation back.        *)
(*                                                                         *)
(* A name is a sequence of numbers: <<b>> is a plain name and <<b, i>> the *)
(* same name with " (i)" in front of its extension.                        *)
(***************************************************************************)
EXTENDS PathLocks, FiniteSets

CONSTANTS
    Files,
    Bases,          \* plain names a rename may ask for
    Placements,     \* where the files may be at first: [Files -> Places]
    MaxAsked        \* bound: operations asked for, the roll-back apart

Paths == [dir : Dirs, name : Seq(Nat)]
Nowhere == [dir |-> 0, name |-> <<>>]
Places == Paths \cup {Nowhere}

ASSUME FilesAssumption == IsFiniteSet(Files) /\ Bases \subseteq Nat /\ MaxAsked \in Nat
\* The callers that nest their locks otherwise are left to PathLocks.
ASSUME NoCleaning == ~Cleaning
\* At a path there is one file.
ASSUME PlacementsAssumption ==
    /\ Placements \subseteq [Files -> Places]
    /\ \A P \in Placements : \A f, g \in Files : P[f] = P[g] /\ P[f] # Nowhere => f = g

VARIABLES
    loc,            \* where each file is
    log,            \* operation_log: moves, renames and deletes that succeeded
    job,            \* what each thread is doing
    todo,           \* log entries a roll-back has still to undo
    \* Bookkeeping.
    asked,          \* operations begun
    start,          \* where the files were at first
    phase,          \* of the first roll-back of the conversation
    alone           \* nothing but the conversation and its roll-back happened

store == <<loc, log>>
undoing == <<todo, asked, start, phase>>
vars == <<locks, store, job, undoing, alone>>

-----------------------------------------------------------------------------
NoJob == [kind |-> "none", stage |-> "idle", from |-> Nowhere, to |-> Nowhere,
          file |-> 0, wrapped |-> FALSE, strict |-> FALSE, mine |-> FALSE]

Occupied(p) == \E f \in Files : loc[f] = p
At(d, n) == [dir |-> d, name |-> n]

\* _unique_dest: the path itself, then "name (1)", "name (2)", ...
Variant(p, i) == IF i = 0 THEN p ELSE At(p.dir, Append(p.name, i))
FirstFree(p, i) ==
    ~Occupied(Variant(p, i)) /\ \A k \in 0 .. i - 1 : Occupied(Variant(p, k))

\* Mutant: only the directory a file leaves is locked.
LockedSource(j) ==
    IF j.kind = "write" THEN <<j.to.dir, j.to.dir>> ELSE <<j.from.dir, j.from.dir>>

\* The directories an operation locks.
Locked(j) ==
    IF j.kind = "write" THEN <<j.to.dir, j.to.dir>> ELSE <<j.from.dir, j.to.dir>>

\* Mutant: rules and previews lock the directory a file leaves, and the tool
\* they call locks both.
AcquiresApart(j) ==
    IF j.wrapped THEN << <<j.from.dir, j.from.dir>>, Locked(j) >> ELSE <<Locked(j)>>

\* Rules and previews hold the locks already when they call the tool.
Acquires(j) == IF j.wrapped THEN <<Locked(j), Locked(j)>> ELSE <<Locked(j)>>

\* move_file and rename_file write the log before they release the locks.
LogsInside(j) == j.kind = "move"

\* Mutant: a roll-back undoes the oldest operation first.
Oldest(i, ids) == i \in ids /\ \A k \in ids : i <= k

\* rollback_summary undoes the newest operation first.
Newest(i, ids) == i \in ids /\ \A k \in ids : k <= i

Undoable == {i \in DOMAIN log : log[i].mine}

Stage(t, s) == job' = [job EXCEPT ![t].stage = s]

\* The conversation has no other operation under way: its steps take turns.
MineRunning == \E t \in Threads : job[t].mine

Ask == asked < MaxAsked /\ asked' = asked + 1

-----------------------------------------------------------------------------
Init ==
    /\ LocksInit
    /\ loc \in Placements /\ start = loc /\ asked = 0
    /\ log = <<>>
    /\ job = [t \in Threads |-> NoJob]
    /\ todo = [t \in Threads |-> {}]
    /\ phase = "before" /\ alone = TRUE

Free(t) == job[t] = NoJob

\* A tool is called: the source must exist, then the locks are asked for.
Begin(t, j) ==
    /\ Free(t)
    /\ Call(t, Acquires(j))
    /\ job' = [job EXCEPT ![t] = j]
    /\ UNCHANGED <<store, start>>

\* move_file, rename_file or delete_file.  The agent's calls follow each other;
\* previews (strict: exactly the place that was confirmed) and rules wrap them.
Move(t, p, q) ==
    /\ todo[t] = {} /\ p # Nowhere /\ Occupied(p) /\ Ask
    /\ \E mine, wrapped, strict \in BOOLEAN :
          /\ mine => ~wrapped /\ ~MineRunning
          /\ wrapped => p.dir \in Folders
          /\ strict => wrapped /\ p # q
          /\ Begin(t, [NoJob EXCEPT !.kind = "move", !.stage = "wait", !.from = p,
                          !.to = q, !.mine = mine, !.wrapped = wrapped,
                          !.strict = strict])
          /\ alone' = (alone /\ mine /\ phase = "before")
    /\ UNCHANGED <<todo, phase>>

Delete(t, p) ==
    /\ todo[t] = {} /\ p.dir \in Folders /\ Occupied(p) /\ Ask
    /\ \E mine \in BOOLEAN :
          /\ mine => ~MineRunning
          /\ Begin(t, [NoJob EXCEPT !.kind = "delete", !.stage = "wait", !.from = p,
                          !.to = At(Trash, p.name), !.mine = mine])
          /\ alone' = (alone /\ mine /\ phase = "before")
    /\ UNCHANGED <<todo, phase>>

\* write_summary makes a new file next to those that are there.
Write(t, f, q) ==
    /\ todo[t] = {} /\ loc[f] = Nowhere /\ Ask
    /\ \A u \in Threads : job[u].file # f
    /\ \A i \in DOMAIN log : log[i].file # f
    /\ Begin(t, [NoJob EXCEPT !.kind = "write", !.stage = "wait", !.to = q, !.file = f])
    /\ alone' = FALSE
    /\ UNCHANGED <<todo, phase>>

\* restore_operation: the source is looked for before the locks are taken.
Undo(t, i) ==
    /\ i \in DOMAIN log /\ Occupied(log[i].to)
    /\ Begin(t, [NoJob EXCEPT !.kind = "restore", !.stage = "wait",
                    !.from = log[i].to, !.to = log[i].from])

Restore(t, i) ==
    /\ todo[t] = {} /\ Ask
    /\ Undo(t, i)
    /\ alone' = FALSE
    /\ UNCHANGED <<todo, phase>>

\* A conversation is rolled back (bound: once); the log is read once.
RollBack(t) ==
    /\ phase = "before" /\ Free(t) /\ todo[t] = {} /\ Undoable # {}
    /\ todo' = [todo EXCEPT ![t] = Undoable]
    /\ phase' = "during"
    /\ alone' = (alone /\ ~MineRunning)
    /\ UNCHANGED <<locks, store, job, asked, start>>

Over(t) == IF todo'[t] = {} THEN "after" ELSE phase

\* The next entry, or it is passed over: what it moved is not there.
UndoNext(t) ==
    /\ \E i \in todo[t] :
          Newest(i, todo[t]) /\ Undo(t, i) /\ todo' = [todo EXCEPT ![t] = @ \ {i}]
    /\ UNCHANGED <<asked, phase, alone>>

PassOver(t) ==
    /\ Free(t)
    /\ \E i \in todo[t] :
          /\ Newest(i, todo[t]) /\ ~Occupied(log[i].to)
          /\ todo' = [todo EXCEPT ![t] = @ \ {i}]
    /\ phase' = Over(t)
    /\ UNCHANGED <<locks, store, job, asked, start, alone>>

-----------------------------------------------------------------------------
Wait(t) == (Enter(t) \/ Lock(t)) /\ UNCHANGED <<store, job, undoing, alone>>

\* Inside the locks: a free name is chosen.  A strict move only takes the very
\* name that was confirmed; a wrapped one looks at its source once more.
Choose(t) ==
    /\ job[t].stage = "wait" /\ Inside(t)
    /\ job[t].wrapped => Occupied(job[t].from)
    /\ \E i \in 0 .. Cardinality(Files) :
          /\ FirstFree(job[t].to, i)
          /\ job[t].strict => i = 0
          /\ job' = [job EXCEPT ![t].to = Variant(@, i), ![t].stage = "ready"]
    /\ UNCHANGED <<locks, store, undoing, alone>>

\* The item no longer is what was confirmed, or its place is taken.
GiveUp(t) ==
    /\ job[t].stage = "wait" /\ Inside(t)
    /\ job[t].wrapped
    /\ Stage(t, "leave")
    /\ UNCHANGED <<locks, store, undoing, alone>>

\* shutil.move, which replaces a file that is in the way.
Put(f, q) ==
    loc' = [g \in Files |-> IF g = f THEN q
                            ELSE IF loc[g] = q THEN Nowhere ELSE loc[g]]

Shift(t) ==
    /\ job[t].stage = "ready"
    /\ \E f \in Files :
          /\ IF job[t].kind = "write" THEN f = job[t].file ELSE loc[f] = job[t].from
          /\ Put(f, job[t].to)
          /\ job' = [job EXCEPT ![t].file = f, ![t].stage = "moved"]
    /\ UNCHANGED <<locks, log, undoing, alone>>

\* The source has gone meanwhile, or the system refuses.
ShiftFails(t) ==
    /\ job[t].stage = "ready"
    /\ Stage(t, "leave")
    /\ alone' = FALSE
    /\ UNCHANGED <<locks, store, undoing>>

\* log_operation.  Entries of roll-backs and summaries are never read back.
Recorded(j) == [file |-> j.file, from |-> j.from, to |-> j.to, mine |-> j.mine]

Record(t) ==
    /\ job[t].stage = "moved"
    /\ LogsInside(job[t]) \/ held[t] = <<>>
    /\ log' = IF job[t].kind \in {"move", "delete"}
              THEN Append(log, Recorded(job[t])) ELSE log
    /\ Stage(t, "leave")
    /\ UNCHANGED <<locks, loc, undoing, alone>>

RecordFails(t) ==
    /\ job[t].stage = "moved"
    /\ LogsInside(job[t]) \/ held[t] = <<>>
    /\ Stage(t, "leave")
    /\ alone' = FALSE
    /\ UNCHANGED <<locks, store, undoing>>

Release(t) ==
    /\ \/ job[t].stage = "leave"
       \/ job[t].stage = "moved" /\ ~LogsInside(job[t])
    /\ Unlock(t)
    /\ UNCHANGED <<store, job, undoing, alone>>

Done(t) == Idle(t)

Finish(t) ==
    /\ job[t].stage = "leave" /\ Done(t)
    /\ job' = [job EXCEPT ![t] = NoJob]
    /\ phase' = IF job[t].kind = "restore" /\ phase = "during" /\ todo[t] = {}
                THEN "after" ELSE phase
    /\ UNCHANGED <<locks, store, todo, asked, start, alone>>

-----------------------------------------------------------------------------
\* Somebody else removes a file.
Vanish(f) ==
    /\ loc[f] # Nowhere
    /\ loc' = [loc EXCEPT ![f] = Nowhere]
    /\ alone' = FALSE
    /\ UNCHANGED <<locks, log, job, undoing>>

\* The process dies; disk and log stay.
Crash ==
    /\ Restart
    /\ job' = [t \in Threads |-> NoJob]
    /\ todo' = [t \in Threads |-> {}]
    /\ alone' = FALSE
    /\ UNCHANGED <<store, asked, start, phase>>

Asked(t) ==
    \/ \E f \in Files :
          \/ \E d \in Folders : Move(t, loc[f], At(d, loc[f].name))
          \/ \E b \in Bases : Move(t, loc[f], At(loc[f].dir, <<b>>))
          \/ Delete(t, loc[f])
          \/ \E d \in Folders, b \in Bases : Write(t, f, At(d, <<b>>))
    \/ \E i \in DOMAIN log : Restore(t, i)
    \/ RollBack(t)

Work(t) ==
    \/ UndoNext(t) \/ PassOver(t) \/ Wait(t) \/ Choose(t) \/ GiveUp(t)
    \/ Shift(t) \/ ShiftFails(t) \/ Record(t) \/ RecordFails(t)
    \/ Release(t) \/ Finish(t)

Next ==
    \/ \E t \in Threads : Asked(t) \/ Work(t)
    \/ \E f \in Files : Vanish(f)
    \/ Crash

Spec == Init /\ [][Next]_vars

-----------------------------------------------------------------------------
Entries == [file : Files, from : Paths, to : Paths, mine : BOOLEAN]

Jobs == [kind : {"none", "move", "delete", "write", "restore"},
         stage : {"idle", "wait", "ready", "moved", "leave"},
         from : Places, to : Places, file : Files \cup {0}, wrapped : BOOLEAN,
         strict : BOOLEAN, mine : BOOLEAN]

TypeOK ==
    /\ LocksOK
    /\ loc \in [Files -> Places] /\ start \in [Files -> Places]
    /\ log \in Seq(Entries)
    /\ job \in [Threads -> Jobs]
    /\ \A t \in Threads : Free(t) => Idle(t)
    /\ todo \in [Threads -> SUBSET Nat]
    /\ phase \in {"before", "during", "after"} /\ alone \in BOOLEAN

\* No operation of the program ever replaces a file: between the choice of a
\* free name and the move no other operation can take it.  (README.md:704)
NothingOverwritten ==
    [][\A f \in Files : loc[f] # Nowhere /\ loc'[f] = Nowhere => Vanish(f)]_vars

\* The first roll-back of a conversation brings every file back to where it was,
\* whatever chain of moves, renames and deletes it undoes, if nothing failed and
\* nobody else touched the files.  (rest.py:10)
RollBackExact == phase = "after" /\ alone => loc = start
=============================================================================
