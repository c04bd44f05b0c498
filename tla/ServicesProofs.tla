--------------------------- MODULE ServicesProofs ---------------------------
(***************************************************************************)
(* The parts that share no state with each other, for any number of jobs,  *)
(* folders, requests, keys, conversations and files: the busy marks of the *)
(* scheduler, the clean-up of conversations and of duplicates, the key of  *)
(* the model, and what the client shows.                                   *)
(***************************************************************************)
EXTENDS Secrets, Scheduler, Checkpoints, Duplicates, ClientView, TLAPS,
        FiniteSetTheorems, SequenceTheorems

-----------------------------------------------------------------------------
(* The busy marks of the scheduler. *)

\* A run has its folder marked, and a mark that was lost has no run: so nothing new
\* begins there, and nobody gives the mark back.
RunsMarked == \A t \in tasks : t.folder \in marked /\ t.folder \notin dropped

\* The server is stopped once its requests are answered.
InService == adding # {} => clock = "up"

SchedInv == SchedTypeOK /\ InService /\ OneRunPerFolder /\ RunsMarked /\ BusyHasRun

\* At the start nothing runs and nothing is marked.  (init_scheduler)
LEMMA SchedInitInv == SchedInit => SchedInv
  BY DEF SchedInit, SchedInv, SchedTypeOK, InService, OneRunPerFolder, RunsMarked, BusyHasRun

\* Requests, and the clock, leave runs and marks alone.
Marks == <<marked, tasks, dropped, fires>>
Request(j) == AddStore(j) \/ AddRegister(j) \/ RemoveTake(j) \/ RemoveRecord(j)

\* What gets registered is a job with its folder, while the clock is up.
LEMMA TimetableKept ==
  ASSUME SchedTypeOK, InService, StartClock \/ StopClock \/ \E j \in Jobs : Request(j)
  PROVE  SchedTypeOK' /\ InService' /\ UNCHANGED Marks
<1> USE DEF SchedTypeOK, InService, Marks
<1>1. CASE StartClock
  <2>1. ToRegister \subseteq Jobs \X Folders
    BY DEF ToRegister, Stored, Records
  <2>2. QED
    BY <1>1, <2>1 DEF StartClock
<1>2. CASE StopClock
  BY <1>2 DEF StopClock, requests
<1>3. ASSUME NEW j \in Jobs, AddStore(j)
      PROVE  SchedTypeOK' /\ InService' /\ UNCHANGED Marks
  BY <1>3 DEF AddStore
<1>4. ASSUME NEW j \in Jobs, AddRegister(j)
      PROVE  SchedTypeOK' /\ InService' /\ UNCHANGED Marks
  <2>1. PICK r \in Records :
           /\ <<j, r>> \in adding /\ adding' = adding \ {<<j, r>>}
           /\ IF r.enabled THEN timetable' = timetable \cup {<<j, r.folder>>}
              ELSE UNCHANGED timetable
    BY <1>4 DEF AddRegister
  <2>2. r.folder \in Folders /\ clock = "up"
    BY <2>1 DEF Records
  <2>3. QED
    BY <1>4, <2>1, <2>2 DEF AddRegister
<1>5. ASSUME NEW j \in Jobs, RemoveTake(j)
      PROVE  SchedTypeOK' /\ InService' /\ UNCHANGED Marks
  BY <1>5 DEF RemoveTake
<1>6. ASSUME NEW j \in Jobs, RemoveRecord(j)
      PROVE  SchedTypeOK' /\ InService' /\ UNCHANGED Marks
  BY <1>6 DEF RemoveRecord
<1>7. QED
  BY <1>1, <1>2, <1>3, <1>4, <1>5, <1>6 DEF Request

\* The steps of a run, and the pool's end, leave the timetable alone.
LEMMA RunsKept ==
  ASSUME SchedInv,
         \/ StopPool \/ \E d \in Folders : Fire(d)
         \/ \E t \in tasks : Submit(t) \/ Begin(t) \/ End(t)
  PROVE  SchedInv'
<1> USE DEF SchedInv, SchedTypeOK, InService, OneRunPerFolder, RunsMarked, BusyHasRun, requests
<1>1. CASE StopPool
  BY <1>1 DEF StopPool, Queued
<1>2. ASSUME NEW d \in Folders, Fire(d) PROVE SchedInv'
  <2> DEFINE run == [id |-> fires', folder |-> d, step |-> "hand"]
  <2>1. run \in Tasks /\ fires' \in Nat
    BY <1>2, SchedulerAssumption DEF Fire, Tasks
  <2>2. /\ tasks' = tasks \cup {run} /\ marked' = marked \cup {d}
        /\ d \notin marked /\ d \notin dropped /\ run.folder = d
        /\ UNCHANGED <<records, clock, timetable, adding, dropped>>
    BY <1>2 DEF Fire, Free
  <2> HIDE DEF run
  <2>3. SchedTypeOK' /\ InService'
    BY <2>1, <2>2
  <2>4. OneRunPerFolder' /\ RunsMarked' /\ BusyHasRun'
    BY <2>2
  <2>5. QED
    BY <2>3, <2>4
\* A run that goes on keeps its folder.
<1>3. ASSUME NEW t \in tasks, NEW step \in {"queued", "works"},
             tasks' = Moved(t, step),
             UNCHANGED <<records, clock, timetable, adding, marked, dropped, fires>>
      PROVE  SchedInv'
  <2> DEFINE next == [t EXCEPT !.step = step]
  <2>1. next \in Tasks /\ next.folder = t.folder
    BY DEF Tasks
  <2>2. tasks' = (tasks \ {t}) \cup {next}
    BY <1>3 DEF Moved
  <2> HIDE DEF next
  <2>3. SchedTypeOK' /\ InService' /\ RunsMarked'
    BY <1>3, <2>1, <2>2
  <2>4. OneRunPerFolder'
    BY <2>1, <2>2
  <2>5. BusyHasRun'
    BY <1>3, <2>1, <2>2
  <2>6. QED
    BY <2>3, <2>4, <2>5
\* A run that is over gives its folder back, which no other run works on.
<1>4. ASSUME NEW t \in tasks, tasks' = tasks \ {t}, marked' = marked \ {t.folder},
             UNCHANGED <<records, clock, timetable, adding, dropped, fires>>
      PROVE  SchedInv'
  BY <1>4
<1>5. ASSUME NEW t \in tasks, Submit(t) PROVE SchedInv'
  BY <1>3, <1>4, <1>5 DEF Submit, Refused
<1>6. ASSUME NEW t \in tasks, Begin(t) PROVE SchedInv'
  BY <1>3, <1>6 DEF Begin
<1>7. ASSUME NEW t \in tasks, End(t) PROVE SchedInv'
  BY <1>4, <1>7 DEF End
<1>8. QED
  BY <1>1, <1>2, <1>5, <1>6, <1>7

\* Every step keeps the invariant.
LEMMA SchedNextInv == SchedInv /\ [SchedNext]_schedVars => SchedInv'
<1> SUFFICES ASSUME SchedInv, [SchedNext]_schedVars PROVE SchedInv'
  OBVIOUS
<1>1. CASE StartClock \/ StopClock \/ \E j \in Jobs : Request(j)
  <2>1. SchedTypeOK' /\ InService' /\ UNCHANGED Marks
    BY <1>1, TimetableKept DEF SchedInv
  <2>2. QED
    BY <2>1 DEF SchedInv, Marks, OneRunPerFolder, RunsMarked, BusyHasRun
<1>2. CASE \/ StopPool \/ \E d \in Folders : Fire(d)
           \/ \E t \in tasks : Submit(t) \/ Begin(t) \/ End(t)
  BY <1>2, RunsKept
<1>3. CASE UNCHANGED schedVars
  BY <1>3 DEF schedVars, requests, SchedInv, SchedTypeOK, InService, OneRunPerFolder,
              RunsMarked, BusyHasRun
<1>4. QED
  BY <1>1, <1>2, <1>3 DEF SchedNext, Request

\* The invariant holds in every reachable state.
LEMMA SchedAlways == SchedSpec => []SchedInv
  BY SchedInitInv, SchedNextInv, PTL DEF SchedSpec

\* The state of the scheduler stays well formed.  (init_scheduler, add_job, remove_job)
THEOREM SchedTypeCorrect == SchedSpec => []SchedTypeOK
  BY SchedAlways, PTL DEF SchedInv

\* No two runs of a folder overlap, whichever jobs name it and however often the server
\* is stopped and started.  (_fire, _running_directories)
THEOREM RunsApart == SchedSpec => []OneRunPerFolder
  BY SchedAlways, PTL DEF SchedInv

\* A folder counts as busy while it is being worked on, and no longer, but for what a
\* stop of the pool cancels.  (_fire, _run_job)
THEOREM MarksGivenBack == SchedSpec => []BusyHasRun
  BY SchedAlways, PTL DEF SchedInv

-----------------------------------------------------------------------------
(* The clean-up of conversations. *)

CkTyped ==
    /\ latest \in [Talks -> Nat] /\ time \in Nat /\ waits \subseteq Talks
    /\ touched \subseteq Talks /\ victims \subseteq Talks /\ rows \subseteq Talks
    /\ \A t \in Talks : latest[t] <= time
    /\ IsFiniteSet(Known)

\* What was read of a thread still holds, unless the thread has gone on since.
ReadRight ==
    clean = "read" =>
        /\ sessions \subseteq Nat \X Talks /\ IsFiniteSet(sessions)
        /\ \A s \in sessions :
              /\ s[2] \notin rows /\ s[1] <= latest[s[2]]
              /\ s[2] \notin touched => s[1] = latest[s[2]] /\ s[2] \notin waits
        /\ \A s, o \in sessions : s[2] = o[2] => s = o

\* Enough threads that stay are as recent as t.
Outlived(t) ==
    \E K \in SUBSET (Talks \ victims) :
        /\ IsFiniteSet(K) /\ Cardinality(K) >= MaxSessions
        /\ \A u \in K : latest[u] >= latest[t]

Expired(t) == MaxAge > 0 => latest[t] + MaxAge < time

\* Whoever is to be deleted and has not gone on may be.
VictimsRight ==
    clean = "delete" =>
        \A t \in victims \ touched : t \notin waits /\ Expired(t) /\ Outlived(t)

CkInv == CkTyped /\ ReadRight /\ VictimsRight

\* At first there is nothing to clean up.
LEMMA CkInitInv == CkInit => CkInv
<1> SUFFICES ASSUME CkInit PROVE CkInv
  OBVIOUS
<1>1. Known = {}
  BY DEF CkInit, Known
<1>2. QED
  BY <1>1, FS_EmptySet DEF CkInit, CkInv, CkTyped, ReadRight, VictimsRight

\* A function that keeps the members of a finite set apart shows that its range has as many.
LEMMA AsMany ==
    ASSUME NEW S, NEW T, IsFiniteSet(S), IsFiniteSet(T), NEW f \in [S -> T],
           \A x, y \in S : f[x] = f[y] => x = y
    PROVE  Cardinality(S) <= Cardinality(T)
<1>1. Cardinality(S) \in Nat /\ Cardinality(T) \in Nat
  BY FS_CardinalityType
<1>2. ~(Cardinality(T) < Cardinality(S))
  BY FS_PigeonHole
<1>3. QED
  BY <1>1, <1>2

\* In any ranking of S without ties, at least M members come before rank M,
\* if there is a member at rank M or later.
LEMMA FirstRanks ==
    ASSUME NEW S, IsFiniteSet(S), NEW M \in Nat,
           NEW r \in [S -> 0 .. Cardinality(S) - 1],
           \A x, y \in S : x # y => r[x] # r[y],
           NEW s \in S, r[s] >= M
    PROVE  LET F == {x \in S : r[x] < M}
           IN  IsFiniteSet(F) /\ Cardinality(F) >= M
<1> DEFINE n == Cardinality(S)
           F == {x \in S : r[x] < M}
           L == {x \in S : r[x] >= M}
           g == [x \in L |-> r[x]]
<1>1. n \in Nat /\ IsFiniteSet(F) /\ IsFiniteSet(L)
      /\ Cardinality(F) \in Nat /\ Cardinality(L) \in Nat
  BY FS_CardinalityType, FS_Subset
<1>2. \A x \in S : r[x] \in 0 .. n - 1
  OBVIOUS
<1>3. M <= n - 1
  BY <1>1, <1>2
<1>4. IsFiniteSet(M .. n - 1) /\ Cardinality(M .. n - 1) = n - M
  BY <1>1, <1>3, FS_Interval
<1>5. Cardinality(L) <= n - M
  <2>1. g \in [L -> M .. n - 1]
    BY <1>1, <1>2
  <2>2. \A x, y \in L : g[x] = g[y] => x = y
    OBVIOUS
  <2>3. QED
    <3> HIDE DEF L, g
    <3>1. QED
      BY <1>1, <1>4, <2>1, <2>2, AsMany
<1>6. Cardinality(F) + Cardinality(L) = n
  <2>1. F \cup L = S /\ F \cap L = {}
    BY <1>1, <1>2
  <2>2. Cardinality(F \cap L) = 0
    BY <2>1, FS_EmptySet
  <2>3. QED
    <3> HIDE DEF F, L
    <3>1. Cardinality(S) = Cardinality(F) + Cardinality(L) - 0
      BY <1>1, <2>1, <2>2, FS_Union
    <3>2. QED
      BY <1>1, <3>1
<1>7. QED
  BY <1>1, <1>3, <1>5, <1>6

\* The newest sessions stay, and what goes is older than they are.
LEMMA CkSort == ASSUME CkInv, CleanSort PROVE CkInv'
<1>1. PICK rank \in [sessions -> 0 .. Cardinality(sessions) - 1] :
         /\ \A s, o \in sessions :
               s # o => rank[s] # rank[o] /\ (o[1] > s[1] => rank[o] < rank[s])
         /\ victims' = {s[2] : s \in {x \in sessions : Expendable(x, rank)}}
  BY DEF CleanSort
<1>2. /\ clean = "read" /\ clean' = "delete"
      /\ UNCHANGED <<latest, waits, time, rows, sessions, touched>>
  BY DEF CleanSort
<1>3. /\ sessions \subseteq Nat \X Talks /\ IsFiniteSet(sessions)
      /\ \A s \in sessions :
            /\ s[1] <= latest[s[2]]
            /\ s[2] \notin touched => s[1] = latest[s[2]] /\ s[2] \notin waits
      /\ \A s, o \in sessions : s[2] = o[2] => s = o
  BY <1>2 DEF CkInv, ReadRight
<1>4. ASSUME NEW t \in victims' \ touched
      PROVE  t \notin waits /\ Expired(t) /\ Outlived(t)'
  <2>1. PICK s \in sessions : t = s[2] /\ rank[s] >= MaxSessions
                              /\ (MaxAge > 0 => s[1] + MaxAge < time)
    BY <1>1, <1>4 DEF Expendable
  <2>2. s[1] = latest[t] /\ t \notin waits /\ t \in Talks /\ s[1] \in Nat
    BY <1>3, <1>4, <2>1
  <2> DEFINE F == {x \in sessions : rank[x] < MaxSessions}
             K == {x[2] : x \in F}
             g == [x \in F |-> x[2]]
  <2>3. IsFiniteSet(F) /\ Cardinality(F) >= MaxSessions
    BY <1>1, <1>3, <2>1, FirstRanks, CheckpointsAssumption
  <2>4. K \subseteq Talks \ victims'
    <3>1. K \subseteq Talks
      BY <1>3
    <3>2. ASSUME NEW x \in F, x[2] \in victims' PROVE FALSE
      <4>1. PICK y \in sessions : x[2] = y[2] /\ rank[y] >= MaxSessions
        BY <1>1, <3>2 DEF Expendable
      <4>2. x = y
        BY <1>3, <4>1
      <4>3. rank[x] \in Nat /\ MaxSessions \in Nat
        BY CheckpointsAssumption
      <4>4. QED
        BY <4>1, <4>2, <4>3
    <3>3. QED
      BY <3>1, <3>2
  <2>5. \A x \in F : latest[x[2]] >= latest[t]
    <3> SUFFICES ASSUME NEW x \in F PROVE latest[x[2]] >= latest[t]
      OBVIOUS
    <3>1. rank[x] \in Nat /\ rank[s] \in Nat /\ MaxSessions \in Nat
      BY CheckpointsAssumption
    <3>2. ~(rank[s] < rank[x]) /\ x # s
      BY <2>1, <3>1
    <3>3. ~(s[1] > x[1])
      BY <1>1, <3>2
    <3>4. x[1] \in Nat /\ x[2] \in Talks /\ x[1] <= latest[x[2]] /\ latest[x[2]] \in Nat
      BY <1>3 DEF CkInv, CkTyped
    <3>5. QED
      BY <2>2, <3>3, <3>4
  <2>6. IsFiniteSet(K) /\ Cardinality(K) >= MaxSessions
    <3>1. IsFiniteSet(K)
      <4>1. g \in Surjection(F, K)
        BY DEF Surjection
      <4> HIDE DEF F, K, g
      <4>2. QED
        BY <2>3, <4>1, FS_Surjection
    <3>2. g \in [F -> K] /\ \A x, y \in F : g[x] = g[y] => x = y
      BY <1>3
    <3>3. Cardinality(F) <= Cardinality(K)
      <4> HIDE DEF F, K, g
      <4>1. QED
        BY <2>3, <3>1, <3>2, AsMany
    <3>4. Cardinality(K) \in Nat /\ Cardinality(F) \in Nat /\ MaxSessions \in Nat
      BY <2>3, <3>1, FS_CardinalityType, CheckpointsAssumption
    <3>5. QED
      BY <2>3, <3>1, <3>3, <3>4
  <2>7. Outlived(t)'
    <3>1. \A u \in K : latest[u] >= latest[t]
      BY <2>5
    <3> HIDE DEF K
    <3>2. K \in SUBSET (Talks \ victims')
      BY <2>4
    <3>3. QED
      BY <1>2, <2>6, <3>1, <3>2 DEF Outlived
  <2>8. QED
    BY <2>1, <2>2, <2>7 DEF Expired
<1>5. CkTyped'
  <2>1. victims' \subseteq Talks
    BY <1>1, <1>3
  <2>2. QED
    BY <1>2, <2>1 DEF CkInv, CkTyped, Known
<1>6. VictimsRight'
  BY <1>2, <1>4 DEF VictimsRight, Expired
<1>7. QED
  BY <1>2, <1>5, <1>6 DEF CkInv, ReadRight

\* A conversation that goes on is marked as touched.
LEMMA CkTalk == ASSUME CkInv, NEW t \in Talks, Talk(t) PROVE CkInv'
<1>1. /\ latest[t] < time /\ latest' = [latest EXCEPT ![t] = time]
      /\ waits' \in {waits \cup {t}, waits \ {t}} /\ touched' = touched \cup {t}
      /\ UNCHANGED <<time, clean, rows, sessions, victims>>
  BY DEF Talk
<1>2. /\ latest \in [Talks -> Nat] /\ time \in Nat
      /\ latest'[t] = time /\ \A u \in Talks : u # t => latest'[u] = latest[u]
      /\ \A u \in Talks : latest'[u] \in Nat /\ latest[u] \in Nat /\ latest'[u] >= latest[u]
  BY <1>1 DEF CkInv, CkTyped
<1>3. CkTyped'
  <2>1. Known' \subseteq Known \cup {t}
    BY <1>1, <1>2 DEF Known
  <2>2. IsFiniteSet(Known')
    BY <2>1, FS_AddElement, FS_Subset DEF CkInv, CkTyped
  <2>3. QED
    BY <1>1, <1>2, <2>2 DEF CkInv, CkTyped
<1>4. ReadRight'
  <2> SUFFICES ASSUME clean = "read" PROVE ReadRight'
    BY <1>1 DEF ReadRight
  <2>1. \A s \in sessions :
           /\ s[1] <= latest'[s[2]]
           /\ s[2] \notin touched' => s[1] = latest'[s[2]] /\ s[2] \notin waits'
    <3> SUFFICES ASSUME NEW s \in sessions
                 PROVE  /\ s[1] <= latest'[s[2]]
                        /\ s[2] \notin touched' => s[1] = latest'[s[2]] /\ s[2] \notin waits'
      OBVIOUS
    <3>1. /\ s[1] \in Nat /\ s[2] \in Talks /\ s[1] <= latest[s[2]]
          /\ s[2] \notin touched => s[1] = latest[s[2]] /\ s[2] \notin waits
      BY DEF CkInv, ReadRight
    <3>2. s[1] <= latest'[s[2]]
      BY <1>2, <3>1
    <3>3. QED
      BY <1>1, <1>2, <3>1, <3>2
  <2>2. QED
    BY <1>1, <2>1 DEF CkInv, ReadRight
<1>5. ASSUME clean = "delete", NEW v \in victims \ touched'
      PROVE  v \notin waits' /\ Expired(v)' /\ Outlived(v)'
  <2>1. v \in Talks /\ v # t /\ v \notin waits /\ Expired(v) /\ Outlived(v)
    BY <1>1, <1>5 DEF CkInv, CkTyped, VictimsRight
  <2>2. Outlived(v)'
    <3>1. PICK K \in SUBSET (Talks \ victims) :
             /\ IsFiniteSet(K) /\ Cardinality(K) >= MaxSessions
             /\ \A u \in K : latest[u] >= latest[v]
      BY <2>1 DEF Outlived
    <3>2. \A u \in K : latest'[u] >= latest'[v]
      <4> SUFFICES ASSUME NEW u \in K PROVE latest'[u] >= latest'[v]
        OBVIOUS
      <4>1. latest[u] >= latest[v] /\ latest'[v] = latest[v]
        BY <1>2, <2>1, <3>1
      <4>2. QED
        BY <1>2, <2>1, <4>1
    <3>3. QED
      BY <1>1, <3>1, <3>2 DEF Outlived
  <2>3. QED
    BY <1>1, <1>2, <2>1, <2>2 DEF Expired
<1>6. VictimsRight'
  BY <1>1, <1>5 DEF VictimsRight
<1>7. QED
  BY <1>3, <1>4, <1>6 DEF CkInv

\* What is read of a thread is right when it is read.
LEMMA CkRead == ASSUME CkInv, NEW t \in Talks, CleanRead(t) PROVE CkInv'
<1> DEFINE s0 == <<latest[t], t>>
<1>1. /\ clean = "read" /\ t \in rows /\ rows' = rows \ {t}
      /\ \/ sessions' = sessions /\ UNCHANGED touched
         \/ sessions' = sessions \cup {s0} /\ t \notin waits /\ UNCHANGED touched
         \/ sessions' = sessions \cup {s0} /\ touched' = touched \cup {t}
      /\ UNCHANGED <<latest, waits, time, clean, victims>>
  BY DEF CleanRead, Protected
<1>2. CkTyped'
  BY <1>1 DEF CkInv, CkTyped, Known
<1>3. /\ sessions' \subseteq Nat \X Talks /\ IsFiniteSet(sessions')
      /\ \A s \in sessions' : s \in sessions \/ s = s0
  <2>1. sessions \subseteq Nat \X Talks /\ IsFiniteSet(sessions)
    BY <1>1 DEF CkInv, ReadRight
  <2>2. s0 \in Nat \X Talks
    BY DEF CkInv, CkTyped
  <2> HIDE DEF s0
  <2>3. IsFiniteSet(sessions \cup {s0})
    BY <2>1, FS_AddElement
  <2>4. QED
    BY <1>1, <2>1, <2>2, <2>3
<1>4. /\ s0[2] = t /\ s0[1] = latest[t] /\ latest[t] \in Nat
      /\ \A s \in sessions : s[2] # t
  BY <1>1 DEF CkInv, CkTyped, ReadRight
<1> HIDE DEF s0
<1>5. \A s \in sessions' :
         /\ s[2] \notin rows' /\ s[1] <= latest[s[2]]
         /\ s[2] \notin touched' => s[1] = latest[s[2]] /\ s[2] \notin waits
  BY <1>1, <1>3, <1>4 DEF CkInv, ReadRight
<1>6. \A s, o \in sessions' : s[2] = o[2] => s = o
  BY <1>1, <1>3, <1>4 DEF CkInv, ReadRight
<1>7. QED
  BY <1>1, <1>2, <1>3, <1>5, <1>6 DEF CkInv, ReadRight, VictimsRight

\* Whoever is deleted leaves the others' claims as they are.
LEMMA CkDelete == ASSUME CkInv, NEW t \in Talks, CleanDelete(t) PROVE CkInv'
<1>1. /\ clean = "delete" /\ t \in victims /\ victims' = victims \ {t}
      /\ \/ latest' = [latest EXCEPT ![t] = 0] /\ waits' = waits \ {t}
         \/ UNCHANGED <<latest, waits>>
      /\ UNCHANGED <<time, clean, rows, sessions, touched>>
  BY DEF CleanDelete, WaitsWithout
<1>2. /\ latest' \in [Talks -> Nat] /\ \A u \in Talks : u # t => latest'[u] = latest[u]
      /\ \A u \in Talks : latest'[u] <= time /\ (latest'[u] > 0 => latest[u] > 0)
  BY <1>1 DEF CkInv, CkTyped
<1>3. CkTyped'
  <2>1. Known' \subseteq Known
    BY <1>2 DEF Known
  <2>2. QED
    BY <1>1, <1>2, <2>1, FS_Subset DEF CkInv, CkTyped
<1>4. ASSUME NEW v \in victims' \ touched
      PROVE  v \notin waits' /\ Expired(v)' /\ Outlived(v)'
  <2>1. v \in Talks /\ v # t /\ v \notin waits /\ Expired(v) /\ Outlived(v)
    BY <1>1, <1>4 DEF CkInv, CkTyped, VictimsRight
  <2>2. PICK K \in SUBSET (Talks \ victims) :
           /\ IsFiniteSet(K) /\ Cardinality(K) >= MaxSessions
           /\ \A u \in K : latest[u] >= latest[v]
    BY <2>1 DEF Outlived
  <2>3. \A u \in K : u \in Talks \ victims' /\ latest'[u] >= latest'[v]
    BY <1>1, <1>2, <2>1, <2>2
  <2>4. Outlived(v)'
    BY <2>2, <2>3 DEF Outlived
  <2>5. QED
    BY <1>1, <1>2, <2>1, <2>4 DEF Expired
<1>5. QED
  BY <1>1, <1>3, <1>4 DEF CkInv, ReadRight, VictimsRight

\* Every step keeps the invariant.
LEMMA CkNextInv == CkInv /\ [CkNext]_ckVars => CkInv'
<1> SUFFICES ASSUME CkInv, [CkNext]_ckVars PROVE CkInv'
  OBVIOUS
<1>1. CASE Tick
  <2>1. /\ time' = time + 1 /\ time \in Nat
        /\ UNCHANGED <<latest, waits, clean, rows, sessions, victims, touched>>
    BY <1>1 DEF Tick, CkInv, CkTyped
  <2>2. CkTyped'
    BY <2>1 DEF CkInv, CkTyped, Known
  <2>3. ASSUME NEW t \in Talks, Expired(t) PROVE Expired(t)'
    BY <2>1, <2>3, CheckpointsAssumption DEF CkInv, CkTyped, Expired
  <2>4. ASSUME NEW t \in Talks, Outlived(t) PROVE Outlived(t)'
    BY <2>1, <2>4 DEF Outlived
  <2>5. VictimsRight'
    BY <2>1, <2>3, <2>4 DEF CkInv, CkTyped, VictimsRight
  <2>6. QED
    BY <2>1, <2>2, <2>5 DEF CkInv, ReadRight
<1>2. CASE CleanBegin
  <2>1. /\ clean' = "read" /\ rows' = Known /\ sessions' = {} /\ victims' = {} /\ touched' = {}
        /\ UNCHANGED <<latest, waits, time>>
    BY <1>2 DEF CleanBegin
  <2>2. QED
    BY <2>1, FS_EmptySet DEF CkInv, CkTyped, ReadRight, VictimsRight, Known
<1>3. CASE CleanEnd \/ UNCHANGED ckVars
  <2>1. /\ UNCHANGED <<latest, waits, time, rows, sessions, victims, touched>>
        /\ clean' \in {clean, "off"}
    BY <1>3 DEF CleanEnd, ckVars
  <2>2. CkTyped'
    BY <2>1 DEF CkInv, CkTyped, Known
  <2>3. ReadRight' /\ VictimsRight'
    BY <2>1 DEF CkInv, ReadRight, VictimsRight, Expired, Outlived
  <2>4. QED
    BY <2>2, <2>3 DEF CkInv
<1>4. QED
  BY <1>1, <1>2, <1>3, CkSort, CkTalk, CkRead, CkDelete DEF CkNext

\* No clean-up deletes a conversation that waits for an approval, that is among the
\* newest or that is young, whatever goes on meanwhile.  (cleanup_checkpoints)
THEOREM ConversationsSafe == CkSpec => ConversationsKept
<1> DEFINE Good == \A t \in Talks : latest[t] > 0 /\ latest'[t] = 0 =>
          \/ t \in touched
          \/ /\ t \notin waits
             /\ Cardinality({u \in Talks \ {t} : latest[u] >= latest[t]}) >= MaxSessions
             /\ MaxAge > 0 => latest[t] + MaxAge < time
<1>1. ASSUME CkInv, [CkNext]_ckVars PROVE Good
  <2> SUFFICES ASSUME NEW t \in Talks, latest[t] > 0, latest'[t] = 0, t \notin touched
               PROVE  /\ t \notin waits
                      /\ Cardinality({u \in Talks \ {t} : latest[u] >= latest[t]})
                            >= MaxSessions
                      /\ MaxAge > 0 => latest[t] + MaxAge < time
    OBVIOUS
  <2> DEFINE Newer == {u \in Talks \ {t} : latest[u] >= latest[t]}
  <2>1. latest \in [Talks -> Nat] /\ time \in Nat
    BY <1>1 DEF CkInv, CkTyped
  <2>2. clean = "delete" /\ t \in victims
    <3>1. ASSUME NEW u \in Talks, Talk(u) PROVE FALSE
      <4>1. latest'[t] \in {latest[t], time} /\ latest[u] \in Nat /\ latest[u] < time
            /\ (latest'[t] # latest[t] => latest'[t] = time)
        BY <2>1, <3>1 DEF Talk
      <4>2. QED
        BY <2>1, <4>1
    <3>0. latest' # latest
      BY <2>1
    <3>2. PICK u \in Talks : CleanDelete(u)
      BY <1>1, <3>0, <3>1, Zenon DEF CkNext, ckVars, Tick, CleanBegin, CleanSort, CleanEnd, CleanRead
    <3>3. QED
      BY <2>1, <3>2 DEF CleanDelete
  <2>3. t \notin waits /\ Expired(t) /\ Outlived(t)
    BY <1>1, <2>2 DEF CkInv, VictimsRight
  <2>4. PICK K \in SUBSET (Talks \ victims) :
           /\ IsFiniteSet(K) /\ Cardinality(K) >= MaxSessions
           /\ \A u \in K : latest[u] >= latest[t]
    BY <2>3 DEF Outlived
  <2>5. K \subseteq Newer /\ Newer \subseteq Known
    BY <2>1, <2>2, <2>4 DEF Known
  <2>6. IsFiniteSet(Newer) /\ Cardinality(K) <= Cardinality(Newer)
        /\ Cardinality(K) \in Nat /\ Cardinality(Newer) \in Nat
    <3> HIDE DEF Newer
    <3>1. IsFiniteSet(Known)
      BY <1>1 DEF CkInv, CkTyped
    <3>2. QED
      BY <2>4, <2>5, <3>1, FS_Subset, FS_CardinalityType
  <2>7. Cardinality(Newer) >= MaxSessions
    <3> HIDE DEF Newer
    <3>1. QED
      BY <2>4, <2>6, CheckpointsAssumption
  <2>8. QED
    BY <2>3, <2>7 DEF Expired
<1>2. CkInv /\ [CkNext]_ckVars => [Good]_ckVars
  BY <1>1
<1>3. QED
  BY CkInitInv, CkNextInv, <1>2, PTL DEF CkSpec, ConversationsKept

-----------------------------------------------------------------------------
(* The clean-up of duplicates. *)

CleanUps == [step : {"off", "group", "item", "delete"}, groups : SUBSET (SUBSET Copies),
             hash : Contents \cup {Absent}, items : SUBSET Copies, item : Copies \cup {Absent}]

DupTyped ==
    /\ holds \in [Copies -> Contents \cup {Absent}]
    /\ digests \subseteq Copies \X (Contents \cup {Absent})
    /\ groups \subseteq SUBSET Copies /\ visit \subseteq Copies /\ sized \subseteq Copies
    /\ clean_up \in [Cleaners -> CleanUps]
    /\ edited \in BOOLEAN /\ overlap \in BOOLEAN

Active(c) == clean_up[c].step # "off"

\* As long as no two clean-ups meet there is one at most.
OneAtATime == ~overlap => \A c, d \in Cleaners : Active(c) /\ Active(d) => c = d

\* What is worked on has its keeper, and what is to be deleted is equal to it.
KeeperHolds(c) ==
    LET j == clean_up[c] IN
    /\ j.step \in {"item", "delete"} =>
          \E k \in Copies : /\ holds[k] = j.hash /\ k \notin j.items
                            /\ j.step = "delete" => k # j.item
    /\ j.step = "delete" => holds[j.item] = j.hash

Undisturbed == ~edited /\ ~overlap

DupInv ==
    /\ DupTyped /\ OneAtATime
    /\ Undisturbed => Kept /\ \A c \in Cleaners : KeeperHolds(c)

\* At first nothing is cleaned up.
LEMMA DupInitInv == DupInit => DupInv
<1> SUFFICES ASSUME DupInit PROVE DupInv
  OBVIOUS
<1>1. Idle \in CleanUps /\ Idle.step = "off"
  BY DEF Idle, CleanUps
<1>2. DupTyped
  BY <1>1 DEF DupInit, DupTyped
<1>3. Kept
  BY DEF DupInit, Kept
<1>4. \A c \in Cleaners : ~Active(c) /\ KeeperHolds(c)
  BY <1>1 DEF DupInit, Active, KeeperHolds
<1>5. QED
  BY <1>2, <1>3, <1>4 DEF DupInv, OneAtATime

\* A scan only reads.
LEMMA ScanTyped ==
    ASSUME DupTyped,
           ScanStart \/ ScanCancel \/ Walk \/ Sift \/ Hash \/ ScanEnd \/ ScanBreak
    PROVE  DupTyped' /\ UNCHANGED untouchedByScan
<1> USE DEF untouchedByScan, DupTyped
<1>1. UNCHANGED untouchedByScan
  BY DEF ScanStart, ScanCancel, Walk, Sift, Hash, ScanEnd, ScanBreak
<1>2. visit' \subseteq Copies /\ sized' \subseteq Copies
  BY DEF ScanStart, ScanCancel, Walk, Sift, Hash, ScanEnd, ScanBreak
<1>3. digests' \subseteq Copies \X (Contents \cup {Absent})
  BY DEF ScanStart, ScanCancel, Walk, Sift, Hash, ScanEnd, ScanBreak, Digest
<1>4. groups' \subseteq SUBSET Copies
  <2>1. CASE ScanEnd
    BY <2>1 DEF ScanEnd
  <2>2. CASE ~ScanEnd
    BY <2>2 DEF ScanStart, ScanCancel, Walk, Sift, Hash, ScanBreak
  <2>3. QED
    BY <2>1, <2>2
<1>5. QED
  BY <1>1, <1>2, <1>3, <1>4

\* One clean-up goes on, the others stay where they are.
LEMMA Does ==
    ASSUME DupTyped, NEW c \in Cleaners, NEW j \in CleanUps, Doing(c, j)
    PROVE  /\ clean_up' \in [Cleaners -> CleanUps] /\ clean_up'[c] = j
           /\ \A d \in Cleaners : d # c => clean_up'[d] = clean_up[d]
  BY DEF DupTyped, Doing

\* A clean-up that goes on without deleting keeps the invariant if its keeper is there.
LEMMA DupGoesOn ==
    ASSUME DupInv, NEW c \in Cleaners, NEW j \in CleanUps, Doing(c, j), Active(c),
           UNCHANGED <<holds, scanVars, edits, edited, cleanups, before, overlap>>,
           Undisturbed /\ j.step \in {"item", "delete"} =>
               \E k \in Copies : /\ holds[k] = j.hash /\ k \notin j.items
                                 /\ j.step = "delete" => k # j.item,
           Undisturbed /\ j.step = "delete" => holds[j.item] = j.hash
    PROVE  DupInv'
<1>1. /\ clean_up' \in [Cleaners -> CleanUps] /\ clean_up'[c] = j
      /\ \A d \in Cleaners : d # c => clean_up'[d] = clean_up[d]
  BY Does DEF DupInv
<1>2. DupTyped'
  BY <1>1 DEF DupInv, DupTyped, scanVars
<1>3. \A d \in Cleaners : Active(d)' => Active(d)
  BY <1>1 DEF Active
<1>4. OneAtATime'
  BY <1>3 DEF DupInv, OneAtATime
<1>5. ASSUME Undisturbed' PROVE Kept' /\ \A d \in Cleaners : KeeperHolds(d)'
  <2>1. Undisturbed
    BY <1>5 DEF Undisturbed
  <2>2. Kept'
    BY <2>1 DEF DupInv, Kept
  <2>3. KeeperHolds(c)'
    BY <1>1, <2>1 DEF KeeperHolds
  <2>4. \A d \in Cleaners : d # c => KeeperHolds(d)'
    BY <1>1, <2>1 DEF DupInv, KeeperHolds
  <2>5. QED
    BY <2>2, <2>3, <2>4
<1>6. QED
  BY <1>2, <1>4, <1>5 DEF DupInv

\* A clean-up compares with the keeper it has just hashed.
LEMMA DupReads ==
    ASSUME DupInv, NEW c \in Cleaners,
           CleanUpGroup(c) \/ CleanUpItem(c) \/ CleanUpNext(c)
    PROVE  DupInv'
<1> DEFINE j == clean_up[c]
<1>1. j \in CleanUps /\ UNCHANGED <<holds, scanVars, edits, edited, cleanups, before, overlap>>
  BY DEF DupInv, DupTyped, CleanUpGroup, CleanUpItem, CleanUpNext, untouchedByCleanUp
<1>2. CASE CleanUpGroup(c)
  <2>1. PICK g \in j.groups, k \in Copies :
           /\ j.step = "group"
           /\ Doing(c, IF k \in g /\ KeeperThere(k)
                       THEN [j EXCEPT !.step = "item", !.groups = @ \ {g}, !.hash = holds[k],
                                      !.items = g \ {k}]
                       ELSE [j EXCEPT !.groups = @ \ {g}])
    BY <1>2 DEF CleanUpGroup
  <2> DEFINE q == IF k \in g /\ KeeperThere(k)
                  THEN [j EXCEPT !.step = "item", !.groups = @ \ {g}, !.hash = holds[k],
                                 !.items = g \ {k}]
                  ELSE [j EXCEPT !.groups = @ \ {g}]
  <2>2. /\ q \in CleanUps
        /\ q.step = "item" => q.hash = holds[k] /\ q.items = g \ {k}
        /\ q.step \in {"item", "group"}
    BY <1>1, <2>1 DEF CleanUps, DupInv, DupTyped
  <2>3. Active(c) /\ Doing(c, q)
    BY <2>1 DEF Active
  <2> HIDE DEF q
  <2>4. /\ q.step # "delete"
        /\ q.step = "item" => holds[k] = q.hash /\ k \notin q.items
    BY <2>2
  <2>5. QED
    BY <1>1, <2>2, <2>3, <2>4, DupGoesOn
<1>3. CASE CleanUpItem(c)
  <2>1. PICK p \in j.items :
           /\ j.step = "item"
           /\ Doing(c, IF StillEqual(p, j)
                       THEN [j EXCEPT !.step = "delete", !.items = @ \ {p}, !.item = p]
                       ELSE [j EXCEPT !.items = @ \ {p}])
    BY <1>3 DEF CleanUpItem
  <2> DEFINE q == IF StillEqual(p, j)
                  THEN [j EXCEPT !.step = "delete", !.items = @ \ {p}, !.item = p]
                  ELSE [j EXCEPT !.items = @ \ {p}]
  <2>2. /\ q \in CleanUps /\ q.items = j.items \ {p} /\ q.hash = j.hash
        /\ q.step = "delete" => holds[p] = j.hash /\ q.item = p
    BY <1>1, <2>1 DEF CleanUps, StillEqual
  <2>3. Active(c) /\ Doing(c, q)
    BY <2>1 DEF Active
  <2> HIDE DEF q
  <2>4. ASSUME Undisturbed
        PROVE  \E k \in Copies : /\ holds[k] = q.hash /\ k \notin q.items
                                 /\ q.step = "delete" => k # q.item
    <3>1. PICK k \in Copies : holds[k] = j.hash /\ k \notin j.items
      BY <2>1, <2>4 DEF DupInv, KeeperHolds
    <3>2. k \notin q.items /\ k # p
      BY <2>2, <3>1
    <3>3. QED
      BY <2>2, <3>1, <3>2
  <2>5. QED
    BY <1>1, <2>2, <2>3, <2>4, DupGoesOn
<1>4. CASE CleanUpNext(c)
  <2>1. CASE /\ j.step = "item" /\ j.items = {}
             /\ Doing(c, [j EXCEPT !.step = "group", !.hash = Absent])
    <3> DEFINE q == [j EXCEPT !.step = "group", !.hash = Absent]
    <3>1. q \in CleanUps /\ q.step = "group" /\ Active(c) /\ Doing(c, q)
      BY <1>1, <2>1 DEF CleanUps, Active
    <3> HIDE DEF q
    <3>2. QED
      BY <1>1, <3>1, DupGoesOn
  <2>2. CASE j.step = "group" /\ j.groups = {} /\ Doing(c, Idle)
    <3>1. Idle \in CleanUps /\ Idle.step = "off" /\ Active(c)
      BY <2>2 DEF Idle, CleanUps, Active
    <3>2. QED
      BY <1>1, <2>2, <3>1, DupGoesOn
  <2>3. QED
    BY <1>4, <2>1, <2>2 DEF CleanUpNext
<1>5. QED
  BY <1>2, <1>3, <1>4

\* What is deleted has an equal that stays.
LEMMA DupDeletes == ASSUME DupInv, NEW c \in Cleaners, CleanUpDelete(c) PROVE DupInv'
<1> DEFINE j == clean_up[c]
           q == [j EXCEPT !.step = "item", !.item = Absent]
<1>1. /\ j \in CleanUps /\ j.step = "delete" /\ Doing(c, q)
      /\ holds' = [holds EXCEPT ![j.item] = Absent] \/ UNCHANGED holds
      /\ UNCHANGED <<scanVars, edits, edited, cleanups, before, overlap>>
  BY DEF CleanUpDelete, Holding, untouchedByCleanUp, DupInv, DupTyped
<1>2. q \in CleanUps /\ q.step = "item" /\ q.items = j.items /\ q.hash = j.hash
  BY <1>1 DEF CleanUps
<1>3. Active(c)
  BY <1>1 DEF Active
<1> HIDE DEF q
<1>4. CASE UNCHANGED holds
  <2>1. Undisturbed => \E k \in Copies : holds[k] = q.hash /\ k \notin q.items
    BY <1>1, <1>2 DEF DupInv, KeeperHolds
  <2>2. QED
    BY <1>1, <1>2, <1>3, <1>4, <2>1, DupGoesOn
<1>5. CASE holds' = [holds EXCEPT ![j.item] = Absent]
  <2>1. /\ clean_up' \in [Cleaners -> CleanUps] /\ clean_up'[c] = q
        /\ \A d \in Cleaners : d # c => clean_up'[d] = clean_up[d]
    BY <1>1, <1>2, Does DEF DupInv
  <2>2. /\ holds' \in [Copies -> Contents \cup {Absent}]
        /\ \A p \in Copies : p # j.item => holds'[p] = holds[p]
    BY <1>5 DEF DupInv, DupTyped
  <2>3. DupTyped'
    BY <1>1, <2>1, <2>2 DEF DupInv, DupTyped, scanVars
  <2>4. \A d \in Cleaners : Active(d)' => Active(d)
    BY <1>3, <2>1 DEF Active
  <2>5. OneAtATime'
    BY <1>1, <2>4 DEF DupInv, OneAtATime
  <2>6. ASSUME Undisturbed' PROVE Kept' /\ \A d \in Cleaners : KeeperHolds(d)'
    <3>1. Undisturbed
      BY <1>1, <2>6 DEF Undisturbed
    <3>2. PICK k \in Copies : holds[k] = j.hash /\ k \notin j.items /\ k # j.item
      BY <1>1, <3>1 DEF DupInv, KeeperHolds
    <3>3. holds'[k] = j.hash /\ holds[j.item] = j.hash
      BY <1>1, <2>2, <3>1, <3>2 DEF DupInv, KeeperHolds
    <3>4. Kept'
      <4> SUFFICES ASSUME NEW p \in Copies, before[p] # Absent
                   PROVE  \E x \in Copies : holds'[x] = before[p]
        BY <1>1 DEF Kept
      <4>1. PICK x \in Copies : holds[x] = before[p]
        BY <3>1 DEF DupInv, Kept
      <4>2. CASE x = j.item
        BY <3>3, <4>1, <4>2
      <4>3. CASE x # j.item
        BY <2>2, <4>1, <4>3
      <4>4. QED
        BY <4>2, <4>3
    <3>5. KeeperHolds(c)'
      BY <1>2, <2>1, <3>2, <3>3 DEF KeeperHolds
    <3>6. ASSUME NEW d \in Cleaners, d # c PROVE KeeperHolds(d)'
      <4>1. ~Active(d)
        BY <1>3, <3>1, <3>6 DEF DupInv, OneAtATime, Undisturbed
      <4>2. QED
        BY <2>1, <3>6, <4>1 DEF Active, KeeperHolds
    <3>7. QED
      BY <3>4, <3>5, <3>6
  <2>7. QED
    BY <2>3, <2>5, <2>6 DEF DupInv
<1>6. QED
  BY <1>1, <1>4, <1>5

\* A clean-up that starts alone takes the files as it finds them.
LEMMA DupStarts == ASSUME DupInv, NEW c \in Cleaners, CleanUpStart(c) PROVE DupInv'
<1>1. PICK chosen \in SUBSET groups \ {{}} :
         clean_up' = [clean_up EXCEPT ![c] = [Idle EXCEPT !.step = "group", !.groups = chosen]]
  BY DEF CleanUpStart
<1> DEFINE q == [Idle EXCEPT !.step = "group", !.groups = chosen]
<1>2. /\ UNCHANGED <<holds, scanVars, edits>>
      /\ \/ Other(c) /\ overlap' = TRUE /\ UNCHANGED <<before, edited>>
         \/ ~Other(c) /\ overlap' = FALSE /\ before' = holds /\ edited' = FALSE
  BY DEF CleanUpStart
<1>3. q \in CleanUps /\ q.step = "group" /\ Doing(c, q)
  BY <1>1 DEF Idle, CleanUps, DupInv, DupTyped, Doing
<1> HIDE DEF q
<1>4. /\ clean_up' \in [Cleaners -> CleanUps] /\ clean_up'[c] = q
      /\ \A d \in Cleaners : d # c => clean_up'[d] = clean_up[d]
  BY <1>3, Does DEF DupInv
<1>5. DupTyped'
  BY <1>2, <1>4 DEF DupInv, DupTyped, scanVars
<1>6. CASE Other(c)
  BY <1>2, <1>5, <1>6 DEF DupInv, OneAtATime, Undisturbed, Other
<1>7. CASE ~Other(c)
  <2>1. \A d \in Cleaners : d # c => ~Active(d)'
    BY <1>4, <1>7 DEF Other, Active
  <2>2. OneAtATime'
    BY <2>1 DEF OneAtATime
  <2>3. Kept'
    BY <1>2, <1>7 DEF Kept
  <2>4. \A d \in Cleaners : KeeperHolds(d)'
    BY <1>3, <1>4, <2>1 DEF KeeperHolds, Active
  <2>5. QED
    BY <1>5, <2>2, <2>3, <2>4 DEF DupInv
<1>8. QED
  BY <1>6, <1>7

\* Every step keeps the invariant.
LEMMA DupNextInv == DupInv /\ [DupNext]_dupVars => DupInv'
<1> SUFFICES ASSUME DupInv, [DupNext]_dupVars PROVE DupInv'
  OBVIOUS
<1>1. CASE ScanStart \/ ScanCancel \/ Walk \/ Sift \/ Hash \/ ScanEnd \/ ScanBreak
  <2>1. DupTyped' /\ UNCHANGED untouchedByScan
    BY <1>1, ScanTyped DEF DupInv
  <2>2. QED
    BY <2>1 DEF untouchedByScan, DupInv, OneAtATime, Active, Undisturbed, Kept, KeeperHolds
<1>2. ASSUME NEW p \in Copies, Edit(p) PROVE DupInv'
  <2>1. /\ holds' \in [Copies -> Contents \cup {Absent}] /\ edited' = TRUE
        /\ UNCHANGED <<scanVars, clean_up, overlap>>
    BY <1>2 DEF Edit, Holding, DupInv, DupTyped
  <2>2. QED
    BY <2>1 DEF DupInv, DupTyped, OneAtATime, Active, Undisturbed, scanVars
<1>3. CASE UNCHANGED dupVars
  BY <1>3 DEF dupVars, scanVars, DupInv, DupTyped, OneAtATime, Active, Undisturbed, Kept,
              KeeperHolds
<1>4. QED
  BY <1>1, <1>2, <1>3, DupStarts, DupReads, DupDeletes DEF DupNext

\* Of what a clean-up finds, a copy stays: whatever keepers were chosen and however old
\* the scan.  (tools/duplicates.py, cleanup)
THEOREM CopySafe == DupSpec => []CopyKept
<1>1. DupInv => CopyKept
  BY DEF DupInv, CopyKept, Undisturbed
<1>2. QED
  BY DupInitInv, DupNextInv, <1>1, PTL DEF DupSpec

-----------------------------------------------------------------------------
(* The model's API key. *)

KeySteps == {"idle", "look", "store", "check", "clean", "saved", "saveclean", "clearclean"}
Migrating == {"look", "store", "check", "clean"}
Tidying == {"clean", "saveclean", "clearclean"}

KeyTyped ==
    /\ pc \in [Threads -> KeySteps] /\ key \in [Threads -> Keys \cup {Old, None}]
    /\ store \in Keys \cup {Old, None} /\ legacy \in {Old, None}
    /\ attempted \in BOOLEAN /\ up \in BOOLEAN /\ raced \in BOOLEAN /\ cut \in BOOLEAN

\* Whoever migrates holds the lock and has the old key in hand; whoever has saved, a
\* user's key.
KeyInHand ==
    \A t \in Threads :
        /\ pc[t] \in Migrating => lock = t /\ key[t] = Old
        /\ pc[t] = "saved" => key[t] \in Keys

\* The user's key is not in the store only as long as it is the old one and nobody
\* has got to the point of tidying up.
NotYetStored ==
    store = None /\ last # None =>
        /\ legacy = Old /\ last = Old
        /\ migration \in {"unknown", "failed"}
        /\ \A t \in Threads : pc[t] \notin Tidying

\* What the store has is the user's last choice, unless a migration raced with it.
LastStored ==
    ~raced /\ last # None => store = last \/ store = None

\* Nobody stores the old key over another.
NothingUnder == ~raced => \A t \in Threads : pc[t] = "store" => store = None

Noted == attempted => migration # "unknown"

\* A key that was cleared is nowhere, but for the plain text that is about to go.
Cleared ==
    last = None /\ ~raced /\ ~cut =>
        /\ store = None
        /\ legacy = None \/ Clearing
        /\ \A t \in Threads : pc[t] \notin Migrating

KeyInv ==
    /\ KeyTyped /\ KeyInHand /\ NotYetStored /\ LastStored /\ NothingUnder /\ Noted
    /\ Cleared

\* At the start nobody works, and the only key is the one an older version left.
LEMMA KeyInit == SecretsInit => KeyInv
  BY SecretsAssumption
  DEF SecretsInit, KeyInv, KeyTyped, KeyInHand, NotYetStored, LastStored, NothingUnder, Noted,
      Cleared, KeySteps, Migrating, Tidying

USE DEF state, history

\* Nothing of the store, of the choice or of the plain text changes.
Untouched == UNCHANGED <<store, legacy, last, raced, cut>>

\* One thread goes on by a step.
LEMMA Going ==
    ASSUME KeyInv, NEW t \in Threads, NEW from, NEW to \in KeySteps, Goes(t, from, to)
    PROVE  /\ pc[t] = from /\ pc' \in [Threads -> KeySteps]
           /\ pc'[t] = to /\ \A u \in Threads : u # t => pc'[u] = pc[u]
  BY DEF Goes, KeyInv, KeyTyped

\* A thread that only goes on keeps the invariant if its new step allows it.
LEMMA KeyGoes ==
    ASSUME KeyInv, NEW t \in Threads, NEW to \in KeySteps, pc' = [pc EXCEPT ![t] = to],
           UNCHANGED <<store, legacy, last, raced>>,
           cut' \in BOOLEAN, cut => cut', pc[t] = "clearclean" => cut',
           UNCHANGED <<key, attempted, migration>>, up' \in BOOLEAN,
           lock' = lock \/ (lock' = None /\ to = "idle" /\ pc[t] \in Migrating),
           to \in Migrating => pc[t] \in Migrating,
           to = "saved" => pc[t] = "saved",
           to \in Tidying => store # None,
           to = "store" => store = None
    PROVE  KeyInv'
<1> USE DEF KeyInv
<1>1. pc' \in [Threads -> KeySteps] /\ pc'[t] = to /\ \A u \in Threads : u # t => pc'[u] = pc[u]
  BY DEF KeyTyped
<1>2. KeyTyped'
  BY <1>1 DEF KeyTyped
<1>3. KeyInHand'
  BY <1>1 DEF KeyInHand, Migrating
<1>4. NotYetStored'
  BY <1>1 DEF NotYetStored
<1>5. LastStored' /\ NothingUnder' /\ Noted'
  BY <1>1 DEF LastStored, NothingUnder, Noted
<1>6. Cleared'
  BY <1>1 DEF Cleared, Clearing, KeyTyped
<1>7. QED
  BY <1>2, <1>3, <1>4, <1>5, <1>6

\* A migration that settles does so with a status that says whether the key was moved.
LEMMA KeySettle ==
    ASSUME KeyInv, NEW t \in Threads, NEW s, Settle(t, s), UNCHANGED <<last, raced, cut, key>>,
           pc[t] # "clearclean", pc[t] \in Migrating \/ UNCHANGED <<store, legacy>>,
           \A u \in Threads : u # t => pc[u] \notin Migrating,
           s # "unknown", store' \in Keys \cup {Old, None}, legacy' \in {Old, None},
           store' = None /\ last # None => store = None /\ legacy' = Old /\ s = "failed",
           ~raced /\ last # None => store' = last \/ store' = None
    PROVE  KeyInv'
<1> USE DEF KeyInv, Settle
<1>1. /\ pc' \in [Threads -> KeySteps] /\ pc'[t] = "idle"
      /\ \A u \in Threads : u # t => pc'[u] = pc[u]
  BY DEF KeyTyped, KeySteps
<1>2. KeyTyped'
  BY <1>1 DEF KeyTyped
<1>3. KeyInHand'
  BY <1>1 DEF KeyInHand, Migrating
<1>4. NotYetStored'
  BY <1>1 DEF NotYetStored, Tidying
<1>5. LastStored' /\ NothingUnder' /\ Noted'
  BY <1>1 DEF LastStored, NothingUnder, Noted, Migrating
<1>6. Cleared'
  BY <1>1 DEF Cleared, Clearing, Migrating, KeyTyped
<1>7. QED
  BY <1>2, <1>3, <1>4, <1>5, <1>6

\* The lock keeps others from migrating.
LEMMA OneMigrates ==
    ASSUME KeyInv, NEW t \in Threads, pc[t] \in Migrating \/ lock = None
    PROVE  \A u \in Threads : u # t => pc[u] \notin Migrating
  BY SecretsAssumption DEF KeyInv, KeyInHand

\* The migration, step by step.
LEMMA KeyMigrates ==
    ASSUME KeyInv, NEW t \in Threads,
           \/ MigrateBegin(t) \/ MigrateLook(t) \/ MigrateStore(t)
           \/ MigrateCheck(t) \/ MigrateClean(t) \/ MigrateRaises(t)
    PROVE  KeyInv'
<1>0. /\ store \in Keys \cup {Old, None} /\ legacy \in {Old, None} /\ Old # None
      /\ {"failed", "not_needed", "migrated"} \cap {"unknown"} = {}
  BY SecretsAssumption DEF KeyInv, KeyTyped
<1>1. CASE MigrateBegin(t)
  <2>1. pc[t] = "idle" /\ lock = None /\ UNCHANGED <<store, legacy, last, cut>>
    BY <1>1 DEF MigrateBegin
  <2>2. CASE legacy = None
    <3>1. Settle(t, "not_needed") /\ UNCHANGED <<key, raced>>
      BY <1>1, <2>2 DEF MigrateBegin
    <3>2. \A u \in Threads : u # t => pc[u] \notin Migrating
      BY <2>1, OneMigrates
    <3>3. QED
      BY <1>0, <2>1, <2>2, <3>1, <3>2, KeySettle DEF KeyInv, NotYetStored, LastStored
  <2>3. CASE legacy = Old
    <3>1. /\ Goes(t, "idle", "look") /\ lock' = t /\ key' = [key EXCEPT ![t] = Old]
          /\ UNCHANGED <<migration, attempted, up>> /\ raced' = (raced \/ Clearing)
      BY <1>0, <1>1, <2>3 DEF MigrateBegin, Owner
    <3>2. pc' = [pc EXCEPT ![t] = "look"]
      BY <3>1 DEF Goes
    <3>3. /\ pc' \in [Threads -> KeySteps] /\ pc'[t] = "look"
          /\ \A u \in Threads : u # t => pc'[u] = pc[u] /\ key'[u] = key[u]
          /\ key' \in [Threads -> Keys \cup {Old, None}] /\ key'[t] = Old
      BY <3>1, <3>2 DEF KeyInv, KeyTyped, KeySteps
    <3>4. KeyTyped' /\ KeyInHand'
      BY <2>1, <3>1, <3>3, OneMigrates DEF KeyInv, KeyTyped, KeyInHand
    <3>5. NotYetStored' /\ LastStored' /\ NothingUnder' /\ Noted'
      BY <2>1, <3>1, <3>3 DEF KeyInv, NotYetStored, LastStored, NothingUnder, Noted, Tidying
    <3>6. Cleared'
      BY <1>0, <2>1, <2>3, <3>1 DEF KeyInv, Cleared
    <3>7. QED
      BY <3>4, <3>5, <3>6 DEF KeyInv
  <2>4. QED
    BY <1>0, <2>2, <2>3
<1>2. CASE MigrateLook(t)
  <2>1. pc[t] = "look" /\ Untouched /\ UNCHANGED key
    BY <1>2 DEF MigrateLook, Untouched, Goes
  <2>2. CASE /\ Goes(t, "look", NextStep)
             /\ UNCHANGED <<migration, attempted, lock, up>>
    BY <1>0, <2>1, <2>2, KeyGoes
    DEF Goes, KeyInv, KeyTyped, NextStep, KeySteps, Migrating, Tidying, Untouched
  <2>3. CASE store # None /\ Settle(t, "failed")
    BY <1>0, <2>1, <2>3, KeySettle, OneMigrates DEF Untouched, Migrating, KeyInv, LastStored
  <2>4. QED
    BY <1>2, <2>1, <2>2, <2>3 DEF MigrateLook
<1>3. CASE MigrateStore(t)
  <2>1. /\ pc[t] = "store" /\ key[t] = Old /\ lock = t
        /\ UNCHANGED <<legacy, last, raced, cut, key>>
    BY <1>3 DEF MigrateStore, KeyInv, KeyInHand, Migrating
  <2>2. PICK written \in BOOLEAN, ok \in BOOLEAN :
           /\ Write(key[t], written, ok)
           /\ IF ok
              THEN Goes(t, "store", "check") /\ UNCHANGED <<migration, attempted, lock, up>>
              ELSE Settle(t, "failed")
    BY <1>3 DEF MigrateStore
  <2>3. store' \in {store, Old} /\ (ok => store' = Old)
    BY <2>1, <2>2 DEF Write
  <2>4. ~raced /\ last # None => store' = last \/ store' = None
    BY <2>1, <2>3 DEF KeyInv, NothingUnder, NotYetStored
  <2>5. CASE ok
    <3>1. /\ Goes(t, "store", "check") /\ UNCHANGED <<migration, attempted, lock, up>>
          /\ store' = Old
      BY <2>2, <2>3, <2>5
    <3>2. pc' = [pc EXCEPT ![t] = "check"]
      BY <3>1 DEF Goes
    <3>3. /\ pc' \in [Threads -> KeySteps] /\ pc'[t] = "check"
          /\ \A u \in Threads : u # t => pc'[u] = pc[u]
      BY <3>2 DEF KeyInv, KeyTyped, KeySteps
    <3>4. KeyTyped' /\ KeyInHand'
      BY <2>1, <3>1, <3>3 DEF KeyInv, KeyTyped, KeyInHand, Migrating
    <3>5. NotYetStored' /\ LastStored' /\ Noted'
      BY <1>0, <2>1, <2>4, <3>1 DEF KeyInv, NotYetStored, LastStored, Noted
    <3>6. NothingUnder'
      <4>1. \A u \in Threads : u # t => pc[u] \notin Migrating
        BY <2>1, OneMigrates DEF Migrating
      <4>2. QED
        BY <3>3, <4>1 DEF NothingUnder, Migrating
    <3>7. Cleared'
      BY <2>1 DEF KeyInv, Cleared, Migrating
    <3>8. QED
      BY <3>4, <3>5, <3>6, <3>7 DEF KeyInv
  <2>6. CASE ~ok
    <3>1. Settle(t, "failed")
      BY <2>2, <2>6
    <3>2. store' = None /\ last # None => store = None /\ legacy' = Old
      BY <1>0, <2>1, <2>3 DEF KeyInv, NotYetStored
    <3>3. QED
      BY <1>0, <2>1, <2>3, <2>4, <3>1, <3>2, KeySettle, OneMigrates DEF Migrating
  <2>7. QED
    BY <2>5, <2>6
<1>4. CASE MigrateCheck(t)
  <2>1. pc[t] = "check" /\ key[t] = Old /\ Untouched /\ UNCHANGED key
    BY <1>4 DEF MigrateCheck, Untouched, Goes, KeyInv, KeyInHand, Migrating
  <2>2. CASE Same(t) /\ Goes(t, "check", "clean") /\ UNCHANGED <<migration, attempted, lock, up>>
    BY <1>0, <2>1, <2>2, KeyGoes
    DEF Goes, KeyInv, KeyTyped, Same, KeySteps, Migrating, Tidying, Untouched
  <2>3. CASE Settle(t, "failed")
    BY <1>0, <2>1, <2>3, KeySettle, OneMigrates
    DEF Untouched, Migrating, KeyInv, LastStored, NotYetStored
  <2>4. QED
    BY <1>4, <2>2, <2>3 DEF MigrateCheck
<1>5. CASE MigrateClean(t)
  <2>1. /\ pc[t] = "clean" /\ UNCHANGED <<store, last, raced, cut, key>> /\ Settle(t, "migrated")
        /\ legacy' = None
    BY <1>5 DEF MigrateClean, Settle, Goes, Write, KeyInv
  <2>2. store = None => last = None
    BY <2>1 DEF KeyInv, NotYetStored, Tidying
  <2>3. QED
    BY <1>0, <2>1, <2>2, KeySettle, OneMigrates DEF Migrating, KeyInv, LastStored
<1>6. CASE MigrateRaises(t)
  <2>1. pc[t] = "clean" /\ Untouched /\ UNCHANGED key
    BY <1>6 DEF MigrateRaises, Untouched
  <2>2. /\ pc' = [pc EXCEPT ![t] = "idle"] /\ lock' = None /\ up' = TRUE
        /\ UNCHANGED <<migration, attempted>>
    BY <1>6 DEF MigrateRaises
  <2>3. QED
    BY <2>1, <2>2, KeyGoes DEF KeyInv, KeyTyped, KeySteps, Migrating, Tidying, Untouched
<1>7. QED
  BY <1>1, <1>2, <1>3, <1>4, <1>5, <1>6

\* A save reaches the store together with the user's choice, or neither happens.
LEMMA KeySaves ==
    ASSUME KeyInv, NEW t \in Threads, SaveStore(t)
    PROVE  KeyInv'
<1>1. /\ pc[t] = "idle" /\ UNCHANGED <<legacy, migration, attempted, lock, up>>
      /\ \A k \in Keys : k # None
  BY SecretsAssumption DEF SaveStore
<1>2. PICK k \in Keys, written \in BOOLEAN, ok \in BOOLEAN :
         /\ Write(k, written, ok)
         /\ IF written THEN Choose(k) ELSE UNCHANGED <<last, raced, cut>>
         /\ IF ok THEN /\ pc' = [pc EXCEPT ![t] = "saved"] /\ key' = [key EXCEPT ![t] = k]
            ELSE UNCHANGED <<pc, key>>
  BY <1>1 DEF SaveStore
<1>3. /\ store' = (IF written THEN k ELSE store) /\ last' = (IF written THEN k ELSE last)
      /\ raced' \in BOOLEAN /\ (raced => raced') /\ (ok => written)
      /\ cut' \in BOOLEAN /\ (~written => UNCHANGED <<raced, cut>>)
      /\ written /\ lock # None => raced'
  BY <1>2 DEF Write, Choose, KeyInv, KeyTyped
<1>4. /\ pc' \in [Threads -> KeySteps] /\ key' \in [Threads -> Keys \cup {Old, None}]
      /\ \A u \in Threads : u # t => pc'[u] = pc[u] /\ key'[u] = key[u]
      /\ \/ ok /\ pc'[t] = "saved" /\ key'[t] = k
         \/ ~ok /\ pc'[t] = "idle" /\ key'[t] = key[t]
  BY <1>1, <1>2 DEF KeyInv, KeyTyped, KeySteps
<1>5. KeyTyped' /\ KeyInHand' /\ Noted'
  BY <1>1, <1>3, <1>4 DEF KeyInv, KeyTyped, KeyInHand, Migrating, Noted
<1>6. NotYetStored' /\ LastStored'
  BY <1>1, <1>3, <1>4 DEF KeyInv, NotYetStored, LastStored, Tidying
<1>7. NothingUnder'
  <2>1. CASE lock = None
    <3>1. \A u \in Threads : pc[u] # "store"
      BY <2>1, SecretsAssumption DEF KeyInv, KeyInHand, Migrating
    <3>2. QED
      BY <1>4, <3>1 DEF NothingUnder
  <2>2. CASE ~written
    BY <1>3, <1>4, <2>2 DEF KeyInv, NothingUnder
  <2>3. CASE lock # None /\ written
    BY <1>3, <2>3 DEF NothingUnder
  <2>4. QED
    BY <2>1, <2>2, <2>3
<1>8. Cleared'
  <2>1. CASE written
    BY <1>1, <1>3, <2>1 DEF Cleared
  <2>2. CASE ~written
    <3>1. UNCHANGED <<store, legacy, last, raced, cut, pc>>
      BY <1>1, <1>2, <1>3, <2>2
    <3>2. QED
      BY <3>1 DEF KeyInv, Cleared, Clearing
  <2>3. QED
    BY <2>1, <2>2
<1>9. QED
  BY <1>5, <1>6, <1>7, <1>8 DEF KeyInv

\* What is cleared was chosen to be, or is not cleared.
LEMMA KeyClears ==
    ASSUME KeyInv, NEW t \in Threads, ClearStore(t)
    PROVE  KeyInv'
<1>1. pc[t] = "idle" /\ UNCHANGED <<legacy, lock, up, key>>
  BY DEF ClearStore
<1>2. CASE /\ store' = None /\ Choose(None) /\ pc' = [pc EXCEPT ![t] = "clearclean"]
           /\ UNCHANGED <<migration, attempted>>
  <2>1. /\ last' = None /\ raced' \in BOOLEAN /\ (raced => raced') /\ cut' = FALSE
        /\ lock # None => raced'
    BY <1>2 DEF Choose, KeyInv, KeyTyped
  <2>2. /\ pc' \in [Threads -> KeySteps] /\ pc'[t] = "clearclean"
        /\ \A u \in Threads : u # t => pc'[u] = pc[u]
    BY <1>2 DEF KeyInv, KeyTyped, KeySteps
  <2>3. Cleared'
    <3>1. CASE lock = None
      <4>1. \A u \in Threads : pc[u] \notin Migrating
        BY <3>1, SecretsAssumption DEF KeyInv, KeyInHand
      <4>2. QED
        BY <1>2, <2>2, <4>1 DEF Cleared, Clearing, Migrating
    <3>2. CASE lock # None
      BY <2>1, <3>2 DEF Cleared
    <3>3. QED
      BY <3>1, <3>2
  <2>4. QED
    BY <1>1, <1>2, <2>1, <2>2, <2>3
    DEF KeyInv, KeyTyped, KeyInHand, Migrating, NotYetStored, LastStored, NothingUnder, Noted
<1>3. CASE /\ store # None /\ migration' = "clear_failed" /\ attempted' = TRUE
           /\ UNCHANGED <<store, last, raced, cut, pc>>
  BY <1>1, <1>3
  DEF KeyInv, KeyTyped, KeyInHand, Migrating, NotYetStored, LastStored, NothingUnder, Noted,
      Cleared, Clearing
<1>4. QED
  BY <1>2, <1>3 DEF ClearStore

\* Tidying up comes when the plain text is not needed any more.
LEMMA KeyTidies ==
    ASSUME KeyInv, NEW t \in Threads,
           SaveCheck(t) \/ SaveClean(t) \/ ClearClean(t) \/ TidyRaises(t)
    PROVE  KeyInv'
<1>1. CASE SaveCheck(t)
  <2>1. /\ pc[t] = "saved" /\ Untouched /\ UNCHANGED <<migration, attempted, lock, up, key>>
        /\ \/ store = key[t] /\ pc' = [pc EXCEPT ![t] = "saveclean"]
           \/ pc' = [pc EXCEPT ![t] = "idle"]
    BY <1>1 DEF SaveCheck, Goes, Same, Untouched
  <2>2. key[t] # None
    BY <2>1, SecretsAssumption DEF KeyInv, KeyInHand
  <2>3. QED
    BY <2>1, <2>2, KeyGoes DEF KeySteps, Migrating, Tidying, KeyInv, KeyTyped, Untouched
<1>2. CASE SaveClean(t) \/ ClearClean(t)
  <2>1. /\ pc[t] \in Tidying \ {"clean"} /\ pc' = [pc EXCEPT ![t] = "idle"]
        /\ legacy' = None /\ migration' \in {"configured", "cleared"} /\ attempted' = TRUE
        /\ UNCHANGED <<store, lock, up, key, last, raced, cut>>
    BY <1>2 DEF SaveClean, ClearClean, Tidy, Goes, Tidying
  <2>2. store = None => last = None
    BY <2>1 DEF KeyInv, NotYetStored
  <2>3. /\ pc' \in [Threads -> KeySteps] /\ pc'[t] = "idle"
        /\ \A u \in Threads : u # t => pc'[u] = pc[u]
    BY <2>1 DEF KeyInv, KeyTyped, KeySteps
  <2>4. KeyTyped' /\ KeyInHand' /\ Noted'
    BY <2>1, <2>3 DEF KeyInv, KeyTyped, KeyInHand, Migrating, Noted
  <2>5. NotYetStored' /\ LastStored' /\ NothingUnder'
    BY <2>1, <2>2, <2>3 DEF KeyInv, NotYetStored, LastStored, NothingUnder
  <2>6. Cleared'
    BY <2>1, <2>3 DEF KeyInv, Cleared, Migrating
  <2>7. QED
    BY <2>4, <2>5, <2>6 DEF KeyInv
<1>3. CASE TidyRaises(t)
  <2>1. /\ pc[t] \in {"saveclean", "clearclean"} /\ pc' = [pc EXCEPT ![t] = "idle"]
        /\ UNCHANGED <<store, legacy, last, raced>>
        /\ UNCHANGED <<migration, attempted, lock, up, key>>
        /\ cut' = (cut \/ pc[t] = "clearclean")
    BY <1>3 DEF TidyRaises, Goes
  <2>2. QED
    BY <2>1, KeyGoes DEF KeySteps, Migrating, Tidying, KeyInv, KeyTyped
<1>4. QED
  BY <1>1, <1>2, <1>3

\* Every step keeps the invariant.
LEMMA KeyNext == KeyInv /\ [SecretsNext]_keyVars => KeyInv'
<1> SUFFICES ASSUME KeyInv, [SecretsNext]_keyVars PROVE KeyInv'
  OBVIOUS
<1>1. CASE ProcessStops
  <2>1. /\ pc' = [t \in Threads |-> "idle"] /\ key' = [t \in Threads |-> None]
        /\ UNCHANGED <<store, legacy, last, raced>> /\ cut' = (cut \/ Clearing)
        /\ migration' = "unknown" /\ attempted' = FALSE /\ up' = FALSE
    BY <1>1 DEF ProcessStops
  <2>2. KeyTyped' /\ KeyInHand'
    BY <2>1 DEF KeyInv, KeyTyped, KeyInHand, KeySteps, Migrating
  <2>3. NotYetStored' /\ LastStored' /\ NothingUnder' /\ Noted'
    BY <2>1 DEF KeyInv, NotYetStored, LastStored, NothingUnder, Noted, Tidying
  <2>4. Cleared'
    BY <2>1 DEF KeyInv, Cleared, Migrating
  <2>5. QED
    BY <2>2, <2>3, <2>4 DEF KeyInv
<1>2. CASE UNCHANGED keyVars
  BY <1>2
  DEF keyVars, KeyInv, KeyTyped, KeyInHand, NotYetStored, LastStored, NothingUnder, Noted,
      Cleared, Clearing
<1>3. QED
  BY <1>1, <1>2, KeyMigrates, KeySaves, KeyClears, KeyTidies DEF SecretsNext

\* Whatever access fails and wherever the process stops, the key the user gave last and
\* did not clear is what the store has, or the store has none and the key is the old one,
\* still in the database: unless a migration raced with that choice.
\* (migrate_legacy_api_key, set_api_key, llm_config.py)
THEOREM KeySafe == SecretsSpec => []KeyNeverLost
<1>1. KeyInv => KeyNeverLost
  BY DEF KeyInv, NotYetStored, LastStored, KeyNeverLost
<1>2. QED
  BY KeyInit, KeyNext, <1>1, PTL DEF SecretsSpec

\* Between requests no other key is served than the one the user chose last, and none but
\* that of the environment when he cleared it: unless a migration raced with that choice or
\* the clear ended half way.  (resolve_api_key)
THEOREM ServedKeySafe == SecretsSpec => []ChosenKeyServed
<1>1. KeyInv => ChosenKeyServed
  BY DEF KeyInv, NotYetStored, LastStored, Noted, Cleared, ChosenKeyServed, Resolved, Quiet
<1>2. QED
  BY KeyInit, KeyNext, <1>1, PTL DEF SecretsSpec

-----------------------------------------------------------------------------
(* What the client shows. *)

\* What is on the wire, and what is on its way as an answer.
ViewEvents ==
    [thread : Talkers, type : {"node", "approval", "approval_required", "done", "error"},
     id : Nat]

ViewAnswers == [thread : Talkers, status : {"running", "waiting", "ended"}, id : Nat]

\* The back end: a run and its checkpoint go together, and a thread starts with a message.
\* (main.py, _run_stream)
ServerTyped ==
    /\ stage \in [Talkers -> {"idle", "begun", "running"}]
    /\ saved \in [Talkers -> {"none", "running", "waiting", "ended"}]
    /\ asked \in [Talkers -> Nat] /\ waiting \in [Talkers -> Nat]
    /\ sent \in [Talkers -> Nat]
    /\ \A t \in Talkers :
          /\ stage[t] = "running" => saved[t] = "running"
          /\ sent[t] = 0 => stage[t] = "idle" /\ saved[t] = "none" /\ waiting[t] = 0

\* The connection: what was on it is gone when it breaks.
NetworkTyped ==
    /\ link \in {"up", "down"} /\ wire \in Seq(ViewEvents) /\ gets \subseteq ViewAnswers
    /\ answering \subseteq Talkers \X Nat
    /\ link = "down" => wire = <<>>

\* What the client keeps. (App.tsx, App)
ShownTyped ==
    /\ active \in Talkers \cup {Nobody} /\ newest \in Talkers \cup {Nobody}
    /\ views \in [Talkers -> {"none", "busy", "idle"}] /\ detached \subseteq Talkers
    /\ approvals \subseteq Talkers \X Nat
ViewTyped == ServerTyped /\ NetworkTyped /\ ShownTyped

\* Position i of w has an event of thread t and of one of the types.
At(w, i, t, types) == w[i].thread = t /\ w[i].type \in types

\* Events that put an approval up, and events that take it down. (App.tsx, handleSocketEvent)
Asks == {"approval_required"}
Clears == {"approval", "done"}

\* Something happens, or is waited for, in a thread.
Live(t) == stage[t] # "idle" \/ waiting[t] > 0 \/ saved[t] = "waiting"

\* A thread in the foreground is no other's, and a new conversation is not yet heard of.
Foreground ==
    /\ active \notin Timed \cup detached
    /\ active # Nobody => views[active] # "busy"

Unheard(t) ==
    sent[t] = 0 =>
       /\ views[t] = "none" /\ t # active /\ t \notin detached
       /\ \A i \in 1..Len(wire) : wire[i].thread # t
       /\ \A g \in gets : g.thread # t
       /\ \A a \in approvals : a[1] # t

\* A conversation just sent for waits for its first event under no name. (App.tsx, sendChat)
Fresh ==
    active = Nobody /\ busy =>
       /\ newest \in Chats \ detached
       /\ \A i \in 1..Len(wire) : ~At(wire, i, newest, {"error"})
       /\ \A a \in approvals : a[1] # newest
       /\ waiting[newest] > 0 =>
             saved[newest] = "none" /\ stage[newest] = "idle" /\ waiting[newest] = 1

\* A thread shown busy is alive, or its last event or its answer is still to come.
BusyOwed(t) ==
    link = "up" /\ ShownBusy(t) =>
       \/ Live(t)
       \/ \E i \in 1..Len(wire) : At(wire, i, t, {"done"})
       \/ \E g \in gets : g.thread = t /\ g.status = "ended"

\* Progress is only told of a thread that is alive or whose end is told after it.
LiveEvents(t) ==
    \A i \in 1..Len(wire) : At(wire, i, t, {"node", "approval", "approval_required"}) =>
       Live(t) \/ \E j \in 1..Len(wire) : i < j /\ At(wire, j, t, {"done"})

\* The approval a thread waits for, and those the client offers for it.
Truth(t) == IF saved[t] = "waiting" THEN {<<t, asked[t]>>} ELSE {}
Offers(t) == {a \in approvals : a[1] = t}

\* Handling all of wire w takes the client from what it offers to the truth: asks and clears
\* alternate, the last one is right, and with none left what is offered is right already.
Consistent(w, t, offers, truth, pending) ==
    /\ \A i \in 1..Len(w) : At(w, i, t, Asks) =>
          truth = {<<t, w[i].id>>} \/ \E j \in 1..Len(w) : i < j /\ At(w, j, t, Clears)
    /\ \A i \in 1..Len(w) : At(w, i, t, Clears) =>
          truth = {} \/ \E j \in 1..Len(w) : i < j /\ At(w, j, t, Asks)
    /\ \A i, k \in 1..Len(w) : At(w, i, t, Asks) /\ At(w, k, t, Asks) /\ i < k =>
          \E j \in 1..Len(w) : i < j /\ j < k /\ At(w, j, t, Clears)
    /\ \A i \in 1..Len(w) : At(w, i, t, Asks) =>
          offers \subseteq {<<t, w[i].id>>}
          \/ \E j \in 1..Len(w) : j < i /\ At(w, j, t, Clears)
    /\ (\A i \in 1..Len(w) : ~At(w, i, t, Asks \cup Clears)) =>
          offers \subseteq truth /\ (pending => truth \subseteq offers)

\* An answer that will have no effect, as the thread has gone on since: nobody may count on it,
\* and the gap Outdated says when it is handled.
Over(g) ==
    g.id # asked[g.thread] \/ (g.status = "waiting" /\ saved[g.thread] # "waiting")

\* An answer that will put the client right.
Owed(g) ==
    /\ ~Over(g)
    /\ \/ g.status = "ended"
       \/ /\ g.status = "waiting" /\ Offers(g.thread) \subseteq Truth(g.thread)
          /\ \A i \in 1..Len(wire) : ~At(wire, i, g.thread, Clears)

\* No event names an approval that was not asked for.
Numbered ==
    \A i \in 1..Len(wire) : wire[i].type = "approval_required" =>
       wire[i].id <= asked[wire[i].thread]

\* No ask on the wire is older than an answer, and what has ended stays so until asked again.
AnswerKept(g) ==
    /\ g.id <= asked[g.thread]
    /\ \A i \in 1..Len(wire) : At(wire, i, g.thread, Asks) => wire[i].id > g.id
    /\ g.status # "waiting" /\ g.id = asked[g.thread] => saved[g.thread] # "waiting"

\* What is offered for a thread is put right by an answer or by the wire.
OfferOwed(t) ==
    link = "up" =>
       \/ \E g \in gets : g.thread = t /\ (Over(g) \/ Owed(g))
       \/ Consistent(wire, t, Offers(t), Truth(t), Pending(t))

\* A decision under way has resumed its thread.
Answered(a) ==
    /\ a[2] <= asked[a[1]]
    /\ saved[a[1]] = "waiting" /\ asked[a[1]] = a[2] => stage[a[1]] = "begun"

\* The two invariants, which hold until the first gap.
BusyGood ==
    /\ Foreground /\ Fresh
    /\ \A t \in Talkers : Unheard(t) /\ BusyOwed(t) /\ LiveEvents(t)
OfferGood ==
    /\ Numbered
    /\ \A g \in gets : AnswerKept(g)
    /\ \A a \in answering : Answered(a)
    /\ \A t \in Talkers : OfferOwed(t)

\* At the start nothing is known and nothing connected.
LEMMA ViewTypedInit == ClientInit => ViewTyped
BY DEF ClientInit, ViewTyped, ServerTyped, NetworkTyped, ShownTyped

\* An event sent is a well-formed one.
LEMMA SendTyped ==
    ASSUME NetworkTyped, NEW t \in Talkers,
           NEW type \in {"node", "approval", "approval_required", "done", "error"},
           NEW id \in Nat, NEW to, Send(t, type, id, to), UNCHANGED <<link, gets, answering>>
    PROVE  NetworkTyped'
<1>1. [thread |-> t, type |-> type, id |-> id] \in ViewEvents
  BY DEF ViewEvents
<1> QED
  BY <1>1 DEF Send, NetworkTyped

\* Handling an event leaves the client's state well formed. (App.tsx, handleSocketEvent)
LEMMA HandleTyped ==
    ASSUME ShownTyped, NEW t \in Talkers, NEW type, NEW id \in Nat, Handle(type, t, id),
           UNCHANGED newest
    PROVE  ShownTyped'
<1>1. views' \in [Talkers -> {"none", "busy", "idle"}]
  BY DEF ShownTyped, Handle, Reduced
<1>2. approvals' \subseteq Talkers \X Nat
  BY DEF ShownTyped, Handle, Offered, Without
<1> QED
  BY <1>1, <1>2 DEF ShownTyped, Handle

\* So does a decision, for the back end. (main.py, _resume_approval)
LEMMA ResumeTyped ==
    ASSUME ServerTyped, NEW t \in Talkers, Pending(t), Resume(t), UNCHANGED sent
    PROVE  ServerTyped'
<1>1. stage' \in [Talkers -> {"idle", "begun", "running"}]
  BY DEF ServerTyped, Resume, To
<1>2. ASSUME NEW u \in Talkers
      PROVE  /\ stage'[u] = "running" => saved[u] = "running"
             /\ sent[u] = 0 => stage'[u] = "idle"
  BY DEF ServerTyped, Resume, Pending, To
<1> QED
  BY <1>1, <1>2 DEF ServerTyped, Resume

\* Every step keeps the types.
LEMMA ViewTypedNext == ViewTyped /\ [ClientNext]_clientVars => ViewTyped'
<1> SUFFICES ASSUME ViewTyped, [ClientNext]_clientVars PROVE ViewTyped'
  OBVIOUS
<1> USE ClientAssumption DEF server, network, shown, ghosts, ViewTyped
<1>a. ASSUME UNCHANGED <<stage, saved, asked, waiting, sent>> PROVE ServerTyped'
  BY <1>a DEF ServerTyped
<1>b. ASSUME UNCHANGED network PROVE NetworkTyped'
  BY <1>b DEF NetworkTyped
<1>c. ASSUME UNCHANGED <<shown, newest>> PROVE ShownTyped'
  BY <1>c DEF ShownTyped
<1>1. ASSUME NEW t \in Talkers, BeginChat(t) PROVE ViewTyped'
  <2>1. waiting[t] - 1 \in Nat /\ waiting' = [waiting EXCEPT ![t] = waiting[t] - 1]
    BY <1>1 DEF BeginChat, ServerTyped
  <2>2. ServerTyped'
    <3>1. waiting' \in [Talkers -> Nat] /\ UNCHANGED <<saved, asked, sent>>
      BY <1>1, <2>1 DEF BeginChat, ServerTyped
    <3>2. stage' \in [Talkers -> {"idle", "begun", "running"}]
      <4>1. CASE UNCHANGED stage
        BY <4>1 DEF ServerTyped
      <4>2. CASE To(t, "begun")
        BY <4>2 DEF ServerTyped, To
      <4> QED
        BY <1>1, <4>1, <4>2 DEF BeginChat
    <3>3. ASSUME NEW u \in Talkers
          PROVE  /\ stage'[u] = "running" => saved[u] = "running"
                 /\ sent[u] = 0 => stage'[u] = "idle" /\ waiting'[u] = 0
      <4>1. CASE UNCHANGED stage
        BY <2>1, <4>1 DEF ServerTyped
      <4>2. CASE To(t, "begun") /\ saved[t] # "waiting"
        BY <1>1, <2>1, <4>2 DEF BeginChat, ServerTyped, To
      <4> QED
        BY <1>1, <4>1, <4>2 DEF BeginChat
    <3> QED
      BY <3>1, <3>2, <3>3 DEF ServerTyped
  <2>3. NetworkTyped'
    BY <1>1, <1>b, SendTyped DEF BeginChat
  <2> QED
    BY <1>1, <1>c, <2>2, <2>3 DEF BeginChat
<1>2. ASSUME NEW t \in Talkers, FireTimed(t) PROVE ViewTyped'
  <2>1. ServerTyped'
    BY <1>2 DEF FireTimed, ServerTyped, To
  <2> QED
    BY <1>2, <1>b, <1>c, <2>1 DEF FireTimed
<1>3. ASSUME NEW t \in Talkers, FirstItem(t) PROVE ViewTyped'
  <2>1. ServerTyped'
    BY <1>3 DEF FirstItem, ServerTyped, To, Untold
  <2>2. NetworkTyped'
    BY <1>3, SendTyped DEF FirstItem
  <2> QED
    BY <1>3, <1>c, <2>1, <2>2 DEF FirstItem, Untold
<1>4. ASSUME NEW t \in Talkers, EndStream(t) PROVE ViewTyped'
  <2>1. asked[t] + 1 \in Nat
    BY DEF ServerTyped
  <2>2. ServerTyped'
    <3>1. UNCHANGED <<waiting, sent>> /\ asked' \in [Talkers -> Nat]
      BY <1>4, <2>1 DEF EndStream, ServerTyped, Untold
    <3>2. /\ stage' \in [Talkers -> {"idle", "begun", "running"}]
          /\ saved' \in [Talkers -> {"none", "running", "waiting", "ended"}]
      BY <1>4 DEF EndStream, ServerTyped, To
    <3>3. ASSUME NEW u \in Talkers
          PROVE  /\ stage'[u] = "running" => saved'[u] = "running"
                 /\ sent[u] = 0 => stage'[u] = "idle" /\ saved'[u] = "none"
      BY <1>4 DEF EndStream, ServerTyped, To
    <3> QED
      BY <3>1, <3>2, <3>3 DEF ServerTyped
  <2>3. NetworkTyped'
    BY <1>4, <2>1, SendTyped DEF EndStream
  <2> QED
    BY <1>4, <1>c, <2>2, <2>3 DEF EndStream, Untold
<1>19. ASSUME NEW t \in Talkers, StreamRaises(t) PROVE ViewTyped'
  <2>1. ServerTyped'
    BY <1>19 DEF StreamRaises, ServerTyped, To
  <2>2. NetworkTyped'
    BY <1>19, SendTyped DEF StreamRaises
  <2> QED
    BY <1>19, <1>c, <2>1, <2>2 DEF StreamRaises
<1>5. ASSUME Break, UNCHANGED answering PROVE NetworkTyped'
  BY <1>5, EmptySeq DEF Break, NetworkTyped
<1>6. ASSUME NEW t \in Talkers, SendChat(t) PROVE ViewTyped'
  <2>1. ASSUME Accepted(t) PROVE ServerTyped'
    <3>1. /\ waiting' \in [Talkers -> Nat] /\ sent' \in [Talkers -> Nat]
          /\ UNCHANGED <<stage, saved, asked>>
      BY <2>1 DEF Accepted, ServerTyped
    <3>2. ASSUME NEW u \in Talkers, sent'[u] = 0 PROVE sent[u] = 0 /\ waiting'[u] = waiting[u]
      BY <2>1, <3>2 DEF Accepted, ServerTyped
    <3> QED
      BY <3>1, <3>2 DEF ServerTyped
  <2>2. ServerTyped'
    BY <1>6, <1>a, <2>1 DEF SendChat
  <2>3. NetworkTyped'
    BY <1>6, <1>b, <1>5 DEF SendChat
  <2>4. ShownTyped'
    BY <1>6 DEF SendChat, ShownTyped
  <2> QED
    BY <2>2, <2>3, <2>4
<1>7. ASSUME NEW t \in Talkers, Stop(t) PROVE ViewTyped'
  BY <1>7, <1>b, <1>c, ResumeTyped DEF Stop
<1>8. ASSUME NEW t \in Talkers, Switch(t) PROVE ViewTyped'
  <2>1. ShownTyped'
    BY <1>8 DEF Switch, ShownTyped
  <2> QED
    BY <1>8, <1>a, <1>b, <2>1 DEF Switch
<1>9. ASSUME NEW g \in gets, Reconcile(g) PROVE ViewTyped'
  <2>1. g.thread \in Talkers /\ g.id \in Nat
    BY DEF NetworkTyped, ViewAnswers
  <2>2. ShownTyped'
    BY <1>9, <2>1, HandleTyped DEF Reconcile
  <2>3. NetworkTyped'
    BY <1>9 DEF Reconcile, NetworkTyped
  <2> QED
    BY <1>9, <1>a, <2>2, <2>3 DEF Reconcile
<1>10. ASSUME NEW a \in approvals, Decide(a) PROVE ViewTyped'
  <2>1. a[1] \in Talkers /\ a \in Talkers \X Nat
    BY DEF ShownTyped
  <2>2. UNCHANGED <<link, gets, shown, ghosts>>
    BY <1>10 DEF Decide
  <2>3. CASE Pending(a[1]) /\ Resume(a[1]) /\ answering' \subseteq {a} /\ UNCHANGED wire
    <3>1. NetworkTyped'
      BY <2>1, <2>2, <2>3 DEF NetworkTyped
    <3> QED
      BY <1>c, <2>1, <2>2, <2>3, <3>1, ResumeTyped
  <2>4. CASE Send(a[1], "error", 0, TRUE) /\ UNCHANGED <<server, answering>>
    BY <1>a, <1>c, <2>1, <2>2, <2>4, SendTyped
  <2> QED
    BY <1>10, <2>3, <2>4 DEF Decide
<1>11. ASSUME NEW a \in answering, Decided(a) PROVE ViewTyped'
  <2>1. NetworkTyped' /\ ShownTyped'
    BY <1>11 DEF Decided, NetworkTyped, ShownTyped
  <2> QED
    BY <1>11, <1>a, <2>1 DEF Decided
<1>12. CASE Receive
  <2>1. wire # <<>> /\ wire \in Seq(ViewEvents)
    BY <1>12 DEF Receive, NetworkTyped
  <2>2. Head(wire) \in ViewEvents /\ Tail(wire) \in Seq(ViewEvents)
    BY <2>1, HeadTailProperties
  <2>3. Head(wire).thread \in Talkers /\ Head(wire).id \in Nat
    BY <2>2 DEF ViewEvents
  <2>4. Handle(Head(wire).type, Head(wire).thread, Head(wire).id) /\ UNCHANGED newest
    BY <1>12 DEF Receive
  <2>5. NetworkTyped'
    BY <1>12, <2>1, <2>2 DEF Receive, NetworkTyped
  <2> QED
    BY <1>12, <1>a, <2>3, <2>4, <2>5, HandleTyped DEF Receive
<1>13. CASE Drop
  BY <1>13, <1>a, <1>c, <1>5 DEF Drop
<1>14. CASE Open
  <2>1. ASSUME NEW t \in Talkers, saved[t] # "none" PROVE Answer(t) \in ViewAnswers
    BY <2>1 DEF Answer, ViewAnswers, ServerTyped
  <2>2. ToReconcile \subseteq Talkers
    BY DEF ToReconcile, ShownTyped
  <2>3. NetworkTyped'
    BY <1>14, <2>1, <2>2 DEF Open, NetworkTyped
  <2> QED
    BY <1>14, <1>a, <1>c, <2>3 DEF Open
<1>15. CASE NewConversation
  <2>1. ShownTyped'
    BY <1>15 DEF NewConversation, ShownTyped
  <2> QED
    BY <1>15, <1>a, <1>b, <2>1 DEF NewConversation
<1>16. CASE Leave
  <2>1. ShownTyped'
    BY <1>16 DEF Leave, ShownTyped
  <2>2. active # Nobody => active \in Talkers
    BY DEF ShownTyped
  <2>3. ServerTyped'
    BY <1>16, <1>a, <2>2, ResumeTyped DEF Leave, CancelAt
  <2> QED
    BY <1>16, <1>b, <2>1, <2>3 DEF Leave
<1>17. CASE Watchdog
  <2>1. ShownTyped'
    BY <1>17 DEF Watchdog, ShownTyped
  <2> QED
    BY <1>17, <1>a, <1>b, <2>1 DEF Watchdog
<1>18. CASE UNCHANGED clientVars
  BY <1>18, <1>a, <1>b, <1>c DEF clientVars
<1> QED
  BY <1>1, <1>2, <1>3, <1>4, <1>6, <1>7, <1>8, <1>9, <1>10, <1>11, <1>12, <1>13,
     <1>14, <1>15, <1>16, <1>17, <1>18, <1>19 DEF ClientNext

\* A wire longer by one.
LEMMA Appended ==
    ASSUME NEW w \in Seq(ViewEvents), NEW e \in ViewEvents
    PROVE  /\ Append(w, e) \in Seq(ViewEvents) /\ Len(w) \in Nat
           /\ Len(Append(w, e)) = Len(w) + 1 /\ Append(w, e)[Len(w) + 1] = e
           /\ \A i \in 1..Len(w) : Append(w, e)[i] = w[i]
BY AppendProperties, LenProperties

\* A wire whose first event was handled.
LEMMA Shortened ==
    ASSUME NEW w \in Seq(ViewEvents), w # <<>>
    PROVE  /\ Tail(w) \in Seq(ViewEvents) /\ Len(w) \in Nat \ {0}
           /\ Len(Tail(w)) = Len(w) - 1 /\ Head(w) = w[1]
           /\ \A i \in 1..Len(Tail(w)) : Tail(w)[i] = w[i + 1]
<1>1. Len(w) \in Nat \ {0}
  BY EmptySeq, LenProperties
<1> QED
  BY <1>1, HeadTailProperties

\* An event that neither asks nor clears changes nothing for the thread.
LEMMA AppendOther ==
    ASSUME NEW w \in Seq(ViewEvents), NEW e \in ViewEvents, NEW t, NEW offers, NEW truth,
           NEW pending, Consistent(w, t, offers, truth, pending),
           e.thread = t => e.type \notin Asks \cup Clears
    PROVE  Consistent(Append(w, e), t, offers, truth, pending)
<1> DEFINE v == Append(w, e)
<1>1. /\ Len(w) \in Nat /\ Len(v) = Len(w) + 1
      /\ \A i \in 1..Len(w) : v[i] = w[i]
      /\ v[Len(v)] = e
  BY Appended
<1> HIDE DEF v
<1>2. \A i \in 1..Len(v) : At(v, i, t, Asks) => i \in 1..Len(w) /\ At(w, i, t, Asks)
  BY <1>1 DEF At
<1>3. \A i \in 1..Len(v) : At(v, i, t, Clears) => i \in 1..Len(w) /\ At(w, i, t, Clears)
  BY <1>1 DEF At
<1>4. \A i \in 1..Len(w) : i \in 1..Len(v) /\ v[i] = w[i]
                          /\ At(v, i, t, Asks) = At(w, i, t, Asks)
                          /\ At(v, i, t, Clears) = At(w, i, t, Clears)
                          /\ At(v, i, t, Asks \cup Clears) = At(w, i, t, Asks \cup Clears)
  BY <1>1 DEF At
<1>p. \A i \in 1..Len(v) : At(v, i, t, Asks) =>
         truth = {<<t, v[i].id>>} \/ \E j \in 1..Len(v) : i < j /\ At(v, j, t, Clears)
  BY <1>2, <1>3, <1>4 DEF Consistent
<1>q. \A i \in 1..Len(v) : At(v, i, t, Clears) =>
         truth = {} \/ \E j \in 1..Len(v) : i < j /\ At(v, j, t, Asks)
  BY <1>2, <1>3, <1>4 DEF Consistent
<1>r. \A i, k \in 1..Len(v) : At(v, i, t, Asks) /\ At(v, k, t, Asks) /\ i < k =>
         \E j \in 1..Len(v) : i < j /\ j < k /\ At(v, j, t, Clears)
  BY <1>2, <1>3, <1>4 DEF Consistent
<1>s. \A i \in 1..Len(v) : At(v, i, t, Asks) =>
         offers \subseteq {<<t, v[i].id>>}
         \/ \E j \in 1..Len(v) : j < i /\ At(v, j, t, Clears)
  BY <1>2, <1>3, <1>4 DEF Consistent
<1>u. (\A i \in 1..Len(v) : ~At(v, i, t, Asks \cup Clears)) =>
         offers \subseteq truth /\ (pending => truth \subseteq offers)
  BY <1>2, <1>3, <1>4 DEF Consistent
<1> QED
  BY <1>p, <1>q, <1>r, <1>s, <1>u DEF Consistent, v

\* A clear makes nothing the truth.
LEMMA AppendClear ==
    ASSUME NEW w \in Seq(ViewEvents), NEW e \in ViewEvents, NEW t, NEW offers, NEW truth,
           NEW pending, Consistent(w, t, offers, truth, pending),
           e.thread = t, e.type \in Clears, NEW stands
    PROVE  Consistent(Append(w, e), t, offers, {}, stands)
<1> DEFINE v == Append(w, e)
<1>1. /\ Len(w) \in Nat /\ Len(v) = Len(w) + 1
      /\ \A i \in 1..Len(w) : v[i] = w[i]
      /\ v[Len(v)] = e
  BY Appended
<1> HIDE DEF v
<1>2. \A i \in 1..Len(v) : At(v, i, t, Asks) => i \in 1..Len(w)
  BY <1>1 DEF At, Asks, Clears
<1>3. At(v, Len(v), t, Clears) /\ Len(v) \in 1..Len(v)
  BY <1>1 DEF At
<1> QED
  BY <1>1, <1>2, <1>3 DEF Consistent, At

\* An ask makes its approval the truth, where there was none.
LEMMA AppendAsk ==
    ASSUME NEW w \in Seq(ViewEvents), NEW e \in ViewEvents, NEW t, NEW offers,
           NEW pending, Consistent(w, t, offers, {}, pending),
           e.thread = t, e.type \in Asks, NEW stands
    PROVE  Consistent(Append(w, e), t, offers, {<<t, e.id>>}, stands)
<1> DEFINE v == Append(w, e)
<1>1. /\ Len(w) \in Nat /\ Len(v) = Len(w) + 1
      /\ \A i \in 1..Len(w) : v[i] = w[i]
      /\ v[Len(v)] = e
  BY Appended
<1> HIDE DEF v
<1>2. ASSUME NEW i \in 1..Len(w)
      PROVE  /\ i \in 1..Len(v) /\ i < Len(v) /\ v[i] = w[i]
             /\ At(v, i, t, Asks) = At(w, i, t, Asks)
             /\ At(v, i, t, Clears) = At(w, i, t, Clears)
  BY <1>1 DEF At
<1>3. /\ Len(v) \in 1..Len(v) /\ At(v, Len(v), t, Asks) /\ ~At(v, Len(v), t, Clears)
      /\ At(v, Len(v), t, Asks \cup Clears)
  BY <1>1 DEF At, Asks, Clears
<1>4. \A i \in 1..Len(v) : i = Len(v) \/ i \in 1..Len(w)
  BY <1>1
<1>5. \A i \in 1..Len(w) : At(w, i, t, Asks) =>
         \E j \in 1..Len(w) : i < j /\ At(w, j, t, Clears)
  BY DEF Consistent
<1>6. offers = {} \/ \E j \in 1..Len(w) : At(w, j, t, Clears)
  <2>1. CASE \A i \in 1..Len(w) : ~At(w, i, t, Asks \cup Clears)
    BY <2>1 DEF Consistent
  <2>2. CASE \E i \in 1..Len(w) : At(w, i, t, Asks \cup Clears)
    BY <1>5, <2>2 DEF At
  <2> QED
    BY <2>1, <2>2
<1>p. \A i \in 1..Len(v) : At(v, i, t, Asks) =>
         {<<t, e.id>>} = {<<t, v[i].id>>} \/ \E j \in 1..Len(v) : i < j /\ At(v, j, t, Clears)
  BY <1>1, <1>2, <1>4, <1>5
<1>q. \A i \in 1..Len(v) : At(v, i, t, Clears) =>
         \E j \in 1..Len(v) : i < j /\ At(v, j, t, Asks)
  BY <1>2, <1>3, <1>4
<1>r. \A i, k \in 1..Len(v) : At(v, i, t, Asks) /\ At(v, k, t, Asks) /\ i < k =>
         \E j \in 1..Len(v) : i < j /\ j < k /\ At(v, j, t, Clears)
  <2> SUFFICES ASSUME NEW i \in 1..Len(v), NEW k \in 1..Len(v),
                      At(v, i, t, Asks), At(v, k, t, Asks), i < k
               PROVE  \E j \in 1..Len(v) : i < j /\ j < k /\ At(v, j, t, Clears)
    OBVIOUS
  <2>1. i \in 1..Len(w) /\ At(w, i, t, Asks)
    BY <1>1, <1>2, <1>4
  <2>2. CASE k = Len(v)
    BY <1>2, <1>5, <2>1, <2>2
  <2>3. CASE k \in 1..Len(w)
    <3>1. At(w, k, t, Asks)
      BY <1>2, <2>3
    <3>2. PICK j \in 1..Len(w) : i < j /\ j < k /\ At(w, j, t, Clears)
      BY <2>1, <2>3, <3>1 DEF Consistent
    <3> QED
      BY <1>2, <3>2
  <2> QED
    BY <1>4, <2>2, <2>3
<1>s. \A i \in 1..Len(v) : At(v, i, t, Asks) =>
         offers \subseteq {<<t, v[i].id>>}
         \/ \E j \in 1..Len(v) : j < i /\ At(v, j, t, Clears)
  <2> SUFFICES ASSUME NEW i \in 1..Len(v), At(v, i, t, Asks), offers # {}
               PROVE  offers \subseteq {<<t, v[i].id>>}
                      \/ \E j \in 1..Len(v) : j < i /\ At(v, j, t, Clears)
    OBVIOUS
  <2>1. CASE i = Len(v)
    BY <1>2, <1>6, <2>1
  <2>2. CASE i \in 1..Len(w)
    BY <1>2, <2>2 DEF Consistent
  <2> QED
    BY <1>4, <2>1, <2>2
<1> QED
  BY <1>3, <1>p, <1>q, <1>r, <1>s DEF Consistent, v

\* Nor does such an event when it is handled.
LEMMA TailOther ==
    ASSUME NEW w \in Seq(ViewEvents), w # <<>>, NEW t, NEW offers, NEW truth,
           NEW pending, Consistent(w, t, offers, truth, pending),
           ~At(w, 1, t, Asks \cup Clears)
    PROVE  Consistent(Tail(w), t, offers, truth, pending)
<1> DEFINE v == Tail(w)
<1>1. /\ Len(w) \in Nat \ {0} /\ Len(v) = Len(w) - 1
      /\ \A i \in 1..Len(v) : v[i] = w[i + 1]
  BY Shortened
<1> HIDE DEF v
<1>2. ASSUME NEW i \in 1..Len(v), NEW types
      PROVE  /\ i + 1 \in 1..Len(w) /\ 1 < i + 1 /\ v[i] = w[i + 1]
             /\ At(v, i, t, types) = At(w, i + 1, t, types)
  BY <1>1 DEF At
<1>3. ASSUME NEW j \in 1..Len(w), 1 < j
      PROVE  \E k \in 1..Len(v) : j = k + 1
  <2>1. j - 1 \in 1..Len(v) /\ j = (j - 1) + 1
    BY <1>1, <1>3
  <2> QED
    BY <2>1
<1>4. /\ \A i, k \in 1..Len(v) : i + 1 < k + 1 <=> i < k
      /\ \A i \in 1..Len(v), j \in 1..Len(w) : i + 1 < j => 1 < j
  BY <1>1
<1>5. \A i \in 1..Len(w) :
         At(w, i, t, Asks \cup Clears) <=> At(w, i, t, Asks) \/ At(w, i, t, Clears)
  BY DEF At
<1>6. ASSUME NEW j \in 1..Len(w), At(w, j, t, Asks) \/ At(w, j, t, Clears)
      PROVE  1 < j
  <2>1. j # 1
    BY <1>6 DEF At
  <2> QED
    BY <1>1, <2>1
<1>p. \A i \in 1..Len(v) : At(v, i, t, Asks) =>
         truth = {<<t, v[i].id>>} \/ \E j \in 1..Len(v) : i < j /\ At(v, j, t, Clears)
  BY <1>2, <1>3, <1>4, <1>5, <1>6 DEF Consistent
<1>q. \A i \in 1..Len(v) : At(v, i, t, Clears) =>
         truth = {} \/ \E j \in 1..Len(v) : i < j /\ At(v, j, t, Asks)
  BY <1>2, <1>3, <1>4, <1>5, <1>6 DEF Consistent
<1>r. \A i, k \in 1..Len(v) : At(v, i, t, Asks) /\ At(v, k, t, Asks) /\ i < k =>
         \E j \in 1..Len(v) : i < j /\ j < k /\ At(v, j, t, Clears)
  <2> SUFFICES ASSUME NEW i \in 1..Len(v), NEW k \in 1..Len(v),
                      At(v, i, t, Asks), At(v, k, t, Asks), i < k
               PROVE  \E j \in 1..Len(v) : i < j /\ j < k /\ At(v, j, t, Clears)
    OBVIOUS
  <2>1. /\ i + 1 \in 1..Len(w) /\ At(w, i + 1, t, Asks) /\ 1 < i + 1
        /\ k + 1 \in 1..Len(w) /\ At(w, k + 1, t, Asks) /\ i + 1 < k + 1
    BY <1>2, <1>4
  <2>2. PICK j \in 1..Len(w) : i + 1 < j /\ j < k + 1 /\ At(w, j, t, Clears)
    BY <2>1 DEF Consistent
  <2>3. 1 < j
    BY <2>1, <2>2
  <2>4. PICK l \in 1..Len(v) : j = l + 1
    BY <1>3, <2>3
  <2> QED
    BY <1>2, <1>4, <2>2, <2>4
<1>s. \A i \in 1..Len(v) : At(v, i, t, Asks) =>
         offers \subseteq {<<t, v[i].id>>}
         \/ \E j \in 1..Len(v) : j < i /\ At(v, j, t, Clears)
  BY <1>2, <1>3, <1>4, <1>5, <1>6 DEF Consistent
<1>u. (\A i \in 1..Len(v) : ~At(v, i, t, Asks \cup Clears)) =>
         offers \subseteq truth /\ (pending => truth \subseteq offers)
  <2> SUFFICES ASSUME \A i \in 1..Len(v) : ~At(v, i, t, Asks \cup Clears)
               PROVE  offers \subseteq truth /\ (pending => truth \subseteq offers)
    OBVIOUS
  <2>1. \A j \in 1..Len(w) : 1 < j => ~At(w, j, t, Asks \cup Clears)
    BY <1>2, <1>3
  <2>2. \A j \in 1..Len(w) : j = 1 \/ 1 < j
    BY <1>1
  <2>3. \A j \in 1..Len(w) : ~At(w, j, t, Asks \cup Clears)
    BY <2>1, <2>2
  <2> QED
    BY <2>3 DEF Consistent
<1> QED
  BY <1>p, <1>q, <1>r, <1>s, <1>u DEF Consistent, v

\* Handling a clear takes every approval of the thread down.
LEMMA TailClear ==
    ASSUME NEW w \in Seq(ViewEvents), w # <<>>, NEW t, NEW offers, NEW truth,
           NEW pending, Consistent(w, t, offers, truth, pending),
           At(w, 1, t, Clears)
    PROVE  Consistent(Tail(w), t, {}, truth, pending)
<1> DEFINE v == Tail(w)
<1>1. /\ Len(w) \in Nat \ {0} /\ Len(v) = Len(w) - 1
      /\ \A i \in 1..Len(v) : v[i] = w[i + 1]
  BY Shortened
<1> HIDE DEF v
<1>2. ASSUME NEW i \in 1..Len(v), NEW types
      PROVE  /\ i + 1 \in 1..Len(w) /\ 1 < i + 1 /\ v[i] = w[i + 1]
             /\ At(v, i, t, types) = At(w, i + 1, t, types)
  BY <1>1 DEF At
<1>3. ASSUME NEW j \in 1..Len(w), 1 < j
      PROVE  \E k \in 1..Len(v) : j = k + 1
  <2>1. j - 1 \in 1..Len(v) /\ j = (j - 1) + 1
    BY <1>1, <1>3
  <2> QED
    BY <2>1
<1>4. /\ \A i, k \in 1..Len(v) : i + 1 < k + 1 <=> i < k
      /\ \A i \in 1..Len(v), j \in 1..Len(w) : i + 1 < j => 1 < j
  BY <1>1
<1>5. \A i \in 1..Len(w) :
         At(w, i, t, Asks \cup Clears) <=> At(w, i, t, Asks) \/ At(w, i, t, Clears)
  BY DEF At
<1>6. \A j \in 1..Len(w) : j = 1 \/ 1 < j
  BY <1>1
<1>7. 1 \in 1..Len(w)
  BY <1>1
<1>p. \A i \in 1..Len(v) : At(v, i, t, Asks) =>
         truth = {<<t, v[i].id>>} \/ \E j \in 1..Len(v) : i < j /\ At(v, j, t, Clears)
  BY <1>2, <1>3, <1>4 DEF Consistent
<1>q. \A i \in 1..Len(v) : At(v, i, t, Clears) =>
         truth = {} \/ \E j \in 1..Len(v) : i < j /\ At(v, j, t, Asks)
  BY <1>2, <1>3, <1>4 DEF Consistent
<1>r. \A i, k \in 1..Len(v) : At(v, i, t, Asks) /\ At(v, k, t, Asks) /\ i < k =>
         \E j \in 1..Len(v) : i < j /\ j < k /\ At(v, j, t, Clears)
  <2> SUFFICES ASSUME NEW i \in 1..Len(v), NEW k \in 1..Len(v),
                      At(v, i, t, Asks), At(v, k, t, Asks), i < k
               PROVE  \E j \in 1..Len(v) : i < j /\ j < k /\ At(v, j, t, Clears)
    OBVIOUS
  <2>1. /\ i + 1 \in 1..Len(w) /\ At(w, i + 1, t, Asks) /\ 1 < i + 1
        /\ k + 1 \in 1..Len(w) /\ At(w, k + 1, t, Asks) /\ i + 1 < k + 1
    BY <1>2, <1>4
  <2>2. PICK j \in 1..Len(w) : i + 1 < j /\ j < k + 1 /\ At(w, j, t, Clears)
    BY <2>1 DEF Consistent
  <2>3. 1 < j
    BY <2>1, <2>2
  <2>4. PICK l \in 1..Len(v) : j = l + 1
    BY <1>3, <2>3
  <2> QED
    BY <1>2, <1>4, <2>2, <2>4
<1>s. \A i \in 1..Len(v) : At(v, i, t, Asks) =>
         {} \subseteq {<<t, v[i].id>>}
         \/ \E j \in 1..Len(v) : j < i /\ At(v, j, t, Clears)
  BY <1>2, <1>3, <1>4, <1>5, <1>6, <1>7 DEF Consistent
<1>u. (\A i \in 1..Len(v) : ~At(v, i, t, Asks \cup Clears)) =>
         {} \subseteq truth /\ (pending => truth \subseteq {})
  <2> SUFFICES ASSUME \A i \in 1..Len(v) : ~At(v, i, t, Asks \cup Clears)
               PROVE  truth = {}
    OBVIOUS
  <2>1. \A j \in 1..Len(w) : 1 < j => ~At(w, j, t, Asks \cup Clears)
    BY <1>2, <1>3
  <2>2. \A j \in 1..Len(w) : 1 < j => ~At(w, j, t, Asks)
    BY <2>1, <1>5
  <2> QED
    BY <1>7, <2>2 DEF Consistent
<1> QED
  BY <1>p, <1>q, <1>r, <1>s, <1>u DEF Consistent, v

\* Handling an ask puts its approval up.
LEMMA TailAsk ==
    ASSUME NEW w \in Seq(ViewEvents), w # <<>>, NEW t, NEW offers, NEW truth,
           NEW pending, Consistent(w, t, offers, truth, pending),
           At(w, 1, t, Asks)
    PROVE  Consistent(Tail(w), t, offers \cup {<<t, w[1].id>>}, truth, pending)
<1> DEFINE v == Tail(w)
<1>1. /\ Len(w) \in Nat \ {0} /\ Len(v) = Len(w) - 1
      /\ \A i \in 1..Len(v) : v[i] = w[i + 1]
  BY Shortened
<1> HIDE DEF v
<1>2. ASSUME NEW i \in 1..Len(v), NEW types
      PROVE  /\ i + 1 \in 1..Len(w) /\ 1 < i + 1 /\ v[i] = w[i + 1]
             /\ At(v, i, t, types) = At(w, i + 1, t, types)
  BY <1>1 DEF At
<1>3. ASSUME NEW j \in 1..Len(w), 1 < j
      PROVE  \E k \in 1..Len(v) : j = k + 1
  <2>1. j - 1 \in 1..Len(v) /\ j = (j - 1) + 1
    BY <1>1, <1>3
  <2> QED
    BY <2>1
<1>4. /\ \A i, k \in 1..Len(v) : i + 1 < k + 1 <=> i < k
      /\ \A i \in 1..Len(v), j \in 1..Len(w) : i + 1 < j => 1 < j
  BY <1>1
<1>5. \A i \in 1..Len(w) :
         At(w, i, t, Asks \cup Clears) <=> At(w, i, t, Asks) \/ At(w, i, t, Clears)
  BY DEF At
<1>6. \A j \in 1..Len(w) : j = 1 \/ 1 < j
  BY <1>1
<1>7. 1 \in 1..Len(w)
  BY <1>1
<1>8. offers \subseteq {<<t, w[1].id>>} /\ ~At(w, 1, t, Clears)
  BY <1>1, <1>7 DEF Consistent, At, Asks, Clears
<1>p. \A i \in 1..Len(v) : At(v, i, t, Asks) =>
         truth = {<<t, v[i].id>>} \/ \E j \in 1..Len(v) : i < j /\ At(v, j, t, Clears)
  BY <1>2, <1>3, <1>4 DEF Consistent
<1>q. \A i \in 1..Len(v) : At(v, i, t, Clears) =>
         truth = {} \/ \E j \in 1..Len(v) : i < j /\ At(v, j, t, Asks)
  BY <1>2, <1>3, <1>4 DEF Consistent
<1>r. \A i, k \in 1..Len(v) : At(v, i, t, Asks) /\ At(v, k, t, Asks) /\ i < k =>
         \E j \in 1..Len(v) : i < j /\ j < k /\ At(v, j, t, Clears)
  <2> SUFFICES ASSUME NEW i \in 1..Len(v), NEW k \in 1..Len(v),
                      At(v, i, t, Asks), At(v, k, t, Asks), i < k
               PROVE  \E j \in 1..Len(v) : i < j /\ j < k /\ At(v, j, t, Clears)
    OBVIOUS
  <2>1. /\ i + 1 \in 1..Len(w) /\ At(w, i + 1, t, Asks) /\ 1 < i + 1
        /\ k + 1 \in 1..Len(w) /\ At(w, k + 1, t, Asks) /\ i + 1 < k + 1
    BY <1>2, <1>4
  <2>2. PICK j \in 1..Len(w) : i + 1 < j /\ j < k + 1 /\ At(w, j, t, Clears)
    BY <2>1 DEF Consistent
  <2>3. 1 < j
    BY <2>1, <2>2
  <2>4. PICK l \in 1..Len(v) : j = l + 1
    BY <1>3, <2>3
  <2> QED
    BY <1>2, <1>4, <2>2, <2>4
<1>s. \A i \in 1..Len(v) : At(v, i, t, Asks) =>
         (offers \cup {<<t, w[1].id>>}) \subseteq {<<t, v[i].id>>}
         \/ \E j \in 1..Len(v) : j < i /\ At(v, j, t, Clears)
  BY <1>2, <1>3, <1>4, <1>5, <1>6, <1>7, <1>8 DEF Consistent
<1>u. (\A i \in 1..Len(v) : ~At(v, i, t, Asks \cup Clears)) =>
         /\ (offers \cup {<<t, w[1].id>>}) \subseteq truth
         /\ pending => truth \subseteq (offers \cup {<<t, w[1].id>>})
  <2> SUFFICES ASSUME \A i \in 1..Len(v) : ~At(v, i, t, Asks \cup Clears)
               PROVE  truth = {<<t, w[1].id>>}
    BY <1>8
  <2>1. \A j \in 1..Len(w) : 1 < j => ~At(w, j, t, Asks \cup Clears)
    BY <1>2, <1>3
  <2>2. \A j \in 1..Len(w) : 1 < j => ~At(w, j, t, Clears)
    BY <2>1, <1>5
  <2>3. truth = {<<t, w[1].id>>}
    BY <1>7, <2>2 DEF Consistent
  <2> QED
    BY <2>3
<1> QED
  BY <1>p, <1>q, <1>r, <1>s, <1>u DEF Consistent, v

\* Fewer approvals are offered, but for one that can be answered.
LEMMA OfferedFewer ==
    ASSUME NEW w, NEW t, NEW offers, NEW truth, NEW pending, NEW fewer, NEW stands,
           Consistent(w, t, offers, truth, pending),
           fewer \subseteq offers,
           stands => pending /\ \A a \in truth : a \in offers => a \in fewer
    PROVE  Consistent(w, t, fewer, truth, stands)
<1> USE DEF Consistent
<1>1. \A i \in 1..Len(w) : At(w, i, t, Asks) =>
         fewer \subseteq {<<t, w[i].id>>}
         \/ \E j \in 1..Len(w) : j < i /\ At(w, j, t, Clears)
  OBVIOUS
<1>2. (\A i \in 1..Len(w) : ~At(w, i, t, Asks \cup Clears)) =>
         fewer \subseteq truth /\ (stands => truth \subseteq fewer)
  OBVIOUS
<1> QED
  BY <1>1, <1>2

\* With nothing on the wire, what is offered is right.
LEMMA NothingSent ==
    ASSUME NEW t, NEW offers, NEW truth, NEW pending, offers \subseteq truth,
           pending => truth \subseteq offers
    PROVE  Consistent(<<>>, t, offers, truth, pending)
<1>1. 1..Len(<<>>) = {}
  BY EmptySeq
<1> QED
  BY <1>1 DEF Consistent

\* The events of a wire that is unchanged, longer by one or shorter by one.
LEMMA WireMoves ==
    ASSUME wire \in Seq(ViewEvents),
           \/ UNCHANGED wire
           \/ \E e \in ViewEvents : wire' = Append(wire, e)
           \/ wire # <<>> /\ wire' = Tail(wire)
    PROVE  \A i \in 1..Len(wire') :
              \/ \E j \in 1..Len(wire) : wire'[i] = wire[j]
              \/ \E e \in ViewEvents : wire' = Append(wire, e) /\ wire'[i] = e
<1>1. CASE UNCHANGED wire
  BY <1>1
<1>2. ASSUME NEW e \in ViewEvents, wire' = Append(wire, e), NEW i \in 1..Len(wire')
      PROVE  wire'[i] = e \/ \E j \in 1..Len(wire) : wire'[i] = wire[j]
  <2>1. i = Len(wire) + 1 \/ i \in 1..Len(wire)
    BY <1>2, Appended
  <2> QED
    BY <1>2, <2>1, Appended
<1>3. ASSUME wire # <<>>, wire' = Tail(wire), NEW i \in 1..Len(wire')
      PROVE  \E j \in 1..Len(wire) : wire'[i] = wire[j]
  <2>1. i + 1 \in 1..Len(wire)
    BY <1>3, Shortened
  <2> QED
    BY <1>3, <2>1, Shortened
<1> QED
  BY <1>1, <1>2, <1>3

\* Nothing happens to a thread that its approvals depend on.
LEMMA OfferKept ==
    ASSUME NEW u \in Talkers, OfferOwed(u), wire \in Seq(ViewEvents),
           \/ UNCHANGED wire
           \/ \E e \in ViewEvents : wire' = Append(wire, e)
                                    /\ (e.thread = u => e.type \notin Asks \cup Clears)
           \/ wire # <<>> /\ wire' = Tail(wire) /\ ~At(wire, 1, u, Asks \cup Clears),
           link' = "up" => link = "up",
           saved'[u] = saved[u], asked'[u] = asked[u],
           \A g \in gets : g.thread = u /\ (Over(g) \/ Owed(g)) => g \in gets',
           Offers(u)' \subseteq Offers(u),
           Pending(u)' => Pending(u) /\ \A a \in Truth(u) : a \in Offers(u) => a \in Offers(u)'
    PROVE  OfferOwed(u)'
<1>1. Truth(u)' = Truth(u)
  BY DEF Truth
<1>2. SUFFICES ASSUME link' = "up"
               PROVE  \/ \E g \in gets' : g.thread = u /\ (Over(g)' \/ Owed(g)')
                      \/ Consistent(wire', u, Offers(u)', Truth(u)', Pending(u)')
  BY DEF OfferOwed
<1>3. CASE \E g \in gets : g.thread = u /\ (Over(g) \/ Owed(g))
  <2>1. PICK g \in gets : g.thread = u /\ (Over(g) \/ Owed(g))
    BY <1>3
  <2>2. Over(g)' = Over(g)
    BY <2>1 DEF Over
  <2>3. ASSUME Owed(g), g.status = "waiting" PROVE \A i \in 1..Len(wire') : ~At(wire', i, u, Clears)
    <3>1. \A i \in 1..Len(wire) : ~At(wire, i, u, Clears)
      BY <2>1, <2>3 DEF Owed
    <3>2. \A i \in 1..Len(wire') :
              \/ \E j \in 1..Len(wire) : wire'[i] = wire[j]
              \/ \E e \in ViewEvents : wire' = Append(wire, e) /\ wire'[i] = e
      BY WireMoves
    <3>3. ASSUME NEW e \in ViewEvents, wire' = Append(wire, e)
          PROVE  ~(e.thread = u /\ e.type \in Clears)
      <4>1. CASE \E f \in ViewEvents : wire' = Append(wire, f)
                                    /\ (f.thread = u => f.type \notin Asks \cup Clears)
        <5>1. PICK f \in ViewEvents : wire' = Append(wire, f)
                                    /\ (f.thread = u => f.type \notin Asks \cup Clears)
          BY <4>1
        <5>2. wire'[Len(wire) + 1] = e
          BY <3>3, Appended
        <5>3. wire'[Len(wire) + 1] = f
          BY <5>1, Appended
        <5> QED
          BY <5>1, <5>2, <5>3
      <4>2. Len(wire') = Len(wire) + 1 /\ Len(wire) \in Nat
        BY <3>3, Appended
      <4>3. wire' # wire
        BY <4>2
      <4>4. ~(wire # <<>> /\ wire' = Tail(wire))
        BY <4>2, Shortened
      <4> QED
        BY <4>1, <4>3, <4>4
    <3> QED
      BY <3>1, <3>2, <3>3 DEF At
  <2>4. Owed(g) => Owed(g)'
    BY <1>1, <2>1, <2>2, <2>3 DEF Owed
  <2> QED
    BY <2>1, <2>2, <2>4
<1>4. CASE Consistent(wire, u, Offers(u), Truth(u), Pending(u))
  <2>1. Consistent(wire, u, Offers(u)', Truth(u), Pending(u)')
    BY <1>4, OfferedFewer
  <2>2. Consistent(wire', u, Offers(u)', Truth(u), Pending(u)')
    BY <2>1, AppendOther, TailOther
  <2> QED
    BY <1>1, <2>2
<1> QED
  BY <1>2, <1>3, <1>4 DEF OfferOwed

\* Numbers of approvals only grow, and events carry those given out.
LEMMA NumberedKept ==
    ASSUME Numbered, wire \in Seq(ViewEvents), asked \in [Talkers -> Nat],
           asked' \in [Talkers -> Nat], \A t \in Talkers : asked[t] <= asked'[t],
           \/ UNCHANGED wire
           \/ \E e \in ViewEvents : wire' = Append(wire, e)
                 /\ (e.type = "approval_required" => e.id <= asked'[e.thread])
           \/ wire # <<>> /\ wire' = Tail(wire)
    PROVE  Numbered'
<1> SUFFICES ASSUME NEW i \in 1..Len(wire'), wire'[i].type = "approval_required"
             PROVE  wire'[i].id <= asked'[wire'[i].thread]
  BY DEF Numbered
<1>1. ASSUME NEW j \in 1..Len(wire), wire'[i] = wire[j]
      PROVE  wire'[i].id <= asked'[wire'[i].thread]
  <2>1. wire[j] \in ViewEvents
    BY ElementOfSeq
  <2>2. wire[j].thread \in Talkers /\ wire[j].id \in Nat
    BY <2>1 DEF ViewEvents
  <2>3. wire[j].id <= asked[wire[j].thread]
    BY <1>1 DEF Numbered
  <2> QED
    BY <1>1, <2>2, <2>3
<1>2. ASSUME NEW e \in ViewEvents, wire' = Append(wire, e),
             e.type = "approval_required" => e.id <= asked'[e.thread]
      PROVE  wire'[i].id <= asked'[wire'[i].thread]
  <2>1. i = Len(wire) + 1 \/ i \in 1..Len(wire)
    BY <1>2, Appended
  <2> QED
    BY <1>1, <1>2, <2>1, Appended
<1>3. CASE UNCHANGED wire \/ (wire # <<>> /\ wire' = Tail(wire))
  <2>1. \E j \in 1..Len(wire) : wire'[i] = wire[j]
    <3>1. CASE wire # <<>> /\ wire' = Tail(wire)
      <4>1. i + 1 \in 1..Len(wire)
        BY <3>1, Shortened
      <4> QED
        BY <3>1, <4>1, Shortened
    <3> QED
      BY <1>3, <3>1
  <2> QED
    BY <1>1, <2>1
<1> QED
  BY <1>2, <1>3

\* An answer under way keeps its place: a new ask has a larger number.
LEMMA AnswerStays ==
    ASSUME NEW g \in ViewAnswers, AnswerKept(g), wire \in Seq(ViewEvents),
           asked \in [Talkers -> Nat], asked' \in [Talkers -> Nat],
           \A t \in Talkers : asked[t] <= asked'[t],
           saved'[g.thread] = "waiting" =>
              saved[g.thread] = "waiting" \/ asked'[g.thread] > asked[g.thread],
           \/ UNCHANGED wire
           \/ \E e \in ViewEvents : wire' = Append(wire, e)
                 /\ (e.type = "approval_required" => e.id > asked[e.thread])
           \/ wire # <<>> /\ wire' = Tail(wire)
    PROVE  AnswerKept(g)'
<1>1. g.thread \in Talkers /\ g.id \in Nat
  BY DEF ViewAnswers
<1>2. ASSUME NEW i \in 1..Len(wire'), At(wire', i, g.thread, Asks) PROVE wire'[i].id > g.id
  <2>1. ASSUME NEW j \in 1..Len(wire), wire'[i] = wire[j] PROVE wire'[i].id > g.id
    BY <1>2, <2>1 DEF AnswerKept, At
  <2>2. ASSUME NEW e \in ViewEvents, wire' = Append(wire, e),
               e.type = "approval_required" => e.id > asked[e.thread]
        PROVE  wire'[i].id > g.id
    <3>1. i = Len(wire) + 1 \/ i \in 1..Len(wire)
      BY <2>2, Appended
    <3>2. CASE i = Len(wire) + 1
      <4>1. wire'[i] = e /\ e.id \in Nat
        BY <2>2, <3>2, Appended DEF ViewEvents
      <4>2. e.thread = g.thread /\ e.id > asked[g.thread]
        BY <1>2, <2>2, <4>1 DEF At, Asks
      <4> QED
        BY <1>1, <4>1, <4>2 DEF AnswerKept
    <3> QED
      BY <2>1, <2>2, <3>1, <3>2, Appended
  <2>3. CASE UNCHANGED wire
    BY <2>1, <2>3
  <2>4. CASE wire # <<>> /\ wire' = Tail(wire)
    <3>1. i + 1 \in 1..Len(wire)
      BY <2>4, Shortened
    <3> QED
      BY <2>1, <2>4, <3>1, Shortened
  <2> QED
    BY <2>2, <2>3, <2>4
<1>3. g.id <= asked[g.thread] /\ asked[g.thread] <= asked'[g.thread]
  BY <1>1 DEF AnswerKept
<1> QED
  BY <1>1, <1>2, <1>3 DEF AnswerKept

\* A step that asks for nothing, clears nothing and offers nothing.
LEMMA OffersQuiet ==
    ASSUME ViewTyped, OfferGood, UNCHANGED <<saved, asked, approvals, link, gets>>,
           \A u \in Talkers : stage'[u] = stage[u] \/ stage'[u] = "begun",
           \/ UNCHANGED wire
           \/ \E e \in ViewEvents : wire' = Append(wire, e) /\ e.type = "error",
           \A a \in answering' :
              a \in answering
              \/ (a[1] \in Talkers /\ a[2] <= asked[a[1]] /\ stage'[a[1]] = "begun")
    PROVE  OfferGood'
<1> USE DEF ViewTyped, ServerTyped, NetworkTyped
<1>1. \A t \in Talkers : asked[t] <= asked'[t]
  OBVIOUS
<1>2. Numbered'
  BY <1>1, NumberedKept DEF OfferGood
<1>3. \A g \in gets' : AnswerKept(g)'
  BY <1>1, AnswerStays DEF OfferGood
<1>4. \A a \in answering' : Answered(a)'
  BY DEF OfferGood, Answered, ShownTyped
<1>5. ASSUME NEW u \in Talkers PROVE OfferOwed(u)'
  <2>1. Offers(u)' = Offers(u) /\ Truth(u)' = Truth(u)
    BY DEF Offers, Truth
  <2>2. Pending(u)' => Pending(u)
    BY DEF Pending
  <2>3. OfferOwed(u)
    BY DEF OfferGood
  <2>4. \A e \in ViewEvents : e.type = "error" => e.type \notin Asks \cup Clears
    BY DEF Asks, Clears
  <2> QED
    BY <2>1, <2>2, <2>3, <2>4, OfferKept
<1> QED
  BY <1>2, <1>3, <1>4, <1>5 DEF OfferGood

\* The connection breaks: nothing is promised until it is up again.
LEMMA OffersBreak ==
    ASSUME ViewTyped, OfferGood, Break, UNCHANGED <<stage, saved, asked, approvals, answering>>
    PROVE  OfferGood'
<1>1. wire' = <<>> /\ link' # "up" /\ gets' \subseteq gets
  BY DEF Break
<1>2. 1..Len(wire') = {}
  BY <1>1, EmptySeq
<1>3. Numbered' /\ \A u \in Talkers : OfferOwed(u)'
  BY <1>1, <1>2 DEF Numbered, OfferOwed
<1>4. \A g \in gets' : AnswerKept(g)'
  BY <1>1, <1>2 DEF AnswerKept, OfferGood
<1>5. \A a \in answering' : Answered(a)'
  BY DEF Answered, OfferGood
<1> QED
  BY <1>3, <1>4, <1>5 DEF OfferGood

\* A thread taken up again waits for no new approval yet.
LEMMA ResumeOffers ==
    ASSUME ViewTyped, NEW t \in Talkers, Resume(t)
    PROVE  /\ UNCHANGED <<saved, asked>> /\ stage'[t] = "begun"
           /\ \A u \in Talkers : stage'[u] = stage[u] \/ stage'[u] = "begun"
BY DEF ViewTyped, ServerTyped, Resume, To

\* The first item of a run clears the approval that was waited for. (main.py:293)
LEMMA OffersFirstItem ==
    ASSUME ViewTyped, OfferGood, NEW t \in Talkers, FirstItem(t), ~astray'
    PROVE  OfferGood'
<1> USE DEF ViewTyped, ServerTyped, NetworkTyped
<1> DEFINE e == [thread |-> t, id |-> 0,
                 type |-> IF saved[t] = "waiting" THEN "approval" ELSE "node"]
<1>1. /\ UNCHANGED <<asked, approvals, gets, answering, link>>
      /\ saved' = [saved EXCEPT ![t] = "running"] /\ stage' = [stage EXCEPT ![t] = "running"]
      /\ stage[t] = "begun"
  BY DEF FirstItem, shown, To
<1>2. e \in ViewEvents /\ e.thread = t /\ e.type # "approval_required"
  BY DEF ViewEvents
<1>3. /\ link = "up" => wire' = Append(wire, e)
      /\ link = "up" \/ UNCHANGED wire
  BY DEF FirstItem, Untold, Send
<1> HIDE DEF e
<1>4. \A u \in Talkers : asked[u] <= asked'[u]
  BY <1>1
<1>5. Numbered'
  BY <1>1, <1>2, <1>3, <1>4, NumberedKept DEF OfferGood
<1>6. ASSUME NEW g \in gets' PROVE AnswerKept(g)'
  <2>1. g \in ViewAnswers /\ g.thread \in Talkers /\ AnswerKept(g)
    BY <1>1 DEF OfferGood, ViewAnswers
  <2>2. saved'[g.thread] = "waiting" => saved[g.thread] = "waiting"
    BY <1>1, <2>1
  <2> QED
    BY <1>1, <1>2, <1>3, <1>4, <2>1, <2>2, AnswerStays
<1>7. \A a \in answering' : Answered(a)'
  BY <1>1 DEF OfferGood, Answered
<1>8. ASSUME NEW u \in Talkers, u # t PROVE OfferOwed(u)'
  <2>1. saved'[u] = saved[u] /\ stage'[u] = stage[u]
    BY <1>1, <1>8
  <2>2. Offers(u)' = Offers(u) /\ (Pending(u)' => Pending(u))
    BY <1>1, <2>1 DEF Offers, Pending
  <2>3. OfferOwed(u)
    BY DEF OfferGood
  <2> QED
    BY <1>1, <1>2, <1>3, <1>8, <2>1, <2>2, <2>3, OfferKept
<1>9. OfferOwed(t)'
  <2> SUFFICES ASSUME link = "up"
               PROVE  \/ \E g \in gets' : g.thread = t /\ (Over(g)' \/ Owed(g)')
                      \/ Consistent(wire', t, Offers(t)', Truth(t)', Pending(t)')
    BY <1>1 DEF OfferOwed
  <2>1. Offers(t)' = Offers(t) /\ Truth(t)' = {} /\ ~Pending(t)' /\ saved'[t] = "running"
    BY <1>1 DEF Offers, Truth, Pending
  <2>2. CASE \E g \in gets : g.thread = t /\ (Over(g) \/ Owed(g))
    <3>1. PICK g \in gets : g.thread = t /\ (Over(g) \/ Owed(g))
      BY <2>2
    <3>2. Over(g)' \/ Owed(g)'
      BY <1>1, <2>1, <3>1 DEF Over, Owed
    <3> QED
      BY <1>1, <3>1, <3>2
  <2>3. CASE Consistent(wire, t, Offers(t), Truth(t), Pending(t))
    <3>1. CASE saved[t] = "waiting"
      <4>1. e.type \in Clears
        BY <3>1 DEF e, Clears
      <4>2. Consistent(Append(wire, e), t, Offers(t), {}, Pending(t)')
        BY <1>2, <2>3, <4>1, AppendClear
      <4> QED
        BY <1>3, <2>1, <4>2
    <3>2. CASE saved[t] # "waiting"
      <4>1. Truth(t) = {} /\ ~Pending(t)
        BY <3>2 DEF Truth, Pending
      <4>2. e.type \notin Asks \cup Clears
        BY <3>2 DEF e, Asks, Clears
      <4>3. Consistent(Append(wire, e), t, Offers(t), Truth(t), Pending(t))
        BY <1>2, <2>3, <4>2, AppendOther
      <4>4. Consistent(Append(wire, e), t, Offers(t), Truth(t), Pending(t)')
        BY <2>1, <4>3, OfferedFewer
      <4> QED
        BY <1>3, <2>1, <4>1, <4>4
    <3> QED
      BY <3>1, <3>2
  <2>4. OfferOwed(t) /\ link = "up"
    BY DEF OfferGood
  <2> QED
    BY <2>2, <2>3, <2>4 DEF OfferOwed
<1> QED
  BY <1>5, <1>6, <1>7, <1>8, <1>9 DEF OfferGood

\* A run ends with an ask, without one, or fails. (main.py:356)
LEMMA OffersEndStream ==
    ASSUME ViewTyped, OfferGood, NEW t \in Talkers, EndStream(t) \/ StreamRaises(t), ~astray'
    PROVE  OfferGood'
<1> USE DEF ViewTyped, ServerTyped, NetworkTyped
<1>1. /\ UNCHANGED <<approvals, gets, answering, link>>
      /\ stage' = [stage EXCEPT ![t] = "idle"] /\ saved[t] # "waiting"
  BY DEF EndStream, StreamRaises, shown, To
<1>2. PICK e \in ViewEvents :
         /\ e.thread = t /\ (link = "up" => wire' = Append(wire, e))
         /\ link = "up" \/ UNCHANGED wire
         /\ \/ /\ e.type = "approval_required" /\ e.id = asked[t] + 1
               /\ asked' = [asked EXCEPT ![t] = asked[t] + 1]
               /\ saved' = [saved EXCEPT ![t] = "waiting"]
            \/ /\ e.type = "done" /\ asked' = asked
               /\ saved' = saved \/ saved' = [saved EXCEPT ![t] = "ended"]
  <2>1. asked[t] + 1 \in Nat
    OBVIOUS
  <2>2. CASE /\ asked' = [asked EXCEPT ![t] = asked[t] + 1]
             /\ saved' = [saved EXCEPT ![t] = "waiting"]
             /\ EndStream(t) /\ Send(t, "approval_required", asked[t] + 1, told[t])
    <3> DEFINE e == [thread |-> t, type |-> "approval_required", id |-> asked[t] + 1]
    <3>1. e \in ViewEvents /\ e.thread = t /\ e.type = "approval_required" /\ e.id = asked[t] + 1
      BY <2>1 DEF ViewEvents
    <3>2. /\ link = "up" => wire' = Append(wire, e)
          /\ link = "up" \/ UNCHANGED wire
      BY <2>2 DEF EndStream, Untold, Send
    <3> QED
      BY <2>2, <3>1, <3>2
  <2>3. CASE /\ saved' = saved \/ saved' = [saved EXCEPT ![t] = "ended"]
             /\ asked' = asked /\ Send(t, "done", 0, told[t])
    <3> DEFINE e == [thread |-> t, type |-> "done", id |-> 0]
    <3>1. e \in ViewEvents /\ e.thread = t /\ e.type = "done"
      BY DEF ViewEvents
    <3>2. /\ link = "up" => wire' = Append(wire, e)
          /\ link = "up" \/ UNCHANGED wire
      BY <2>3 DEF EndStream, StreamRaises, Untold, Send
    <3> QED
      BY <2>3, <3>1, <3>2
  <2> QED
    BY <2>2, <2>3 DEF EndStream, StreamRaises
<1>3. asked' \in [Talkers -> Nat] /\ \A u \in Talkers : asked[u] <= asked'[u]
  <2>1. CASE asked' = asked
    BY <2>1
  <2>2. CASE asked' = [asked EXCEPT ![t] = asked[t] + 1]
    BY <2>2
  <2> QED
    BY <1>2, <2>1, <2>2
<1>4. Numbered'
  <2>1. e.type = "approval_required" => e.id <= asked'[e.thread]
    BY <1>2
  <2> QED
    BY <1>2, <1>3, <2>1, NumberedKept DEF OfferGood
<1>5. ASSUME NEW g \in gets' PROVE AnswerKept(g)'
  <2>1. g \in ViewAnswers /\ g.thread \in Talkers /\ AnswerKept(g)
    BY <1>1 DEF OfferGood, ViewAnswers
  <2>2. saved'[g.thread] = "waiting" =>
           saved[g.thread] = "waiting" \/ asked'[g.thread] > asked[g.thread]
    BY <1>2, <2>1
  <2>3. e.type = "approval_required" => e.id > asked[e.thread]
    BY <1>2
  <2> QED
    BY <1>2, <1>3, <2>1, <2>2, <2>3, AnswerStays
<1>6. ASSUME NEW a \in answering' PROVE Answered(a)'
  <2>1. Answered(a) /\ a[1] \in Talkers /\ a[2] \in Nat
    BY <1>1 DEF OfferGood
  <2>2. CASE a[1] = t
    BY <1>1, <1>2, <2>1, <2>2 DEF Answered
  <2>3. CASE a[1] # t
    BY <1>1, <1>2, <2>1, <2>3 DEF Answered
  <2> QED
    BY <2>2, <2>3
<1>7. ASSUME NEW u \in Talkers, u # t PROVE OfferOwed(u)'
  <2>1. saved'[u] = saved[u] /\ stage'[u] = stage[u] /\ asked'[u] = asked[u]
    BY <1>1, <1>2, <1>7
  <2>2. Offers(u)' = Offers(u) /\ (Pending(u)' => Pending(u))
    BY <1>1, <2>1 DEF Offers, Pending
  <2>3. OfferOwed(u)
    BY DEF OfferGood
  <2>4. \/ UNCHANGED wire
        \/ \E x \in ViewEvents : wire' = Append(wire, x)
                               /\ (x.thread = u => x.type \notin Asks \cup Clears)
    BY <1>1, <1>2, <1>7
  <2>5. wire \in Seq(ViewEvents) /\ UNCHANGED <<link, gets>>
    BY <1>1
  <2> QED
    BY <2>1, <2>2, <2>3, <2>4, <2>5, OfferKept
<1>8. OfferOwed(t)'
  <2> SUFFICES ASSUME link = "up"
               PROVE  \/ \E g \in gets' : g.thread = t /\ (Over(g)' \/ Owed(g)')
                      \/ Consistent(wire', t, Offers(t)', Truth(t)', Pending(t)')
    BY <1>1 DEF OfferOwed
  <2>1. Offers(t)' = Offers(t) /\ Truth(t) = {}
    BY <1>1 DEF Offers, Truth
  <2>2. CASE \E g \in gets : g.thread = t /\ (Over(g) \/ Owed(g))
    <3>1. PICK g \in gets : g.thread = t /\ (Over(g) \/ Owed(g))
      BY <2>2
    <3>2. g.id <= asked[t] /\ g.id \in Nat
      BY <3>1 DEF OfferGood, AnswerKept, ViewAnswers
    <3>3. CASE asked' = asked /\ saved'[t] # "waiting"
      BY <1>1, <3>1, <3>3 DEF Over, Owed
    <3>4. CASE asked' = [asked EXCEPT ![t] = asked[t] + 1]
      <4>1. Over(g)'
        BY <3>1, <3>2, <3>4 DEF Over
      <4> QED
        BY <1>1, <3>1, <4>1
    <3> QED
      BY <1>1, <1>2, <3>3, <3>4
  <2>3. CASE Consistent(wire, t, Offers(t), Truth(t), Pending(t))
    <3>1. CASE e.type = "approval_required"
      <4>1. Truth(t)' = {<<t, e.id>>}
        BY <1>2, <3>1 DEF Truth
      <4>2. Consistent(wire, t, Offers(t), {}, Pending(t))
        BY <2>1, <2>3
      <4>3. Consistent(Append(wire, e), t, Offers(t), {<<t, e.id>>}, Pending(t)')
        BY <1>2, <3>1, <4>2, AppendAsk DEF Asks
      <4> QED
        BY <1>2, <2>1, <4>1, <4>3
    <3>2. CASE e.type = "done"
      <4>1. Truth(t)' = {}
        BY <1>1, <1>2, <3>2 DEF Truth
      <4>2. Consistent(Append(wire, e), t, Offers(t), {}, Pending(t)')
        BY <1>2, <2>3, <3>2, AppendClear DEF Clears
      <4> QED
        BY <1>2, <2>1, <4>1, <4>2
    <3> QED
      BY <1>2, <3>1, <3>2
  <2>4. OfferOwed(t) /\ link = "up"
    BY DEF OfferGood
  <2> QED
    BY <2>2, <2>3, <2>4 DEF OfferOwed
<1> QED
  BY <1>4, <1>5, <1>6, <1>7, <1>8 DEF OfferGood

\* One event is handled. (App.tsx, handleSocketEvent)
LEMMA OffersReceive ==
    ASSUME ViewTyped, OfferGood, Receive
    PROVE  OfferGood'
<1> USE DEF ViewTyped, ServerTyped, NetworkTyped
<1>1. /\ wire # <<>> /\ wire' = Tail(wire)
      /\ UNCHANGED <<stage, saved, asked, link, gets, answering>>
      /\ approvals' = IF Head(wire).type = "approval_required"
                      THEN Offered(<<Head(wire).thread, Head(wire).id>>)
                      ELSE IF Head(wire).type \in {"done", "approval"}
                           THEN Without(Head(wire).thread) ELSE approvals
  BY DEF Receive, server, Handle
<1>2. PICK e \in ViewEvents : e = wire[1] /\ e = Head(wire)
  <2>1. 1 \in 1..Len(wire) /\ Head(wire) = wire[1]
    BY <1>1, Shortened
  <2> QED
    BY <2>1, ElementOfSeq
<1>3. 1 \in 1..Len(wire)
  BY <1>1, Shortened
<1>4. Numbered'
  BY <1>1, NumberedKept DEF OfferGood
<1>5. ASSUME NEW g \in gets' PROVE AnswerKept(g)'
  <2>1. g \in ViewAnswers /\ AnswerKept(g) /\ \A t \in Talkers : asked[t] <= asked'[t]
    BY <1>1 DEF OfferGood
  <2> QED
    BY <1>1, <2>1, AnswerStays
<1>6. \A a \in answering' : Answered(a)'
  BY <1>1 DEF OfferGood, Answered
<1>7. ASSUME NEW u \in Talkers PROVE OfferOwed(u)'
  <2>1. Truth(u)' = Truth(u) /\ Pending(u)' = Pending(u) /\ OfferOwed(u)
    BY <1>1 DEF Truth, Pending, OfferGood
  <2>2. CASE ~At(wire, 1, u, Asks \cup Clears)
    <3>1. Offers(u)' = Offers(u)
      BY <1>1, <1>2, <2>2 DEF Offers, Offered, Without, At, Asks, Clears
    <3> QED
      BY <1>1, <2>1, <2>2, <3>1, OfferKept
  <2>3. ASSUME At(wire, 1, u, Asks \cup Clears), link = "up"
        PROVE  \/ \E g \in gets' : g.thread = u /\ (Over(g)' \/ Owed(g)')
               \/ Consistent(wire', u, Offers(u)', Truth(u)', Pending(u)')
    <3>1. CASE \E g \in gets : g.thread = u /\ (Over(g) \/ Owed(g))
      <4>1. PICK g \in gets : g.thread = u /\ (Over(g) \/ Owed(g))
        BY <3>1
      <4>2. CASE Over(g) \/ g.status = "ended"
        BY <1>1, <4>1, <4>2 DEF Over, Owed
      <4>3. CASE Owed(g) /\ g.status = "waiting"
        <5>1. ~At(wire, 1, u, Clears) /\ g.id = asked[u]
          BY <1>3, <4>1, <4>3 DEF Owed, Over
        <5>2. At(wire, 1, u, Asks)
          BY <2>3, <5>1 DEF At
        <5>3. e.id \in Nat /\ g.id \in Nat
          BY <4>1 DEF ViewEvents, ViewAnswers
        <5>4. e.id <= asked[u]
          BY <1>2, <1>3, <5>2 DEF OfferGood, Numbered, At, Asks
        <5>5. e.id > g.id
          BY <1>2, <1>3, <4>1, <5>2 DEF OfferGood, AnswerKept
        <5> QED
          BY <5>1, <5>3, <5>4, <5>5
      <4> QED
        BY <4>1, <4>2, <4>3 DEF Owed
    <3>2. CASE Consistent(wire, u, Offers(u), Truth(u), Pending(u))
      <4>1. CASE At(wire, 1, u, Asks)
        <5>1. Offers(u)' = Offers(u) \cup {<<u, wire[1].id>>}
          BY <1>1, <1>2, <4>1 DEF Offers, Offered, At, Asks
        <5>2. Consistent(Tail(wire), u, Offers(u) \cup {<<u, wire[1].id>>}, Truth(u), Pending(u))
          BY <1>1, <3>2, <4>1, TailAsk
        <5> QED
          BY <1>1, <2>1, <5>1, <5>2
      <4>2. CASE At(wire, 1, u, Clears)
        <5>1. Offers(u)' = {}
          BY <1>1, <1>2, <4>2 DEF Offers, Without, At, Clears
        <5>2. Consistent(Tail(wire), u, {}, Truth(u), Pending(u))
          BY <1>1, <3>2, <4>2, TailClear
        <5> QED
          BY <1>1, <2>1, <5>1, <5>2
      <4> QED
        BY <2>3, <4>1, <4>2 DEF At
    <3> QED
      BY <2>1, <2>3, <3>1, <3>2 DEF OfferOwed
  <2> QED
    BY <1>1, <2>2, <2>3 DEF OfferOwed
<1> QED
  BY <1>4, <1>5, <1>6, <1>7 DEF OfferGood

\* An answer is handled. (client.ts, reconciliationEvents)
LEMMA OffersReconcile ==
    ASSUME ViewTyped, OfferGood, NEW g \in gets, Reconcile(g), ~astray'
    PROVE  OfferGood'
<1> USE DEF ViewTyped, ServerTyped, NetworkTyped
<1>0. PICK t \in Talkers : t = g.thread
  BY DEF ViewAnswers
<1>1. /\ UNCHANGED <<stage, saved, asked, link, wire, answering>> /\ gets' = gets \ {g}
      /\ Handle(EventOf(g.status), t, g.id) /\ g = Answer(t)
  BY <1>0 DEF Reconcile, server
<1>2. g \in ViewAnswers /\ t \in Talkers /\ g.status = saved[t] /\ g.id = asked[t]
  BY <1>1 DEF ViewAnswers, Answer
<1>3. approvals' = CASE g.status = "waiting" -> approvals \cup {<<t, asked[t]>>}
                     [] g.status = "ended" -> {a \in approvals : a[1] # t}
                     [] OTHER -> approvals
  BY <1>1, <1>2 DEF Handle, EventOf, Offered, Without, ViewAnswers
<1>4. Numbered'
  BY <1>1, NumberedKept DEF OfferGood
<1>5. ASSUME NEW h \in gets' PROVE AnswerKept(h)'
  <2>1. h \in ViewAnswers /\ AnswerKept(h) /\ \A u \in Talkers : asked[u] <= asked'[u]
    BY <1>1 DEF OfferGood
  <2> QED
    BY <1>1, <2>1, AnswerStays
<1>6. \A a \in answering' : Answered(a)'
  BY <1>1 DEF OfferGood, Answered
<1>7. ASSUME NEW u \in Talkers, u # t PROVE OfferOwed(u)'
  <2>1. Offers(u)' = Offers(u)
    BY <1>2, <1>3, <1>7 DEF Offers, ViewAnswers
  <2>2. OfferOwed(u) /\ Pending(u)' = Pending(u)
    BY <1>1 DEF OfferGood, Pending
  <2>3. \A h \in gets : h.thread = u => h \in gets'
    BY <1>0, <1>1, <1>7
  <2> QED
    BY <1>1, <2>1, <2>2, <2>3, OfferKept
<1>8. \A i \in 1..Len(wire) : ~At(wire, i, t, Asks)
  <2> SUFFICES ASSUME NEW i \in 1..Len(wire), At(wire, i, t, Asks) PROVE FALSE
    OBVIOUS
  <2>1. wire[i] \in ViewEvents
    BY ElementOfSeq
  <2>2. wire[i].id \in Nat /\ asked[t] \in Nat
    BY <1>2, <2>1 DEF ViewEvents
  <2>3. wire[i].id <= asked[t]
    BY DEF OfferGood, Numbered, At, Asks
  <2>4. wire[i].id > asked[t]
    BY <1>0, <1>2 DEF OfferGood, AnswerKept
  <2> QED
    BY <2>2, <2>3, <2>4
<1>9. Truth(t)' = Truth(t) /\ Pending(t)' = Pending(t) /\ OfferOwed(t)
  BY <1>1, <1>2 DEF Truth, Pending, OfferGood
<1>10. CASE g.status = "ended"
  <2>1. Offers(t)' = {} /\ Truth(t) = {} /\ ~Pending(t)
    BY <1>2, <1>3, <1>10 DEF Offers, Truth, Pending
  <2>2. Consistent(wire, t, {}, {}, Pending(t))
    BY <1>8, <2>1 DEF Consistent
  <2>3. Consistent(wire', t, Offers(t)', Truth(t)', Pending(t)')
    BY <1>1, <1>9, <2>1, <2>2
  <2>4. OfferOwed(t)'
    BY <2>3 DEF OfferOwed
  <2> QED
    BY <1>4, <1>5, <1>6, <1>7, <2>4 DEF OfferGood
<1>11. CASE g.status = "waiting"
  <2>1. Truth(t) = {<<t, asked[t]>>} /\ Offers(t)' = Offers(t) \cup Truth(t)
    BY <1>2, <1>3, <1>11 DEF Offers, Truth
  <2>2. ASSUME Consistent(wire, t, Offers(t), Truth(t), Pending(t)) \/ Owed(g)
        PROVE  OfferOwed(t)'
    <3>1. \A i \in 1..Len(wire) : ~At(wire, i, t, Clears)
      BY <1>0, <1>8, <1>11, <2>1, <2>2 DEF Consistent, Owed
    <3>2. Offers(t) \subseteq Truth(t)
      <4>1. \A i \in 1..Len(wire) : ~At(wire, i, t, Asks \cup Clears)
        BY <1>8, <3>1 DEF At
      <4> QED
        BY <1>0, <1>11, <2>2, <4>1 DEF Consistent, Owed
    <3>3. Offers(t)' = Truth(t)
      BY <2>1, <3>2
    <3>4. Consistent(wire, t, Truth(t), Truth(t), Pending(t))
      BY <1>8, <3>1 DEF Consistent
    <3>5. Consistent(wire', t, Offers(t)', Truth(t)', Pending(t)')
      BY <1>1, <1>9, <3>3, <3>4
    <3> QED
      BY <3>5 DEF OfferOwed
  <2>3. ASSUME \E h \in gets : h.thread = t /\ h # g /\ (Over(h) \/ Owed(h))
        PROVE  OfferOwed(t)'
    <3>1. PICK h \in gets : h.thread = t /\ h # g /\ (Over(h) \/ Owed(h))
      BY <2>3
    <3>2. h \in gets' /\ Over(h)' = Over(h)
      BY <1>1, <3>1 DEF Over
    <3>3. ASSUME Owed(h) PROVE Owed(h)'
      <4>1. Offers(t) \subseteq Truth(t) => Offers(t)' \subseteq Truth(t)'
        BY <1>9, <2>1
      <4> QED
        BY <1>1, <3>1, <3>2, <3>3, <4>1 DEF Owed
    <3> QED
      BY <3>1, <3>2, <3>3 DEF OfferOwed
  <2>4. ~Over(g)
    BY <1>0, <1>2, <1>11 DEF Over
  <2>5. link = "up" => OfferOwed(t)'
    BY <1>9, <2>2, <2>3, <2>4 DEF OfferOwed
  <2>6. link # "up" => OfferOwed(t)'
    BY <1>1 DEF OfferOwed
  <2>7. OfferOwed(t)'
    BY <2>5, <2>6
  <2> QED
    BY <1>4, <1>5, <1>6, <1>7, <2>7 DEF OfferGood
<1>12. CASE g.status = "running"
  <2>1. Offers(t)' = Offers(t)
    BY <1>3, <1>12 DEF Offers
  <2>2. ~Over(g) /\ ~Owed(g)
    BY <1>0, <1>2, <1>12 DEF Over, Owed
  <2>3. OfferOwed(t)'
    BY <1>1, <1>2, <1>9, <2>1, <2>2, OfferKept
  <2> QED
    BY <1>4, <1>5, <1>6, <1>7, <2>3 DEF OfferGood
<1> QED
  BY <1>2, <1>10, <1>11, <1>12 DEF ViewAnswers

\* The connection is up again and every thread shown is asked for. (App.tsx, onOpen)
LEMMA OffersOpen ==
    ASSUME ViewTyped, OfferGood, Open, ~astray'
    PROVE  OfferGood'
<1> USE DEF ViewTyped, ServerTyped, NetworkTyped
<1>1. /\ UNCHANGED <<stage, saved, asked, wire, answering, approvals>>
      /\ gets' = gets \cup {Answer(t) : t \in {u \in ToReconcile : saved[u] # "none"}}
      /\ wire = <<>> /\ wire' = <<>>
  BY DEF Open, server, shown
<1>2. 1..Len(wire') = {}
  BY <1>1, EmptySeq
<1>3. Numbered' /\ \A a \in answering' : Answered(a)'
  BY <1>1, <1>2 DEF OfferGood, Numbered, Answered
<1>4. ToReconcile \subseteq Talkers
  BY DEF ToReconcile, ShownTyped
<1>5. ASSUME NEW g \in gets' PROVE AnswerKept(g)'
  <2>1. CASE g \in gets
    BY <1>1, <1>2, <2>1 DEF OfferGood, AnswerKept
  <2>2. CASE \E t \in Talkers : g = Answer(t)
    BY <1>1, <1>2, <2>2 DEF AnswerKept, Answer
  <2> QED
    BY <1>1, <1>4, <2>1, <2>2
<1>6. ASSUME NEW u \in Talkers PROVE OfferOwed(u)'
  <2>1. Offers(u)' = Offers(u) /\ Truth(u)' = Truth(u)
    BY <1>1 DEF Offers, Truth
  <2>2. CASE Offers(u) = {} /\ Truth(u) = {}
    <3>1. Consistent(<<>>, u, Offers(u), Truth(u), Pending(u)')
      BY <2>2, NothingSent
    <3> QED
      BY <1>1, <2>1, <3>1 DEF OfferOwed
  <2>3. CASE u \notin ToReconcile
    <3>1. saved[u] # "waiting" /\ Without(u) = approvals
      BY <2>3 DEF Open
    <3>2. Offers(u) = {} /\ Truth(u) = {}
      BY <3>1 DEF Without, Offers, Truth
    <3> QED
      BY <2>2, <3>2
  <2>4. CASE u \in ToReconcile
    <3>1. ~Outdated(u)
      BY <2>4 DEF Open
    <3>2. CASE saved[u] \in {"none", "running"}
      <4>1. Offers(u) = {} /\ Truth(u) = {}
        BY <3>1, <3>2 DEF Outdated, Offers, Truth
      <4> QED
        BY <2>2, <4>1
    <3>3. CASE saved[u] \in {"waiting", "ended"}
      <4>0. PICK g : g = Answer(u)
        OBVIOUS
      <4>1. g \in gets'
        BY <1>1, <2>4, <3>3, <4>0
      <4>2. g.thread = u /\ g.status = saved[u] /\ g.id = asked[u]
        BY <4>0 DEF Answer
      <4>3. ~Over(g)'
        BY <1>1, <4>2 DEF Over
      <4>4. saved[u] = "waiting" => Offers(u) \subseteq Truth(u)
        BY <3>1, <1>1 DEF Outdated, Offers, Truth, ShownTyped
      <4>5. Owed(g)'
        <5>1. saved[u] = "waiting" => Offers(u)' \subseteq Truth(u)'
          BY <2>1, <4>4
        <5>2. \A i \in 1..Len(wire') : ~At(wire', i, u, Clears)
          BY <1>2
        <5>3. g.status \in {"waiting", "ended"}
          BY <3>3, <4>2
        <5> QED
          BY <4>2, <4>3, <5>1, <5>2, <5>3 DEF Owed
      <4> QED
        BY <4>1, <4>2, <4>5 DEF OfferOwed
    <3> QED
      BY <3>2, <3>3
  <2> QED
    BY <2>3, <2>4
<1> QED
  BY <1>3, <1>5, <1>6 DEF OfferGood

\* The answer to a decision takes its approval down. (App.tsx, decideApproval)
LEMMA OffersDecided ==
    ASSUME ViewTyped, OfferGood, NEW a \in answering, Decided(a), ~astray'
    PROVE  OfferGood'
<1> USE DEF ViewTyped, ServerTyped, NetworkTyped
<1>1. /\ UNCHANGED <<stage, saved, asked, link, wire, gets>> /\ answering' = {}
      /\ approvals' = approvals \/ approvals' = approvals \ {a}
  BY DEF Decided, server
<1>2. Numbered' /\ \A g \in gets' : AnswerKept(g)'
  BY <1>1 DEF OfferGood, Numbered, AnswerKept
<1>3. Answered(a) /\ a[1] \in Talkers
  BY DEF OfferGood
<1>4. ASSUME NEW u \in Talkers PROVE OfferOwed(u)'
  <2>1. OfferOwed(u) /\ Offers(u)' \subseteq Offers(u) /\ Pending(u)' = Pending(u)
    BY <1>1 DEF OfferGood, Offers, Pending
  <2>2. ASSUME Pending(u), NEW b \in Truth(u), b \in Offers(u) PROVE b \in Offers(u)'
    <3>1. b = <<u, asked[u]>> /\ b # a
      BY <1>3, <2>2 DEF Truth, Pending, Answered
    <3> QED
      BY <1>1, <2>2, <3>1 DEF Offers
  <2> QED
    BY <1>1, <2>1, <2>2, OfferKept
<1> QED
  BY <1>1, <1>2, <1>4 DEF OfferGood

\* What a step keeps, of the approvals.
OffersInv == ViewTyped /\ (~astray => OfferGood)

\* At the start nothing is offered and nothing waits.
LEMMA OffersInit == ClientInit => OffersInv
<1> SUFFICES ASSUME ClientInit PROVE OfferGood
  BY ViewTypedInit DEF OffersInv
<1>1. 1..Len(wire) = {} /\ gets = {} /\ answering = {} /\ approvals = {} /\ wire = <<>>
  BY EmptySeq DEF ClientInit
<1>2. ASSUME NEW t \in Talkers PROVE OfferOwed(t)
  <2>1. Offers(t) = {} /\ Truth(t) = {}
    BY <1>1 DEF ClientInit, Offers, Truth
  <2>2. Consistent(<<>>, t, Offers(t), Truth(t), Pending(t))
    BY <2>1, NothingSent
  <2> QED
    BY <1>1, <2>2 DEF OfferOwed
<1> QED
  BY <1>1, <1>2 DEF OfferGood, Numbered

\* Every step that is no gap keeps it.
LEMMA OffersNext == OffersInv /\ [ClientNext]_clientVars => OffersInv'
<1> SUFFICES ASSUME OffersInv, [ClientNext]_clientVars, ~astray' PROVE OfferGood'
  BY ViewTypedNext DEF OffersInv
<1> USE DEF server, network, shown, ghosts
<1>1. ViewTyped
  BY DEF OffersInv
<1>2. CASE UNCHANGED clientVars
  <2>1. OfferGood /\ \A a \in answering' : a \in answering
    BY <1>2 DEF OffersInv, clientVars
  <2> QED
    BY <1>1, <1>2, <2>1, OffersQuiet DEF clientVars
<1>3. CASE ClientNext
  <2>1. OfferGood
    BY <1>3 DEF ClientNext, OffersInv
  <2>2. ASSUME NEW t \in Talkers, Send(t, "error", 0, TRUE)
        PROVE  UNCHANGED wire \/ \E e \in ViewEvents : wire' = Append(wire, e) /\ e.type = "error"
    <3>1. [thread |-> t, type |-> "error", id |-> 0] \in ViewEvents
      BY DEF ViewEvents
    <3> QED
      BY <2>2, <3>1 DEF Send
  <2>3. ASSUME NEW t \in Talkers, BeginChat(t) PROVE OfferGood'
    <3>1. \A u \in Talkers : stage'[u] = stage[u] \/ stage'[u] = "begun"
      BY <1>1, <2>3 DEF BeginChat, To, ViewTyped, ServerTyped
    <3> QED
      BY <1>1, <2>1, <2>2, <2>3, <3>1, OffersQuiet DEF BeginChat
  <2>4. ASSUME NEW t \in Talkers, FireTimed(t) PROVE OfferGood'
    <3>1. \A u \in Talkers : stage'[u] = stage[u] \/ stage'[u] = "begun"
      BY <1>1, <2>4 DEF FireTimed, To, ViewTyped, ServerTyped
    <3> QED
      BY <1>1, <2>1, <2>4, <3>1, OffersQuiet DEF FireTimed
  <2>5. ASSUME NEW t \in Talkers, FirstItem(t) PROVE OfferGood'
    BY <1>1, <2>1, <2>5, OffersFirstItem
  <2>6. ASSUME NEW t \in Talkers, EndStream(t) \/ StreamRaises(t) PROVE OfferGood'
    BY <1>1, <2>1, <2>6, OffersEndStream
  <2>7. ASSUME NEW t \in Talkers, SendChat(t) PROVE OfferGood'
    <3>1. UNCHANGED <<stage, saved, asked, approvals, answering>>
      BY <2>7 DEF SendChat, Accepted
    <3>2. CASE Break
      BY <1>1, <2>1, <3>1, <3>2, OffersBreak
    <3>3. CASE UNCHANGED network
      BY <1>1, <2>1, <3>1, <3>3, OffersQuiet
    <3> QED
      BY <2>7, <3>2, <3>3 DEF SendChat
  <2>8. ASSUME NEW t \in Talkers, Stop(t) PROVE OfferGood'
    BY <1>1, <2>1, <2>8, ResumeOffers, OffersQuiet DEF Stop
  <2>9. ASSUME NEW t \in Talkers, Switch(t) PROVE OfferGood'
    BY <1>1, <2>1, <2>9, OffersQuiet DEF Switch
  <2>10. ASSUME NEW g \in gets, Reconcile(g) PROVE OfferGood'
    BY <1>1, <2>1, <2>10, OffersReconcile
  <2>11. ASSUME NEW a \in approvals, Decide(a) PROVE OfferGood'
    <3>1. a[1] \in Talkers
      BY <1>1 DEF ViewTyped, ShownTyped
    <3>2. UNCHANGED <<link, gets, approvals>>
      BY <2>11 DEF Decide
    <3>3. CASE /\ asked[a[1]] = a[2] /\ Resume(a[1]) /\ answering' \subseteq {a}
               /\ UNCHANGED wire
      <4>1. \A b \in answering' : b[2] <= asked[b[1]] /\ stage'[b[1]] = "begun"
        BY <1>1, <3>1, <3>3, ResumeOffers DEF ViewTyped, ServerTyped
      <4> QED
        BY <1>1, <2>1, <3>1, <3>2, <3>3, <4>1, ResumeOffers, OffersQuiet
    <3>4. CASE Send(a[1], "error", 0, TRUE) /\ UNCHANGED <<server, answering>>
      BY <1>1, <2>1, <2>2, <3>1, <3>2, <3>4, OffersQuiet
    <3> QED
      BY <2>11, <3>3, <3>4 DEF Decide
  <2>12. ASSUME NEW a \in answering, Decided(a) PROVE OfferGood'
    BY <1>1, <2>1, <2>12, OffersDecided
  <2>13. CASE Receive
    BY <1>1, <2>1, <2>13, OffersReceive
  <2>14. CASE Drop
    BY <1>1, <2>1, <2>14, OffersBreak DEF Drop
  <2>15. CASE Open
    BY <1>1, <2>1, <2>15, OffersOpen
  <2>16. CASE NewConversation
    BY <1>1, <2>1, <2>16, OffersQuiet DEF NewConversation
  <2>17. CASE Leave
    <3>1. UNCHANGED <<network, approvals>>
      BY <2>17 DEF Leave
    <3>2. active # Nobody => active \in Talkers
      BY <1>1 DEF ViewTyped, ShownTyped
    <3>3. UNCHANGED server \/ (active \in Talkers /\ Resume(active))
      BY <2>17, <3>2 DEF Leave, CancelAt
    <3> QED
      BY <1>1, <2>1, <3>1, <3>3, ResumeOffers, OffersQuiet
  <2>18. CASE Watchdog
    BY <1>1, <2>1, <2>18, OffersQuiet DEF Watchdog
  <2> QED
    BY <1>3, <2>3, <2>4, <2>5, <2>6, <2>7, <2>8, <2>9, <2>10, <2>11, <2>12, <2>13, <2>14,
       <2>15, <2>16, <2>17, <2>18 DEF ClientNext
<1> QED
  BY <1>2, <1>3

\* Once everything is quiet and no gap was met, the client offers exactly the approvals that
\* wait: events put them up and take them down in order (App.tsx, handleSocketEvent), and
\* after a break the client asks for every conversation it shows (onOpen).
THEOREM ApprovalsSafe == ClientSpec => []ApprovalsAgree
<1>1. OffersInv => ApprovalsAgree
  <2> SUFFICES ASSUME OffersInv, Settled, ~astray, NEW t \in Talkers
               PROVE  {a \in approvals : a[1] = t}
                      = (IF Pending(t) THEN {<<t, asked[t]>>} ELSE {})
    BY DEF ApprovalsAgree
  <2>1. OfferOwed(t) /\ link = "up" /\ wire = <<>> /\ gets = {} /\ stage[t] = "idle"
    BY DEF OffersInv, OfferGood, Settled
  <2>2. Consistent(<<>>, t, Offers(t), Truth(t), Pending(t))
    BY <2>1 DEF OfferOwed
  <2>3. 1..Len(<<>>) = {}
    BY EmptySeq
  <2>4. Offers(t) \subseteq Truth(t) /\ (Pending(t) => Truth(t) \subseteq Offers(t))
    BY <2>2, <2>3 DEF Consistent
  <2> QED
    BY <2>1, <2>4 DEF Offers, Truth, Pending
<1> QED
  BY <1>1, OffersInit, OffersNext, PTL DEF ClientSpec

\* The wire and the thread move, and no progress is told of a thread that is over.
LEMMA LiveEventsKept ==
    ASSUME NEW u \in Talkers, LiveEvents(u), wire \in Seq(ViewEvents),
           \/ UNCHANGED wire /\ (Live(u) => Live(u)')
           \/ \E e \in ViewEvents :
                 /\ wire' = Append(wire, e)
                 /\ e.thread = u /\ e.type \in {"node", "approval", "approval_required"} =>
                       Live(u)'
                 /\ Live(u) => Live(u)' \/ (e.thread = u /\ e.type = "done")
           \/ wire # <<>> /\ wire' = Tail(wire) /\ (Live(u) => Live(u)')
    PROVE  LiveEvents(u)'
<1>1. CASE UNCHANGED wire /\ (Live(u) => Live(u)')
  BY <1>1 DEF LiveEvents
<1>2. ASSUME NEW e \in ViewEvents, wire' = Append(wire, e),
             (e.thread = u /\ e.type \in {"node", "approval", "approval_required"}) => Live(u)',
             Live(u) => Live(u)' \/ (e.thread = u /\ e.type = "done")
      PROVE  LiveEvents(u)'
  <2> SUFFICES ASSUME NEW i \in 1..Len(wire'), ~Live(u)',
                      At(wire', i, u, {"node", "approval", "approval_required"})
               PROVE  \E j \in 1..Len(wire') : i < j /\ At(wire', j, u, {"done"})
    BY DEF LiveEvents
  <2>1. /\ Len(wire) \in Nat /\ Len(wire') = Len(wire) + 1 /\ wire'[Len(wire')] = e
        /\ \A j \in 1..Len(wire) : wire'[j] = wire[j]
    BY <1>2, Appended
  <2>2. i # Len(wire')
    BY <1>2, <2>1 DEF At
  <2>3. i \in 1..Len(wire) /\ i < Len(wire') /\ Len(wire') \in 1..Len(wire')
    BY <2>1, <2>2
  <2>4. CASE Live(u)
    <3>1. At(wire', Len(wire'), u, {"done"})
      BY <1>2, <2>1, <2>4 DEF At
    <3> QED
      BY <2>3, <3>1
  <2>5. CASE ~Live(u)
    <3>1. PICK j \in 1..Len(wire) : i < j /\ At(wire, j, u, {"done"})
      BY <2>1, <2>3, <2>5 DEF LiveEvents, At
    <3>2. j \in 1..Len(wire') /\ At(wire', j, u, {"done"})
      BY <2>1, <3>1 DEF At
    <3> QED
      BY <3>1, <3>2
  <2> QED
    BY <2>4, <2>5
<1>3. CASE wire # <<>> /\ wire' = Tail(wire) /\ (Live(u) => Live(u)')
  <2> SUFFICES ASSUME NEW i \in 1..Len(wire'), ~Live(u)',
                      At(wire', i, u, {"node", "approval", "approval_required"})
               PROVE  \E j \in 1..Len(wire') : i < j /\ At(wire', j, u, {"done"})
    BY DEF LiveEvents
  <2>1. /\ Len(wire) \in Nat \ {0} /\ Len(wire') = Len(wire) - 1
        /\ \A j \in 1..Len(wire') : wire'[j] = wire[j + 1]
    BY <1>3, Shortened
  <2>2. i + 1 \in 1..Len(wire) /\ wire'[i] = wire[i + 1]
    BY <2>1
  <2>3. PICK j \in 1..Len(wire) : i + 1 < j /\ At(wire, j, u, {"done"})
    BY <1>3, <2>2 DEF LiveEvents, At
  <2>4. j - 1 \in 1..Len(wire') /\ i < j - 1 /\ (j - 1) + 1 = j
    BY <2>1, <2>2, <2>3
  <2>5. At(wire', j - 1, u, {"done"})
    BY <2>1, <2>3, <2>4 DEF At
  <2> QED
    BY <2>4, <2>5
<1> QED
  BY <1>1, <1>2, <1>3

\* The wire and the thread move, and an end is still told.
LEMMA BusyOwedKept ==
    ASSUME NEW u \in Talkers, BusyOwed(u), wire \in Seq(ViewEvents),
           link' = "up" => link = "up", ShownBusy(u)' => ShownBusy(u),
           \A g \in gets : g.thread = u /\ g.status = "ended" => g \in gets',
           \/ UNCHANGED wire /\ (Live(u) => Live(u)')
           \/ \E e \in ViewEvents :
                 /\ wire' = Append(wire, e)
                 /\ Live(u) => Live(u)' \/ (e.thread = u /\ e.type = "done")
           \/ /\ wire # <<>> /\ wire' = Tail(wire) /\ ~At(wire, 1, u, {"done"})
              /\ Live(u) => Live(u)'
    PROVE  BusyOwed(u)'
<1> SUFFICES ASSUME link = "up", ShownBusy(u), ~Live(u)',
                    \A g \in gets' : ~(g.thread = u /\ g.status = "ended")
             PROVE  \E i \in 1..Len(wire') : At(wire', i, u, {"done"})
  BY DEF BusyOwed
<1>1. Live(u) \/ \E i \in 1..Len(wire) : At(wire, i, u, {"done"})
  BY DEF BusyOwed
<1>2. CASE UNCHANGED wire /\ (Live(u) => Live(u)')
  BY <1>1, <1>2
<1>3. ASSUME NEW e \in ViewEvents, wire' = Append(wire, e),
             Live(u) => Live(u)' \/ (e.thread = u /\ e.type = "done")
      PROVE  \E i \in 1..Len(wire') : At(wire', i, u, {"done"})
  <2>1. /\ Len(wire) \in Nat /\ Len(wire') = Len(wire) + 1 /\ wire'[Len(wire')] = e
        /\ \A j \in 1..Len(wire) : wire'[j] = wire[j]
    BY <1>3, Appended
  <2>2. CASE Live(u)
    <3>1. At(wire', Len(wire'), u, {"done"}) /\ Len(wire') \in 1..Len(wire')
      BY <1>3, <2>1, <2>2 DEF At
    <3> QED
      BY <3>1
  <2>3. CASE \E i \in 1..Len(wire) : At(wire, i, u, {"done"})
    BY <2>1, <2>3 DEF At
  <2> QED
    BY <1>1, <2>2, <2>3
<1>4. CASE /\ wire # <<>> /\ wire' = Tail(wire) /\ ~At(wire, 1, u, {"done"})
           /\ Live(u) => Live(u)'
  <2>1. /\ Len(wire) \in Nat \ {0} /\ Len(wire') = Len(wire) - 1
        /\ \A j \in 1..Len(wire') : wire'[j] = wire[j + 1]
    BY <1>4, Shortened
  <2>2. PICK j \in 1..Len(wire) : At(wire, j, u, {"done"})
    BY <1>1, <1>4
  <2>3. j # 1
    BY <1>4, <2>2
  <2>4. j - 1 \in 1..Len(wire') /\ (j - 1) + 1 = j
    BY <2>1, <2>3
  <2>5. At(wire', j - 1, u, {"done"})
    BY <2>1, <2>2, <2>4 DEF At
  <2> QED
    BY <2>4, <2>5
<1> QED
  BY <1>2, <1>3, <1>4

\* A thread moves in the back end, and perhaps tells of it.
LEMMA BusyServer ==
    ASSUME ViewTyped, BusyGood, UNCHANGED <<shown, newest, link, gets>>,
           NEW t \in Talkers, sent'[t] # 0,
           \A u \in Talkers : u # t =>
              stage'[u] = stage[u] /\ saved'[u] = saved[u] /\ waiting'[u] = waiting[u]
              /\ sent'[u] = sent[u],
           active = Nobody /\ busy /\ t = newest /\ waiting'[t] > 0 =>
              saved'[t] = "none" /\ stage'[t] = "idle" /\ waiting'[t] = 1,
           \/ UNCHANGED wire /\ (link = "up" => (Live(t) => Live(t)'))
           \/ \E e \in ViewEvents :
                 /\ wire' = Append(wire, e) /\ e.thread = t
                 /\ e.type \in {"node", "approval", "approval_required"} => Live(t)'
                 /\ Live(t) => Live(t)' \/ e.type = "done"
                 /\ e.type = "error" => ~(active = Nobody /\ busy /\ t = newest)
    PROVE  BusyGood'
<1> USE DEF shown, BusyGood
<1>0. wire \in Seq(ViewEvents) /\ (link # "up" => wire = <<>>)
  BY DEF ViewTyped, NetworkTyped
<1>1. Foreground'
  BY DEF Foreground
<1>2. \A i \in 1..Len(wire') :
         \/ \E j \in 1..Len(wire) : wire'[i] = wire[j]
         \/ wire'[i].thread = t
            /\ (wire'[i].type = "error" => ~(active = Nobody /\ busy /\ t = newest))
  <2>1. CASE UNCHANGED wire
    BY <2>1
  <2>2. ASSUME NEW e \in ViewEvents, wire' = Append(wire, e), NEW i \in 1..Len(wire')
        PROVE  wire'[i] = e \/ \E j \in 1..Len(wire) : wire'[i] = wire[j]
    <3>1. i = Len(wire) + 1 \/ i \in 1..Len(wire)
      BY <1>0, <2>2, Appended
    <3> QED
      BY <1>0, <2>2, <3>1, Appended
  <2> QED
    BY <2>1, <2>2
<1>3. Fresh'
  <2> SUFFICES ASSUME active = Nobody, busy
               PROVE  /\ newest \in Chats \ detached
                      /\ \A i \in 1..Len(wire') : ~At(wire', i, newest, {"error"})
                      /\ \A a \in approvals : a[1] # newest
                      /\ waiting'[newest] > 0 =>
                            /\ saved'[newest] = "none" /\ stage'[newest] = "idle"
                            /\ waiting'[newest] = 1
    BY DEF Fresh
  <2>1. newest \in Talkers /\ newest \in Chats \ detached /\ \A a \in approvals : a[1] # newest
    BY DEF Fresh, Talkers
  <2>2. \A i \in 1..Len(wire') : ~At(wire', i, newest, {"error"})
    BY <1>2 DEF Fresh, At
  <2> QED
    BY <2>1, <2>2 DEF Fresh
<1>4. ASSUME NEW u \in Talkers, u # t
      PROVE  Unheard(u)' /\ BusyOwed(u)' /\ LiveEvents(u)'
  <2>1. (Live(u)' <=> Live(u)) /\ (ShownBusy(u)' <=> ShownBusy(u))
    BY <1>4 DEF Live, ShownBusy
  <2>2. Unheard(u) /\ BusyOwed(u) /\ LiveEvents(u)
    OBVIOUS
  <2>3. Unheard(u)'
    BY <1>2, <1>4, <2>2 DEF Unheard
  <2>5. BusyOwed(u)'
    BY <1>0, <1>4, <2>1, <2>2, BusyOwedKept
  <2>6. LiveEvents(u)'
    BY <1>0, <1>4, <2>1, <2>2, LiveEventsKept
  <2> QED
    BY <2>3, <2>5, <2>6
<1>5. Unheard(t)'
  BY DEF Unheard
<1>6. BusyOwed(t)' /\ LiveEvents(t)'
  <2>1. BusyOwed(t) /\ LiveEvents(t) /\ (ShownBusy(t)' <=> ShownBusy(t))
    BY DEF ShownBusy
  <2>2. CASE link # "up" /\ UNCHANGED wire
    <3>1. 1..Len(wire') = {}
      BY <1>0, <2>2, EmptySeq
    <3> QED
      BY <2>2, <3>1 DEF BusyOwed, LiveEvents
  <2>3. CASE UNCHANGED wire /\ (Live(t) => Live(t)')
    BY <1>0, <2>1, <2>3, BusyOwedKept, LiveEventsKept
  <2>4. ASSUME NEW e \in ViewEvents,
               wire' = Append(wire, e), e.thread = t,
               e.type \in {"node", "approval", "approval_required"} => Live(t)',
               Live(t) => Live(t)' \/ e.type = "done"
        PROVE  BusyOwed(t)' /\ LiveEvents(t)'
    <3>1. BusyOwed(t)'
      BY <1>0, <2>1, <2>4, BusyOwedKept
    <3>2. LiveEvents(t)'
      BY <1>0, <2>1, <2>4, LiveEventsKept
    <3> QED
      BY <3>1, <3>2
  <2> QED
    BY <2>2, <2>3, <2>4
<1> QED
  BY <1>1, <1>3, <1>4, <1>5, <1>6

\* The client shows another thing, or a wait for an approval is ended.
LEMMA BusyShown ==
    ASSUME ViewTyped, BusyGood, UNCHANGED <<saved, waiting, sent, link, wire, gets, approvals>>,
           \A u \in Talkers : stage'[u] = stage[u] \/ stage'[u] = "begun",
           Foreground', active' # Nobody \/ ~busy',
           \A u \in Talkers : /\ ShownBusy(u)' => ShownBusy(u)
                              /\ sent[u] = 0 =>
                                    views'[u] = "none" /\ u # active' /\ u \notin detached'
    PROVE  BusyGood'
<1> USE DEF BusyGood
<1>1. Fresh'
  BY DEF Fresh
<1>2. ASSUME NEW u \in Talkers
      PROVE  Unheard(u)' /\ BusyOwed(u)' /\ LiveEvents(u)'
  <2>1. Live(u) => Live(u)'
    BY DEF Live
  <2>2. Unheard(u) /\ BusyOwed(u) /\ LiveEvents(u) /\ wire \in Seq(ViewEvents)
    BY DEF ViewTyped, NetworkTyped
  <2>3. Unheard(u)'
    BY <2>2 DEF Unheard
  <2>5. BusyOwed(u)'
    BY <2>1, <2>2, BusyOwedKept
  <2>6. LiveEvents(u)'
    BY <2>1, <2>2, LiveEventsKept
  <2> QED
    BY <2>3, <2>5, <2>6
<1> QED
  BY <1>1, <1>2

\* A turn begins. (main.py, _start_chat)
LEMMA BusyBegin ==
    ASSUME ViewTyped, BusyGood, NEW t \in Talkers, BeginChat(t)
    PROVE  BusyGood'
<1> USE DEF ViewTyped, ServerTyped
<1>1. /\ UNCHANGED <<saved, shown, newest, link, gets, sent>> /\ stage[t] = "idle"
      /\ waiting[t] > 0 /\ waiting' = [waiting EXCEPT ![t] = waiting[t] - 1] /\ sent[t] # 0
  BY DEF BeginChat, ghosts
<1>2. \/ stage' = [stage EXCEPT ![t] = "begun"] /\ UNCHANGED wire
      \/ saved[t] = "waiting" /\ UNCHANGED stage
         /\ (UNCHANGED wire \/ wire' = Append(wire, [thread |-> t, type |-> "error", id |-> 0]))
  BY DEF BeginChat, To, Send
<1>3. Live(t)'
  <2>1. CASE stage' = [stage EXCEPT ![t] = "begun"]
    BY <2>1 DEF Live
  <2>2. CASE saved[t] = "waiting"
    BY <1>1, <2>2 DEF Live
  <2> QED
    BY <1>2, <2>1, <2>2
<1>4. \A u \in Talkers : u # t =>
         stage'[u] = stage[u] /\ saved'[u] = saved[u] /\ waiting'[u] = waiting[u]
         /\ sent'[u] = sent[u]
  BY <1>1, <1>2
<1>5. active = Nobody /\ busy /\ t = newest =>
         waiting[t] = 1 /\ saved[t] = "none"
  BY <1>1 DEF BusyGood, Fresh
<1>6. active = Nobody /\ busy /\ t = newest /\ waiting'[t] > 0 => FALSE
  BY <1>1, <1>5
<1>7. [thread |-> t, type |-> "error", id |-> 0] \in ViewEvents
  BY DEF ViewEvents
<1>8. CASE UNCHANGED wire
  BY <1>1, <1>3, <1>4, <1>6, <1>8, BusyServer
<1>9. CASE saved[t] = "waiting" /\ wire' = Append(wire, [thread |-> t, type |-> "error", id |-> 0])
  <2>1. PICK e \in ViewEvents : wire' = Append(wire, e) /\ e.thread = t /\ e.type = "error"
    BY <1>7, <1>9
  <2>2. ~(active = Nobody /\ busy /\ t = newest)
    BY <1>5, <1>9
  <2> QED
    BY <1>1, <1>3, <1>4, <1>6, <2>1, <2>2, BusyServer
<1> QED
  BY <1>2, <1>8, <1>9

\* A scheduled task fires. (main.py, _scheduled_runner)
LEMMA BusyFire ==
    ASSUME ViewTyped, BusyGood, NEW t \in Talkers, FireTimed(t)
    PROVE  BusyGood'
<1> USE ClientAssumption DEF ViewTyped, ServerTyped
<1>1. /\ UNCHANGED <<saved, waiting, shown, newest, link, wire, gets>>
      /\ stage' = [stage EXCEPT ![t] = "begun"] /\ sent' = [sent EXCEPT ![t] = 1]
  BY DEF FireTimed, To, network
<1>2. Live(t)'
  BY <1>1 DEF Live
<1>3. ~(active = Nobody /\ busy /\ t = newest)
  BY DEF BusyGood, Fresh, FireTimed
<1> QED
  BY <1>1, <1>2, <1>3, BusyServer

\* The first item of a run.
LEMMA BusyFirstItem ==
    ASSUME ViewTyped, BusyGood, NEW t \in Talkers, FirstItem(t), ~astray'
    PROVE  BusyGood'
<1> USE DEF ViewTyped, ServerTyped
<1>1. /\ UNCHANGED <<waiting, shown, newest, link, gets, sent>> /\ stage[t] = "begun"
      /\ stage' = [stage EXCEPT ![t] = "running"]
      /\ saved' = [saved EXCEPT ![t] = "running"] /\ sent[t] # 0
  BY DEF FirstItem, To, Untold
<1>2. Live(t)'
  BY <1>1 DEF Live
<1>3. active = Nobody /\ busy /\ t = newest /\ waiting'[t] > 0 => FALSE
  BY <1>1 DEF BusyGood, Fresh
<1>4. UNCHANGED wire \/ \E e \in ViewEvents :
         wire' = Append(wire, e) /\ e.thread = t /\ e.type # "error"
  <2> DEFINE e == [thread |-> t, id |-> 0,
                   type |-> IF saved[t] = "waiting" THEN "approval" ELSE "node"]
  <2>1. e \in ViewEvents /\ e.thread = t /\ e.type # "error"
    BY DEF ViewEvents
  <2>2. UNCHANGED wire \/ wire' = Append(wire, e)
    BY DEF FirstItem, Send
  <2> QED
    BY <2>1, <2>2
<1> QED
  BY <1>1, <1>2, <1>3, <1>4, BusyServer

\* A run ends. (main.py, _run_stream)
LEMMA BusyEndStream ==
    ASSUME ViewTyped, BusyGood, NEW t \in Talkers, EndStream(t), ~astray'
    PROVE  BusyGood'
<1> USE DEF ViewTyped, ServerTyped
<1>1. /\ UNCHANGED <<waiting, shown, newest, link, gets, sent>> /\ stage[t] = "running"
      /\ stage' = [stage EXCEPT ![t] = "idle"] /\ sent[t] # 0
  BY DEF EndStream, To, Untold
<1>2. active = Nobody /\ busy /\ t = newest /\ waiting'[t] > 0 => FALSE
  BY <1>1 DEF BusyGood, Fresh
<1>3. CASE saved' = [saved EXCEPT ![t] = "waiting"]
            /\ Send(t, "approval_required", asked[t] + 1, told[t])
  <2>1. Live(t)'
    BY <1>3 DEF Live
  <2>2. [thread |-> t, type |-> "approval_required", id |-> asked[t] + 1] \in ViewEvents
    BY DEF ViewEvents
  <2>3. UNCHANGED wire \/ \E e \in ViewEvents :
           wire' = Append(wire, e) /\ e.thread = t /\ e.type # "error"
    BY <1>3, <2>2 DEF Send
  <2> QED
    BY <1>1, <1>2, <1>3, <2>1, <2>3, BusyServer
<1>4. CASE saved' = [saved EXCEPT ![t] = "ended"] /\ Send(t, "done", 0, told[t])
  <2>2. [thread |-> t, type |-> "done", id |-> 0] \in ViewEvents
    BY DEF ViewEvents
  <2>3. (UNCHANGED wire /\ link # "up") \/ \E e \in ViewEvents :
           wire' = Append(wire, e) /\ e.thread = t /\ e.type = "done"
    BY <1>4, <2>2 DEF Send, EndStream, Untold
  <2> QED
    BY <1>1, <1>2, <1>4, <2>3, BusyServer
<1> QED
  BY <1>3, <1>4 DEF EndStream

\* A run fails. (main.py, _run_stream)
LEMMA BusyStreamRaises ==
    ASSUME ViewTyped, BusyGood, NEW t \in Talkers, StreamRaises(t), ~astray'
    PROVE  BusyGood'
<1> USE DEF ViewTyped, ServerTyped
<1>1. /\ UNCHANGED <<saved, waiting, shown, newest, link, gets, sent>> /\ stage[t] # "idle"
      /\ stage' = [stage EXCEPT ![t] = "idle"] /\ sent[t] # 0
  BY DEF StreamRaises, To
<1>2. active = Nobody /\ busy /\ t = newest /\ waiting'[t] > 0 => FALSE
  BY <1>1 DEF BusyGood, Fresh
<1>3. [thread |-> t, type |-> "done", id |-> 0] \in ViewEvents
  BY DEF ViewEvents
<1>4. (UNCHANGED wire /\ link # "up") \/ \E e \in ViewEvents :
         wire' = Append(wire, e) /\ e.thread = t /\ e.type = "done"
  BY <1>3 DEF Send, StreamRaises
<1> QED
  BY <1>1, <1>2, <1>4, BusyServer

\* A thread is taken up again.
LEMMA BusyResume ==
    ASSUME ViewTyped, BusyGood, NEW t \in Talkers, Pending(t), Resume(t),
           UNCHANGED <<link, wire, gets, shown, ghosts>>
    PROVE  BusyGood'
<1> USE DEF ViewTyped, ServerTyped
<1>1. /\ UNCHANGED <<saved, waiting, newest, sent>> /\ saved[t] = "waiting"
      /\ stage' = [stage EXCEPT ![t] = "begun"] /\ sent[t] # 0
  BY DEF Resume, To, Pending, ghosts
<1>2. Live(t)'
  BY <1>1 DEF Live
<1>3. active = Nobody /\ busy /\ t = newest /\ waiting'[t] > 0 => FALSE
  BY <1>1 DEF BusyGood, Fresh
<1> QED
  BY <1>1, <1>2, <1>3, BusyServer

\* The user decides.
LEMMA BusyDecide ==
    ASSUME ViewTyped, BusyGood, NEW a \in approvals, Decide(a)
    PROVE  BusyGood'
<1>1. a[1] \in Talkers /\ UNCHANGED <<link, gets, shown, ghosts>>
  BY DEF Decide, ViewTyped, ShownTyped
<1>2. CASE Pending(a[1]) /\ Resume(a[1]) /\ UNCHANGED wire
  BY <1>1, <1>2, BusyResume
<1>3. CASE Send(a[1], "error", 0, TRUE) /\ UNCHANGED server
  <2>1. PICK t \in Talkers : t = a[1]
    BY <1>1
  <2>2. Unheard(t)
    BY DEF BusyGood
  <2>3. sent'[t] # 0 /\ (Live(t)' <=> Live(t))
    BY <1>1, <1>3, <2>1, <2>2 DEF Unheard, Live, server, ghosts
  <2>4. ~(active = Nobody /\ busy /\ t = newest)
    BY <2>1 DEF BusyGood, Fresh
  <2>5. [thread |-> t, type |-> "error", id |-> 0] \in ViewEvents
    BY DEF ViewEvents
  <2>6. UNCHANGED wire \/ \E e \in ViewEvents :
           wire' = Append(wire, e) /\ e.thread = t /\ e.type = "error"
    BY <1>3, <2>1, <2>5 DEF Send
  <2> QED
    BY <1>1, <1>3, <2>3, <2>4, <2>6, BusyServer DEF server, ghosts
<1> QED
  BY <1>2, <1>3 DEF Decide

\* The connection breaks; nothing of what was on its way is left.
LEMMA BusyBreak ==
    ASSUME ViewTyped, BusyGood, Break, UNCHANGED <<stage, saved, waiting, sent>>,
           UNCHANGED <<active, views, detached, approvals>>,
           active = Nobody /\ busy' => newest' \in Chats \ detached
              /\ (\A a \in approvals : a[1] # newest')
              /\ (waiting[newest'] > 0 =>
                    saved[newest'] = "none" /\ stage[newest'] = "idle" /\ waiting[newest'] = 1)
    PROVE  BusyGood'
<1>1. link' # "up" /\ wire' = <<>> /\ gets' \subseteq gets
  BY DEF Break
<1>2. 1..Len(wire') = {}
  BY <1>1, EmptySeq
<1>3. Foreground' /\ Fresh'
  BY <1>2 DEF BusyGood, Foreground, Fresh
<1>4. ASSUME NEW u \in Talkers
      PROVE  Unheard(u)' /\ BusyOwed(u)' /\ LiveEvents(u)'
  <2>1. Unheard(u)
    BY DEF BusyGood
  <2> QED
    BY <1>1, <1>2, <2>1 DEF Unheard, BusyOwed, LiveEvents
<1> QED
  BY <1>3, <1>4 DEF BusyGood

\* The user sends a message, with the connection up or found broken.
LEMMA BusySendChat ==
    ASSUME ViewTyped, BusyGood, NEW t \in Talkers, SendChat(t)
    PROVE  BusyGood'
<1> USE ClientAssumption DEF ViewTyped
<1>1. /\ UNCHANGED <<views, detached, approvals>> /\ ~busy
      /\ newest' = IF active = Nobody THEN t ELSE newest
      /\ active = Nobody => t \in Chats /\ sent[t] = 0
      /\ active # Nobody => t = active
  BY DEF SendChat, Addressed
<1>2. Unheard(t) /\ (sent[t] = 0 => stage[t] = "idle" /\ saved[t] = "none" /\ waiting[t] = 0)
  BY DEF BusyGood, ServerTyped
<1>3. CASE Break /\ UNCHANGED <<server, active, sent>>
  <2>1. active = Nobody => newest' \in Chats \ detached
           /\ (\A a \in approvals : a[1] # newest') /\ waiting[newest'] = 0
    BY <1>1, <1>2 DEF Unheard
  <2> QED
    BY <1>1, <1>3, <2>1, BusyBreak DEF server
<1>4. CASE Accepted(t) /\ UNCHANGED network
           /\ (UNCHANGED active \/ (link = "down" /\ active' = t))
  <2>1. /\ UNCHANGED <<stage, saved>> /\ waiting' = [waiting EXCEPT ![t] = waiting[t] + 1]
        /\ sent' = [sent EXCEPT ![t] = sent[t] + 1]
    BY <1>4 DEF Accepted
  <2>2. wire \in Seq(ViewEvents) /\ (link = "down" => wire = <<>>)
    BY DEF NetworkTyped
  <2>3. Foreground'
    <3>1. CASE UNCHANGED active
      BY <1>1, <3>1 DEF BusyGood, Foreground
    <3>2. CASE active' = t /\ active # Nobody
      BY <1>1, <3>2 DEF BusyGood, Foreground
    <3>3. CASE active' = t /\ active = Nobody
      BY <1>1, <1>2, <3>3 DEF Unheard, Foreground
    <3> QED
      BY <1>4, <3>1, <3>2, <3>3
  <2>4. Fresh'
    <3> SUFFICES ASSUME active' = Nobody
                 PROVE  /\ newest' \in Chats \ detached
                        /\ \A i \in 1..Len(wire) : ~At(wire, i, newest', {"error"})
                        /\ \A a \in approvals : a[1] # newest'
                        /\ waiting'[newest'] > 0 =>
                              /\ saved[newest'] = "none" /\ stage[newest'] = "idle"
                              /\ waiting'[newest'] = 1
      BY <1>1, <1>4, <2>1 DEF Fresh, network
    <3>1. active = Nobody /\ newest' = t /\ sent[t] = 0
      BY <1>1, <1>4
    <3>2. waiting'[t] = 1 /\ saved[t] = "none" /\ stage[t] = "idle"
      BY <1>2, <2>1, <3>1 DEF ServerTyped
    <3> QED
      BY <1>1, <1>2, <3>1, <3>2 DEF Unheard, At
  <2>5. ASSUME NEW u \in Talkers
        PROVE  Unheard(u)' /\ BusyOwed(u)' /\ LiveEvents(u)'
    <3>1. Unheard(u) /\ BusyOwed(u) /\ LiveEvents(u)
      BY DEF BusyGood
    <3>2. Live(u) => Live(u)'
      BY <2>1 DEF Live, ServerTyped
    <3>3. Unheard(u)'
      <4>1. CASE u = t
        BY <2>1, <4>1 DEF Unheard, ServerTyped
      <4>2. CASE u # t
        BY <1>1, <1>4, <2>1, <3>1, <4>2 DEF Unheard, network, ServerTyped
      <4> QED
        BY <4>1, <4>2
    <3>5. LiveEvents(u)'
      BY <1>4, <2>2, <3>1, <3>2, LiveEventsKept DEF network
    <3>6. BusyOwed(u)'
      <4>1. CASE link = "down"
        BY <1>4, <4>1 DEF BusyOwed, network
      <4>2. CASE UNCHANGED active /\ u = t
        <5>1. Live(u)'
          BY <2>1, <4>2 DEF Live, ServerTyped
        <5> QED
          BY <5>1 DEF BusyOwed
      <4>3. CASE UNCHANGED active /\ u # t
        <5>1. ShownBusy(u)' => ShownBusy(u)
          BY <1>1, <4>3 DEF ShownBusy
        <5> QED
          BY <1>4, <2>2, <3>1, <3>2, <5>1, BusyOwedKept DEF network
      <4> QED
        BY <1>4, <4>1, <4>2, <4>3
    <3> QED
      BY <3>3, <3>5, <3>6
  <2> QED
    BY <2>3, <2>4, <2>5 DEF BusyGood
<1> QED
  BY <1>3, <1>4 DEF SendChat, network

\* The connection is up again: every thread shown busy is asked for. (App.tsx, onOpen)
LEMMA BusyOpen ==
    ASSUME ViewTyped, BusyGood, Open, ~astray'
    PROVE  BusyGood'
<1> USE DEF ViewTyped
<1>1. /\ UNCHANGED <<server, wire, shown, sent, newest>> /\ link = "down"
      /\ gets' = gets \cup {Answer(t) : t \in {u \in ToReconcile : saved[u] # "none"}}
  BY DEF Open
<1>2. 1..Len(wire') = {} /\ ToReconcile \subseteq Talkers
  BY <1>1, EmptySeq DEF NetworkTyped, ShownTyped, ToReconcile
<1>3. Foreground' /\ Fresh'
  BY <1>1, <1>2 DEF BusyGood, Foreground, Fresh, server, shown
<1>4. ASSUME NEW u \in Talkers
      PROVE  Unheard(u)' /\ BusyOwed(u)' /\ LiveEvents(u)'
  <2>1. Unheard(u)
    BY DEF BusyGood
  <2>2. Unheard(u)'
    <3> SUFFICES ASSUME sent[u] = 0
                 PROVE  Unheard(u)'
      BY <1>1 DEF Unheard
    <3>1. saved[u] = "none"
      BY DEF ServerTyped
    <3>2. \A g \in gets' : g.thread # u
      BY <1>1, <2>1, <3>1 DEF Unheard, Answer
    <3> QED
      BY <1>1, <1>2, <2>1, <3>2 DEF Unheard, shown
  <2>3. LiveEvents(u)'
    BY <1>1, <1>2 DEF LiveEvents
  <2>4. BusyOwed(u)'
    <3> SUFFICES ASSUME ShownBusy(u), ~Live(u)
                 PROVE  \E g \in gets' : g.thread = u /\ g.status = "ended"
      BY <1>1 DEF BusyOwed, ShownBusy, Live, server, shown
    <3>2. u \in ToReconcile
      BY ClientAssumption DEF ShownBusy, ToReconcile, ShownTyped
    <3>3. saved[u] = "ended"
      <4>1. ~Stranded(u)
        BY <3>2 DEF Open
      <4> QED
        BY <4>1 DEF Live, Stranded, ServerTyped
    <3>4. Answer(u) \in gets' /\ Answer(u).thread = u /\ Answer(u).status = "ended"
      BY <1>1, <3>2, <3>3 DEF Answer
    <3> QED
      BY <3>4
  <2> QED
    BY <2>2, <2>3, <2>4
<1> QED
  BY <1>3, <1>4 DEF BusyGood

\* An event is handled: it makes a thread busy only if it tells of progress. (App.tsx, handleSocketEvent)
LEMMA BusyHandle ==
    ASSUME ViewTyped, BusyGood, NEW t \in Talkers, NEW type, NEW id, Handle(type, t, id),
           ~Misplaced(type, t)
    PROVE  /\ Foreground' /\ UNCHANGED detached
           /\ active' \in {active, t} /\ \A u \in Talkers : u # t => views'[u] = views[u]
           /\ \A a \in approvals' : a \in approvals \/ a[1] = t
           /\ active' = Nobody /\ busy' => active = Nobody /\ busy /\ t # newest
           /\ \A u \in Talkers : u # t => (ShownBusy(u)' => ShownBusy(u))
           /\ type = "done" => ~ShownBusy(t)'
           /\ type = "error" /\ ~(active = Nobody /\ busy /\ t = newest) =>
                 (ShownBusy(t)' => ShownBusy(t))
<1> USE ClientAssumption DEF ViewTyped, ShownTyped
<1>1. Foreground
  BY DEF BusyGood
<1>2. \A a \in approvals' : a \in approvals \/ a[1] = t
  BY DEF Handle, Offered, Without
<1>3. CASE Background(t)
  <2>1. /\ UNCHANGED <<active, busy, detached>>
        /\ views' = [views EXCEPT ![t] = Reduced(views[t], type)]
    BY <1>3 DEF Handle
  <2>2. t # active
    BY <1>1, <1>3 DEF Background, Foreground
  <2>3. Foreground'
    BY <1>1, <2>1, <2>2 DEF Foreground
  <2>4. active = Nobody /\ busy => t # newest
    BY <1>3 DEF BusyGood, Fresh, Background
  <2>5. views'[t] = Reduced(views[t], type) /\ \A u \in Talkers : u # t => views'[u] = views[u]
    BY <2>1
  <2>6. type = "error" => views[t] # "none"
    BY <1>3 DEF Misplaced
  <2> QED
    BY <1>2, <2>1, <2>2, <2>3, <2>4, <2>5, <2>6 DEF ShownBusy, Reduced
<1>4. CASE ~Background(t)
  <2>1. /\ UNCHANGED <<views, detached>> /\ active' = t /\ (busy' <=> busy /\ type # "done")
    BY <1>4 DEF Handle
  <2>2. t \notin Timed \cup detached /\ (active = Nobody \/ active = t)
    BY <1>4 DEF Background
  <2>3. active = Nobody => t = newest /\ views[t] # "busy"
    BY <1>4 DEF Misplaced
  <2>4. views[t] # "busy"
    BY <1>1, <2>2, <2>3 DEF Foreground
  <2>5. Foreground'
    BY <2>1, <2>2, <2>4 DEF Foreground
  <2> QED
    BY <1>2, <2>1, <2>2, <2>3, <2>4, <2>5 DEF ShownBusy
<1> QED
  BY <1>3, <1>4

\* The first event on the wire is handled.
LEMMA BusyReceive ==
    ASSUME ViewTyped, BusyGood, Receive, ~astray'
    PROVE  BusyGood'
<1>1. PICK e \in ViewEvents : e = wire[1] /\ e = Head(wire)
  <2>1. 1 \in 1..Len(wire) /\ Head(wire) = wire[1]
    BY Shortened DEF Receive, ViewTyped, NetworkTyped
  <2> QED
    BY <2>1, ElementOfSeq DEF ViewTyped, NetworkTyped
<1>2. PICK t \in Talkers : t = e.thread
  BY DEF ViewEvents
<1>3. /\ wire \in Seq(ViewEvents) /\ wire # <<>> /\ wire' = Tail(wire) /\ 1 \in 1..Len(wire)
      /\ UNCHANGED <<server, link, gets, sent, newest>>
  BY Shortened DEF Receive, ViewTyped, NetworkTyped
<1>4. Handle(e.type, t, e.id) /\ ~Misplaced(e.type, t)
  BY <1>1, <1>2 DEF Receive
<1>5. /\ Foreground' /\ UNCHANGED detached
      /\ active' \in {active, t} /\ \A u \in Talkers : u # t => views'[u] = views[u]
      /\ \A a \in approvals' : a \in approvals \/ a[1] = t
      /\ active' = Nobody /\ busy' => active = Nobody /\ busy /\ t # newest
      /\ \A u \in Talkers : u # t => (ShownBusy(u)' => ShownBusy(u))
      /\ e.type = "done" => ~ShownBusy(t)'
      /\ e.type = "error" /\ ~(active = Nobody /\ busy /\ t = newest) =>
            (ShownBusy(t)' => ShownBusy(t))
  BY <1>4, BusyHandle
<1>6. \A i \in 1..Len(wire') : i + 1 \in 1..Len(wire) /\ wire'[i] = wire[i + 1]
  BY <1>3, Shortened
<1>7. Fresh'
  BY <1>3, <1>5, <1>6 DEF BusyGood, Fresh, At, server
<1>8. ASSUME NEW u \in Talkers
      PROVE  Unheard(u)' /\ BusyOwed(u)' /\ LiveEvents(u)'
  <2>1. Unheard(u) /\ BusyOwed(u) /\ LiveEvents(u)
    BY DEF BusyGood
  <2>2. Live(u)' <=> Live(u)
    BY <1>3 DEF Live, server
  <2>3. Unheard(u)'
    <3>1. sent[u] = 0 => u # t
      BY <1>1, <1>2, <1>3, <2>1 DEF Unheard
    <3> QED
      BY <1>3, <1>5, <1>6, <2>1, <3>1 DEF Unheard
  <2>4. LiveEvents(u)'
    BY <1>3, <2>1, <2>2, LiveEventsKept
  <2>5. BusyOwed(u)'
    <3>1. CASE (ShownBusy(u)' => ShownBusy(u)) /\ ~At(wire, 1, u, {"done"})
      BY <1>3, <2>1, <2>2, <3>1, BusyOwedKept
    <3>2. CASE At(wire, 1, u, {"done"})
      BY <1>1, <1>2, <1>5, <3>2 DEF At, BusyOwed
    <3>3. CASE u = t /\ e.type = "error"
      <4>1. ~(active = Nobody /\ busy /\ t = newest)
        BY <1>1, <1>2, <1>3, <3>3 DEF BusyGood, Fresh, At
      <4>2. ~At(wire, 1, u, {"done"})
        BY <1>1, <3>3 DEF At
      <4> QED
        BY <1>5, <3>1, <3>3, <4>1, <4>2
    <3>4. CASE u = t /\ e.type \in {"node", "approval", "approval_required"}
      <4>1. Live(u) \/ \E j \in 1..Len(wire) : 1 < j /\ At(wire, j, u, {"done"})
        BY <1>1, <1>2, <1>3, <2>1, <3>4 DEF LiveEvents, At
      <4>2. ASSUME NEW j \in 1..Len(wire), 1 < j, At(wire, j, u, {"done"})
            PROVE  \E i \in 1..Len(wire') : At(wire', i, u, {"done"})
        <5>1. j - 1 \in 1..Len(wire') /\ (j - 1) + 1 = j
          BY <1>3, <4>2, Shortened
        <5>2. At(wire', j - 1, u, {"done"})
          BY <1>6, <4>2, <5>1 DEF At
        <5> QED
          BY <5>1, <5>2
      <4> QED
        BY <2>2, <4>1, <4>2 DEF BusyOwed
    <3>5. e.type \in {"node", "approval", "approval_required", "done", "error"}
      BY DEF ViewEvents
    <3>6. u # t => (ShownBusy(u)' => ShownBusy(u)) /\ ~At(wire, 1, u, {"done"})
      BY <1>1, <1>2, <1>5 DEF At
    <3>7. u = t /\ e.type = "done" => At(wire, 1, u, {"done"})
      BY <1>1, <1>2 DEF At
    <3> QED
      BY <3>1, <3>2, <3>3, <3>4, <3>5, <3>6, <3>7
  <2> QED
    BY <2>3, <2>4, <2>5
<1> QED
  BY <1>5, <1>7, <1>8 DEF BusyGood

\* An answer is handled: one that says ended makes the thread idle.
LEMMA BusyReconcile ==
    ASSUME ViewTyped, BusyGood, NEW g \in gets, Reconcile(g), ~astray'
    PROVE  BusyGood'
<1>1. PICK t \in Talkers : t = g.thread
  BY DEF ViewTyped, NetworkTyped, ViewAnswers
<1>2. g.status \in {"running", "waiting", "ended"} /\ g = Answer(t)
  BY <1>1 DEF ViewTyped, NetworkTyped, ViewAnswers, Reconcile
<1>3. /\ UNCHANGED <<server, link, wire, sent, newest>> /\ gets' = gets \ {g}
      /\ wire \in Seq(ViewEvents)
  BY DEF Reconcile, ViewTyped, NetworkTyped
<1>4. Handle(EventOf(g.status), t, g.id) /\ ~Misplaced(EventOf(g.status), t)
  BY <1>1 DEF Reconcile
<1>5. /\ Foreground' /\ UNCHANGED detached
      /\ active' \in {active, t} /\ \A u \in Talkers : u # t => views'[u] = views[u]
      /\ \A a \in approvals' : a \in approvals \/ a[1] = t
      /\ active' = Nobody /\ busy' => active = Nobody /\ busy /\ t # newest
      /\ \A u \in Talkers : u # t => (ShownBusy(u)' => ShownBusy(u))
      /\ EventOf(g.status) = "done" => ~ShownBusy(t)'
  BY <1>4, BusyHandle
<1>6. Fresh'
  BY <1>3, <1>5 DEF BusyGood, Fresh, server
<1>7. ASSUME NEW u \in Talkers
      PROVE  Unheard(u)' /\ BusyOwed(u)' /\ LiveEvents(u)'
  <2>1. Unheard(u) /\ BusyOwed(u) /\ LiveEvents(u)
    BY DEF BusyGood
  <2>2. Live(u)' <=> Live(u)
    BY <1>3 DEF Live, server
  <2>3. sent[u] = 0 => u # t
    BY <1>1, <2>1 DEF Unheard
  <2>4. Unheard(u)'
    BY <1>3, <1>5, <2>1, <2>3 DEF Unheard
  <2>6. LiveEvents(u)'
    BY <1>3, <2>1, <2>2, LiveEventsKept
  <2>7. BusyOwed(u)'
    <3>1. CASE u # t
      <4>1. \A h \in gets : h.thread = u => h \in gets'
        BY <1>1, <1>3, <3>1
      <4> QED
        BY <1>3, <1>5, <2>1, <2>2, <3>1, <4>1, BusyOwedKept
    <3>2. CASE u = t /\ g.status = "ended"
      BY <1>5, <3>2 DEF EventOf, BusyOwed
    <3>3. CASE u = t /\ g.status # "ended"
      <4>1. CASE Live(u)
        BY <2>2, <4>1 DEF BusyOwed
      <4>2. CASE ~Live(u)
        <5>1. Stranded(u)
          BY <1>2, <3>3, <4>2 DEF Answer, Stranded, Live, ViewTyped, ServerTyped
        <5>2. ShownBusy(u)' => ShownBusy(u)
          BY <1>1, <3>3, <5>1 DEF Reconcile
        <5>3. \A h \in gets : h.status = "ended" => h \in gets'
          BY <1>3, <3>3
        <5> QED
          BY <1>3, <2>1, <2>2, <5>2, <5>3, BusyOwedKept
      <4> QED
        BY <4>1, <4>2
    <3> QED
      BY <3>1, <3>2, <3>3
  <2> QED
    BY <2>4, <2>6, <2>7
<1> QED
  BY <1>5, <1>6, <1>7 DEF BusyGood

\* The user leaves the conversation, which detaches a busy one.
LEMMA BusyLeave ==
    ASSUME ViewTyped, BusyGood, Leave
    PROVE  BusyGood'
<1> USE ClientAssumption DEF ViewTyped, ShownTyped
<1>1. /\ UNCHANGED <<network, approvals, ghosts, saved, waiting>> /\ busy /\ ~busy'
      /\ active' = Nobody
  BY DEF Leave, CancelAt, Resume, server
<1>2. \A u \in Talkers : stage'[u] = stage[u] \/ stage'[u] = "begun"
  BY ResumeOffers DEF Leave, CancelAt, server
<1>3. Foreground'
  BY <1>1 DEF Foreground, Talkers, Leave
<1>4. ASSUME NEW u \in Talkers
      PROVE  /\ ShownBusy(u)' => ShownBusy(u)
             /\ sent[u] = 0 => views'[u] = "none" /\ u # active' /\ u \notin detached'
  <2>1. Unheard(u)
    BY DEF BusyGood
  <2>2. CASE active = Nobody
    BY <1>1, <2>1, <2>2 DEF Leave, ShownBusy, Unheard
  <2>3. CASE active # Nobody
    BY <1>1, <2>1, <2>3 DEF Leave, ShownBusy, Unheard
  <2> QED
    BY <2>2, <2>3
<1> QED
  BY <1>1, <1>2, <1>3, <1>4, BusyShown DEF network, ghosts

\* The user opens another conversation.
LEMMA BusySwitch ==
    ASSUME ViewTyped, BusyGood, NEW t \in Talkers, Switch(t), ~astray'
    PROVE  BusyGood'
<1> USE ClientAssumption DEF ViewTyped, ShownTyped
<1>1. /\ UNCHANGED <<server, network, approvals, sent>> /\ t \notin Timed
      /\ active' = t /\ (busy' <=> views[t] = "busy")
      /\ views' = [views EXCEPT ![t] = "none"] /\ detached' = detached \ {t}
      /\ views[t] # "none"
  BY DEF Switch
<1>2. Foreground' /\ active' # Nobody
  BY <1>1 DEF Foreground
<1>3. ASSUME NEW u \in Talkers
      PROVE  /\ ShownBusy(u)' => ShownBusy(u)
             /\ sent[u] = 0 => views'[u] = "none" /\ u # active' /\ u \notin detached'
  <2>1. Unheard(u)
    BY DEF BusyGood
  <2> QED
    BY <1>1, <2>1 DEF ShownBusy, Unheard
<1> QED
  BY <1>1, <1>2, <1>3, BusyShown DEF network, server

\* What a step keeps, of the busy marks.
BusyInv == ViewTyped /\ (~astray => BusyGood)

\* At the start nothing is busy.
LEMMA BusyInit == ClientInit => BusyInv
<1> SUFFICES ASSUME ClientInit PROVE BusyGood
  BY ViewTypedInit DEF BusyInv
<1>1. 1..Len(wire) = {}
  BY EmptySeq DEF ClientInit
<1>2. Foreground /\ Fresh
  BY ClientAssumption DEF ClientInit, Foreground, Fresh, Talkers
<1>3. ASSUME NEW u \in Talkers PROVE Unheard(u) /\ BusyOwed(u) /\ LiveEvents(u)
  BY <1>1, ClientAssumption
     DEF ClientInit, Unheard, BusyOwed, LiveEvents, ShownBusy
<1> QED
  BY <1>2, <1>3 DEF BusyGood

\* Every step that is no gap keeps it.
LEMMA BusyNext == BusyInv /\ [ClientNext]_clientVars => BusyInv'
<1> SUFFICES ASSUME BusyInv, [ClientNext]_clientVars, ~astray' PROVE BusyGood'
  BY ViewTypedNext DEF BusyInv
<1> USE DEF server, network, shown, ghosts
<1>1. ViewTyped
  BY DEF BusyInv
<1>2. CASE UNCHANGED clientVars
  <2>1. BusyGood
    BY <1>2 DEF BusyInv, clientVars
  <2> QED
    BY <1>2, <2>1
       DEF clientVars, BusyGood, Foreground, Fresh, Unheard, BusyOwed, LiveEvents,
           Live, ShownBusy
<1>3. CASE ClientNext
  <2>1. BusyGood
    BY <1>3 DEF ClientNext, BusyInv
  <2>2. ASSUME NEW u \in Talkers, sent[u] = 0
        PROVE  views[u] = "none" /\ u # active /\ u \notin detached
    BY <2>1, <2>2 DEF BusyGood, Unheard
  <2>3. Foreground
    BY <2>1 DEF BusyGood
  <2>4. ASSUME NEW t \in Talkers, BeginChat(t) PROVE BusyGood'
    BY <1>1, <2>1, <2>4, BusyBegin
  <2>5. ASSUME NEW t \in Talkers, FireTimed(t) PROVE BusyGood'
    BY <1>1, <2>1, <2>5, BusyFire
  <2>6. ASSUME NEW t \in Talkers, FirstItem(t) PROVE BusyGood'
    BY <1>1, <2>1, <2>6, BusyFirstItem
  <2>7. ASSUME NEW t \in Talkers, EndStream(t) PROVE BusyGood'
    BY <1>1, <2>1, <2>7, BusyEndStream
  <2>20. ASSUME NEW t \in Talkers, StreamRaises(t) PROVE BusyGood'
    BY <1>1, <2>1, <2>20, BusyStreamRaises
  <2>8. ASSUME NEW t \in Talkers, SendChat(t) PROVE BusyGood'
    BY <1>1, <2>1, <2>8, BusySendChat
  <2>9. ASSUME NEW t \in Talkers, Stop(t) PROVE BusyGood'
    BY <1>1, <2>1, <2>9, BusyResume DEF Stop
  <2>10. ASSUME NEW t \in Talkers, Switch(t) PROVE BusyGood'
    BY <1>1, <2>1, <2>10, BusySwitch
  <2>11. ASSUME NEW g \in gets, Reconcile(g) PROVE BusyGood'
    BY <1>1, <2>1, <2>11, BusyReconcile
  <2>12. ASSUME NEW a \in approvals, Decide(a) PROVE BusyGood'
    BY <1>1, <2>1, <2>12, BusyDecide
  <2>13. ASSUME NEW a \in answering, Decided(a) PROVE BusyGood'
    <3>1. /\ UNCHANGED <<server, link, wire, gets, active, busy, views, detached, sent, newest>>
          /\ approvals' \subseteq approvals
      BY <2>13 DEF Decided
    <3> QED
      BY <2>1, <3>1
         DEF BusyGood, Foreground, Fresh, Unheard, BusyOwed, LiveEvents, Live, ShownBusy
  <2>14. CASE Receive
    BY <1>1, <2>1, <2>14, BusyReceive
  <2>15. CASE Drop
    BY <1>1, <2>1, <2>15, BusyBreak DEF Drop, BusyGood, Fresh
  <2>16. CASE Open
    BY <1>1, <2>1, <2>16, BusyOpen
  <2>17. CASE NewConversation
    <3>1. active' = Nobody /\ ~busy /\ UNCHANGED <<busy, views, detached>>
      BY <2>17 DEF NewConversation
    <3>2. Foreground' /\ ~busy'
      BY <1>1, <3>1, ClientAssumption DEF Foreground, ViewTyped, ShownTyped, Talkers
    <3>3. \A u \in Talkers : /\ ShownBusy(u)' => ShownBusy(u)
                             /\ sent[u] = 0 => views'[u] = "none" /\ u # active'
                                               /\ u \notin detached'
      BY <2>2, <3>1, ClientAssumption DEF ShownBusy
    <3> QED
      BY <1>1, <2>1, <2>17, <3>2, <3>3, BusyShown DEF NewConversation
  <2>18. CASE Leave
    BY <1>1, <2>1, <2>18, BusyLeave
  <2>19. CASE Watchdog
    <3>1. ~busy' /\ UNCHANGED <<active, views, detached>>
      BY <2>19 DEF Watchdog
    <3>2. Foreground'
      BY <2>3, <3>1 DEF Foreground
    <3>3. \A u \in Talkers : /\ ShownBusy(u)' => ShownBusy(u)
                             /\ sent[u] = 0 => views'[u] = "none" /\ u # active'
                                               /\ u \notin detached'
      BY <2>2, <3>1 DEF ShownBusy
    <3> QED
      BY <1>1, <2>1, <2>19, <3>1, <3>2, <3>3, BusyShown DEF Watchdog
  <2> QED
    BY <1>3, <2>4, <2>5, <2>6, <2>7, <2>8, <2>9, <2>10, <2>11, <2>12, <2>13, <2>14, <2>15,
       <2>16, <2>17, <2>18, <2>19, <2>20 DEF ClientNext
<1> QED
  BY <1>2, <1>3

\* Once everything is quiet and no gap was met, a conversation is shown busy only while it
\* waits for an approval: the end of each run is told or, after a break, asked for
\* (App.tsx, onOpen).
THEOREM BusySafe == ClientSpec => []BusyAgrees
<1>1. BusyInv => BusyAgrees
  <2> SUFFICES ASSUME BusyInv, Settled, ~astray, NEW t \in Talkers, ShownBusy(t)
               PROVE  Pending(t)
    BY DEF BusyAgrees, ShownBusy
  <2>1. 1..Len(wire) = {} /\ gets = {} /\ stage[t] = "idle" /\ waiting[t] = 0
    BY EmptySeq DEF Settled
  <2>2. BusyOwed(t) /\ link = "up"
    BY DEF BusyInv, BusyGood, Settled
  <2>3. Live(t)
    BY <2>1, <2>2 DEF BusyOwed
  <2> QED
    BY <2>1, <2>3 DEF Live, Pending
<1> QED
  BY <1>1, BusyInit, BusyNext, PTL DEF ClientSpec
=============================================================================
