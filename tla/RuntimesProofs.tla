--------------------------- MODULE RuntimesProofs ---------------------------
(***************************************************************************)
(* The runtime lifecycle is safe for any number of runtimes, of chats and  *)
(* of settings saved.                                                      *)
(***************************************************************************)
EXTENDS Runtimes, TLAPS, FiniteSetTheorems

Users(r) == {t \in Callers : pc[t] = "streaming" /\ rt[t] = r}

\* active_stream_count is the number of streams, and none is left when closing.
Counted ==
    /\ \A r \in Runtimes : active[r] = Cardinality(Users(r))
    /\ \A r \in Runtimes : closed[r] => active[r] = 0

USE DEF Threads

\* A set of streams is finite.
LEMMA UsersFinite ==
    \A r \in Runtimes : IsFiniteSet(Users(r)) /\ Cardinality(Users(r)) \in Nat
  BY ThreadsAssumption, FS_Subset, FS_CardinalityType DEF Users

\* The state stays well formed under each action.
LEMMA TypeNext == TypeOK /\ [Next]_vars => TypeOK'
<1> SUFFICES ASSUME TypeOK, [Next]_vars PROVE TypeOK'
  OBVIOUS
<1> USE RuntimesAssumption DEF TypeOK, Goto, Places
<1>1. ASSUME NEW t \in Callers, Look(t) \/ Make(t) \/ Fetch(t) PROVE TypeOK'
  BY <1>1 DEF Look, Make, Fetch, NeedsOne
<1>2. ASSUME NEW t \in Callers,
             Declined(t) \/ Start(t) \/ RetainRefused(t) \/ Again(t)
      PROVE  TypeOK'
  BY <1>2 DEF Declined, Start, RetainRefused, Again
<1>3. ASSUME NEW t \in Callers, Retain(t) PROVE TypeOK'
  BY <1>3 DEF Retain
<1>4. ASSUME NEW t \in Callers, Release(t) PROVE TypeOK'
  <2> DEFINE n == IF active[rt[t]] = 0 THEN 0 ELSE active[rt[t]] - 1
  <2>1. pc[t] = "streaming" /\ rt[t] \in Runtimes
    BY <1>4 DEF Release
  <2>2. active' = [active EXCEPT ![rt[t]] = n] /\ n \in Nat
    BY <1>4, <2>1 DEF Release
  <2>3. active' \in [Runtimes -> Nat]
    BY <2>1, <2>2
  <2>4. pc' = [pc EXCEPT ![t] = "closing"] \/ pc' = [pc EXCEPT ![t] = "idle"]
    BY <1>4 DEF Release
  <2>5. QED
    BY <1>4, <2>1, <2>3, <2>4 DEF Release
<1>5. ASSUME NEW s \in Savers, Swap(s) \/ Retire(s) PROVE TypeOK'
  <2>1. CASE Swap(s)
    BY <1>5, <2>1 DEF Swap, SomeToRetire
  <2>2. CASE Retire(s)
    <3>1. rt[s] \in Runtimes /\ rt' = rt
      BY <2>2 DEF Retire
    <3>2. pc' = [pc EXCEPT ![s] = "closing"] \/ pc' = [pc EXCEPT ![s] = "idle"]
      BY <2>2 DEF Retire
    <3>3. QED
      BY <2>2, <3>1, <3>2 DEF Retire
  <2>3. QED
    BY <1>5, <2>1, <2>2
<1>6. ASSUME NEW t \in Threads, Close(t) PROVE TypeOK'
  <2>1. pc[t] = "closing" /\ rt[t] \in Runtimes
    BY <1>6 DEF Close
  <2>2. closed' \in [Runtimes -> BOOLEAN]
    BY <1>6, <2>1 DEF Close, MayClose
  <2>3. QED
    BY <1>6, <2>1, <2>2 DEF Close
<1>7. CASE UNCHANGED vars
  BY <1>7 DEF vars
<1>8. QED
  BY <1>1, <1>2, <1>3, <1>4, <1>5, <1>6, <1>7 DEF Next, Caller, Saver

\* Types hold in every behaviour, and a thread that is to retain, stream on,
\* retire or close a runtime has one.
THEOREM TypeCorrect == Spec => []TypeOK
<1>1. Init => TypeOK
  BY DEF Init, TypeOK, Places
<1>2. QED
  BY <1>1, TypeNext, PTL DEF Spec

-----------------------------------------------------------------------------
\* Streams come and go one by one, and the count with them.
LEMMA CountedNext == TypeOK /\ Counted /\ [Next]_vars => Counted'
<1> SUFFICES ASSUME TypeOK, Counted, [Next]_vars PROVE Counted'
  OBVIOUS
<1>0. /\ active \in [Runtimes -> Nat] /\ closed \in [Runtimes -> BOOLEAN]
      /\ pc \in [Threads -> Places] /\ rt \in [Threads -> Runtimes \cup {None}]
  BY DEF TypeOK
<1>1. ASSUME NEW t \in Callers, Retain(t) PROVE Counted'
  <2>1. PICK r \in Runtimes : r = rt[t]
    BY <1>1 DEF Retain, Goto, TypeOK
  <2>2. /\ pc[t] = "retain" /\ ~closed[r]
        /\ pc' = [pc EXCEPT ![t] = "streaming"]
        /\ active' = [active EXCEPT ![r] = active[r] + 1]
        /\ rt' = rt /\ closed' = closed
    BY <1>1, <2>1 DEF Retain, Goto
  <2>3. /\ Users(r)' = Users(r) \cup {t} /\ t \notin Users(r)
        /\ \A q \in Runtimes \ {r} : Users(q)' = Users(q)
    BY <1>0, <2>1, <2>2 DEF Users
  <2>4. Cardinality(Users(r) \cup {t}) = active[r] + 1
    BY <2>3, UsersFinite, FS_AddElement DEF Counted
  <2>5. QED
    BY <1>0, <2>2, <2>3, <2>4 DEF Counted
<1>2. ASSUME NEW t \in Callers, Release(t) PROVE Counted'
  <2>1. PICK r \in Runtimes : r = rt[t]
    BY <1>2 DEF Release, TypeOK
  <2>2. /\ pc[t] = "streaming" /\ pc'[t] # "streaming"
        /\ \A u \in Threads \ {t} : pc'[u] = pc[u]
        /\ rt' = rt /\ closed' = closed
    BY <1>0, <1>2 DEF Release, Goto
  <2>3. /\ Users(r)' = Users(r) \ {t} /\ t \in Users(r)
        /\ \A q \in Runtimes \ {r} : Users(q)' = Users(q)
    BY <1>0, <2>1, <2>2 DEF Users
  <2>4. /\ Cardinality(Users(r) \ {t}) = active[r] - 1
        /\ active[r] # 0
    <3>1. Cardinality(Users(r)) # 0
      BY <2>3, UsersFinite, FS_EmptySet
    <3>2. Cardinality(Users(r) \ {t}) = Cardinality(Users(r)) - 1
      BY <2>3, UsersFinite, FS_RemoveElement
    <3>3. QED
      BY <3>1, <3>2 DEF Counted
  <2>5. active' = [active EXCEPT ![r] = active[r] - 1]
    BY <1>2, <2>1, <2>4 DEF Release
  <2>6. QED
    BY <1>0, <2>2, <2>3, <2>4, <2>5 DEF Counted
<1>3. ASSUME NEW t \in Threads, Close(t) PROVE Counted'
  <2>1. /\ pc[t] = "closing" /\ rt[t] \in Runtimes
        /\ pc' = [pc EXCEPT ![t] = "idle"] /\ rt' = rt /\ active' = active
    BY <1>0, <1>3 DEF Close, Goto, TypeOK
  <2>2. \A r \in Runtimes : closed'[r] => closed[r] \/ active[r] = 0
    BY <1>0, <1>3, <2>1 DEF Close, MayClose
  <2>3. \A r \in Runtimes : Users(r)' = Users(r)
    BY <1>0, <2>1 DEF Users
  <2>4. QED
    BY <2>1, <2>2, <2>3 DEF Counted
<1>4. ASSUME NEW t \in Threads,
             Look(t) \/ Make(t) \/ Fetch(t) \/ Declined(t) \/ Start(t)
                \/ RetainRefused(t) \/ Again(t) \/ Swap(t) \/ Retire(t)
      PROVE  Counted'
  <2>1. /\ pc[t] # "streaming" /\ pc'[t] # "streaming"
        /\ \A u \in Threads \ {t} : pc'[u] = pc[u] /\ rt'[u] = rt[u]
        /\ active' = active /\ closed' = closed
    BY <1>0, <1>4
    DEF Look, Make, Fetch, Declined, Start, RetainRefused, Again, Swap, Retire, Goto
  <2>2. \A r \in Runtimes : Users(r)' = Users(r)
    BY <2>1 DEF Users
  <2>3. QED
    BY <2>1, <2>2 DEF Counted
<1>5. CASE UNCHANGED vars
  BY <1>5 DEF vars, Counted, Users
<1>6. QED
  BY <1>1, <1>2, <1>3, <1>4, <1>5 DEF Next, Caller, Saver

\* However chats start and end while settings are saved, a runtime outlives
\* every stream that has started on it.
THEOREM StreamsSafe == Spec => []StreamsKeepTheirRuntime
<1>1. Init => TypeOK /\ Counted
  <2> SUFFICES ASSUME Init PROVE TypeOK /\ Counted
    OBVIOUS
  <2>1. \A r \in Runtimes : Users(r) = {}
    BY DEF Init, Users
  <2>2. QED
    BY <2>1, FS_EmptySet DEF Init, TypeOK, Counted, Places
<1>2. TypeOK /\ Counted => StreamsKeepTheirRuntime
  <2> SUFFICES ASSUME TypeOK, Counted, NEW t \in Callers, pc[t] = "streaming"
               PROVE  ~closed[rt[t]]
    BY DEF StreamsKeepTheirRuntime
  <2>1. rt[t] \in Runtimes /\ t \in Users(rt[t])
    BY DEF TypeOK, Users
  <2>2. Cardinality(Users(rt[t])) # 0
    BY <2>1, UsersFinite, FS_EmptySet
  <2>3. QED
    BY <2>1, <2>2 DEF Counted
<1>3. QED
  BY <1>1, <1>2, TypeNext, CountedNext, PTL DEF Spec

-----------------------------------------------------------------------------
\* What nobody serves any more is on its way to be closed.
Ending(r) == \E t \in Threads : rt[t] = r /\ pc[t] \in {"retire", "closing"}

\* A runtime loses its place as the current one only to the thread that is to
\* retire it.
LEMMA ServingNext == TypeOK /\ OneServing /\ [Next]_vars => OneServing'
<1> SUFFICES ASSUME TypeOK, OneServing, [Next]_vars PROVE OneServing'
  OBVIOUS
<1>0. /\ retired \in [Runtimes -> BOOLEAN] /\ pc \in [Threads -> Places]
      /\ rt \in [Threads -> Runtimes \cup {None}] /\ made \subseteq Runtimes
  BY DEF TypeOK
<1>1. ASSUME NEW t \in Callers, Make(t) PROVE OneServing'
  <2>1. /\ \A u \in Savers : pc'[u] = pc[u]
        /\ rt' = rt /\ retired' = retired
    BY <1>0, <1>1, ThreadsAssumption DEF Make, Goto
  <2>2. \/ current' = current /\ made' = made
        \/ current = None /\ made' = made \cup {current'}
    BY <1>1 DEF Make, NeedsOne
  <2>3. QED
    BY <1>0, <2>1, <2>2, RuntimesAssumption DEF OneServing
<1>2. ASSUME NEW s \in Savers, Swap(s) PROVE OneServing'
  BY <1>0, <1>2 DEF Swap, Goto, OneServing
<1>3. ASSUME NEW s \in Savers, Retire(s) PROVE OneServing'
  <2>1. /\ pc[s] = "retire" /\ rt' = rt /\ current' = current /\ made' = made
        /\ retired' = [retired EXCEPT ![rt[s]] = TRUE]
        /\ \A u \in Threads \ {s} : pc'[u] = pc[u]
    BY <1>0, <1>3 DEF Retire, Goto
  <2>2. \A r \in made : r = rt[s] => retired'[r]
    BY <1>0, <2>1
  <2>3. \A r \in made : retired[r] => retired'[r]
    BY <1>0, <2>1
  <2>4. QED
    BY <2>1, <2>2, <2>3 DEF OneServing
<1>4. ASSUME NEW t \in Threads, \/ t \in Callers /\ Caller(t) /\ ~Make(t)
                               \/ Close(t)
      PROVE  OneServing'
  <2>1. /\ current' = current /\ made' = made /\ retired' = retired
        /\ \A u \in Threads \ {t} : pc'[u] = pc[u] /\ rt'[u] = rt[u]
        /\ t \in Savers => pc[t] # "retire"
    BY <1>0, <1>4, ThreadsAssumption
    DEF Caller, Look, Fetch, Declined, Start, Retain, RetainRefused, Release,
        Again, Close, Goto
  <2>2. QED
    BY <2>1 DEF OneServing
<1>5. CASE UNCHANGED vars
  BY <1>5 DEF vars, OneServing
<1>6. QED
  BY <1>1, <1>2, <1>3, <1>4, <1>5 DEF Next, Saver

\* What NoneLeftOpen says of one runtime.
Kept(r) == current = r \/ closed[r] \/ active[r] > 0 \/ Ending(r)

\* Who gives up the last stream of a retired runtime, or retires one that has
\* none, goes on to close it; who closes too early leaves that to a stream.
LEMMA OpenNext ==
    TypeOK /\ OneServing /\ NoneLeftOpen /\ [Next]_vars => NoneLeftOpen'
<1> SUFFICES ASSUME TypeOK, OneServing, NoneLeftOpen, [Next]_vars
             PROVE  \A r \in made' : Kept(r)'
  BY DEF NoneLeftOpen, Ending, Kept
<1>0. /\ retired \in [Runtimes -> BOOLEAN] /\ pc \in [Threads -> Places]
      /\ closed \in [Runtimes -> BOOLEAN] /\ active \in [Runtimes -> Nat]
      /\ rt \in [Threads -> Runtimes \cup {None}] /\ made \subseteq Runtimes
      /\ \A r \in made : Kept(r)
  BY DEF TypeOK, NoneLeftOpen, Ending, Kept
<1>1. ASSUME NEW t \in Callers, Make(t) PROVE \A r \in made' : Kept(r)'
  <2>1. /\ pc[t] = "make" /\ \A u \in Threads \ {t} : pc'[u] = pc[u]
        /\ rt' = rt /\ closed' = closed /\ active' = active
    BY <1>0, <1>1 DEF Make, Goto
  <2>2. \/ current' = current /\ made' = made
        \/ current = None /\ made' = made \cup {current'}
    BY <1>1 DEF Make, NeedsOne
  <2>3. \A r \in made : Ending(r) => Ending(r)'
    BY <2>1 DEF Ending
  <2>4. QED
    BY <1>0, <2>1, <2>2, <2>3, RuntimesAssumption DEF Kept
<1>2. ASSUME NEW t \in Callers, Retain(t) PROVE \A r \in made' : Kept(r)'
  <2>1. /\ pc[t] = "retain" /\ \A u \in Threads \ {t} : pc'[u] = pc[u]
        /\ rt' = rt /\ closed' = closed /\ made' = made /\ current' = current
        /\ active' = [active EXCEPT ![rt[t]] = active[rt[t]] + 1]
    BY <1>0, <1>2 DEF Retain, Goto
  <2>2. \A r \in made : Ending(r) => Ending(r)'
    BY <2>1 DEF Ending
  <2>3. \A r \in made : active[r] > 0 => active'[r] > 0
    BY <1>0, <2>1
  <2>4. QED
    BY <1>0, <2>1, <2>2, <2>3 DEF Kept
<1>3. ASSUME NEW t \in Callers, Release(t) PROVE \A r \in made' : Kept(r)'
  <2> DEFINE n == IF active[rt[t]] = 0 THEN 0 ELSE active[rt[t]] - 1
  <2>1. /\ pc[t] = "streaming" /\ \A u \in Threads \ {t} : pc'[u] = pc[u]
        /\ rt' = rt /\ closed' = closed /\ made' = made /\ current' = current
        /\ retired' = retired /\ active' = [active EXCEPT ![rt[t]] = n]
    BY <1>0, <1>3 DEF Release, Goto
  <2>2. retired[rt[t]] /\ n = 0 => pc'[t] = "closing"
    BY <1>0, <1>3 DEF Release, Goto, LastOneOut
  <2>3. \A r \in made : Ending(r) => Ending(r)'
    BY <2>1 DEF Ending
  <2>4. \A r \in made \ {rt[t]} : active'[r] = active[r]
    BY <1>0, <2>1
  <2>5. ASSUME rt[t] \in made PROVE Kept(rt[t])'
    <3>1. active'[rt[t]] = n /\ n \in Nat
      BY <1>0, <2>1, <2>5
    <3>2. CASE n > 0
      BY <2>1, <3>1, <3>2 DEF Kept
    <3>3. CASE n = 0 /\ retired[rt[t]]
      BY <2>1, <2>2, <3>3 DEF Kept, Ending
    <3>4. CASE ~retired[rt[t]]
      <4>1. current = rt[t] \/ \E s \in Savers : rt[s] = rt[t] /\ pc[s] = "retire"
        BY <2>5, <3>4 DEF OneServing
      <4>2. QED
        BY <2>1, <4>1 DEF Kept, Ending
    <3>5. QED
      <4> HIDE DEF n
      <4>1. n > 0 \/ n = 0
        BY <3>1
      <4>2. QED
        BY <3>2, <3>3, <3>4, <4>1, Zenon
  <2>6. QED
    BY <1>0, <2>1, <2>3, <2>4, <2>5 DEF Kept
<1>4. ASSUME NEW s \in Savers, Swap(s) PROVE \A r \in made' : Kept(r)'
  <2>1. /\ pc[s] = "idle" /\ pc'[s] = "retire" /\ rt'[s] = current
        /\ \A u \in Threads \ {s} : pc'[u] = pc[u] /\ rt'[u] = rt[u]
        /\ closed' = closed /\ made' = made /\ active' = active
    BY <1>0, <1>4 DEF Swap, Goto
  <2>2. \A r \in made : (Ending(r) => Ending(r)') /\ (current = r => Ending(r)')
    BY <2>1 DEF Ending
  <2>3. QED
    BY <1>0, <2>1, <2>2 DEF Kept
<1>5. ASSUME NEW s \in Savers, Retire(s) PROVE \A r \in made' : Kept(r)'
  <2>1. /\ pc[s] = "retire" /\ \A u \in Threads \ {s} : pc'[u] = pc[u]
        /\ rt' = rt /\ closed' = closed /\ made' = made /\ active' = active
        /\ current' = current
        /\ active[rt[s]] = 0 => pc'[s] = "closing"
    BY <1>0, <1>5 DEF Retire, Goto
  <2>2. \A r \in made \ {rt[s]} : Ending(r) => Ending(r)'
    BY <2>1 DEF Ending
  <2>3. ASSUME rt[s] \in made PROVE active[rt[s]] > 0 \/ Ending(rt[s])'
    BY <1>0, <2>1, <2>3 DEF Ending
  <2>4. QED
    BY <1>0, <2>1, <2>2, <2>3 DEF Kept
<1>6. ASSUME NEW t \in Threads, Close(t) PROVE \A r \in made' : Kept(r)'
  <2>1. /\ pc[t] = "closing" /\ \A u \in Threads \ {t} : pc'[u] = pc[u]
        /\ rt' = rt /\ made' = made /\ active' = active /\ current' = current
        /\ closed' = [closed EXCEPT ![rt[t]] = closed[rt[t]] \/ MayClose(rt[t])]
    BY <1>0, <1>6 DEF Close, Goto
  <2>2. \A r \in made \ {rt[t]} : (Ending(r) => Ending(r)') /\ closed'[r] = closed[r]
    BY <1>0, <2>1 DEF Ending
  <2>3. ASSUME rt[t] \in made PROVE active[rt[t]] > 0 \/ closed'[rt[t]]
    <3>1. active[rt[t]] \in Nat
      BY <1>0, <2>3
    <3>2. closed'[rt[t]] = (closed[rt[t]] \/ MayClose(rt[t]))
      BY <1>0, <2>1, <2>3, Zenon
    <3>3. active[rt[t]] = 0 => closed'[rt[t]]
      BY <3>2, Zenon DEF MayClose
    <3>4. QED
      BY <3>1, <3>3
  <2>4. QED
    BY <1>0, <2>1, <2>2, <2>3 DEF Kept
<1>7. ASSUME NEW t \in Callers,
             Look(t) \/ Fetch(t) \/ Declined(t) \/ Start(t) \/ RetainRefused(t)
                \/ Again(t)
      PROVE  \A r \in made' : Kept(r)'
  <2>1. /\ pc[t] \notin {"retire", "closing"}
        /\ \A u \in Threads \ {t} : pc'[u] = pc[u] /\ rt'[u] = rt[u]
        /\ closed' = closed /\ made' = made /\ active' = active
        /\ current' = current
    BY <1>0, <1>7 DEF Look, Fetch, Declined, Start, RetainRefused, Again, Goto
  <2>2. \A r \in made : Ending(r) => Ending(r)'
    BY <2>1 DEF Ending
  <2>3. QED
    BY <1>0, <2>1, <2>2 DEF Kept
<1>8. CASE UNCHANGED vars
  BY <1>0, <1>8 DEF vars, Kept, Ending
<1>9. QED
  BY <1>1, <1>2, <1>3, <1>4, <1>5, <1>6, <1>7, <1>8 DEF Next, Caller, Saver

\* Two chats that find no runtime never leave one behind that nobody retires.
THEOREM ServingSafe == Spec => []OneServing
<1>1. Init => TypeOK /\ OneServing
  BY DEF Init, TypeOK, OneServing, Places
<1>2. QED
  BY <1>1, TypeNext, ServingNext, PTL DEF Spec

\* Every runtime that was swapped out is closed once its streams have ended,
\* unless some thread is still on its way to do so.
THEOREM OpenSafe == Spec => []NoneLeftOpen
<1>1. Init => TypeOK /\ OneServing /\ NoneLeftOpen
  BY DEF Init, TypeOK, OneServing, NoneLeftOpen, Places
<1>2. QED
  BY <1>1, TypeNext, ServingNext, OpenNext, PTL DEF Spec
=============================================================================
