--------------------------- MODULE FileStoreProofs ---------------------------
(***************************************************************************)
(* For any number of threads, folders and files: threads that use the      *)
(* locks as PathLocks says never wait for each other in a circle, if       *)
(* nobody nests them against the order (~Cleaning); the operations on      *)
(* files take their locks as PathLocks says, so none of them are stuck,    *)
(* and none overwrites a file.                                             *)
(***************************************************************************)
EXTENDS FileStore, TLAPS, FiniteSetTheorems, SequenceTheorems

-----------------------------------------------------------------------------
(* The path locks. *)

Wants(t, d) == \E i \in DOMAIN want[t] : want[t][i] = d

\* A directory is locked by one thread.
Exclusive ==
    \A t, u \in Threads, d \in Dirs : Holds(t, d) /\ Holds(u, d) => t = u

\* What a thread still wants is in ascending order,
Ascending ==
    \A t \in Threads : \A i, j \in DOMAIN want[t] :
        i < j => want[t][i] < want[t][j]

\* and above all it has, unless it has it already.
Above ==
    \A t \in Threads : \A w \in Dirs :
        Wants(t, w) => Holds(t, w) \/ \A d \in Dirs : Holds(t, d) => d < w

\* An acquire still to come is the thread's first one, or it is for the locks
\* that it has or is about to take.
Nested ==
    \A t \in Threads :
        \/ calls[t] = <<>>
        \/ calls[t] \in Operations /\ want[t] = <<>> /\ held[t] = <<>>
        \/ \E p \in Dirs \X Dirs :
              /\ calls[t] = <<p>>
              /\ \A d \in Dirs : d \in {p[1], p[2]} <=> Holds(t, d) \/ Wants(t, d)

IInv == LocksOK /\ Exclusive /\ Ascending /\ Above /\ Nested

-----------------------------------------------------------------------------
\* Every set of directories has a largest one.
LEMMA Largest ==
  ASSUME NEW K, K \subseteq Dirs, K # {}
  PROVE  \E k \in K : \A j \in K : j <= k
<1> DEFINE Greater(k) == {j \in Dirs : j > k}
           T == {Greater(k) : k \in K}
<1>1. IsFiniteSet(Dirs)
  BY DirsAssumption, FS_Interval DEF Dirs
<1>2. T \subseteq FiniteSubsetsOf(Dirs)
  BY <1>1, FS_Subset DEF FiniteSubsetsOf
<1>3. IsWellFoundedOn(StrictSubsetOrdering(Dirs), FiniteSubsetsOf(Dirs))
  BY FS_StrictSubsetOrderingWellFounded
<1>4. PICK x \in T : \A y \in T : <<y, x>> \notin StrictSubsetOrdering(Dirs)
  <2> HIDE DEF T
  <2>1. T # {}
    BY DEF T
  <2>2. QED
    BY <1>2, <1>3, <2>1, WFMin
<1>5. PICK k \in K : x = Greater(k)
  BY <1>4
<1>6. ASSUME NEW j \in K, ~(j <= k) PROVE FALSE
  <2>1. j \in Nat /\ k \in Nat /\ j \in Dirs
    BY DirsAssumption DEF Dirs
  <2>2. Greater(j) \subseteq Greater(k) /\ j \in Greater(k) /\ j \notin Greater(j)
    BY <1>6, <2>1, DirsAssumption DEF Dirs
  <2>3. <<Greater(j), x>> \in StrictSubsetOrdering(Dirs)
    BY <1>5, <2>2 DEF StrictSubsetOrdering
  <2>4. QED
    BY <1>4, <2>3
<1>7. QED
  BY <1>6

\* The keys of an acquire: those that were asked for, in ascending order.
LEMMA SortedKeys ==
  ASSUME NEW p \in Dirs \X Dirs
  PROVE  /\ Sorted(p) \in Seq(Dirs) /\ Sorted(p) # <<>>
         /\ \A i, j \in DOMAIN Sorted(p) : i < j => Sorted(p)[i] < Sorted(p)[j]
         /\ \A d : d \in {p[1], p[2]} <=> \E i \in DOMAIN Sorted(p) : Sorted(p)[i] = d
<1>0. PICK a \in Dirs, b \in Dirs : p = <<a, b>>
  OBVIOUS
<1>1. Dirs \subseteq Int /\ p[1] = a /\ p[2] = b
  BY <1>0, DirsAssumption DEF Dirs
<1>2. CASE a = b
  <2>1. Sorted(p) = <<a>>
    BY <1>1, <1>2 DEF Sorted
  <2>2. QED
    BY <1>1, <1>2, <2>1
<1>3. CASE a < b
  <2>1. Sorted(p) = <<a, b>>
    BY <1>0, <1>1, <1>3 DEF Sorted
  <2>2. DOMAIN Sorted(p) = {1, 2} /\ Sorted(p)[1] = a /\ Sorted(p)[2] = b
    BY <2>1
  <2>3. QED
    BY <1>1, <1>3, <2>1, <2>2
<1>4. CASE b < a
  <2>1. Sorted(p) = <<b, a>>
    BY <1>1, <1>4 DEF Sorted
  <2>2. DOMAIN Sorted(p) = {1, 2} /\ Sorted(p)[1] = b /\ Sorted(p)[2] = a
    BY <2>1
  <2>3. QED
    BY <1>1, <1>4, <2>1, <2>2
<1>5. QED
  BY <1>1, <1>2, <1>3, <1>4

\* What operations are without clean-ups: one acquire, or one twice.
LEMMA OperationsAre ==
  ASSUME ~Cleaning, NEW op \in Operations
  PROVE  \E p \in Dirs \X Dirs : op = <<p>> \/ op = <<p, p>>
BY DEF Operations, Direct, Wrapped, Folders

\* The invariant holds at first.
LEMMA Initially == LocksInit => IInv
BY DEF LocksInit, IInv, LocksOK, Exclusive, Ascending, Above, Nested, Holds, Wants

-----------------------------------------------------------------------------
\* A call that begins holds nothing yet.
LEMMA CallKeeps ==
  ASSUME ~Cleaning, IInv, NEW t \in Threads, NEW op \in Operations, Call(t, op)
  PROVE  IInv'
<1> USE DEF IInv
<1>1. calls' = [calls EXCEPT ![t] = op] /\ want' = want /\ held' = held
  BY DEF Call
<1>2. \A u \in Threads : \A d : Holds(u, d)' = Holds(u, d)
  BY <1>1 DEF Holds
<1>3. \A u \in Threads : \A d : Wants(u, d)' = Wants(u, d)
  BY <1>1 DEF Wants
<1>4. LocksOK'
  <2>1. op \in Seq(Dirs \X Dirs)
    <3>1. PICK p \in Dirs \X Dirs : op = <<p>> \/ op = <<p, p>>
      BY OperationsAre
    <3>2. \A P : \A x \in P : <<x>> \in Seq(P) /\ <<x, x>> \in Seq(P)
      OBVIOUS
    <3>3. QED
      BY <3>1, <3>2, Zenon
  <2>2. QED
    BY <1>1, <2>1 DEF LocksOK
<1>5. Exclusive' /\ Ascending' /\ Above'
  BY <1>1, <1>2, <1>3 DEF Exclusive, Ascending, Above
<1>6. Nested'
  <2> SUFFICES ASSUME NEW u \in Threads
               PROVE  \/ calls'[u] = <<>>
                      \/ calls'[u] \in Operations /\ want'[u] = <<>> /\ held'[u] = <<>>
                      \/ \E p \in Dirs \X Dirs :
                            /\ calls'[u] = <<p>>
                            /\ \A d \in Dirs : d \in {p[1], p[2]}
                                                   <=> Holds(u, d)' \/ Wants(u, d)'
    BY DEF Nested
  <2>1. CASE u = t
    BY <1>1, <2>1 DEF Call, Idle, LocksOK
  <2>2. CASE u # t
    BY <1>1, <1>2, <1>3, <2>2 DEF Nested, LocksOK
  <2>3. QED
    BY <2>1, <2>2
<1>7. QED
  BY <1>4, <1>5, <1>6

\* An inner acquire asks for what the thread has, an outer one for everything.
LEMMA EnterKeeps ==
  ASSUME ~Cleaning, IInv, NEW t \in Threads, Enter(t)
  PROVE  IInv'
<1> USE DEF IInv
<1> DEFINE p == Head(calls[t])
<1>0. /\ calls[t] \in Seq(Dirs \X Dirs) /\ calls[t] # <<>>
      /\ want \in [Threads -> Seq(Dirs)] /\ want[t] = <<>>
      /\ held' = held
      /\ want' = [want EXCEPT ![t] = Sorted(p)]
      /\ calls' = [calls EXCEPT ![t] = Tail(calls[t])]
  BY DEF Enter, LocksOK
<1>1. p \in Dirs \X Dirs /\ Tail(calls[t]) \in Seq(Dirs \X Dirs)
  BY <1>0, HeadTailProperties
<1> HIDE DEF p
<1>2. \A u \in Threads : \A d : Holds(u, d)' = Holds(u, d)
  BY <1>0 DEF Holds
<1>3. \A d : Wants(t, d)' <=> d \in {p[1], p[2]}
  <2>1. want'[t] = Sorted(p)
    BY <1>0
  <2>2. \A d : d \in {p[1], p[2]} <=> \E i \in DOMAIN Sorted(p) : Sorted(p)[i] = d
    BY <1>1, SortedKeys
  <2>3. QED
    BY <2>1, <2>2 DEF Wants
<1>4. \A u \in Threads \ {t} : \A d : Wants(u, d)' = Wants(u, d)
  BY <1>0 DEF Wants
<1>5. LocksOK'
  BY <1>0, <1>1, SortedKeys DEF LocksOK
<1>6. Exclusive'
  BY <1>2 DEF Exclusive
<1>7. \/ held[t] = <<>> /\ Tail(calls[t]) \in {<<>>, <<p>>}
      \/ Tail(calls[t]) = <<>> /\ \A d \in {p[1], p[2]} : Holds(t, d)
  <2>1. CASE calls[t] \in Operations /\ held[t] = <<>>
    <3>1. PICK q \in Dirs \X Dirs : calls[t] = <<q>> \/ calls[t] = <<q, q>>
      BY <2>1, OperationsAre
    <3>2. Head(<<q>>) = q /\ Tail(<<q>>) = <<>> /\ Head(<<q, q>>) = q /\ Tail(<<q, q>>) = <<q>>
      OBVIOUS
    <3>3. QED
      BY <2>1, <3>1, <3>2 DEF p
  <2>2. ASSUME NEW q \in Dirs \X Dirs, calls[t] = <<q>>,
               \A d \in Dirs : d \in {q[1], q[2]} <=> Holds(t, d) \/ Wants(t, d)
        PROVE  Tail(calls[t]) = <<>> /\ \A d \in {p[1], p[2]} : Holds(t, d)
    <3>1. p = q /\ Tail(calls[t]) = <<>>
      BY <2>2 DEF p
    <3>2. \A d : ~Wants(t, d)
      BY <1>0 DEF Wants
    <3>3. QED
      BY <2>2, <3>1, <3>2
  <2>3. QED
    BY <1>0, <2>1, <2>2 DEF Nested
<1>8. Ascending'
  <2>1. \A i, j \in DOMAIN Sorted(p) : i < j => Sorted(p)[i] < Sorted(p)[j]
    BY <1>1, SortedKeys
  <2>2. QED
    BY <1>0, <2>1 DEF Ascending
<1>11. Above'
  <2> SUFFICES ASSUME NEW u \in Threads, NEW w \in Dirs, Wants(u, w)'
               PROVE  Holds(u, w)' \/ \A d \in Dirs : Holds(u, d)' => d < w
    BY DEF Above
  <2>1. CASE u = t
    <3>1. w \in {p[1], p[2]}
      BY <1>3, <2>1
    <3>2. CASE held[t] = <<>>
      BY <1>2, <2>1, <3>2 DEF Holds
    <3>3. QED
      BY <1>2, <1>7, <2>1, <3>1, <3>2
  <2>2. CASE u # t
    BY <1>2, <1>4, <2>2 DEF Above
  <2>3. QED
    BY <2>1, <2>2
<1>9. Nested'
  <2> SUFFICES ASSUME NEW u \in Threads
               PROVE  \/ calls'[u] = <<>>
                      \/ calls'[u] \in Operations /\ want'[u] = <<>> /\ held'[u] = <<>>
                      \/ \E q \in Dirs \X Dirs :
                            /\ calls'[u] = <<q>>
                            /\ \A d \in Dirs : d \in {q[1], q[2]}
                                                   <=> Holds(u, d)' \/ Wants(u, d)'
    BY DEF Nested
  <2>1. CASE u = t
    <3>1. calls'[t] = Tail(calls[t])
      BY <1>0 DEF LocksOK
    <3>2. CASE Tail(calls[t]) = <<p>> /\ held[t] = <<>>
      <4>1. \A d : ~Holds(t, d)
        BY <3>2 DEF Holds
      <4>2. QED
        BY <1>1, <1>2, <1>3, <2>1, <3>1, <3>2, <4>1
    <3>3. QED
      BY <1>7, <2>1, <3>1, <3>2
  <2>2. CASE u # t
    BY <1>0, <1>2, <1>4, <2>2 DEF Nested, LocksOK
  <2>3. QED
    BY <2>1, <2>2
<1>10. QED
  BY <1>5, <1>6, <1>8, <1>9, <1>11

\* A thread locks what it wants first, and that is all that changes.
LEMMA LockEffect ==
  ASSUME LocksOK, NEW t \in Threads, Lock(t)
  PROVE  /\ LocksOK'
         /\ Head(want[t]) \in Dirs /\ Wants(t, Head(want[t]))
         /\ \A u \in Threads : \A d : Holds(u, d)' <=> Holds(u, d) \/ (u = t /\ d = Head(want[t]))
         /\ \A u \in Threads \ {t} : want'[u] = want[u]
         /\ Len(want'[t]) = Len(want[t]) - 1 /\ want[t] # <<>>
         /\ \A i \in DOMAIN want'[t] : want'[t][i] = want[t][i + 1] /\ i + 1 \in DOMAIN want[t]
         /\ \A d : Wants(t, d) <=> Wants(t, d)' \/ d = Head(want[t])
<1> DEFINE k == Head(want[t])
<1>0. /\ want \in [Threads -> Seq(Dirs)] /\ held \in [Threads -> Seq(Dirs)]
      /\ want[t] \in Seq(Dirs) /\ held[t] \in Seq(Dirs) /\ want[t] # <<>>
      /\ held' = [held EXCEPT ![t] = Append(held[t], k)]
      /\ want' = [want EXCEPT ![t] = Tail(want[t])]
      /\ calls' = calls
  BY DEF Lock, LocksOK
<1>1. /\ k \in Dirs /\ Tail(want[t]) \in Seq(Dirs) /\ Len(Tail(want[t])) = Len(want[t]) - 1
      /\ \A i \in 1 .. Len(Tail(want[t])) : Tail(want[t])[i] = want[t][i + 1]
  BY <1>0, HeadTailProperties
<1>2. /\ Append(held[t], k) \in Seq(Dirs) /\ Len(Append(held[t], k)) = Len(held[t]) + 1
      /\ \A i \in 1 .. Len(held[t]) : Append(held[t], k)[i] = held[t][i]
      /\ Append(held[t], k)[Len(held[t]) + 1] = k
  BY <1>0, <1>1, AppendProperties
<1>3. /\ DOMAIN want[t] = 1 .. Len(want[t]) /\ Len(want[t]) \in Nat \ {0}
      /\ DOMAIN held[t] = 1 .. Len(held[t]) /\ Len(held[t]) \in Nat
      /\ want[t][1] = k
      /\ DOMAIN Tail(want[t]) = 1 .. Len(want[t]) - 1
      /\ DOMAIN Append(held[t], k) = 1 .. Len(held[t]) + 1
  BY <1>0, <1>1, <1>2, LenProperties, EmptySeq
<1> HIDE DEF k
<1>4. LocksOK'
  BY <1>0, <1>1, <1>2 DEF LocksOK
<1>5. held'[t] = Append(held[t], k) /\ want'[t] = Tail(want[t])
  BY <1>0
<1>6. \A d : Holds(t, d)' <=> Holds(t, d) \/ d = k
  <2> SUFFICES ASSUME NEW d PROVE Holds(t, d)' <=> Holds(t, d) \/ d = k
    OBVIOUS
  <2>1. ASSUME Holds(t, d)' PROVE Holds(t, d) \/ d = k
    BY <1>2, <1>3, <1>5, <2>1 DEF Holds
  <2>2. ASSUME Holds(t, d) PROVE Holds(t, d)'
    <3>1. PICK i \in 1 .. Len(held[t]) : held[t][i] = d
      BY <1>3, <2>2 DEF Holds
    <3>2. i \in DOMAIN held'[t] /\ held'[t][i] = d
      BY <1>2, <1>3, <1>5, <3>1
    <3>3. QED
      BY <3>2 DEF Holds
  <2>3. ASSUME d = k PROVE Holds(t, d)'
    <3>1. Len(held[t]) + 1 \in DOMAIN held'[t]
      BY <1>3, <1>5
    <3>2. held'[t][Len(held[t]) + 1] = d
      BY <1>2, <1>5, <2>3
    <3>3. QED
      BY <3>1, <3>2 DEF Holds
  <2>4. QED
    BY <2>1, <2>2, <2>3
<1>7. \A u \in Threads \ {t} : want'[u] = want[u] /\ held'[u] = held[u]
  BY <1>0
<1>8. \A i \in DOMAIN want'[t] : want'[t][i] = want[t][i + 1] /\ i + 1 \in DOMAIN want[t]
  BY <1>1, <1>3, <1>5
<1>9. \A d : Wants(t, d) <=> Wants(t, d)' \/ d = k
  <2> SUFFICES ASSUME NEW d PROVE Wants(t, d) <=> Wants(t, d)' \/ d = k
    OBVIOUS
  <2>1. ASSUME Wants(t, d), d # k PROVE Wants(t, d)'
    <3>1. PICK i \in DOMAIN want[t] : want[t][i] = d
      BY <2>1 DEF Wants
    <3>2. i # 1 /\ i \in 1 .. Len(want[t])
      BY <1>1, <1>3, <2>1, <3>1
    <3>3. i - 1 \in DOMAIN want'[t] /\ want'[t][i - 1] = d
      <4> DEFINE j == i - 1
      <4>1. j \in 1 .. Len(want[t]) - 1 /\ j + 1 = i
        BY <1>3, <3>2
      <4> HIDE DEF j
      <4>2. want'[t] = Tail(want[t]) /\ want[t] # <<>> /\ want[t] \in Seq(Dirs)
        BY <1>1, <1>3, <1>5
      <4>3. j \in DOMAIN want'[t] /\ want'[t][j] = want[t][j + 1]
        BY <4>1, <4>2
      <4>4. QED
        BY <3>1, <4>1, <4>3 DEF j
    <3>4. QED
      BY <3>3 DEF Wants
  <2>2. ASSUME Wants(t, d)' PROVE Wants(t, d)
    BY <1>8, <2>2 DEF Wants
  <2>3. ASSUME d = k PROVE Wants(t, d)
    BY <1>3, <2>3 DEF Wants
  <2>4. QED
    BY <2>1, <2>2, <2>3
<1>10. \A u \in Threads : \A d : Holds(u, d)' <=> Holds(u, d) \/ (u = t /\ d = k)
  BY <1>6, <1>7 DEF Holds
<1>11. QED
  BY <1>0, <1>1, <1>3, <1>4, <1>5, <1>7, <1>8, <1>9, <1>10 DEF k

\* The lock taken next is below those still wanted.
LEMMA LockKeeps ==
  ASSUME IInv, NEW t \in Threads, Lock(t)
  PROVE  IInv'
<1> DEFINE k == Head(want[t])
<1>0. LocksOK /\ Exclusive /\ Ascending /\ Above /\ Nested
  BY DEF IInv
<1>1. /\ LocksOK' /\ k \in Dirs
      /\ \A u \in Threads : \A d : Holds(u, d)' <=> Holds(u, d) \/ (u = t /\ d = k)
      /\ \A u \in Threads \ {t} : want'[u] = want[u]
      /\ \A i \in DOMAIN want'[t] : want'[t][i] = want[t][i + 1] /\ i + 1 \in DOMAIN want[t]
      /\ \A d : Wants(t, d) <=> Wants(t, d)' \/ d = k
  BY <1>0, LockEffect
<1>2. /\ want \in [Threads -> Seq(Dirs)] /\ want[t] \in Seq(Dirs) /\ want[t] # <<>>
      /\ MayTake(t, k) /\ calls' = calls
      /\ held' = [held EXCEPT ![t] = Append(held[t], k)]
  BY <1>0 DEF Lock, LocksOK
<1>3. 1 \in DOMAIN want[t] /\ want[t][1] = k /\ DOMAIN want[t] \subseteq Nat
  BY <1>2, LenProperties, EmptySeq
<1> HIDE DEF k
<1>4. Exclusive'
  BY <1>0, <1>1, <1>2 DEF Exclusive, MayTake
<1>5. \A i \in DOMAIN want'[t] : i \in Nat /\ 1 < i + 1
  <2>1. want'[t] \in Seq(Dirs)
    BY <1>1 DEF LocksOK
  <2>2. DOMAIN want'[t] = 1 .. Len(want'[t]) /\ Len(want'[t]) \in Nat
    BY <2>1, LenProperties
  <2>3. QED
    BY <2>2
<1>8. Ascending'
  <2> SUFFICES ASSUME NEW u \in Threads, NEW i \in DOMAIN want'[u],
                      NEW j \in DOMAIN want'[u], i < j
               PROVE  want'[u][i] < want'[u][j]
    BY DEF Ascending
  <2>1. CASE u = t
    <3>1. i + 1 < j + 1
      BY <1>5, <2>1
    <3>2. QED
      BY <1>0, <1>1, <2>1, <3>1 DEF Ascending
  <2>2. CASE u # t
    BY <1>0, <1>1, <2>2 DEF Ascending
  <2>3. QED
    BY <2>1, <2>2
<1>9. Above'
  <2> SUFFICES ASSUME NEW u \in Threads, NEW w \in Dirs, Wants(u, w)'
               PROVE  Holds(u, w)' \/ \A d \in Dirs : Holds(u, d)' => d < w
    BY DEF Above
  <2>1. CASE u = t
    <3>1. PICK i \in DOMAIN want'[t] : want'[t][i] = w
      BY <2>1 DEF Wants
    <3>2. k < w
      BY <1>0, <1>1, <1>3, <1>5, <3>1 DEF Ascending
    <3>3. Holds(t, w) \/ \A d \in Dirs : Holds(t, d) => d < w
      BY <1>0, <1>1, <2>1 DEF Above
    <3>4. QED
      BY <1>1, <2>1, <3>2, <3>3
  <2>2. CASE u # t
    <3>1. want'[u] = want[u]
      BY <1>1, <2>2
    <3>2. Wants(u, w)
      BY <3>1 DEF Wants
    <3>3. QED
      BY <1>0, <1>1, <2>2, <3>2 DEF Above
  <2>3. QED
    BY <2>1, <2>2
<1>6. Nested'
  <2> SUFFICES ASSUME NEW u \in Threads
               PROVE  \/ calls'[u] = <<>>
                      \/ calls'[u] \in Operations /\ want'[u] = <<>> /\ held'[u] = <<>>
                      \/ \E q \in Dirs \X Dirs :
                            /\ calls'[u] = <<q>>
                            /\ \A d \in Dirs : d \in {q[1], q[2]}
                                                   <=> Holds(u, d)' \/ Wants(u, d)'
    BY DEF Nested
  <2>1. CASE u = t
    <3>1. \A d : Holds(t, d)' \/ Wants(t, d)' <=> Holds(t, d) \/ Wants(t, d)
      BY <1>1
    <3>2. QED
      BY <1>0, <1>2, <2>1, <3>1 DEF Nested
  <2>2. CASE u # t
    <3>1. \A d : (Holds(u, d)' <=> Holds(u, d)) /\ (Wants(u, d)' <=> Wants(u, d))
      <4>1. want'[u] = want[u]
        BY <1>1, <2>2
      <4>2. \A d : Wants(u, d)' <=> Wants(u, d)
        BY <4>1 DEF Wants
      <4>3. QED
        BY <1>1, <2>2, <4>2
    <3>2. want'[u] = want[u] /\ held'[u] = held[u] /\ calls'[u] = calls[u]
      BY <1>0, <1>1, <1>2, <2>2 DEF LocksOK
    <3>3. QED
      BY <1>0, <3>1, <3>2 DEF Nested
  <2>3. QED
    BY <2>1, <2>2
<1>7. QED
  BY <1>1, <1>4, <1>6, <1>8, <1>9 DEF IInv

\* Locks are given back only when nothing is wanted any more.
LEMMA UnlockKeeps ==
  ASSUME IInv, NEW t \in Threads, Unlock(t)
  PROVE  IInv'
<1>0. LocksOK /\ Exclusive /\ Ascending /\ Above /\ Nested
  BY DEF IInv
<1>1. /\ held \in [Threads -> Seq(Dirs)] /\ held[t] \in Seq(Dirs) /\ held[t] # <<>>
      /\ held' = [held EXCEPT ![t] = SubSeq(held[t], 1, Len(held[t]) - 1)]
      /\ calls' = calls /\ want' = want /\ calls[t] = <<>> /\ want[t] = <<>>
  BY <1>0 DEF Unlock, Inside, LocksOK
<1> DEFINE n == Len(held[t]) - 1
           rest == SubSeq(held[t], 1, n)
<1>2. DOMAIN held[t] = 1 .. n + 1 /\ n \in Nat /\ \A i \in 1 .. n + 1 : held[t][i] \in Dirs
  BY <1>1, LenProperties, EmptySeq, ElementOfSeq
<1>3. rest \in Seq(Dirs) /\ Len(rest) = n /\ \A i \in 1 .. n : rest[i] = held[t][i]
  <2> HIDE DEF n
  <2>1. \A i \in 1 .. n : held[t][i] \in Dirs
    BY <1>2
  <2>2. /\ rest \in Seq(Dirs) /\ Len(rest) = IF 1 <= n THEN n - 1 + 1 ELSE 0
        /\ \A i \in 1 .. n - 1 + 1 : rest[i] = held[t][1 + i - 1]
    BY <1>2, <2>1, SubSeqProperties
  <2>3. QED
    BY <1>2, <2>2
<1>4. DOMAIN rest = 1 .. n
  BY <1>3, LenProperties
<1> HIDE DEF n, rest
<1>5. held' = [held EXCEPT ![t] = rest]
  BY <1>1 DEF n, rest
<1>6. \A u \in Threads : \A d : Holds(u, d)' => Holds(u, d)
  <2> SUFFICES ASSUME NEW u \in Threads, NEW d, Holds(u, d)' PROVE Holds(u, d)
    OBVIOUS
  <2>1. CASE u = t
    <3>1. PICK i \in 1 .. n : rest[i] = d
      BY <1>1, <1>4, <1>5, <2>1 DEF Holds
    <3>2. i \in DOMAIN held[t] /\ held[t][i] = d
      BY <1>2, <1>3, <3>1
    <3>3. QED
      BY <2>1, <3>2 DEF Holds
  <2>2. CASE u # t
    BY <1>1, <1>5, <2>2 DEF Holds
  <2>3. QED
    BY <2>1, <2>2
<1>7. LocksOK'
  BY <1>0, <1>1, <1>3, <1>5 DEF LocksOK
<1>8. Exclusive'
  BY <1>0, <1>6 DEF Exclusive
<1>9. \A u \in Threads : u # t => \A d : Holds(u, d)' = Holds(u, d)
  BY <1>1, <1>5 DEF Holds
<1>10. Ascending'
  BY <1>0, <1>1 DEF Ascending
<1>13. \A u \in Threads : \A d : Wants(u, d)' = Wants(u, d)
  BY <1>1 DEF Wants
<1>14. Above'
  <2>1. \A d : ~Wants(t, d)
    BY <1>1 DEF Wants
  <2>2. QED
    BY <1>0, <1>9, <1>13, <2>1 DEF Above
<1>11. Nested'
  <2>2. \A u \in Threads : u # t => held'[u] = held[u]
    BY <1>1, <1>5
  <2>3. QED
    BY <1>0, <1>1, <1>9, <1>13, <2>2 DEF Nested
<1>12. QED
  BY <1>7, <1>8, <1>10, <1>11, <1>14 DEF IInv

\* A restart leaves nothing held.
LEMMA RestartKeeps ==
  ASSUME Restart
  PROVE  IInv'
BY DEF Restart, IInv, LocksOK, Exclusive, Ascending, Above, Nested, Holds, Wants

-----------------------------------------------------------------------------
\* The invariant is inductive.
LEMMA IInvNext ==
  ASSUME ~Cleaning
  PROVE  IInv /\ [LocksNext]_locks => IInv'
<1> SUFFICES ASSUME IInv, [LocksNext]_locks PROVE IInv'
  OBVIOUS
<1>1. CASE UNCHANGED locks
  BY <1>1 DEF locks, IInv, LocksOK, Exclusive, Ascending, Above, Nested, Holds, Wants
<1>2. ASSUME NEW t \in Threads, NEW op \in Operations, Call(t, op) PROVE IInv'
  BY <1>2, CallKeeps
<1>3. ASSUME NEW t \in Threads, Enter(t) PROVE IInv'
  BY <1>3, EnterKeeps
<1>4. ASSUME NEW t \in Threads, Lock(t) PROVE IInv'
  BY <1>4, LockKeeps
<1>5. ASSUME NEW t \in Threads, Unlock(t) PROVE IInv'
  BY <1>5, UnlockKeeps
<1>6. CASE Restart
  BY <1>6, RestartKeeps
<1>7. QED
  BY <1>1, <1>2, <1>3, <1>4, <1>5, <1>6 DEF LocksNext

\* The thread that waits for the largest key of a circle is kept by one that
\* waits for a larger one still.
LEMMA NoCircle == IInv => NobodyStuck
<1> SUFFICES ASSUME IInv, NEW S \in SUBSET Threads, Stuck(S) PROVE FALSE
  BY DEF NobodyStuck
<1>0. LocksOK /\ Exclusive /\ Above
  BY DEF IInv
<1> DEFINE first(t) == Head(want[t])
           K == {first(t) : t \in S}
<1>1. \A t \in S : first(t) \in Dirs /\ Wants(t, first(t))
  <2> SUFFICES ASSUME NEW t \in S
               PROVE  first(t) \in Dirs /\ Wants(t, first(t))
    OBVIOUS
  <2>1. want[t] \in Seq(Dirs) /\ want[t] # <<>>
    BY <1>0 DEF LocksOK, Stuck
  <2>2. QED
    BY <2>1, LenProperties, EmptySeq, HeadTailProperties DEF Wants
<1>2. \A t \in S : ~Holds(t, first(t)) /\ \E u \in S : Holds(u, first(t))
  <2> SUFFICES ASSUME NEW t \in S
               PROVE  ~Holds(t, first(t)) /\ \E u \in S : Holds(u, first(t))
    OBVIOUS
  <2>1. PICK u \in S : Holds(u, first(t)) /\ ~MayTake(t, first(t))
    BY DEF Stuck, Blocks
  <2>2. PICK v \in Threads \ {t} : Holds(v, first(t))
    BY <2>1 DEF MayTake
  <2>3. ~Holds(t, first(t))
    BY <1>0, <1>1, <2>2 DEF Exclusive
  <2>4. QED
    BY <2>1, <2>3
<1> HIDE DEF first
<1>3. PICK k \in K : \A j \in K : j <= k
  <2>1. K \subseteq Dirs /\ K # {}
    BY <1>1 DEF Stuck
  <2>2. QED
    BY <2>1, Largest
<1>4. PICK t \in S : k = first(t)
  BY <1>3
<1>5. PICK u \in S : Holds(u, k)
  BY <1>2, <1>4
<1>6. k < first(u)
  BY <1>0, <1>1, <1>2, <1>4, <1>5 DEF Above
<1>7. first(u) <= k /\ first(u) \in Int /\ k \in Int
  BY <1>1, <1>3, <1>4, DirsAssumption DEF Dirs
<1>8. QED
  BY <1>6, <1>7

\* NobodyStuck for any number of threads and directories, as long as neither
\* previews delete nor duplicates are cleaned up (which locks_cleaning refutes).
THEOREM NoDeadlock ==
  ASSUME ~Cleaning
  PROVE  LocksSpec => []NobodyStuck
<1>1. IInv /\ [LocksNext]_locks => IInv'
  BY IInvNext
<1>2. QED
  BY <1>1, Initially, NoCircle, PTL DEF LocksSpec

-----------------------------------------------------------------------------
(* The operations on files. *)

\* A job that has been begun knows where from and where to.
KnowsPlaces(j) ==
    /\ j.kind # "none" => j.to \in Paths
    /\ j.kind \notin {"none", "write"} => j.from \in Paths
    /\ j.kind = "none" => j.stage = "idle"
    /\ j.stage = "moved" => j.file \in Files

Typed ==
    /\ loc \in [Files -> Places]
    /\ log \in Seq(Entries)
    /\ job \in [Threads -> Jobs]
    /\ \A t \in Threads : KnowsPlaces(job[t])

\* The thread has a directory's lock, or its acquires are going to take it.
Comes(t, d) == \E i \in DOMAIN calls[t] : d \in {calls[t][i][1], calls[t][i][2]}
Claims(t, d) == Holds(t, d) \/ Wants(t, d) \/ Comes(t, d)

\* A name is chosen, and stays chosen, under the lock of its directory,
Claimed ==
    \A t \in Threads :
        /\ job[t].stage = "wait" => Claims(t, job[t].to.dir)
        /\ job[t].stage = "ready" => Holds(t, job[t].to.dir)

\* and nothing is there.
Chosen ==
    \A t \in Threads : job[t].stage = "ready" => ~Occupied(job[t].to)

StoreInv == IInv /\ Typed /\ Claimed /\ Chosen

-----------------------------------------------------------------------------
\* What Begin is called with.
Beginning(j) ==
    /\ j \in Jobs /\ KnowsPlaces(j) /\ j.stage = "wait" /\ j.kind # "none"
    /\ j.wrapped => /\ j.kind # "write"
                    /\ j.from.dir \in Folders /\ j.to.dir \in Folders

\* A place is a path or nowhere.
LEMMA PathsArePlaces ==
  /\ Paths \subseteq Places /\ Nowhere \notin Paths /\ Nowhere \in Places
  /\ \A p \in Places : p # Nowhere => p \in Paths
  /\ \A p \in Paths : p.dir \in Dirs /\ p.name \in Seq(Nat)
  /\ \A d \in Dirs, n \in Seq(Nat) : At(d, n) \in Paths /\ At(d, n).dir = d
<1>1. 0 \notin Dirs
  BY DirsAssumption DEF Dirs
<1>2. QED
  BY <1>1 DEF Paths, Places, Nowhere, At

\* No job is a job.
LEMMA NoJobIsTyped == NoJob \in Jobs /\ KnowsPlaces(NoJob) /\ NoJob.stage = "idle"
BY DEF NoJob, Jobs, KnowsPlaces, Places

\* A numbered name is in the same folder.
LEMMA VariantStays ==
  ASSUME NEW p \in Paths, NEW i \in 0 .. Cardinality(Files)
  PROVE  Variant(p, i) \in Paths /\ Variant(p, i).dir = p.dir
<1>1. i \in Nat
  BY FilesAssumption, FS_CardinalityType
<1>2. p.dir \in Dirs /\ Append(p.name, i) \in Seq(Nat)
  BY <1>1, PathsArePlaces, AppendProperties
<1>3. QED
  BY <1>2, PathsArePlaces DEF Variant

\* Folders and the trash are directories.
LEMMA FolderIsDir == Folders \subseteq Dirs /\ Trash \in Dirs
BY DirsAssumption DEF Folders, Dirs

\* Every request and every step of a roll-back begins a job of that kind.
LEMMA Begins ==
  ASSUME Typed, NEW t \in Threads, Asked(t) \/ UndoNext(t), ~RollBack(t)
  PROVE  \E j : Beginning(j) /\ Begin(t, j)
<1>0. \A f \in Files : loc[f] \in Places
  BY DEF Typed
<1>1. ASSUME NEW p \in Places, NEW q \in Paths, Move(t, p, q),
             p \in Paths /\ p.dir \in Folders => q.dir \in Folders
      PROVE  \E j : Beginning(j) /\ Begin(t, j)
  <2>1. p \in Paths
    BY <1>1, PathsArePlaces DEF Move
  <2>2. PICK mine \in BOOLEAN, wrapped \in BOOLEAN, strict \in BOOLEAN :
           /\ wrapped => p.dir \in Folders
           /\ Begin(t, [NoJob EXCEPT !.kind = "move", !.stage = "wait", !.from = p,
                          !.to = q, !.mine = mine, !.wrapped = wrapped,
                          !.strict = strict])
    BY <1>1, Zenon DEF Move
  <2> DEFINE j == [NoJob EXCEPT !.kind = "move", !.stage = "wait", !.from = p,
                          !.to = q, !.mine = mine, !.wrapped = wrapped,
                          !.strict = strict]
  <2>3. q \in Places /\ mine \in BOOLEAN /\ wrapped \in BOOLEAN /\ strict \in BOOLEAN
    BY <2>2, PathsArePlaces
  <2>4. [NoJob EXCEPT !.kind = "move", !.stage = "wait", !.from = p, !.to = q] \in Jobs
    BY <2>3 DEF Jobs, NoJob
  <2>8. \A k \in Jobs, m, w, r \in BOOLEAN :
            [k EXCEPT !.mine = m, !.wrapped = w, !.strict = r] \in Jobs
    BY DEF Jobs
  <2>5. j \in Jobs
    BY <2>3, <2>4, <2>8, Zenon
  <2>6. /\ j.kind = "move" /\ j.stage = "wait" /\ j.from = p /\ j.to = q
        /\ j.wrapped = wrapped
    BY DEF NoJob
  <2> HIDE DEF j
  <2>7. Beginning(j)
    BY <1>1, <2>1, <2>2, <2>5, <2>6 DEF Beginning, KnowsPlaces
  <2>9. QED
    BY <2>2, <2>7 DEF j
<1>2. ASSUME NEW f \in Files, Delete(t, loc[f])
      PROVE  \E j : Beginning(j) /\ Begin(t, j)
  <2>1. loc[f] \in Paths /\ At(Trash, loc[f].name) \in Paths
    BY <1>0, <1>2, PathsArePlaces, FolderIsDir, DirsAssumption DEF Delete, Nowhere, Folders, Dirs
  <2>2. PICK mine \in BOOLEAN :
           Begin(t, [NoJob EXCEPT !.kind = "delete", !.stage = "wait", !.from = loc[f],
                          !.to = At(Trash, loc[f].name), !.mine = mine])
    BY <1>2, Zenon DEF Delete
  <2> DEFINE j == [NoJob EXCEPT !.kind = "delete", !.stage = "wait", !.from = loc[f],
                          !.to = At(Trash, loc[f].name), !.mine = mine]
  <2>3. Beginning(j)
    BY <2>1, <2>2, PathsArePlaces DEF Beginning, Jobs, KnowsPlaces, NoJob
  <2>4. QED
    BY <2>2, <2>3
<1>3. ASSUME NEW f \in Files, NEW q \in Paths, Write(t, f, q)
      PROVE  \E j : Beginning(j) /\ Begin(t, j)
  <2> DEFINE j == [NoJob EXCEPT !.kind = "write", !.stage = "wait", !.to = q, !.file = f]
  <2>1. Beginning(j)
    BY <1>3, PathsArePlaces DEF Beginning, Jobs, KnowsPlaces, NoJob
  <2>2. QED
    BY <1>3, <2>1 DEF Write
<1>4. ASSUME NEW i, Undo(t, i)
      PROVE  \E j : Beginning(j) /\ Begin(t, j)
  <2> DEFINE j == [NoJob EXCEPT !.kind = "restore", !.stage = "wait",
                    !.from = log[i].to, !.to = log[i].from]
  <2>1. log[i] \in Entries
    BY <1>4, LenProperties, ElementOfSeq DEF Undo, Typed
  <2>2. log[i].from \in Paths /\ log[i].to \in Paths
    BY <2>1 DEF Entries
  <2>3. Beginning(j)
    BY <2>2, PathsArePlaces DEF Beginning, Jobs, KnowsPlaces, NoJob
  <2>4. QED
    BY <1>4, <2>3 DEF Undo
<1>5. ASSUME NEW d \in Dirs, NEW b \in Bases PROVE At(d, <<b>>) \in Paths
  <2>1. <<b>> \in Seq(Nat)
    BY FilesAssumption
  <2>2. QED
    BY <2>1, PathsArePlaces
<1>6. CASE UndoNext(t)
  BY <1>4, <1>6 DEF UndoNext
<1>7. ASSUME NEW f \in Files, NEW d \in Folders, Move(t, loc[f], At(d, loc[f].name))
      PROVE  \E j : Beginning(j) /\ Begin(t, j)
  <2>1. loc[f] \in Paths
    BY <1>0, <1>7, PathsArePlaces DEF Move
  <2>2. At(d, loc[f].name) \in Paths /\ At(d, loc[f].name).dir = d
    BY <2>1, PathsArePlaces, FolderIsDir
  <2>3. QED
    BY <1>0, <1>1, <1>7, <2>2
<1>8. ASSUME NEW f \in Files, NEW b \in Bases, Move(t, loc[f], At(loc[f].dir, <<b>>))
      PROVE  \E j : Beginning(j) /\ Begin(t, j)
  <2>1. loc[f] \in Paths
    BY <1>0, <1>8, PathsArePlaces DEF Move
  <2>2. At(loc[f].dir, <<b>>) \in Paths /\ At(loc[f].dir, <<b>>).dir = loc[f].dir
    BY <1>5, <2>1, PathsArePlaces DEF At
  <2>3. QED
    BY <1>0, <1>1, <1>8, <2>2
<1>9. ASSUME NEW f \in Files, NEW d \in Folders, NEW b \in Bases,
             Write(t, f, At(d, <<b>>))
      PROVE  \E j : Beginning(j) /\ Begin(t, j)
  BY <1>3, <1>5, <1>9, FolderIsDir
<1>10. ASSUME NEW i \in DOMAIN log, Restore(t, i)
       PROVE  \E j : Beginning(j) /\ Begin(t, j)
  BY <1>4, <1>10 DEF Restore
<1>11. QED
  BY <1>2, <1>6, <1>7, <1>8, <1>9, <1>10 DEF Asked

\* A begun job asks for locks as some operation of PathLocks does.
LEMMA BeginCalls ==
  ASSUME NEW t \in Threads, NEW j, Beginning(j), Begin(t, j)
  PROVE  /\ Acquires(j) \in Operations /\ Call(t, Acquires(j))
         /\ \E i \in DOMAIN Acquires(j) :
                j.to.dir \in {Acquires(j)[i][1], Acquires(j)[i][2]}
<1>1. j.to.dir \in Dirs /\ (j.kind # "write" => j.from.dir \in Dirs)
  BY PathsArePlaces DEF Beginning, KnowsPlaces
<1>2. Locked(j) \in Dirs \X Dirs /\ (j.wrapped => Locked(j) \in Folders \X Folders)
  BY <1>1 DEF Locked, Beginning
<1>3. j.to.dir \in {Locked(j)[1], Locked(j)[2]}
  BY DEF Locked
<1>4. CASE j.wrapped
  <2>1. Acquires(j) = <<Locked(j), Locked(j)>>
    BY <1>4 DEF Acquires
  <2> HIDE DEF Locked
  <2>2. Acquires(j) \in Wrapped
    BY <1>2, <1>4, <2>1 DEF Wrapped
  <2>3. 1 \in DOMAIN Acquires(j) /\ Acquires(j)[1] = Locked(j)
    BY <2>1
  <2>4. QED
    BY <1>3, <2>2, <2>3 DEF Operations, Begin
<1>5. CASE ~j.wrapped
  <2>1. Acquires(j) = <<Locked(j)>>
    BY <1>5 DEF Acquires
  <2>2. Acquires(j) \in Direct
    BY <1>2, <2>1 DEF Direct
  <2>3. 1 \in DOMAIN Acquires(j) /\ Acquires(j)[1] = Locked(j)
    BY <2>1
  <2>4. QED
    BY <1>3, <2>2, <2>3 DEF Operations, Begin
<1>6. QED
  BY <1>4, <1>5

-----------------------------------------------------------------------------
\* The steps, sorted by what becomes of the locks.
Still(t) ==
    \/ RollBack(t) \/ PassOver(t) \/ Choose(t) \/ GiveUp(t) \/ Shift(t)
    \/ ShiftFails(t) \/ Record(t) \/ RecordFails(t) \/ Finish(t)

\* Every step is one of these.
LEMMA Kinds ==
  ASSUME Typed, Next
  PROVE  \/ \E t \in Threads : \/ \E j : Beginning(j) /\ Begin(t, j)
                               \/ Still(t) \/ Wait(t) \/ Release(t)
         \/ \E f \in Files : Vanish(f)
         \/ Crash
<1>1. ASSUME NEW t \in Threads, Asked(t) \/ UndoNext(t), ~RollBack(t)
      PROVE  \E j : Beginning(j) /\ Begin(t, j)
  BY <1>1, Begins
<1>2. \/ \E t \in Threads : Asked(t) \/ Work(t)
      \/ \E f \in Files : Vanish(f)
      \/ Crash
  BY DEF Next
<1>3. \A t \in Threads : Work(t) => UndoNext(t) \/ Still(t) \/ Wait(t) \/ Release(t)
  BY DEF Work, Still
<1>4. \A t \in Threads : RollBack(t) => Still(t)
  BY DEF Still
<1>5. QED
  BY <1>1, <1>2, <1>3, <1>4

\* The steps called still leave the locks alone.
LEMMA StillLocks ==
  ASSUME NEW t \in Threads, Still(t)
  PROVE  UNCHANGED locks
BY DEF Still, RollBack, PassOver, Choose, GiveUp, Shift, ShiftFails, Record,
       RecordFails, Finish

\* Every step is one of PathLocks, or nothing to it.
LEMMA LocksStep == Typed /\ [Next]_vars => [LocksNext]_locks
<1> SUFFICES ASSUME Typed, [Next]_vars PROVE [LocksNext]_locks
  OBVIOUS
<1>1. CASE UNCHANGED vars
  BY <1>1 DEF vars
<1>2. ASSUME NEW t \in Threads, NEW j, Beginning(j), Begin(t, j) PROVE LocksNext
  BY <1>2, BeginCalls DEF LocksNext
<1>3. ASSUME NEW t \in Threads, Still(t) PROVE UNCHANGED locks
  BY <1>3, StillLocks
<1>4. ASSUME NEW t \in Threads, Wait(t) PROVE LocksNext
  BY <1>4 DEF Wait, LocksNext
<1>5. ASSUME NEW t \in Threads, Release(t) PROVE LocksNext
  BY <1>5 DEF Release, LocksNext
<1>6. ASSUME NEW f \in Files, Vanish(f) PROVE UNCHANGED locks
  BY <1>6 DEF Vanish
<1>7. CASE Crash
  BY <1>7 DEF Crash, LocksNext
<1>8. QED
  BY <1>1, <1>2, <1>3, <1>4, <1>5, <1>6, <1>7, Kinds

-----------------------------------------------------------------------------
\* The state is well formed at first,
LEMMA TypedInit == Init => Typed
<1> SUFFICES ASSUME Init PROVE Typed
  OBVIOUS
<1>1. loc \in [Files -> Places] /\ log \in Seq(Entries)
  BY PlacementsAssumption DEF Init
<1>2. job \in [Threads -> Jobs] /\ \A t \in Threads : KnowsPlaces(job[t])
  BY NoJobIsTyped DEF Init
<1>3. QED
  BY <1>1, <1>2 DEF Typed

\* What Stage does.
LEMMA StageEffect ==
  ASSUME job \in [Threads -> Jobs], NEW t \in Threads,
         NEW s \in {"wait", "ready", "moved", "leave"}, Stage(t, s)
  PROVE  /\ job' \in [Threads -> Jobs]
         /\ job'[t] = [job[t] EXCEPT !.stage = s]
         /\ \A u \in Threads \ {t} : job'[u] = job[u]
BY DEF Stage, Jobs

\* after the steps that leave the locks alone,
LEMMA TypedStill ==
  ASSUME Typed, NEW t \in Threads, Still(t)
  PROVE  Typed'
<1>0. /\ loc \in [Files -> Places] /\ log \in Seq(Entries)
      /\ job \in [Threads -> Jobs] /\ \A u \in Threads : KnowsPlaces(job[u])
      /\ job[t] \in Jobs
  BY DEF Typed
<1>1. CASE RollBack(t) \/ PassOver(t)
  <2>1. loc' = loc /\ log' = log /\ job' = job
    BY <1>1 DEF RollBack, PassOver, store
  <2>2. QED
    BY <1>0, <2>1 DEF Typed
<1>2. CASE Choose(t)
  <2>1. PICK i \in 0 .. Cardinality(Files) :
           job' = [job EXCEPT ![t].to = Variant(@, i), ![t].stage = "ready"]
    BY <1>2 DEF Choose
  <2>2. job[t].to \in Paths /\ job[t].kind # "none" /\ job[t].stage = "wait"
    BY <1>0, <1>2 DEF Choose, KnowsPlaces
  <2> DEFINE q == Variant(job[t].to, i)
  <2>3. q \in Paths
    BY <2>2, VariantStays
  <2>4. job' = [job EXCEPT ![t] = [job[t] EXCEPT !.to = q, !.stage = "ready"]]
    BY <1>0, <2>1
  <2> HIDE DEF q
  <2>5. [job[t] EXCEPT !.to = q, !.stage = "ready"] \in Jobs
    BY <1>0, <2>3, PathsArePlaces DEF Jobs
  <2>6. KnowsPlaces([job[t] EXCEPT !.to = q, !.stage = "ready"])
    BY <1>0, <2>2, <2>3 DEF KnowsPlaces, Jobs
  <2>7. loc' = loc /\ log' = log
    BY <1>2 DEF Choose, store
  <2>8. QED
    BY <1>0, <2>4, <2>5, <2>6, <2>7 DEF Typed
<1>3. CASE GiveUp(t) \/ ShiftFails(t) \/ RecordFails(t)
  <2>1. Stage(t, "leave") /\ loc' = loc /\ log' = log /\ job[t].stage # "idle"
    BY <1>3 DEF GiveUp, ShiftFails, RecordFails, store
  <2>2. /\ job' \in [Threads -> Jobs] /\ job'[t] = [job[t] EXCEPT !.stage = "leave"]
        /\ \A u \in Threads \ {t} : job'[u] = job[u]
    BY <1>0, <2>1, StageEffect
  <2>3. KnowsPlaces(job'[t])
    BY <1>0, <2>1, <2>2 DEF KnowsPlaces, Jobs
  <2>4. \A u \in Threads : KnowsPlaces(job'[u])
    BY <1>0, <2>2, <2>3
  <2>5. QED
    BY <1>0, <2>1, <2>2, <2>4 DEF Typed, KnowsPlaces
<1>4. CASE Shift(t)
  <2>1. PICK f \in Files :
           /\ Put(f, job[t].to)
           /\ job' = [job EXCEPT ![t].file = f, ![t].stage = "moved"]
    BY <1>4 DEF Shift
  <2>2. job[t].to \in Places /\ job[t].to \in Paths /\ job[t].stage = "ready"
    BY <1>0, <1>4, PathsArePlaces DEF Shift, KnowsPlaces
  <2>3. loc' \in [Files -> Places]
    BY <1>0, <2>1, <2>2, PathsArePlaces DEF Put
  <2>4. job' = [job EXCEPT ![t] = [job[t] EXCEPT !.file = f, !.stage = "moved"]]
    BY <1>0, <2>1
  <2>5. [job[t] EXCEPT !.file = f, !.stage = "moved"] \in Jobs
    BY <1>0 DEF Jobs
  <2>6. KnowsPlaces([job[t] EXCEPT !.file = f, !.stage = "moved"])
    BY <1>0, <2>2 DEF KnowsPlaces, Jobs
  <2>7. log' = log
    BY <1>4 DEF Shift
  <2>8. QED
    BY <1>0, <2>3, <2>4, <2>5, <2>6, <2>7 DEF Typed
<1>5. CASE Record(t)
  <2>1. Stage(t, "leave") /\ loc' = loc /\ job[t].stage = "moved"
    BY <1>5 DEF Record
  <2>2. /\ job' \in [Threads -> Jobs] /\ job'[t] = [job[t] EXCEPT !.stage = "leave"]
        /\ \A u \in Threads \ {t} : job'[u] = job[u]
    BY <1>0, <2>1, StageEffect
  <2>3. KnowsPlaces(job'[t])
    BY <1>0, <2>1, <2>2 DEF KnowsPlaces, Jobs
  <2>4. \A u \in Threads : KnowsPlaces(job'[u])
    BY <1>0, <2>2, <2>3
  <2>5. log' \in Seq(Entries)
    <3>1. CASE job[t].kind \in {"move", "delete"}
      <4>1. Recorded(job[t]) \in Entries
        BY <1>0, <2>1, <3>1 DEF Recorded, Entries, KnowsPlaces, Jobs
      <4>2. log' = Append(log, Recorded(job[t]))
        BY <1>5, <3>1 DEF Record
      <4>3. QED
        BY <1>0, <4>1, <4>2, AppendProperties
    <3>2. CASE job[t].kind \notin {"move", "delete"}
      BY <1>0, <1>5, <3>2 DEF Record
    <3>3. QED
      BY <3>1, <3>2
  <2>6. QED
    BY <1>0, <2>1, <2>2, <2>4, <2>5 DEF Typed, KnowsPlaces
<1>6. CASE Finish(t)
  <2>1. loc' = loc /\ log' = log /\ job' = [job EXCEPT ![t] = NoJob]
    BY <1>6 DEF Finish, store
  <2>2. QED
    BY <1>0, <2>1, NoJobIsTyped DEF Typed
<1>7. QED
  BY <1>1, <1>2, <1>3, <1>4, <1>5, <1>6 DEF Still

\* and after every step.
LEMMA TypedNext == Typed /\ [Next]_vars => Typed'
<1> SUFFICES ASSUME Typed, [Next]_vars PROVE Typed'
  OBVIOUS
<1>0. /\ loc \in [Files -> Places] /\ log \in Seq(Entries)
      /\ job \in [Threads -> Jobs] /\ \A u \in Threads : KnowsPlaces(job[u])
  BY DEF Typed
<1>1. ASSUME loc' = loc, log' = log, job' = job PROVE Typed'
  BY <1>0, <1>1 DEF Typed
<1>2. CASE UNCHANGED vars
  BY <1>1, <1>2 DEF vars, store
<1>3. ASSUME NEW t \in Threads, NEW j, Beginning(j), Begin(t, j) PROVE Typed'
  <2>1. loc' = loc /\ log' = log /\ job' = [job EXCEPT ![t] = j]
    BY <1>3 DEF Begin, store
  <2>2. j \in Jobs /\ KnowsPlaces(j)
    BY <1>3 DEF Beginning
  <2>3. QED
    BY <1>0, <2>1, <2>2 DEF Typed
<1>4. ASSUME NEW t \in Threads, Still(t) PROVE Typed'
  BY <1>4, TypedStill
<1>5. ASSUME NEW t \in Threads, Wait(t) \/ Release(t) PROVE Typed'
  BY <1>1, <1>5 DEF Wait, Release, store
<1>6. ASSUME NEW f \in Files, Vanish(f) PROVE Typed'
  <2>1. log' = log /\ job' = job /\ loc' \in [Files -> Places]
    BY <1>0, <1>6, PathsArePlaces DEF Vanish
  <2>2. QED
    BY <1>0, <2>1 DEF Typed
<1>7. CASE Crash
  <2>1. loc' = loc /\ log' = log /\ job' = [t \in Threads |-> NoJob]
    BY <1>7 DEF Crash, store
  <2>2. QED
    BY <1>0, <2>1, NoJobIsTyped DEF Typed
<1>8. QED
  BY <1>2, <1>3, <1>4, <1>5, <1>6, <1>7, Kinds

-----------------------------------------------------------------------------
\* What a thread does to its locks is nothing to the others.
LEMMA OthersUntouched ==
  ASSUME LocksOK, NEW t \in Threads, NEW u \in Threads, u # t,
         (\E op : Call(t, op)) \/ Enter(t) \/ Lock(t) \/ Unlock(t)
  PROVE  \A d : (Claims(u, d)' <=> Claims(u, d)) /\ (Holds(u, d)' <=> Holds(u, d))
<1>1. calls'[u] = calls[u] /\ want'[u] = want[u] /\ held'[u] = held[u]
  BY DEF Call, Enter, Lock, Unlock, LocksOK
<1>2. \A d : Holds(u, d)' <=> Holds(u, d)
  BY <1>1 DEF Holds
<1>3. \A d : (Wants(u, d)' <=> Wants(u, d)) /\ (Comes(u, d)' <=> Comes(u, d))
  BY <1>1 DEF Wants, Comes
<1>4. QED
  BY <1>2, <1>3 DEF Claims

\* On the way to its locks a thread gives none of them up.
LEMMA ClaimsKept ==
  ASSUME LocksOK, NEW t \in Threads, Enter(t) \/ Lock(t), NEW d, Claims(t, d)
  PROVE  Claims(t, d)' /\ (Holds(t, d) => Holds(t, d)')
<1>1. CASE Lock(t)
  <2>1. /\ Holds(t, d)' <=> Holds(t, d) \/ d = Head(want[t])
        /\ Wants(t, d) <=> Wants(t, d)' \/ d = Head(want[t])
    BY <1>1, LockEffect
  <2>2. Comes(t, d)' <=> Comes(t, d)
    BY <1>1 DEF Lock, Comes
  <2>3. QED
    BY <2>1, <2>2 DEF Claims
<1>2. CASE Enter(t)
  <2> DEFINE p == Head(calls[t])
  <2>0. /\ calls[t] \in Seq(Dirs \X Dirs) /\ calls[t] # <<>> /\ want[t] = <<>>
        /\ held' = held
        /\ want'[t] = Sorted(p) /\ calls'[t] = Tail(calls[t])
    BY <1>2 DEF Enter, LocksOK
  <2>1. /\ p \in Dirs \X Dirs /\ Tail(calls[t]) \in Seq(Dirs \X Dirs)
        /\ Len(Tail(calls[t])) = Len(calls[t]) - 1
        /\ \A i \in 1 .. Len(Tail(calls[t])) : Tail(calls[t])[i] = calls[t][i + 1]
    BY <2>0, HeadTailProperties
  <2>2. /\ DOMAIN calls[t] = 1 .. Len(calls[t]) /\ Len(calls[t]) \in Nat \ {0}
        /\ DOMAIN Tail(calls[t]) = 1 .. Len(calls[t]) - 1 /\ p = calls[t][1]
    BY <2>0, <2>1, LenProperties, EmptySeq
  <2> HIDE DEF p
  <2>3. Holds(t, d)' <=> Holds(t, d)
    BY <2>0 DEF Holds
  <2>4. ~Wants(t, d)
    BY <2>0 DEF Wants
  <2>5. CASE Comes(t, d)
    <3>1. PICK i \in DOMAIN calls[t] : d \in {calls[t][i][1], calls[t][i][2]}
      BY <2>5 DEF Comes
    <3>2. CASE i = 1
      <4>0. \A e : e \in {p[1], p[2]} <=> \E k \in DOMAIN Sorted(p) : Sorted(p)[k] = e
        BY <2>1, SortedKeys
      <4>1. \E k \in DOMAIN Sorted(p) : Sorted(p)[k] = d
        BY <2>2, <3>1, <3>2, <4>0
      <4>2. Wants(t, d)'
        BY <2>0, <4>1 DEF Wants
      <4>3. QED
        BY <2>3, <4>2 DEF Claims
    <3>3. CASE i # 1
      <4>1. i - 1 \in DOMAIN Tail(calls[t]) /\ Tail(calls[t])[i - 1] = calls[t][i]
        BY <2>1, <2>2, <3>1, <3>3
      <4>2. Comes(t, d)'
        BY <2>0, <3>1, <4>1 DEF Comes
      <4>3. QED
        BY <2>3, <4>2 DEF Claims
    <3>4. QED
      BY <3>2, <3>3
  <2>6. QED
    BY <2>3, <2>4, <2>5 DEF Claims
<1>3. QED
  BY <1>1, <1>2

\* Inside its locks a thread has what it claimed.
LEMMA InsideHolds ==
  ASSUME NEW t \in Threads, Inside(t), NEW d, Claims(t, d)
  PROVE  Holds(t, d)
BY DEF Inside, Claims, Wants, Comes

\* The stages that other threads are in.
LEMMA OthersAtRest ==
  ASSUME Typed, NEW t \in Threads, Still(t), ~RollBack(t), ~PassOver(t)
  PROVE  \A u \in Threads \ {t} : job'[u] = job[u]
<1>1. job \in [Threads -> Jobs]
  BY DEF Typed
<1>2. ASSUME NEW s, Stage(t, s) PROVE \A u \in Threads \ {t} : job'[u] = job[u]
  BY <1>1, <1>2 DEF Stage
<1>3. CASE Choose(t)
  BY <1>1, <1>3 DEF Choose
<1>4. CASE Shift(t)
  BY <1>1, <1>4 DEF Shift
<1>5. CASE Finish(t)
  BY <1>1, <1>5 DEF Finish
<1>6. QED
  BY <1>2, <1>3, <1>4, <1>5 DEF Still, GiveUp, ShiftFails, Record, RecordFails

\* Where a thread is after a step that leaves the locks alone.
LEMMA StagesAfter ==
  ASSUME Typed, NEW t \in Threads, Still(t), ~RollBack(t), ~PassOver(t)
  PROVE  \/ job'[t].stage \in {"moved", "leave", "idle"}
         \/ /\ Choose(t) /\ job'[t].stage = "ready"
            /\ job'[t].to.dir = job[t].to.dir /\ ~Occupied(job'[t].to)
<1>0. job \in [Threads -> Jobs] /\ job[t] \in Jobs /\ KnowsPlaces(job[t])
  BY DEF Typed
<1>1. ASSUME Stage(t, "leave") PROVE job'[t].stage = "leave"
  <2>1. job'[t] = [job[t] EXCEPT !.stage = "leave"]
    BY <1>0, <1>1 DEF Stage
  <2>2. QED
    BY <1>0, <2>1 DEF Jobs
<1>2. CASE Choose(t)
  <2>1. PICK i \in 0 .. Cardinality(Files) :
           /\ FirstFree(job[t].to, i)
           /\ job' = [job EXCEPT ![t].to = Variant(@, i), ![t].stage = "ready"]
    BY <1>2 DEF Choose
  <2>2. job[t].to \in Paths
    BY <1>0, <1>2 DEF Choose, KnowsPlaces
  <2>3. Variant(job[t].to, i).dir = job[t].to.dir
    BY <2>2, VariantStays
  <2>4. job'[t].to = Variant(job[t].to, i) /\ job'[t].stage = "ready"
    BY <1>0, <2>1 DEF Jobs
  <2>5. ~Occupied(job'[t].to)
    BY <2>1, <2>4 DEF FirstFree
  <2>6. QED
    BY <1>2, <2>3, <2>4, <2>5
<1>3. CASE Shift(t)
  <2>1. PICK f \in Files : job' = [job EXCEPT ![t].file = f, ![t].stage = "moved"]
    BY <1>3 DEF Shift
  <2>2. job'[t].stage = "moved"
    BY <1>0, <2>1 DEF Jobs
  <2>3. QED
    BY <2>2
<1>4. CASE Finish(t)
  <2>1. job'[t] = NoJob
    BY <1>0, <1>4 DEF Finish
  <2>2. QED
    BY <2>1, NoJobIsTyped
<1>5. QED
  BY <1>1, <1>2, <1>3, <1>4 DEF Still, GiveUp, ShiftFails, Record, RecordFails

\* A chosen name stays under its folder's lock.
LEMMA ClaimedNext ==
  ASSUME LocksOK, Typed, Claimed, [Next]_vars
  PROVE  Claimed'
<1>0. job \in [Threads -> Jobs]
  BY DEF Typed
<1>1. ASSUME NEW t \in Threads, job' = job, Wait(t) PROVE Claimed'
  <2>1. Enter(t) \/ Lock(t)
    BY <1>1 DEF Wait
  <2>2. \A d : (Claims(t, d) => Claims(t, d)') /\ (Holds(t, d) => Holds(t, d)')
    BY <2>1, ClaimsKept DEF Claims
  <2>3. \A u \in Threads \ {t} : \A d :
            (Claims(u, d)' <=> Claims(u, d)) /\ (Holds(u, d)' <=> Holds(u, d))
    BY <2>1, OthersUntouched
  <2>4. QED
    BY <1>1, <2>2, <2>3 DEF Claimed
<1>2. ASSUME NEW t \in Threads, Release(t) PROVE Claimed'
  <2>1. Unlock(t) /\ job' = job /\ job[t].stage \in {"leave", "moved"}
    BY <1>2 DEF Release
  <2>2. \A u \in Threads \ {t} : \A d :
            (Claims(u, d)' <=> Claims(u, d)) /\ (Holds(u, d)' <=> Holds(u, d))
    BY <2>1, OthersUntouched
  <2>3. QED
    BY <2>1, <2>2 DEF Claimed
<1>3. ASSUME NEW t \in Threads, NEW j, Beginning(j), Begin(t, j) PROVE Claimed'
  <2>1. Call(t, Acquires(j)) /\ job' = [job EXCEPT ![t] = j]
    BY <1>3 DEF Begin
  <2>2. \A u \in Threads \ {t} : \A d :
            (Claims(u, d)' <=> Claims(u, d)) /\ (Holds(u, d)' <=> Holds(u, d))
    BY <2>1, OthersUntouched
  <2>3. calls'[t] = Acquires(j)
    BY <2>1 DEF Call, LocksOK
  <2>4. Claims(t, j.to.dir)'
    <3>1. \E i \in DOMAIN calls'[t] : j.to.dir \in {calls'[t][i][1], calls'[t][i][2]}
      BY <1>3, <2>3, BeginCalls
    <3>2. QED
      BY <3>1 DEF Claims, Comes
  <2>5. job'[t] = j /\ j.stage = "wait" /\ \A u \in Threads \ {t} : job'[u] = job[u]
    BY <1>0, <1>3, <2>1 DEF Beginning
  <2>6. QED
    BY <2>2, <2>4, <2>5 DEF Claimed
<1>4. ASSUME UNCHANGED locks
      PROVE  \A u \in Threads : \A d :
                 (Claims(u, d)' <=> Claims(u, d)) /\ (Holds(u, d)' <=> Holds(u, d))
  BY <1>4 DEF locks, Claims, Holds, Wants, Comes
<1>5. ASSUME NEW t \in Threads, Still(t), ~RollBack(t), ~PassOver(t) PROVE Claimed'
  <2>1. \A u \in Threads : \A d :
            (Claims(u, d)' <=> Claims(u, d)) /\ (Holds(u, d)' <=> Holds(u, d))
    BY <1>4, <1>5, StillLocks
  <2>2. \A u \in Threads \ {t} : job'[u] = job[u]
    BY <1>5, OthersAtRest
  <2>3. CASE job'[t].stage \in {"moved", "leave", "idle"}
    BY <2>1, <2>2, <2>3 DEF Claimed
  <2>4. CASE /\ Choose(t) /\ job'[t].stage = "ready"
             /\ job'[t].to.dir = job[t].to.dir
    <3>1. Claims(t, job[t].to.dir) /\ Inside(t)
      BY <2>4 DEF Choose, Claimed
    <3>2. Holds(t, job[t].to.dir)
      BY <3>1, InsideHolds
    <3>3. QED
      BY <2>1, <2>2, <2>4, <3>2 DEF Claimed
  <2>5. QED
    BY <1>5, <2>3, <2>4, StagesAfter
<1>6. ASSUME UNCHANGED locks, job' = job PROVE Claimed'
  BY <1>4, <1>6 DEF Claimed
<1>7. CASE UNCHANGED vars
  BY <1>6, <1>7 DEF vars
<1>8. ASSUME NEW t \in Threads, RollBack(t) \/ PassOver(t) PROVE Claimed'
  BY <1>6, <1>8 DEF RollBack, PassOver
<1>9. ASSUME NEW f \in Files, Vanish(f) PROVE Claimed'
  BY <1>6, <1>9 DEF Vanish
<1>10. CASE Crash
  <2>1. \A t \in Threads : job'[t].stage = "idle"
    BY <1>10, NoJobIsTyped DEF Crash
  <2>2. QED
    BY <2>1 DEF Claimed
<1>11. QED
  <2>1. \A t \in Threads : Wait(t) => job' = job
    BY DEF Wait
  <2>2. QED
    BY <1>1, <1>2, <1>3, <1>5, <1>7, <1>8, <1>9, <1>10, <2>1, Kinds

\* The only step of the program that moves a file.
LEMMA ShiftEffect ==
  ASSUME StoreInv, NEW t \in Threads, Shift(t)
  PROVE  /\ \A f \in Files : loc[f] # Nowhere => loc'[f] # Nowhere
         /\ \A f \in Files : loc'[f] \in {loc[f], job[t].to}
<1>1. PICK f \in Files : Put(f, job[t].to)
  BY DEF Shift
<1>2. ~Occupied(job[t].to) /\ job[t].to # Nowhere
  BY PathsArePlaces DEF Shift, StoreInv, Typed, KnowsPlaces, Chosen
<1>3. \A g \in Files : loc[g] # job[t].to
  BY <1>2 DEF Occupied
<1>4. \A g \in Files : loc'[g] = IF g = f THEN job[t].to ELSE loc[g]
  BY <1>1, <1>3 DEF Put
<1>5. QED
  BY <1>2, <1>4

\* A chosen name stays free: who could take it has not the lock.
LEMMA ChosenNext ==
  ASSUME StoreInv, [Next]_vars
  PROVE  Chosen'
<1>0. /\ Exclusive /\ Typed /\ Claimed /\ Chosen /\ job \in [Threads -> Jobs]
      /\ loc \in [Files -> Places]
  BY DEF StoreInv, IInv, Typed
<1>1. ASSUME loc' = loc, NEW t \in Threads, \A u \in Threads \ {t} : job'[u] = job[u],
             job'[t].stage = "ready" => ~Occupied(job'[t].to)
      PROVE  Chosen'
  BY <1>0, <1>1 DEF Chosen, Occupied
<1>2. ASSUME loc' = loc, job' = job PROVE Chosen'
  BY <1>0, <1>2 DEF Chosen, Occupied
<1>3. CASE UNCHANGED vars
  BY <1>2, <1>3 DEF vars, store
<1>4. ASSUME NEW t \in Threads, NEW j, Beginning(j), Begin(t, j) PROVE Chosen'
  <2>1. loc' = loc /\ job' = [job EXCEPT ![t] = j] /\ j.stage = "wait"
    BY <1>4 DEF Begin, Beginning, store
  <2>2. QED
    BY <1>0, <1>1, <2>1
<1>5. ASSUME NEW t \in Threads, Shift(t) PROVE Chosen'
  <2>1. \A u \in Threads \ {t} : job'[u] = job[u]
    BY <1>0, <1>5 DEF Shift
  <2>2. job'[t].stage # "ready"
    <3>1. PICK f \in Files : job' = [job EXCEPT ![t].file = f, ![t].stage = "moved"]
      BY <1>5 DEF Shift
    <3>2. QED
      BY <1>0, <3>1 DEF Jobs
  <2>3. ASSUME NEW u \in Threads \ {t}, job[u].stage = "ready"
        PROVE  job[u].to # job[t].to
    <3>1. Holds(u, job[u].to.dir) /\ Holds(t, job[t].to.dir)
      BY <1>0, <1>5, <2>3 DEF Claimed, Shift
    <3>2. job[t].to \in Paths
      BY <1>0, <1>5 DEF Shift, Typed, KnowsPlaces
    <3>3. QED
      BY <1>0, <3>1, <3>2, PathsArePlaces DEF Exclusive
  <2>4. \A f \in Files : loc'[f] \in {loc[f], job[t].to}
    BY <1>5, ShiftEffect
  <2>5. QED
    BY <1>0, <2>1, <2>2, <2>3, <2>4 DEF Chosen, Occupied
<1>6. ASSUME NEW t \in Threads, Still(t), ~Shift(t) PROVE Chosen'
  <2>1. loc' = loc
    BY <1>6 DEF Still, RollBack, PassOver, Choose, GiveUp, ShiftFails, Record,
                RecordFails, Finish, store
  <2>2. CASE RollBack(t) \/ PassOver(t)
    BY <1>2, <2>1, <2>2 DEF RollBack, PassOver
  <2>3. CASE ~RollBack(t) /\ ~PassOver(t)
    <3>1. \A u \in Threads \ {t} : job'[u] = job[u]
      BY <1>0, <1>6, <2>3, OthersAtRest
    <3>2. job'[t].stage = "ready" => ~Occupied(job'[t].to)
      BY <1>0, <1>6, <2>3, StagesAfter
    <3>3. QED
      BY <1>1, <2>1, <3>1, <3>2
  <2>4. QED
    BY <2>2, <2>3
<1>7. ASSUME NEW t \in Threads, Wait(t) \/ Release(t) PROVE Chosen'
  BY <1>2, <1>7 DEF Wait, Release, store
<1>8. ASSUME NEW f \in Files, Vanish(f) PROVE Chosen'
  <2>1. job' = job /\ loc' = [loc EXCEPT ![f] = Nowhere]
    BY <1>8 DEF Vanish
  <2>2. \A t \in Threads : job[t].stage = "ready" => job[t].to # Nowhere
    BY <1>0, PathsArePlaces DEF Typed, KnowsPlaces
  <2>3. QED
    BY <1>0, <2>1, <2>2 DEF Chosen, Occupied
<1>9. CASE Crash
  <2>1. \A t \in Threads : job'[t].stage = "idle"
    BY <1>9, NoJobIsTyped DEF Crash
  <2>2. QED
    BY <2>1 DEF Chosen
<1>10. QED
  BY <1>0, <1>3, <1>4, <1>5, <1>6, <1>7, <1>8, <1>9, Kinds

-----------------------------------------------------------------------------
\* The invariant of the files holds at first.
LEMMA StoreInitially == Init => StoreInv
<1> SUFFICES ASSUME Init PROVE StoreInv
  OBVIOUS
<1>1. IInv /\ Typed
  BY Initially, TypedInit DEF Init
<1>2. \A t \in Threads : job[t].stage = "idle"
  BY NoJobIsTyped DEF Init
<1>3. QED
  BY <1>1, <1>2 DEF StoreInv, Claimed, Chosen

\* And it is inductive.
LEMMA StoreInvNext == StoreInv /\ [Next]_vars => StoreInv'
<1> SUFFICES ASSUME StoreInv, [Next]_vars PROVE StoreInv'
  OBVIOUS
<1>1. IInv /\ LocksOK /\ Typed /\ Claimed
  BY DEF StoreInv, IInv
<1>2. IInv'
  BY <1>1, LocksStep, IInvNext, NoCleaning
<1>3. QED
  BY <1>1, <1>2, TypedNext, ClaimedNext, ChosenNext DEF StoreInv

\* Every operation on files uses the locks the way PathLocks says.
THEOREM LocksKept == Spec => LocksSpec
<1>1. Init => LocksInit
  BY DEF Init
<1>2. QED
  BY <1>1, TypedInit, TypedNext, LocksStep, PTL DEF Spec, LocksSpec

\* So the operations are never stuck, however many there are.
THEOREM NeverStuck == Spec => []NobodyStuck
<1>1. LocksSpec => []NobodyStuck
  BY NoDeadlock, NoCleaning
<1>2. QED
  BY <1>1, LocksKept, PTL

\* And no file is lost to another that takes its place.
THEOREM NoLoss == Spec => NothingOverwritten
<1>1. StoreInv /\ [Next]_vars
        => [\A f \in Files : loc[f] # Nowhere /\ loc'[f] = Nowhere => Vanish(f)]_vars
  <2> SUFFICES ASSUME StoreInv, Next, NEW f \in Files, loc[f] # Nowhere,
                      loc'[f] = Nowhere
               PROVE  Vanish(f)
    OBVIOUS
  <2>0. Typed
    BY DEF StoreInv
  <2>1. loc' # loc
    OBVIOUS
  <2>2. ~\E t \in Threads : Shift(t)
    BY ShiftEffect
  <2>3. \A t \in Threads : Still(t) => Shift(t)
    BY <2>1 DEF Still, RollBack, PassOver, Choose, GiveUp, ShiftFails, Record,
                RecordFails, Finish, store
  <2>4. \A t \in Threads : ~Wait(t) /\ ~Release(t) /\ \A j : ~Begin(t, j)
    BY <2>1 DEF Wait, Release, Begin, store
  <2>5. ~Crash
    BY <2>1 DEF Crash, store
  <2>6. PICK g \in Files : Vanish(g)
    BY <2>0, <2>2, <2>3, <2>4, <2>5, Kinds
  <2>7. g = f
    BY <2>0, <2>6 DEF Vanish, Typed
  <2>8. QED
    BY <2>6, <2>7
<1>2. QED
  BY <1>1, StoreInitially, StoreInvNext, PTL DEF Spec, NothingOverwritten

-----------------------------------------------------------------------------
(* The roll-back of a conversation. *)

\* How an entry of the log has changed the places of the files,
Leads(P, e, Q) ==
    /\ P[e.file] = e.from /\ Q = [P EXCEPT ![e.file] = e.to]
    /\ \A g \in Files : P[g] # e.to

Distinct(P) == \A f, g \in Files : P[f] = P[g] /\ P[f] # Nowhere => f = g

\* and how they were after each of them, from the first to the last.
Past(H) ==
    /\ H \in [0 .. Len(log) -> [Files -> Places]] /\ H[0] = start
    /\ \A i \in 0 .. Len(log) : Distinct(H[i])
    /\ \A i \in 1 .. Len(log) : log[i].mine /\ Leads(H[i - 1], log[i], H[i])

\* The conversation has one operation under way, which is not yet in the log.
Before(H) ==
    /\ phase = "before" /\ todo = [t \in Threads |-> {}]
    /\ \A t \in Threads : ~Free(t) =>
          /\ job[t].mine /\ job[t].kind \in {"move", "delete"}
          /\ ~job[t].wrapped /\ ~job[t].strict
          /\ \A u \in Threads \ {t} : Free(u)
    /\ \A t \in Threads :
          job[t].stage = "moved" => Leads(H[Len(log)], Recorded(job[t]), loc)
    /\ (\A t \in Threads : job[t].stage # "moved") => loc = H[Len(log)]

\* The thread r has k entries still to undo, and undoes the one after them.
Undoes(H, r, k) ==
    /\ k < Len(log) /\ job[r].kind = "restore" /\ ~job[r].wrapped /\ ~job[r].strict
    /\ job[r].stage \in {"wait", "ready"} =>
          /\ loc = H[k + 1]
          /\ job[r].from = log[k + 1].to /\ job[r].to = log[k + 1].from
    /\ job[r].stage \in {"moved", "leave"} => loc = H[k]

During(H, r, k) ==
    /\ phase = "during" /\ r \in Threads /\ k \in 0 .. Len(log)
    /\ todo = [t \in Threads |-> IF t = r THEN 1 .. k ELSE {}]
    /\ \A t \in Threads \ {r} : Free(t)
    /\ (Free(r) /\ k # 0 /\ loc = H[k]) \/ Undoes(H, r, k)

After ==
    /\ phase = "after" /\ loc = start
    /\ \A t \in Threads : Free(t) /\ todo[t] = {}

\* If nothing else happens, the files are where the log says they went.
Retraced ==
    alone => \/ After
             \/ \E H : Past(H) /\ (Before(H) \/ \E r, k : During(H, r, k))

\* What an entry has done can be undone, in one way.
LEMMA Back ==
  ASSUME NEW P \in [Files -> Places], NEW Q, NEW e \in Entries, Distinct(P), Leads(P, e, Q)
  PROVE  /\ Q \in [Files -> Places] /\ Distinct(Q)
         /\ Q[e.file] = e.to /\ \A f \in Files : Q[f] = e.to => f = e.file
         /\ \A f \in Files : Q[f] # e.from
         /\ P = [Q EXCEPT ![e.file] = e.from]
<1>1. e.file \in Files /\ e.to \in Places /\ e.from # Nowhere
  BY PathsArePlaces DEF Entries
<1>2. Q = [P EXCEPT ![e.file] = e.to] /\ P[e.file] = e.from /\ \A g \in Files : P[g] # e.to
  BY DEF Leads
<1>3. Q \in [Files -> Places] /\ Q[e.file] = e.to /\ \A f \in Files \ {e.file} : Q[f] = P[f]
  BY <1>1, <1>2
<1>4. \A f \in Files : Q[f] # e.from
  BY <1>1, <1>2, <1>3 DEF Distinct
<1>5. P = [Q EXCEPT ![e.file] = e.from]
  BY <1>1, <1>2, <1>3
<1>6. Distinct(Q)
  BY <1>1, <1>2, <1>3 DEF Distinct
<1>7. QED
  BY <1>2, <1>3, <1>4, <1>5, <1>6

\* Where nothing is in the way, a file is put without replacing another.
LEMMA PutFree ==
  ASSUME loc \in [Files -> Places], NEW f \in Files, NEW q, Put(f, q), ~Occupied(q)
  PROVE  loc' = [loc EXCEPT ![f] = q] /\ \A g \in Files : loc[g] # q
<1>1. \A g \in Files : loc[g] # q
  BY DEF Occupied
<1>2. loc' = [g \in Files |-> IF g = f THEN q ELSE loc[g]]
  BY <1>1 DEF Put
<1>3. QED
  BY <1>1, <1>2

\* At first nothing has happened.
LEMMA RetracedInit == Init => Retraced
<1> SUFFICES ASSUME Init PROVE Retraced
  OBVIOUS
<1> DEFINE H == [i \in 0 .. 0 |-> start]
<1>1. /\ log = <<>> /\ Len(log) = 0 /\ start \in [Files -> Places] /\ Distinct(start)
      /\ loc = start /\ phase = "before" /\ todo = [t \in Threads |-> {}]
      /\ \A t \in Threads : Free(t)
  BY PlacementsAssumption DEF Init, Distinct, Free
<1>2. Past(H)
  BY <1>1 DEF Past
<1>3. Before(H)
  BY <1>1, NoJobIsTyped DEF Before, Free
<1>4. QED
  BY <1>2, <1>3 DEF Retraced

\* While the conversation goes on, its operations are logged one after the other.
LEMMA BeforeNext ==
  ASSUME StoreInv, Next, alone', NEW H, Past(H), Before(H)
  PROVE  Retraced'
<1>0. /\ Typed /\ job \in [Threads -> Jobs] /\ loc \in [Files -> Places] /\ log \in Seq(Entries)
      /\ Len(log) \in Nat
  BY LenProperties DEF StoreInv, Typed
<1>1. /\ H \in [0 .. Len(log) -> [Files -> Places]]
      /\ phase = "before" /\ todo = [t \in Threads |-> {}]
      /\ \A t \in Threads : job[t] \in Jobs /\ KnowsPlaces(job[t])
  BY <1>0 DEF Past, Before, Typed
<1>2. ASSUME UNCHANGED <<log, start>> PROVE Past(H)'
  BY <1>2 DEF Past, Leads
<1>3. ASSUME Past(H)', Before(H)' PROVE Retraced'
  BY <1>3 DEF Retraced
<1>4. ASSUME UNCHANGED <<store, job, todo, start, phase>> PROVE Retraced'
  <2>1. Before(H)'
    BY <1>4 DEF Before, Free, store, Leads, Recorded
  <2>2. QED
    BY <1>2, <1>3, <1>4, <2>1 DEF store
<1>5. ASSUME NEW t \in Threads, NEW j \in Jobs, Free(t), ~MineRunning,
             j.mine, j.kind \in {"move", "delete"}, ~j.wrapped, ~j.strict, j.stage = "wait",
             job' = [job EXCEPT ![t] = j], UNCHANGED <<store, start, todo, phase>>
      PROVE  Retraced'
  <2>1. \A u \in Threads : Free(u)
    BY <1>5 DEF Before, MineRunning
  <2>2. job'[t] = j /\ \A u \in Threads \ {t} : job'[u] = job[u]
    BY <1>0, <1>5
  <2>3. \A u \in Threads \ {t} : Free(u)'
    BY <2>1, <2>2 DEF Free
  <2>4. \A u \in Threads : job[u].stage = "idle"
    BY <2>1, NoJobIsTyped DEF Free
  <2>5. loc = H[Len(log)] /\ \A u \in Threads : job'[u].stage # "moved"
    BY <1>5, <2>2, <2>4 DEF Before
  <2>6. Before(H)'
    BY <1>1, <1>5, <2>2, <2>3, <2>5 DEF Before, store
  <2>7. QED
    BY <1>2, <1>3, <1>5, <2>6 DEF store
\* A step of the one operation under way that moves nothing.
<1>6. ASSUME NEW t \in Threads, NEW j \in Jobs, ~Free(t), job[t].stage # "moved",
             j.mine, j.kind = job[t].kind, ~j.wrapped, ~j.strict,
             j.stage # "moved", job' = [job EXCEPT ![t] = j],
             UNCHANGED <<store, start, todo, phase>>
      PROVE  Retraced'
  <2>1. job'[t] = j /\ \A u \in Threads \ {t} : job'[u] = job[u] /\ Free(u) /\ Free(u)'
    BY <1>0, <1>6 DEF Before, Free
  <2>2. \A u \in Threads \ {t} : job[u].stage = "idle"
    BY <2>1, NoJobIsTyped DEF Free
  <2>3. loc = H[Len(log)] /\ \A u \in Threads : job'[u].stage # "moved"
    BY <1>6, <2>1, <2>2 DEF Before
  <2>4. j.kind \in {"move", "delete"}
    BY <1>6 DEF Before
  <2>5. Before(H)'
    BY <1>1, <1>6, <2>1, <2>3, <2>4 DEF Before, store
  <2>6. QED
    BY <1>2, <1>3, <1>6, <2>5 DEF store
<1>7. ASSUME NEW t \in Threads, Choose(t) PROVE Retraced'
  <2>1. PICK i \in 0 .. Cardinality(Files) :
           job' = [job EXCEPT ![t].to = Variant(@, i), ![t].stage = "ready"]
    BY <1>7 DEF Choose
  <2>2. job[t].stage = "wait" /\ ~Free(t) /\ UNCHANGED <<store, undoing>>
    BY <1>7, NoJobIsTyped DEF Choose, Free
  <2>3. job[t].to \in Paths
    BY <1>1, <2>2 DEF KnowsPlaces, Free
  <2> DEFINE j == [job[t] EXCEPT !.to = Variant(job[t].to, i), !.stage = "ready"]
  <2>4. Variant(job[t].to, i) \in Places
    BY <2>3, VariantStays, PathsArePlaces
  <2>5. /\ j \in Jobs /\ j.kind = job[t].kind /\ j.mine = job[t].mine /\ j.stage = "ready"
        /\ j.wrapped = job[t].wrapped /\ j.strict = job[t].strict
    BY <1>1, <2>4 DEF Jobs
  <2>6. job' = [job EXCEPT ![t] = j]
    BY <2>1
  <2>7. job[t].mine /\ ~job[t].wrapped /\ ~job[t].strict
    BY <2>2 DEF Before
  <2> HIDE DEF j
  <2>8. QED
    BY <1>6, <2>2, <2>5, <2>6, <2>7 DEF undoing
<1>8. ASSUME NEW t \in Threads, Shift(t) PROVE Retraced'
  <2>1. PICK f \in Files :
           /\ IF job[t].kind = "write" THEN f = job[t].file ELSE loc[f] = job[t].from
           /\ Put(f, job[t].to)
           /\ job' = [job EXCEPT ![t].file = f, ![t].stage = "moved"]
    BY <1>8 DEF Shift
  <2>2. job[t].stage = "ready" /\ ~Free(t) /\ UNCHANGED <<log, undoing>>
    BY <1>8, NoJobIsTyped DEF Shift, Free
  <2>3. ~Occupied(job[t].to) /\ loc[f] = job[t].from
    BY <2>1, <2>2 DEF StoreInv, Chosen, Before
  <2>4. loc' = [loc EXCEPT ![f] = job[t].to] /\ \A g \in Files : loc[g] # job[t].to
    BY <1>0, <2>1, <2>3, PutFree
  <2> DEFINE j == [job[t] EXCEPT !.file = f, !.stage = "moved"]
  <2>5. /\ j.kind = job[t].kind /\ j.mine = job[t].mine /\ j.stage = "moved" /\ j.file = f
        /\ j.wrapped = job[t].wrapped /\ j.strict = job[t].strict
        /\ j.from = job[t].from /\ j.to = job[t].to
    BY <1>1 DEF Jobs
  <2>6. job' = [job EXCEPT ![t] = j]
    BY <2>1
  <2> HIDE DEF j
  <2>7. job'[t] = j /\ \A u \in Threads \ {t} : job'[u] = job[u] /\ Free(u) /\ Free(u)'
    BY <1>0, <2>2, <2>6 DEF Before, Free
  <2>8. \A u \in Threads \ {t} : job[u].stage = "idle"
    BY <2>7, NoJobIsTyped DEF Free
  <2>9. loc = H[Len(log)]
    BY <2>2, <2>8 DEF Before
  <2>10. Leads(H[Len(log)], Recorded(j), loc')
    BY <2>3, <2>4, <2>5, <2>9 DEF Leads, Recorded
  <2>11. job[t].mine /\ job[t].kind \in {"move", "delete"} /\ ~job[t].wrapped /\ ~job[t].strict
    BY <2>2 DEF Before
  <2>12. Before(H)'
    <3>1. \A u \in Threads : job'[u].stage = "moved" => u = t
      BY <2>7, <2>8
    <3>2. Recorded(job[t])' = Recorded(j)
      BY <2>7 DEF Recorded
    <3>3. Leads(H[Len(log)], Recorded(job[t]), loc)'
      BY <2>2, <2>10, <3>2 DEF Leads
    <3>4. \A u \in Threads :
             (job[u].stage = "moved")' => Leads(H[Len(log)], Recorded(job[u]), loc)'
      BY <3>1, <3>3
    <3>5. todo' = [u \in Threads |-> {}]
      BY <1>1, <2>2 DEF undoing
    <3>6. \A u \in Threads : Free(u)' \/
             /\ job'[u].mine /\ job'[u].kind \in {"move", "delete"}
             /\ ~job'[u].wrapped /\ ~job'[u].strict
             /\ \A v \in Threads \ {u} : Free(v)'
      BY <2>5, <2>7, <2>11
    <3>7. job'[t].stage = "moved"
      BY <2>5, <2>7
    <3>8. QED
      BY <1>1, <2>2, <3>4, <3>5, <3>6, <3>7 DEF Before, undoing
  <2>13. QED
    BY <1>2, <1>3, <2>2, <2>12 DEF undoing
<1>9. ASSUME NEW t \in Threads, Record(t) PROVE Retraced'
  <2>1. job[t].stage = "moved" /\ ~Free(t) /\ UNCHANGED <<loc, undoing>>
    BY <1>9, NoJobIsTyped DEF Record, Free
  <2>0. PICK e, n, G : /\ e = Recorded(job[t]) /\ n = Len(log)
                       /\ G = [i \in 0 .. n + 1 |-> IF i = n + 1 THEN loc ELSE H[i]]
    OBVIOUS
  <2>2. /\ job[t].mine /\ job[t].kind \in {"move", "delete"}
        /\ ~job[t].wrapped /\ ~job[t].strict
    BY <2>1 DEF Before
  <2>3. e \in Entries /\ e.mine
    BY <1>1, <2>0, <2>1, <2>2 DEF Recorded, Entries, KnowsPlaces, Jobs
  <2>4. Leads(H[n], e, loc)
    BY <2>0, <2>1 DEF Before
  <2>5. log' = Append(log, e) /\ Stage(t, "leave")
    BY <1>9, <2>0, <2>2 DEF Record
  <2>6. /\ Len(log') = n + 1 /\ log'[n + 1] = e /\ n \in Nat
        /\ \A i \in 1 .. n : log'[i] = log[i]
    BY <1>0, <2>0, <2>3, <2>5, AppendProperties
  <2>7. H[n] \in [Files -> Places] /\ Distinct(H[n])
    BY <1>1, <2>0, <2>6 DEF Past
  <2>8. Distinct(loc)
    BY <2>3, <2>4, <2>7, Back
  <2>9. Past(G)'
    <3>1. G \in [0 .. n + 1 -> [Files -> Places]] /\ G[n + 1] = loc
          /\ \A i \in 0 .. n : G[i] = H[i]
      BY <1>0, <1>1, <2>0, <2>6
    <3>2. G[0] = start'
      BY <2>1, <2>6, <3>1 DEF Past, undoing
    <3>3. \A i \in 0 .. n + 1 : Distinct(G[i])
      BY <2>0, <2>6, <2>8, <3>1 DEF Past
    <3>4. ASSUME NEW i \in 1 .. n + 1 PROVE log'[i].mine /\ Leads(G[i - 1], log'[i], G[i])
      <4>1. CASE i = n + 1
        BY <2>3, <2>4, <2>6, <3>1, <4>1
      <4>2. CASE i \in 1 .. n
        <5>1. i - 1 \in 0 .. n /\ i \in 0 .. n
          BY <2>6, <4>2
        <5>2. log[i].mine /\ Leads(H[i - 1], log[i], H[i])
          BY <2>0, <4>2 DEF Past
        <5>3. QED
          BY <2>6, <3>1, <4>2, <5>1, <5>2
      <4>3. QED
        BY <2>6, <4>1, <4>2
    <3>5. QED
      BY <2>6, <3>1, <3>2, <3>3, <3>4 DEF Past, Distinct, Leads
  <2>10. job'[t].stage = "leave" /\ job'[t].mine = job[t].mine /\ job'[t].kind = job[t].kind
         /\ job'[t].wrapped = job[t].wrapped /\ job'[t].strict = job[t].strict
         /\ \A u \in Threads \ {t} : job'[u] = job[u] /\ Free(u) /\ Free(u)'
    <3>1. job'[t] = [job[t] EXCEPT !.stage = "leave"]
          /\ \A u \in Threads \ {t} : job'[u] = job[u]
      BY <1>0, <2>5, StageEffect
    <3>2. QED
      BY <1>1, <2>1, <3>1 DEF Before, Free, Jobs
  <2>11. \A u \in Threads : job'[u].stage # "moved"
    BY <2>10, NoJobIsTyped DEF Free
  <2>12. loc' = G[Len(log')]
    BY <2>0, <2>1, <2>6
  <2>13. Before(G)'
    BY <1>1, <2>1, <2>2, <2>10, <2>11, <2>12 DEF Before, undoing
  <2>14. QED
    BY <2>9, <2>13 DEF Retraced
<1>10. ASSUME NEW t \in Threads, Finish(t) PROVE Retraced'
  <2>1. job[t].stage = "leave" /\ ~Free(t) /\ UNCHANGED <<store, todo, start>>
        /\ job' = [job EXCEPT ![t] = NoJob]
    BY <1>10, NoJobIsTyped DEF Finish, Free
  <2>2. job[t].kind # "restore" /\ phase' = phase
    BY <1>10, <2>1 DEF Before, Finish
  <2>3. \A u \in Threads \ {t} : Free(u)
    BY <2>1 DEF Before
  <2>4. \A u \in Threads : Free(u)'
    BY <1>0, <2>1, <2>3 DEF Free
  <2>5. \A u \in Threads : job[u].stage # "moved" /\ job'[u].stage # "moved"
    BY <2>1, <2>3, <2>4, NoJobIsTyped DEF Free
  <2>6. Before(H)'
    BY <1>1, <2>1, <2>2, <2>4, <2>5 DEF Before, store
  <2>7. QED
    BY <1>2, <1>3, <2>1, <2>6 DEF store
<1>11. ASSUME NEW t \in Threads, RollBack(t) PROVE Retraced'
  <2>1. /\ todo' = [todo EXCEPT ![t] = Undoable] /\ Undoable # {} /\ phase' = "during"
        /\ ~MineRunning /\ UNCHANGED <<store, job, start>>
    BY <1>11 DEF RollBack
  <2>2. \A u \in Threads : Free(u) /\ Free(u)'
    BY <2>1 DEF Before, MineRunning, Free
  <2>3. loc = H[Len(log)]
    BY <2>2, NoJobIsTyped DEF Before, Free
  <2>4. Undoable = 1 .. Len(log)
    BY <1>0, LenProperties DEF Undoable, Past
  <2>5. todo' = [u \in Threads |-> IF u = t THEN 1 .. Len(log) ELSE {}]
    BY <1>1, <2>1, <2>4
  <2>6. Len(log) \in 0 .. Len(log) /\ Len(log) # 0
    BY <1>0, <2>1, <2>4
  <2>7. During(H, t, Len(log))'
    BY <2>1, <2>2, <2>3, <2>5, <2>6 DEF During, store
  <2>8. QED
    BY <1>2, <2>1, <2>7 DEF Retraced, store
<1>12. ASSUME NEW t \in Threads, NEW p \in Places, NEW q \in Paths, Move(t, p, q)
       PROVE  Retraced'
  <2>1. PICK mine \in BOOLEAN, wrapped \in BOOLEAN, strict \in BOOLEAN :
           /\ mine => ~wrapped /\ ~MineRunning
           /\ strict => wrapped
           /\ Begin(t, [NoJob EXCEPT !.kind = "move", !.stage = "wait", !.from = p,
                          !.to = q, !.mine = mine, !.wrapped = wrapped,
                          !.strict = strict])
           /\ alone' = (alone /\ mine /\ phase = "before")
    BY <1>12, Zenon DEF Move
  <2>2. mine = TRUE /\ wrapped = FALSE /\ strict = FALSE /\ ~MineRunning
    BY <2>1, Zenon
  <2> DEFINE j == [NoJob EXCEPT !.kind = "move", !.stage = "wait", !.from = p,
                          !.to = q, !.mine = TRUE, !.wrapped = FALSE, !.strict = FALSE]
  <2>3. Begin(t, j)
    BY <2>1, <2>2
  <2>4. /\ j \in Jobs /\ j.kind = "move" /\ j.stage = "wait" /\ j.mine = TRUE
        /\ j.wrapped = FALSE /\ j.strict = FALSE
    BY PathsArePlaces DEF Jobs, NoJob
  <2>5. UNCHANGED <<todo, phase>>
    BY <1>12 DEF Move
  <2> HIDE DEF j
  <2>6. Free(t) /\ job' = [job EXCEPT ![t] = j] /\ UNCHANGED <<store, start>>
    BY <2>3 DEF Begin
  <2>7. QED
    BY <1>5, <2>2, <2>4, <2>5, <2>6
<1>13. ASSUME NEW t \in Threads, NEW f \in Files, Delete(t, loc[f]) PROVE Retraced'
  <2>1. PICK mine \in BOOLEAN :
           /\ mine => ~MineRunning
           /\ Begin(t, [NoJob EXCEPT !.kind = "delete", !.stage = "wait", !.from = loc[f],
                          !.to = At(Trash, loc[f].name), !.mine = mine])
           /\ alone' = (alone /\ mine /\ phase = "before")
    BY <1>13, Zenon DEF Delete
  <2>2. mine = TRUE /\ ~MineRunning
    BY <2>1, Zenon
  <2> DEFINE j == [NoJob EXCEPT !.kind = "delete", !.stage = "wait", !.from = loc[f],
                          !.to = At(Trash, loc[f].name), !.mine = TRUE]
  <2>3. Begin(t, j)
    BY <2>1, <2>2
  <2>4. loc[f] \in Paths /\ At(Trash, loc[f].name) \in Paths
    BY <1>0, <1>13, PathsArePlaces, FolderIsDir, DirsAssumption
    DEF Delete, Nowhere, Folders, Dirs
  <2>5. /\ j \in Jobs /\ j.kind = "delete" /\ j.stage = "wait" /\ j.mine = TRUE
        /\ j.wrapped = FALSE /\ j.strict = FALSE
    BY <2>4, PathsArePlaces DEF Jobs, NoJob
  <2>6. UNCHANGED <<todo, phase>>
    BY <1>13 DEF Delete
  <2> HIDE DEF j
  <2>7. Free(t) /\ job' = [job EXCEPT ![t] = j] /\ UNCHANGED <<store, start>>
    BY <2>3 DEF Begin
  <2>8. QED
    BY <1>5, <2>2, <2>5, <2>6, <2>7
<1>14. ASSUME NEW t \in Threads, Asked(t) PROVE Retraced'
  <2>1. ASSUME NEW f \in Files, NEW d \in Folders, Move(t, loc[f], At(d, loc[f].name))
        PROVE  Retraced'
    <3>1. loc[f] \in Paths
      BY <1>0, <2>1, PathsArePlaces DEF Move
    <3>2. At(d, loc[f].name) \in Paths
      BY <3>1, PathsArePlaces, FolderIsDir
    <3>3. QED
      BY <1>0, <1>12, <2>1, <3>2
  <2>2. ASSUME NEW f \in Files, NEW b \in Bases, Move(t, loc[f], At(loc[f].dir, <<b>>))
        PROVE  Retraced'
    <3>1. loc[f] \in Paths /\ <<b>> \in Seq(Nat)
      BY <1>0, <2>2, FilesAssumption, PathsArePlaces DEF Move
    <3>2. At(loc[f].dir, <<b>>) \in Paths
      BY <3>1, PathsArePlaces
    <3>3. QED
      BY <1>0, <1>12, <2>2, <3>2
  <2>3. \A f, q : ~Write(t, f, q)
    BY DEF Write
  <2>4. \A i : ~Restore(t, i)
    BY DEF Restore
  <2>5. QED
    BY <1>11, <1>13, <1>14, <2>1, <2>2, <2>3, <2>4 DEF Asked
<1>15. ASSUME NEW t \in Threads, Work(t) PROVE Retraced'
  <2>1. ~UndoNext(t) /\ ~PassOver(t)
    BY <1>1 DEF UndoNext, PassOver
  <2>2. CASE Wait(t) \/ Release(t)
    BY <1>4, <2>2 DEF Wait, Release, undoing
  <2>3. ~GiveUp(t)
    BY NoJobIsTyped DEF GiveUp, Before, Free
  <2>4. ~ShiftFails(t) /\ ~RecordFails(t)
    BY DEF ShiftFails, RecordFails
  <2>5. QED
    BY <1>7, <1>8, <1>9, <1>10, <1>15, <2>1, <2>2, <2>3, <2>4 DEF Work
<1>16. QED
  BY <1>14, <1>15 DEF Next, Vanish, Crash

\* The roll-back goes the same way back, entry by entry.
LEMMA DuringNext ==
  ASSUME StoreInv, Next, alone', NEW H, NEW r, NEW k, Past(H), During(H, r, k)
  PROVE  Retraced'
<1>0. /\ Typed /\ job \in [Threads -> Jobs] /\ loc \in [Files -> Places] /\ log \in Seq(Entries)
      /\ Len(log) \in Nat
  BY LenProperties DEF StoreInv, Typed
<1>1. /\ H \in [0 .. Len(log) -> [Files -> Places]] /\ H[0] = start
      /\ phase = "during" /\ r \in Threads /\ k \in 0 .. Len(log)
      /\ todo = [t \in Threads |-> IF t = r THEN 1 .. k ELSE {}]
      /\ \A t \in Threads \ {r} : Free(t)
      /\ job[r] \in Jobs
  BY <1>0 DEF Past, During
<1>2. ASSUME UNCHANGED <<log, start>>, NEW i, During(H, r, i)' PROVE Retraced'
  <2>1. Past(H)'
    BY <1>2 DEF Past, Leads
  <2>2. QED
    BY <1>2, <2>1 DEF Retraced
<1>3. ASSUME UNCHANGED <<store, job, todo, start, phase>> PROVE Retraced'
  <2>1. During(H, r, k)'
    BY <1>3 DEF During, Undoes, Free, store
  <2>2. QED
    BY <1>2, <1>3, <2>1 DEF store
\* Where the file of an entry was, and is.
<1>4. ASSUME NEW i \in 1 .. Len(log)
      PROVE  /\ log[i] \in Entries /\ log[i].file \in Files
             /\ H[i][log[i].file] = log[i].to
             /\ \A f \in Files : H[i][f] = log[i].to => f = log[i].file
             /\ \A f \in Files : H[i][f] # log[i].from
             /\ H[i - 1] = [H[i] EXCEPT ![log[i].file] = log[i].from]
  <2>1. log[i] \in Entries
    BY <1>0, ElementOfSeq
  <2>2. i - 1 \in 0 .. Len(log)
    BY <1>0
  <2>3. H[i - 1] \in [Files -> Places] /\ Distinct(H[i - 1]) /\ Leads(H[i - 1], log[i], H[i])
    BY <1>1, <2>2 DEF Past
  <2>4. log[i].file \in Files
    BY <2>1 DEF Entries
  <2> HIDE DEF Entries
  <2>5. QED
    BY <2>1, <2>3, <2>4, Back
<1>5. Free(r) => k \in 1 .. Len(log) /\ loc = H[k]
  BY <1>0, <1>1, NoJobIsTyped DEF During, Undoes, Free, NoJob
<1>6. ~Free(r) => Undoes(H, r, k)
  BY DEF During
\* A step of the operation under way that ends no entry.
<1>7. ASSUME NEW j \in Jobs, ~Free(r), job' = [job EXCEPT ![r] = j],
             UNCHANGED <<log, todo, start, phase>>,
             j.kind = "restore", ~j.wrapped, ~j.strict,
             j.stage \in {"wait", "ready"} =>
                loc' = H[k + 1] /\ j.from = log[k + 1].to /\ j.to = log[k + 1].from,
             j.stage \in {"moved", "leave"} => loc' = H[k]
      PROVE  Retraced'
  <2>1. job'[r] = j /\ \A u \in Threads \ {r} : job'[u] = job[u]
    BY <1>0, <1>1, <1>7
  <2>2. \A u \in Threads \ {r} : Free(u)'
    BY <1>1, <2>1 DEF Free
  <2>3. Undoes(H, r, k)'
    BY <1>6, <1>7, <2>1 DEF Undoes
  <2>4. During(H, r, k)'
    BY <1>1, <1>7, <2>2, <2>3 DEF During
  <2>5. QED
    BY <1>2, <1>7, <2>4
<1>8. \A t \in Threads : job[t].stage # "idle" => t = r /\ ~Free(r) /\ Undoes(H, r, k)
  BY <1>1, <1>6, NoJobIsTyped DEF Free
<1>9. ASSUME NEW t \in Threads, NEW i \in todo[t], Newest(i, todo[t]), Free(t)
      PROVE  t = r /\ i = k /\ k \in 1 .. Len(log) /\ loc = H[k]
  <2>1. t = r /\ todo[t] = 1 .. k /\ i \in 1 .. k
    BY <1>1, <1>9
  <2>2. k \in 1 .. k
    BY <1>0, <1>1, <2>1
  <2>3. k <= i
    BY <1>9, <2>1, <2>2 DEF Newest
  <2>4. i = k
    BY <1>0, <1>1, <2>1, <2>3
  <2>5. QED
    BY <1>5, <1>9, <2>1, <2>4
<1>10. ASSUME NEW t \in Threads, UndoNext(t) PROVE Retraced'
  <2>1. PICK i \in todo[t] :
           Newest(i, todo[t]) /\ Undo(t, i) /\ todo' = [todo EXCEPT ![t] = @ \ {i}]
    BY <1>10 DEF UndoNext
  <2>2. t = r /\ i = k /\ k \in 1 .. Len(log) /\ loc = H[k]
    BY <1>9, <2>1 DEF Undo, Begin
  <2>0. PICK j : j = [NoJob EXCEPT !.kind = "restore", !.stage = "wait",
                         !.from = log[k].to, !.to = log[k].from]
    OBVIOUS
  <2>3. /\ j.kind = "restore" /\ j.stage = "wait" /\ ~j.wrapped /\ ~j.strict
        /\ j.from = log[k].to /\ j.to = log[k].from
    BY <2>0 DEF NoJob
  <2>4. job' = [job EXCEPT ![r] = j] /\ UNCHANGED <<store, start, phase>>
    BY <1>10, <2>0, <2>1, <2>2 DEF UndoNext, Undo, Begin
  <2>5. job'[r] = j /\ \A u \in Threads \ {r} : Free(u)'
    BY <1>0, <1>1, <2>4 DEF Free
  <2>6. todo' = [u \in Threads |-> IF u = r THEN 1 .. (k - 1) ELSE {}]
    <3>1. (1 .. k) \ {k} = 1 .. (k - 1)
      BY <1>0, <2>2
    <3>2. QED
      BY <1>1, <2>1, <2>2, <3>1
  <2>7. k - 1 \in 0 .. Len(log) /\ k - 1 < Len(log) /\ (k - 1) + 1 = k
    BY <1>0, <2>2
  <2>8. Undoes(H, r, k - 1)'
    BY <2>2, <2>3, <2>4, <2>5, <2>7 DEF Undoes, store
  <2>9. During(H, r, k - 1)'
    BY <1>1, <2>4, <2>5, <2>6, <2>7, <2>8 DEF During, store
  <2>10. QED
    BY <1>2, <2>4, <2>9 DEF store
<1>11. ASSUME NEW t \in Threads PROVE ~PassOver(t)
  <2> SUFFICES ASSUME PassOver(t) PROVE FALSE
    OBVIOUS
  <2>1. PICK i \in todo[t] : Newest(i, todo[t]) /\ ~Occupied(log[i].to)
    BY DEF PassOver
  <2>2. i = k /\ k \in 1 .. Len(log) /\ loc = H[k]
    BY <1>9, <2>1 DEF PassOver
  <2>3. QED
    BY <1>4, <2>1, <2>2 DEF Occupied
<1>12. ASSUME NEW t \in Threads, Choose(t) PROVE Retraced'
  <2>1. PICK i \in 0 .. Cardinality(Files) :
           FirstFree(job[t].to, i) /\ job' = [job EXCEPT ![t].to = Variant(@, i),
                                                         ![t].stage = "ready"]
    BY <1>12 DEF Choose
  <2>2. job[t].stage = "wait" /\ UNCHANGED <<store, undoing>>
    BY <1>12 DEF Choose
  <2>3. t = r /\ ~Free(r) /\ Undoes(H, r, k)
    BY <1>8, <2>2
  <2>4. loc = H[k + 1] /\ job[r].from = log[k + 1].to /\ job[r].to = log[k + 1].from
        /\ k + 1 \in 1 .. Len(log)
    BY <1>0, <1>1, <2>2, <2>3 DEF Undoes
  <2>5. ~Occupied(job[r].to)
    <3>1. \A f \in Files : H[k + 1][f] # log[k + 1].from
      BY <1>4, <2>4
    <3>2. QED
      BY <2>4, <3>1 DEF Occupied
  <2>6. i = 0
    <3>1. Cardinality(Files) \in Nat
      BY FilesAssumption, FS_CardinalityType
    <3>2. i # 0 => 0 \in 0 .. i - 1
      BY <3>1
    <3>3. Variant(job[r].to, 0) = job[r].to
      BY DEF Variant
    <3>4. QED
      BY <2>1, <2>3, <2>5, <3>2, <3>3 DEF FirstFree
  <2>7. Variant(job[r].to, i) = job[r].to
    BY <2>6 DEF Variant
  <2> DEFINE j == [job[r] EXCEPT !.stage = "ready"]
  <2>8. job' = [job EXCEPT ![r] = j]
    <3>1. job' = [job EXCEPT ![r] = [job[r] EXCEPT !.to = Variant(job[r].to, i), !.stage = "ready"]]
      BY <2>1, <2>3
    <3>2. [job[r] EXCEPT !.to = job[r].to, !.stage = "ready"] = j
      BY <1>1 DEF Jobs
    <3>3. QED
      BY <2>7, <3>1, <3>2
  <2>9. /\ j \in Jobs /\ j.kind = job[r].kind /\ j.stage = "ready" /\ j.wrapped = job[r].wrapped
        /\ j.strict = job[r].strict /\ j.from = job[r].from /\ j.to = job[r].to
    BY <1>1 DEF Jobs
  <2> HIDE DEF j
  <2>10. QED
    BY <1>7, <2>2, <2>3, <2>4, <2>8, <2>9 DEF Undoes, undoing, store
<1>13. ASSUME NEW t \in Threads, Shift(t) PROVE Retraced'
  <2>1. PICK f \in Files :
           /\ IF job[t].kind = "write" THEN f = job[t].file ELSE loc[f] = job[t].from
           /\ Put(f, job[t].to)
           /\ job' = [job EXCEPT ![t].file = f, ![t].stage = "moved"]
    BY <1>13 DEF Shift
  <2>2. job[t].stage = "ready" /\ UNCHANGED <<log, undoing>>
    BY <1>13 DEF Shift
  <2>3. t = r /\ ~Free(r) /\ Undoes(H, r, k)
    BY <1>8, <2>2
  <2>4. loc = H[k + 1] /\ job[r].from = log[k + 1].to /\ job[r].to = log[k + 1].from
        /\ k + 1 \in 1 .. Len(log) /\ (k + 1) - 1 = k
    BY <1>0, <1>1, <2>2, <2>3 DEF Undoes
  <2>5. ~Occupied(job[r].to) /\ loc[f] = job[r].from
    BY <2>1, <2>2, <2>3 DEF StoreInv, Chosen, Undoes
  <2>6. loc' = [loc EXCEPT ![f] = job[r].to]
    BY <1>0, <2>1, <2>3, <2>5, PutFree
  <2>7. f = log[k + 1].file
    <3>1. \A g \in Files : H[k + 1][g] = log[k + 1].to => g = log[k + 1].file
      BY <1>4, <2>4
    <3>2. QED
      BY <2>4, <2>5, <3>1
  <2>8. loc' = H[k]
    BY <1>4, <2>4, <2>6, <2>7
  <2> DEFINE j == [job[r] EXCEPT !.file = f, !.stage = "moved"]
  <2>9. /\ j \in Jobs /\ j.kind = job[r].kind /\ j.stage = "moved"
        /\ j.wrapped = job[r].wrapped /\ j.strict = job[r].strict
    BY <1>1 DEF Jobs
  <2>10. job' = [job EXCEPT ![r] = j]
    BY <2>1, <2>3
  <2> HIDE DEF j
  <2>11. QED
    BY <1>7, <2>2, <2>3, <2>8, <2>9, <2>10 DEF Undoes, undoing
<1>14. ASSUME NEW t \in Threads, Record(t) PROVE Retraced'
  <2>1. job[t].stage = "moved" /\ UNCHANGED <<loc, undoing>> /\ Stage(t, "leave")
    BY <1>14 DEF Record
  <2>2. t = r /\ ~Free(r) /\ Undoes(H, r, k)
    BY <1>8, <2>1
  <2>3. log' = log
    BY <1>14, <2>2 DEF Record, Undoes
  <2> DEFINE j == [job[r] EXCEPT !.stage = "leave"]
  <2>4. /\ j \in Jobs /\ j.kind = job[r].kind /\ j.stage = "leave"
        /\ j.wrapped = job[r].wrapped /\ j.strict = job[r].strict
    BY <1>1 DEF Jobs
  <2>5. job' = [job EXCEPT ![r] = j]
    BY <2>1, <2>2 DEF Stage
  <2> HIDE DEF j
  <2>6. QED
    BY <1>7, <2>1, <2>2, <2>3, <2>4, <2>5 DEF Undoes, undoing
<1>15. ASSUME NEW t \in Threads, Finish(t) PROVE Retraced'
  <2>1. job[t].stage = "leave" /\ UNCHANGED <<store, todo, start>>
        /\ job' = [job EXCEPT ![t] = NoJob]
    BY <1>15 DEF Finish
  <2>2. t = r /\ ~Free(r) /\ Undoes(H, r, k)
    BY <1>8, <2>1
  <2>3. loc = H[k] /\ job[r].kind = "restore"
    BY <2>1, <2>2 DEF Undoes
  <2>4. \A u \in Threads : Free(u)'
    BY <1>0, <1>1, <2>1, <2>2 DEF Free
  <2>5. phase' = IF todo[r] = {} THEN "after" ELSE phase
    BY <1>1, <1>15, <2>2, <2>3 DEF Finish
  <2>6. CASE k = 0
    <3>1. \A u \in Threads : todo[u] = {}
      BY <1>1, <2>6
    <3>2. After'
      BY <1>1, <2>1, <2>3, <2>4, <2>5, <2>6, <3>1 DEF After, store
    <3>3. QED
      BY <3>2 DEF Retraced
  <2>7. CASE k # 0
    <3>1. k \in 1 .. k /\ todo[r] = 1 .. k
      BY <1>0, <1>1, <2>7
    <3>2. phase' = "during"
      BY <1>1, <2>5, <3>1
    <3>3. During(H, r, k)'
      BY <1>1, <2>1, <2>3, <2>4, <2>7, <3>2 DEF During, store
    <3>4. QED
      BY <1>2, <2>1, <3>3 DEF store
  <2>8. QED
    BY <2>6, <2>7
<1>16. ASSUME NEW t \in Threads PROVE ~Asked(t)
  <2>1. \A p, q : ~Move(t, p, q) /\ ~Delete(t, p)
    <3>1. \A p, q : ~Move(t, p, q)
      BY <1>1 DEF Move
    <3>2. \A p : ~Delete(t, p)
      BY <1>1 DEF Delete
    <3>3. QED
      BY <3>1, <3>2
  <2>2. \A f, q : ~Write(t, f, q)
    BY DEF Write
  <2>3. \A i : ~Restore(t, i)
    BY DEF Restore
  <2>4. ~RollBack(t)
    BY <1>1 DEF RollBack
  <2>5. QED
    BY <2>1, <2>2, <2>3, <2>4 DEF Asked
<1>17. ASSUME NEW t \in Threads, Work(t) PROVE Retraced'
  <2>1. CASE Wait(t) \/ Release(t)
    BY <1>3, <2>1 DEF Wait, Release, undoing
  <2>2. ~GiveUp(t)
    BY <1>8 DEF GiveUp, Undoes
  <2>3. ~ShiftFails(t) /\ ~RecordFails(t)
    BY DEF ShiftFails, RecordFails
  <2>4. QED
    BY <1>10, <1>11, <1>12, <1>13, <1>14, <1>15, <1>17, <2>1, <2>2, <2>3 DEF Work
<1>18. QED
  BY <1>16, <1>17 DEF Next, Vanish, Crash

\* And when it is done, nothing else happens.
LEMMA AfterNext ==
  ASSUME StoreInv, Next, alone', After
  PROVE  After'
<1>1. phase = "after" /\ loc = start /\ \A t \in Threads : Free(t) /\ todo[t] = {}
  BY DEF After
<1>2. \A t \in Threads : job[t].stage = "idle"
  BY <1>1, NoJobIsTyped DEF Free
<1>3. ASSUME NEW t \in Threads PROVE ~Asked(t)
  <2>1. \A p, q : ~Move(t, p, q) /\ ~Delete(t, p)
    <3>1. \A p, q : ~Move(t, p, q)
      BY <1>1 DEF Move
    <3>2. \A p : ~Delete(t, p)
      BY <1>1 DEF Delete
    <3>3. QED
      BY <3>1, <3>2
  <2>2. \A f, q : ~Write(t, f, q)
    BY DEF Write
  <2>3. \A i : ~Restore(t, i)
    BY DEF Restore
  <2>4. ~RollBack(t)
    BY <1>1 DEF RollBack
  <2>5. QED
    BY <2>1, <2>2, <2>3, <2>4 DEF Asked
<1>4. ASSUME NEW t \in Threads, Work(t) PROVE Wait(t)
  <2>1. ~UndoNext(t) /\ ~PassOver(t)
    BY <1>1 DEF UndoNext, PassOver
  <2>2. job[t].stage = "idle"
    BY <1>2
  <2>3. QED
    BY <1>4, <2>1, <2>2 DEF Work, Choose, GiveUp, Shift, ShiftFails, Record, RecordFails,
                            Release, Finish
<1>5. PICK t \in Threads : Wait(t)
  BY <1>3, <1>4 DEF Next, Vanish, Crash
<1>6. QED
  BY <1>1, <1>5 DEF Wait, After, Free, store, undoing

\* Nobody else ever becomes part of what happened before.
LEMMA AloneBefore == Next /\ alone' => alone
<1> SUFFICES ASSUME Next, alone' PROVE alone
  OBVIOUS
<1>1. ASSUME NEW t \in Threads, Asked(t) PROVE alone
  <2>1. \A p, q : Move(t, p, q) \/ Delete(t, p) => alone
    <3>1. \A p, q : Move(t, p, q) => alone
      BY DEF Move
    <3>2. \A p : Delete(t, p) => alone
      BY DEF Delete
    <3>3. QED
      BY <3>1, <3>2
  <2>2. \A f, q : ~Write(t, f, q)
    BY DEF Write
  <2>3. \A i : ~Restore(t, i)
    BY DEF Restore
  <2>4. RollBack(t) => alone
    BY DEF RollBack
  <2>5. QED
    BY <1>1, <2>1, <2>2, <2>3, <2>4, Zenon DEF Asked
<1>2. ASSUME NEW t \in Threads, Work(t) PROVE alone
  BY <1>2 DEF Work, UndoNext, PassOver, Wait, Choose, GiveUp, Shift, ShiftFails, Record,
              RecordFails, Release, Finish
<1>3. QED
  BY <1>1, <1>2 DEF Next, Vanish, Crash

\* So every step keeps the files where the log says they went.
LEMMA RetracedNext == StoreInv /\ Retraced /\ [Next]_vars => Retraced'
<1> SUFFICES ASSUME StoreInv, Retraced, [Next]_vars, alone' PROVE Retraced'
  BY DEF Retraced
<1>1. CASE UNCHANGED vars
  <2>1. UNCHANGED <<loc, log, job, todo, start, phase, alone>>
    BY <1>1 DEF vars, store, undoing
  <2>2. After => After'
    BY <2>1 DEF After, Free
  <2>3. \A H : Past(H) => Past(H)'
    BY <2>1 DEF Past, Leads
  <2>4. \A H : Before(H) => Before(H)'
    BY <2>1 DEF Before, Free, Leads, Recorded
  <2>5. \A H, r, k : During(H, r, k) => During(H, r, k)'
    BY <2>1 DEF During, Undoes, Free
  <2>6. QED
    BY <2>1, <2>2, <2>3, <2>4, <2>5 DEF Retraced
<1>2. CASE Next
  <2>1. alone
    BY <1>2, AloneBefore
  <2>2. CASE After
    BY <1>2, <2>2, AfterNext DEF Retraced
  <2>3. CASE \E H : Past(H) /\ (Before(H) \/ \E r, k : During(H, r, k))
    BY <1>2, <2>3, BeforeNext, DuringNext
  <2>4. QED
    BY <2>1, <2>2, <2>3 DEF Retraced
<1>3. QED
  BY <1>1, <1>2

\* The roll-back of a conversation brings every file back to where it was, however
\* many operations it undoes and however their entries share places.
\* (rest.py: rollback)
THEOREM RollBackSafe == Spec => []RollBackExact
<1>1. Init => StoreInv /\ Retraced
  BY StoreInitially, RetracedInit
<1>2. StoreInv /\ Retraced /\ [Next]_vars => StoreInv' /\ Retraced'
  BY StoreInvNext, RetracedNext
<1>3. Retraced => RollBackExact
  BY DEF Retraced, RollBackExact, After, Before, During
<1>4. QED
  BY <1>1, <1>2, <1>3, PTL DEF Spec
=============================================================================
