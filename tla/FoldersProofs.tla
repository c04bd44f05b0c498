--------------------------- MODULE FoldersProofs ---------------------------
(***************************************************************************)
(* The two services that look through the user's folders by themselves,    *)
(* for any number of files, folders and disturbances: a rule moves a file  *)
(* once, and a build leaves the index right.                               *)
(***************************************************************************)
EXTENDS Watcher, Indexer, TLAPS

-----------------------------------------------------------------------------
(* The directory watcher. *)

Items == Files \X Nat
WatchSteps == {"idle", "scan", "move", "record"}

WatchTyped ==
    /\ place \in [Files -> {"absent", "inbox", "sorted"}] /\ sig \in [Files -> Nat]
    /\ recorded \subseteq Items /\ moves \subseteq Items
    /\ pc \in [Passes -> WatchSteps] /\ todo \in [Passes -> SUBSET Items]
    /\ cur \in [Passes -> Items \cup {Nothing}]
    /\ \A p \in Passes : pc[p] = "record" => cur[p] \in Items

Holds(p, i) == pc[p] = "record" /\ cur[p] = i

Excused == exposed \cup edited

\* A move that is not excused is recorded, or about to be.
Accounted(i) == i \in recorded \/ \E p \in Passes : Holds(p, i)

\* Where it was rolled back, no pass knows of it.
AtRest(i) == i \in recorded /\ \A p \in Passes : i \notin todo[p] /\ ~Holds(p, i)

MovesKnown ==
    \A i \in moves :
        /\ place[i[1]] # "absent"
        /\ i \notin Excused => Accounted(i) /\ (place[i[1]] = "inbox" => AtRest(i))

WatchInv == WatchTyped /\ (rule # "deleted" => MovesKnown /\ again \subseteq Excused)

\* At first nothing was moved.
LEMMA WatchInitInv == WatchInit => WatchInv
  BY DEF WatchInit, WatchInv, WatchTyped, MovesKnown, WatchSteps, Items

USE DEF disk, passes, history, Excused

\* Steps that neither move a file nor touch what is recorded and what is in hand.
LEMMA WatchQuiet ==
    ASSUME WatchInv, UNCHANGED <<place, recorded, todo, cur, history>>,
           sig' \in [Files -> Nat],
           rule' = "deleted" \/ rule # "deleted",
           \/ pc' = pc
           \/ \E p \in Passes, s \in {"idle", "scan"} :
                 pc[p] \in {"idle", "scan"} /\ pc' = [pc EXCEPT ![p] = s]
    PROVE  WatchInv'
<1>1. pc' \in [Passes -> WatchSteps]
  BY DEF WatchInv, WatchTyped, WatchSteps
<1>2. \A p \in Passes, i \in Items : Holds(p, i)' <=> Holds(p, i)
  BY DEF Holds, WatchInv, WatchTyped
<1>3. WatchTyped'
  BY <1>1 DEF WatchInv, WatchTyped, WatchSteps
<1>4. MovesKnown => MovesKnown'
  BY <1>2 DEF MovesKnown, Accounted, AtRest, WatchInv, WatchTyped
<1>5. QED
  BY <1>3, <1>4 DEF WatchInv

\* A scan takes up nothing that is recorded.
LEMMA WatchScan == ASSUME WatchInv, NEW p \in Passes, Scan(p) PROVE WatchInv'
<1>1. /\ pc[p] = "scan" /\ UNCHANGED <<rule, disk, cur, history>>
      /\ \/ /\ pc' = [pc EXCEPT ![p] = "idle"] /\ recorded' = recorded \cup Pending
            /\ UNCHANGED todo
         \/ /\ pc' = [pc EXCEPT ![p] = "move"] /\ todo' = [todo EXCEPT ![p] = Pending]
            /\ UNCHANGED recorded
  BY DEF Scan
<1>2. Pending \subseteq Items /\ Pending \cap recorded = {}
      /\ \A i \in Pending : place[i[1]] = "inbox"
  BY DEF WatchInv, WatchTyped, Pending, Stable, Inbox, Items
<1>3. /\ pc' \in [Passes -> WatchSteps] /\ pc'[p] \in {"idle", "move"}
      /\ \A q \in Passes : q # p => pc'[q] = pc[q]
      /\ todo' \in [Passes -> SUBSET Items] /\ todo'[p] \in {todo[p], Pending}
      /\ \A q \in Passes : q # p => todo'[q] = todo[q]
  BY <1>1, <1>2 DEF WatchInv, WatchTyped, WatchSteps
<1>4. WatchTyped'
  BY <1>1, <1>2, <1>3 DEF WatchInv, WatchTyped
<1>5. \A q \in Passes, i \in Items : Holds(q, i)' <=> Holds(q, i)
  BY <1>1, <1>3 DEF Holds
<1>6. ASSUME MovesKnown PROVE MovesKnown'
  <2> SUFFICES ASSUME NEW i \in moves, i \notin Excused
               PROVE  Accounted(i)' /\ (place[i[1]] = "inbox" => AtRest(i)')
    BY <1>1, <1>6 DEF MovesKnown
  <2>1. i \in Items /\ Accounted(i) /\ (place[i[1]] = "inbox" => AtRest(i))
    BY <1>6 DEF MovesKnown, WatchInv, WatchTyped
  <2>2. recorded \subseteq recorded'
    BY <1>1
  <2>3. Accounted(i)'
    BY <1>5, <2>1, <2>2 DEF Accounted
  <2>4. ASSUME place[i[1]] = "inbox" PROVE AtRest(i)'
    <3>1. i \notin Pending
      BY <1>2, <2>1, <2>4 DEF AtRest
    <3>2. QED
      BY <1>3, <1>5, <2>1, <2>2, <2>4, <3>1 DEF AtRest
  <2>5. QED
    BY <2>3, <2>4
<1>7. QED
  BY <1>1, <1>4, <1>6 DEF WatchInv

\* A file that is moved a second time is excused.
LEMMA WatchMove == ASSUME WatchInv, NEW p \in Passes, Move(p) PROVE WatchInv'
<1>1. PICK i \in todo[p] :
         /\ cur' = [cur EXCEPT ![p] = i]
         /\ todo' = [todo EXCEPT ![p] = @ \ {i}]
         /\ \/ /\ place[i[1]] = "inbox"
               /\ place' = [place EXCEPT ![i[1]] = "sorted"]
               /\ moves' = moves \cup {<<i[1], sig[i[1]]>>}
               /\ again' = again \cup (moves \cap {<<i[1], sig[i[1]]>>})
               /\ edited' = edited \cup ({<<i[1], sig[i[1]]>>} \ {i})
               /\ UNCHANGED exposed
            \/ UNCHANGED <<place, history>>
  BY DEF Move
<1> DEFINE now == <<i[1], sig[i[1]]>>
<1>2. /\ pc[p] = "move" /\ pc' = [pc EXCEPT ![p] = "record"]
      /\ UNCHANGED <<rule, sig, recorded>>
  BY DEF Move
<1>3. i \in Items /\ i[1] \in Files /\ now \in Items
  BY DEF WatchInv, WatchTyped, Items
<1>4. /\ pc' \in [Passes -> WatchSteps] /\ pc'[p] = "record"
      /\ \A q \in Passes : q # p => pc'[q] = pc[q]
      /\ cur' \in [Passes -> Items \cup {Nothing}] /\ cur'[p] = i
      /\ \A q \in Passes : q # p => cur'[q] = cur[q]
      /\ todo' \in [Passes -> SUBSET Items]
      /\ \A q \in Passes : todo'[q] \subseteq todo[q]
  BY <1>1, <1>2, <1>3 DEF WatchInv, WatchTyped, WatchSteps
<1>5. WatchTyped'
  BY <1>1, <1>2, <1>3, <1>4 DEF WatchInv, WatchTyped
<1>6. \A q \in Passes, j \in Items : Holds(q, j) => Holds(q, j)'
  BY <1>2, <1>4 DEF Holds
<1>7. \A q \in Passes, j \in Items : Holds(q, j)' => Holds(q, j) \/ j = i
  BY <1>2, <1>4 DEF Holds
<1>8. /\ Excused \subseteq Excused' /\ moves \subseteq moves' /\ moves' \subseteq moves \cup {now}
      /\ moves' # moves => place'[i[1]] = "sorted" /\ (now # i => now \in Excused')
      /\ \A f \in Files : place'[f] = place[f] \/ place'[f] = "sorted"
  BY <1>1, <1>3 DEF WatchInv, WatchTyped
<1>9. ASSUME MovesKnown, again \subseteq Excused
      PROVE  MovesKnown' /\ again' \subseteq Excused'
  <2>1. i \in moves \ Excused => place[i[1]] # "inbox"
    BY <1>9 DEF MovesKnown, AtRest
  <2>2. again' \subseteq Excused'
    <3>1. CASE now = i
      BY <1>1, <1>9, <2>1, <3>1
    <3>2. CASE now # i
      BY <1>1, <1>9, <3>2
    <3>3. QED
      BY <3>1, <3>2
  <2>3. ASSUME NEW j \in moves'
        PROVE  /\ place'[j[1]] # "absent"
               /\ j \notin Excused' =>
                     Accounted(j)' /\ (place'[j[1]] = "inbox" => AtRest(j)')
    <3>1. j \in Items /\ j[1] \in Files
      BY <1>3, <1>8, <2>3 DEF WatchInv, WatchTyped, Items
    <3>2. CASE j \in moves
      <4>1. /\ place[j[1]] # "absent"
            /\ j \notin Excused => Accounted(j) /\ (place[j[1]] = "inbox" => AtRest(j))
        BY <1>9, <3>2 DEF MovesKnown
      <4>2. place'[j[1]] # "absent" /\ (place'[j[1]] = "inbox" => place[j[1]] = "inbox")
        BY <1>8, <3>1, <4>1
      <4>3. Accounted(j) => Accounted(j)'
        BY <1>2, <1>6, <3>1 DEF Accounted
      <4>4. AtRest(j) => AtRest(j)'
        BY <1>2, <1>4, <1>7, <3>1 DEF AtRest
      <4>5. QED
        BY <1>8, <4>1, <4>2, <4>3, <4>4
    <3>3. CASE j = now /\ moves' # moves
      <4>1. place'[j[1]] = "sorted"
        BY <1>8, <3>3
      <4>2. now = i => Accounted(j)'
        BY <1>4, <3>3 DEF Accounted, Holds
      <4>3. now # i => j \in Excused'
        BY <1>8, <3>3
      <4>4. QED
        BY <4>1, <4>2, <4>3
    <3>4. QED
      BY <1>8, <2>3, <3>2, <3>3
  <2>4. QED
    BY <2>2, <2>3 DEF MovesKnown
<1>10. QED
  BY <1>2, <1>5, <1>9 DEF WatchInv

\* What is moved is recorded next.
LEMMA WatchRecord == ASSUME WatchInv, NEW p \in Passes, Record(p) PROVE WatchInv'
<1>1. /\ pc[p] = "record" /\ recorded' = recorded \cup {cur[p]}
      /\ cur' = [cur EXCEPT ![p] = Nothing]
      /\ UNCHANGED <<rule, disk, todo, history>>
      /\ pc' = [pc EXCEPT ![p] = IF More(p) THEN "move" ELSE "idle"]
  BY DEF Record, Recorded
<1>2. PICK s \in {"move", "idle"} : pc' = [pc EXCEPT ![p] = s]
  BY <1>1
<1>3. /\ pc' \in [Passes -> WatchSteps] /\ pc'[p] # "record"
      /\ \A q \in Passes : q # p => pc'[q] = pc[q] /\ cur'[q] = cur[q]
      /\ cur' \in [Passes -> Items \cup {Nothing}]
  BY <1>1, <1>2 DEF WatchInv, WatchTyped, WatchSteps
<1>4. cur[p] \in Items
  BY <1>1 DEF WatchInv, WatchTyped
<1>5. WatchTyped'
  BY <1>1, <1>3, <1>4 DEF WatchInv, WatchTyped
<1>6. \A q \in Passes, i \in Items : Holds(q, i)' => Holds(q, i)
  BY <1>3 DEF Holds
<1>7. \A q \in Passes, i \in Items : Holds(q, i) => Holds(q, i)' \/ i = cur[p]
  BY <1>3 DEF Holds
<1>8. ASSUME MovesKnown PROVE MovesKnown'
  <2> SUFFICES ASSUME NEW i \in moves
               PROVE  /\ place[i[1]] # "absent"
                      /\ i \notin Excused =>
                            Accounted(i)' /\ (place[i[1]] = "inbox" => AtRest(i)')
    BY <1>1 DEF MovesKnown
  <2>1. i \in Items
    BY DEF WatchInv, WatchTyped
  <2>2. /\ place[i[1]] # "absent"
        /\ i \notin Excused => Accounted(i) /\ (place[i[1]] = "inbox" => AtRest(i))
    BY <1>8 DEF MovesKnown
  <2>3. Accounted(i) => Accounted(i)'
    BY <1>1, <1>7, <2>1 DEF Accounted
  <2>4. AtRest(i) => AtRest(i)'
    BY <1>1, <1>6, <2>1 DEF AtRest
  <2>5. QED
    BY <2>2, <2>3, <2>4
<1>9. QED
  BY <1>1, <1>5, <1>8 DEF WatchInv

\* A pass that ends with a move not recorded exposes it.
LEMMA WatchEnds ==
    ASSUME WatchInv, NEW S \in SUBSET Passes, Ends(S),
           exposed' = exposed \cup Unrecorded(S),
           UNCHANGED <<rule, disk, recorded, moves, again, edited>>
    PROVE  WatchInv'
<1>1. /\ pc' \in [Passes -> WatchSteps] /\ todo' \in [Passes -> SUBSET Items]
      /\ cur' \in [Passes -> Items \cup {Nothing}]
      /\ \A q \in Passes \ S : pc'[q] = pc[q] /\ todo'[q] = todo[q] /\ cur'[q] = cur[q]
      /\ \A q \in S : pc'[q] = "idle" /\ todo'[q] = {}
  BY DEF Ends, WatchInv, WatchTyped, WatchSteps
<1>2. WatchTyped'
  BY <1>1 DEF WatchInv, WatchTyped
<1>3. \A q \in Passes, i \in Items :
         /\ Holds(q, i)' => Holds(q, i)
         /\ Holds(q, i) => Holds(q, i)' \/ i \in Unrecorded(S)
  BY <1>1 DEF Holds, Unrecorded
<1>4. exposed \subseteq exposed' /\ Unrecorded(S) \subseteq exposed'
  OBVIOUS
<1>5. ASSUME MovesKnown, again \subseteq Excused
      PROVE  MovesKnown' /\ again' \subseteq Excused'
  <2>1. again' \subseteq Excused'
    BY <1>5
  <2>2. ASSUME NEW i \in moves
        PROVE  /\ place[i[1]] # "absent"
               /\ i \notin Excused' =>
                     Accounted(i)' /\ (place[i[1]] = "inbox" => AtRest(i)')
    <3>1. i \in Items
      BY DEF WatchInv, WatchTyped
    <3>2. /\ place[i[1]] # "absent"
          /\ i \notin Excused => Accounted(i) /\ (place[i[1]] = "inbox" => AtRest(i))
      BY <1>5 DEF MovesKnown
    <3>3. i \notin Excused' => (Accounted(i) => Accounted(i)')
      BY <1>3, <1>4, <3>1 DEF Accounted
    <3>4. AtRest(i) => AtRest(i)'
      BY <1>1, <1>3, <3>1 DEF AtRest
    <3>5. QED
      BY <1>4, <3>2, <3>3, <3>4
  <2>3. QED
    BY <2>1, <2>2 DEF MovesKnown
<1>6. QED
  BY <1>2, <1>5 DEF WatchInv

\* A file that arrives was not moved before.
LEMMA WatchArrive == ASSUME WatchInv, NEW f \in Files, Arrive(f) PROVE WatchInv'
<1>1. /\ place[f] = "absent" /\ place' = [place EXCEPT ![f] = "inbox"]
      /\ UNCHANGED <<rule, sig, recorded, passes, history>>
  BY DEF Arrive
<1>2. WatchTyped'
  BY <1>1 DEF WatchInv, WatchTyped
<1>3. \A q \in Passes, i \in Items : Holds(q, i)' <=> Holds(q, i)
  BY <1>1 DEF Holds
<1>4. ASSUME MovesKnown PROVE MovesKnown'
  <2> SUFFICES ASSUME NEW i \in moves
               PROVE  /\ place'[i[1]] # "absent"
                      /\ i \notin Excused =>
                            Accounted(i)' /\ (place'[i[1]] = "inbox" => AtRest(i)')
    BY <1>1 DEF MovesKnown
  <2>1. /\ place[i[1]] # "absent"
        /\ i \notin Excused => Accounted(i) /\ (place[i[1]] = "inbox" => AtRest(i))
    BY <1>4 DEF MovesKnown
  <2>2. i \in Items /\ i[1] \in Files
    BY DEF WatchInv, WatchTyped, Items
  <2>3. place'[i[1]] = place[i[1]]
    BY <1>1, <2>1, <2>2 DEF WatchInv, WatchTyped
  <2>4. (Accounted(i) => Accounted(i)') /\ (AtRest(i) => AtRest(i)')
    BY <1>1, <1>3, <2>2 DEF Accounted, AtRest
  <2>5. QED
    BY <2>1, <2>3, <2>4
<1>5. QED
  BY <1>1, <1>2, <1>4 DEF WatchInv

\* Of a file that is rolled back, what a pass has in hand is exposed; the rest is
\* recorded.
LEMMA WatchRollBack == ASSUME WatchInv, NEW f \in Files, RollBack(f) PROVE WatchInv'
<1>1. /\ place[f] = "sorted" /\ place' = [place EXCEPT ![f] = "inbox"]
      /\ exposed' = exposed \cup InHand(f)
      /\ UNCHANGED <<rule, sig, recorded, passes, moves, again, edited>>
  BY DEF RollBack
<1>2. WatchTyped'
  BY <1>1 DEF WatchInv, WatchTyped
<1>3. \A q \in Passes, i \in Items : Holds(q, i)' <=> Holds(q, i)
  BY <1>1 DEF Holds
<1>4. ASSUME NEW i \in Items, i[1] = f, i \notin InHand(f), NEW q \in Passes
      PROVE  i \notin todo[q] /\ ~Holds(q, i)
  <2>1. i \in todo[q] => i \in InHand(f)
    BY <1>4 DEF InHand
  <2>2. Holds(q, i) => i \in Unrecorded(Passes)
    BY DEF Holds, Unrecorded
  <2>3. i \in Unrecorded(Passes) => i \in InHand(f)
    BY <1>4 DEF InHand
  <2>4. QED
    BY <1>4, <2>1, <2>2, <2>3
<1>5. ASSUME MovesKnown, again \subseteq Excused
      PROVE  MovesKnown' /\ again' \subseteq Excused'
  <2>1. again' \subseteq Excused' /\ Excused \subseteq Excused'
    BY <1>1, <1>5
  <2>2. ASSUME NEW i \in moves
        PROVE  /\ place'[i[1]] # "absent"
               /\ i \notin Excused' =>
                     Accounted(i)' /\ (place'[i[1]] = "inbox" => AtRest(i)')
    <3>1. i \in Items /\ i[1] \in Files
      BY DEF WatchInv, WatchTyped, Items
    <3>2. /\ place[i[1]] # "absent"
          /\ i \notin Excused => Accounted(i) /\ (place[i[1]] = "inbox" => AtRest(i))
      BY <1>5 DEF MovesKnown
    <3>3. (Accounted(i) => Accounted(i)') /\ (AtRest(i) => AtRest(i)')
      BY <1>1, <1>3, <3>1 DEF Accounted, AtRest
    <3>4. place'[i[1]] # "absent" /\ (i[1] # f => place'[i[1]] = place[i[1]])
      BY <1>1, <3>1, <3>2 DEF WatchInv, WatchTyped
    <3>5. ASSUME i[1] = f, i \notin Excused' PROVE Accounted(i) => AtRest(i)
      <4>1. i \notin InHand(f)
        BY <1>1, <3>5
      <4>2. QED
        BY <1>4, <3>1, <3>5, <4>1 DEF Accounted, AtRest
    <3>6. QED
      BY <2>1, <3>2, <3>3, <3>4, <3>5
  <2>3. QED
    BY <1>1, <2>1, <2>2 DEF MovesKnown
<1>6. QED
  BY <1>1, <1>2, <1>5 DEF WatchInv

\* Every step of the watcher keeps it.
LEMMA WatchNextInv == WatchInv /\ [WatchNext]_watchVars => WatchInv'
<1> SUFFICES ASSUME WatchInv, [WatchNext]_watchVars PROVE WatchInv'
  OBVIOUS
<1>0. sig \in [Files -> Nat]
  BY DEF WatchInv, WatchTyped
<1>1. CASE LoopRead
  BY <1>0, <1>1, WatchQuiet DEF LoopRead, Polls, Passes
<1>2. CASE ManualRead
  BY <1>0, <1>2, WatchQuiet DEF ManualRead, Passes
<1>3. CASE Crash
  <2>1. Ends(Passes) /\ exposed' = exposed \cup Unrecorded(Passes)
        /\ UNCHANGED <<rule, disk, recorded, moves, again, edited>>
    BY <1>3 DEF Crash
  <2>2. QED
    BY <2>1, WatchEnds
<1>4. CASE Tick
  BY <1>0, <1>4, WatchQuiet DEF Tick
<1>5. CASE Switch
  BY <1>0, <1>5, WatchQuiet DEF Switch
<1>6. CASE Delete
  <2>1. rule' = "deleted" /\ recorded' = {} /\ UNCHANGED <<disk, passes, history>>
    BY <1>6 DEF Delete
  <2>2. QED
    BY <2>1 DEF WatchInv, WatchTyped
<1>7. ASSUME NEW p \in Passes, Work(p) \/ ScanFails(p) \/ RecordFails(p)
      PROVE  WatchInv'
  <2>1. CASE Work(p)
    BY <2>1, WatchScan, WatchMove, WatchRecord DEF Work
  <2>2. CASE ScanFails(p)
    BY <1>0, <2>2, WatchQuiet DEF ScanFails
  <2>3. CASE RecordFails(p)
    <3>1. Ends({p}) /\ exposed' = exposed \cup Unrecorded({p})
          /\ UNCHANGED <<rule, disk, recorded, moves, again, edited>>
      BY <2>3 DEF RecordFails
    <3>2. {p} \in SUBSET Passes
      OBVIOUS
    <3>3. QED
      BY <3>1, <3>2, WatchEnds
  <2>4. QED
    BY <1>7, <2>1, <2>2, <2>3
<1>8. ASSUME NEW f \in Files, Arrive(f) \/ Edit(f) \/ RollBack(f)
      PROVE  WatchInv'
  <2>1. CASE Edit(f)
    <3>1. sig' \in [Files -> Nat]
      BY <1>0, <2>1 DEF Edit
    <3>2. QED
      BY <2>1, <3>1, WatchQuiet DEF Edit
  <2>2. QED
    BY <1>8, <2>1, WatchArrive, WatchRollBack
<1>9. CASE UNCHANGED watchVars
  BY <1>0, <1>9, WatchQuiet DEF watchVars
<1>10. QED
  BY <1>1, <1>2, <1>3, <1>4, <1>5, <1>6, <1>7, <1>8, <1>9 DEF WatchNext

\* A file that was rolled back stays where the user put it, over restarts and with two
\* passes at a time: a rule moves it once more, with the same size and mtime, only when a
\* pass had it in hand at the roll-back, could not record its move, or had moved it with
\* another signature than the listed one (watcher.py:206).
THEOREM MovedOnceSafe == WatchSpec => []MovedOnce
<1>1. WatchInv => MovedOnce
  BY DEF WatchInv, MovedOnce
<1>2. QED
  BY <1>1, WatchInitInv, WatchNextInv, PTL DEF WatchSpec

-----------------------------------------------------------------------------
(* The search index. *)

USE DEF tree, job, walk

IndexSteps == {"off", "open", "file", "extract", "prune", "done"}
RowOf(d, f, n, t) == [dir |-> d, file |-> f, sig |-> n, root |-> t]
HasRow(d, f) == \E r \in At(d, f) : r.sig = stamp[f]
Active == step \in {"open", "file", "extract", "prune"}

HandTyped ==
    hand # NoMove =>
        hand[1] \in Documents /\ hand[2] \in Dirs /\ hand[3] \in Dirs \cup {Gone}

IndexTyped ==
    /\ at \in [Documents -> Dirs \cup {Gone}] /\ stamp \in [Documents -> Nat]
    /\ rows \subseteq Rows
    /\ \A r, s \in rows : r.dir = s.dir /\ r.file = s.file => r = s
    /\ step \in IndexSteps /\ disturbed \in BOOLEAN
    /\ dirs \subseteq Dirs /\ list \subseteq Documents
    /\ seen \subseteq Dirs \X Documents /\ stale \subseteq Rows
    /\ Active => root \in Dirs
    /\ ~Active => seen = {}
    /\ step \in {"file", "extract"} => dir \in Dirs
    /\ step = "extract" => text \in Documents \X Nat
    /\ HandTyped

\* What was seen is where it was seen, and has its row or is about to.
SeenRight ==
    Active =>
        \A d \in Dirs, f \in Documents :
            <<d, f>> \in seen =>
                at[f] = d /\ (HasRow(d, f) \/ (step = "extract" /\ text[1] = f))

TextRight ==
    step = "extract" =>
        /\ text[2] = stamp[text[1]] /\ at[text[1]] = dir /\ <<dir, text[1]>> \in seen
        /\ ~HasRow(dir, text[1])

ListRight == step \in {"file", "extract"} => \A f \in list : at[f] = dir

\* A build that may prune has every file within its reach before it or behind it.
Covered ==
    step \in {"open", "file", "extract"} /\ full /\ ~partial =>
        \A f \in Documents : at[f] \in Reach(root) =>
            \/ \E d \in dirs : at[f] \in Below[d]
            \/ step # "open" /\ at[f] = dir /\ f \in list
            \/ <<at[f], f>> \in seen

PruneRight ==
    step = "prune" =>
        /\ \A f \in Documents : at[f] \in Reach(root) => <<at[f], f>> \in seen
        /\ stale = {r \in rows : r.root = root /\ <<r.dir, r.file>> \notin seen}

DoneRight ==
    step = "done" /\ full /\ ~partial =>
        /\ \A f \in Documents : at[f] \in Reach(root) => HasRow(at[f], f)
        /\ \A r \in rows : r.root = root => Right(r)

Following ==
    /\ hand = NoMove /\ SeenRight /\ TextRight /\ ListRight
    /\ Covered /\ PruneRight /\ DoneRight

IndexInv == IndexTyped /\ (~disturbed => Following)

\* No build runs at first.
LEMMA IndexInitInv == IndexInit => IndexInv
<1> SUFFICES ASSUME IndexInit PROVE IndexInv
  OBVIOUS
<1>1. HandTyped /\ at \in [Documents -> Dirs \cup {Gone}]
  BY DEF IndexInit, HandTyped
<1>2. IndexTyped
  BY <1>1 DEF IndexInit, IndexTyped, IndexSteps, Active
<1>3. Following
  BY DEF IndexInit, Active, Following, SeenRight, TextRight, ListRight, Covered, PruneRight, DoneRight
<1>4. QED
  BY <1>2, <1>3 DEF IndexInv

\* A row is added in the place of the rows of its path.
LEMMA UpsertRows ==
    ASSUME IndexTyped, NEW d \in Dirs, NEW f \in Documents, NEW n \in Nat, NEW t \in Dirs,
           NEW R, R = (rows \ At(d, f)) \cup {RowOf(d, f, n, t)}
    PROVE  /\ R \subseteq Rows /\ RowOf(d, f, n, t) \in R
           /\ \A r, s \in R : r.dir = s.dir /\ r.file = s.file => r = s
           /\ \A r \in rows : r.dir # d \/ r.file # f => r \in R
<1>1. RowOf(d, f, n, t) \in Rows /\ RowOf(d, f, n, t).dir = d /\ RowOf(d, f, n, t).file = f
  BY DEF RowOf, Rows
<1>2. \A r \in rows : r \in At(d, f) <=> r.dir = d /\ r.file = f
  BY DEF At
<1>3. QED
  BY <1>1, <1>2 DEF IndexTyped

\* The row of a moved file goes along, and is the only one of its new path.
LEMMA NotedRows ==
    ASSUME IndexTyped, NEW f \in Documents, NEW old \in Dirs, NEW new \in Dirs \cup {Gone},
           NEW R, R = Noted(f, old, new)
    PROVE  /\ R \subseteq Rows
           /\ \A r, s \in R : r.dir = s.dir /\ r.file = s.file => r = s
<1>1. CASE At(old, f) = {}
  BY <1>1 DEF Noted, IndexTyped
<1>2. CASE At(old, f) # {} /\ new = Gone
  <2>1. R \subseteq rows
    BY <1>2 DEF Noted
  <2>2. QED
    BY <2>1 DEF IndexTyped
<1>3. CASE At(old, f) # {} /\ new # Gone
  <2>1. R = (rows \ (At(old, f) \cup At(new, f)))
               \cup {Refiled(r, new) : r \in At(old, f)}
    BY <1>3 DEF Noted
  <2>2. PICK s \in At(old, f) : TRUE
    BY <1>3
  <2>3. s \in rows /\ s \in Rows /\ s.dir = old /\ s.file = f
    BY DEF At, IndexTyped
  <2>4. \A r \in At(old, f) : r = s
    BY <2>3 DEF At, IndexTyped
  <2>5. new \in Dirs /\ \E n \in Nat, t \in Dirs : Refiled(s, new) = RowOf(new, f, n, t)
    <3>1. s.sig \in Nat /\ s.root \in Dirs /\ Home[new] \in Dirs
      BY <1>3, <2>3, IndexerAssumption DEF Rows
    <3>2. (IF new \in Below[s.root] THEN s.root ELSE Home[new]) \in Dirs
      BY <3>1
    <3>3. QED
      BY <1>3, <2>3, <3>1, <3>2 DEF RowOf, Refiled
  <2> PICK n \in Nat, t \in Dirs : Refiled(s, new) = RowOf(new, f, n, t)
    BY <2>5
  <2>6. R = (rows \ (At(old, f) \cup At(new, f))) \cup {RowOf(new, f, n, t)}
    BY <2>1, <2>2, <2>4, <2>5
  <2> DEFINE U == (rows \ At(new, f)) \cup {RowOf(new, f, n, t)}
  <2>7. /\ U \subseteq Rows
        /\ \A q, r \in U : q.dir = r.dir /\ q.file = r.file => q = r
    <3>1. U = (rows \ At(new, f)) \cup {RowOf(new, f, n, t)}
      OBVIOUS
    <3>2. new \in Dirs
      BY <2>5
    <3> HIDE DEF U
    <3>3. QED
      BY <3>1, <3>2, UpsertRows
  <2>8. R \subseteq U
    BY <2>6
  <2>9. QED
    BY <2>7, <2>8
<1>4. QED
  BY <1>1, <1>2, <1>3

\* Every step keeps the types.
LEMMA IndexTypedNext == IndexTyped /\ [IndexNext]_indexVars => IndexTyped'
<1> SUFFICES ASSUME IndexTyped, [IndexNext]_indexVars PROVE IndexTyped'
  OBVIOUS
<1>0. hand' = hand \/ hand' = NoMove => HandTyped'
  BY DEF IndexTyped, HandTyped
<1>1. CASE Start
  BY <1>0, <1>1 DEF Start, IndexTyped, IndexSteps, Active
<1>2. CASE Open
  <2>1. PICK d \in dirs :
           /\ dir' = d /\ list' \subseteq Present(d)
           /\ dirs' \subseteq Rest(d) \cup Subfolders(d)
    BY <1>2 DEF Open
  <2>2. /\ step = "open" /\ step' = "file" /\ dirs' \subseteq Dirs /\ list' \subseteq Documents
        /\ UNCHANGED <<tree, rows, hand, root, text, seen, stale, disturbed>>
    BY <1>2, <2>1, TreeAssumption DEF Open, Rest, Subfolders, Present, IndexTyped
  <2>3. QED
    BY <1>0, <2>1, <2>2 DEF IndexTyped, IndexSteps, Active
<1>3. CASE Truncate
  BY <1>0, <1>3 DEF Truncate, IndexTyped, IndexSteps, Active
<1>4. CASE Look
  <2>1. PICK f \in list :
           /\ list' = list \ {f} /\ seen' = seen \cup {<<dir, f>>}
           /\ \/ step' = "extract" /\ text' = <<f, stamp[f]>>
              \/ UNCHANGED <<step, text>>
    BY <1>4 DEF Look
  <2>2. step = "file" /\ UNCHANGED <<tree, rows, hand, root, dirs, dir, stale, disturbed>>
    BY <1>4 DEF Look
  <2>3. QED
    BY <1>0, <2>1, <2>2 DEF IndexTyped, IndexSteps, Active
<1>5. CASE Upsert
  <2>1. /\ step = "extract" /\ step' = "file"
        /\ rows' = (rows \ At(dir, text[1])) \cup {RowOf(dir, text[1], text[2], root)}
        /\ UNCHANGED <<tree, hand, root, dirs, dir, list, seen, stale, disturbed>>
    BY <1>5 DEF Upsert, RowOf
  <2>2. dir \in Dirs /\ text[1] \in Documents /\ text[2] \in Nat /\ root \in Dirs
    BY <2>1 DEF IndexTyped, Active
  <2>3. rows' \subseteq Rows
        /\ \A r, s \in rows' : r.dir = s.dir /\ r.file = s.file => r = s
    BY <2>1, <2>2, UpsertRows
  <2>4. QED
    BY <1>0, <2>1, <2>3 DEF IndexTyped, IndexSteps, Active
<1>6. CASE NextDir
  BY <1>0, <1>6 DEF NextDir, IndexTyped, IndexSteps, Active
<1>7. CASE Select /\ step' = "prune"
  <2>1. /\ step = "file" /\ UNCHANGED <<tree, rows, hand, root, dirs, list, seen, disturbed>>
        /\ stale' \subseteq rows
    BY <1>7 DEF Select, JobEnds
  <2>2. QED
    BY <1>0, <1>7, <2>1 DEF IndexTyped, IndexSteps, Active
<1>8. CASE Fail \/ Cancelled \/ (Select /\ step' # "prune") \/ Prune \/ Stop
  <2>1. /\ rows' \subseteq rows /\ UNCHANGED <<tree, disturbed>>
        /\ hand' = hand \/ hand' = NoMove
        /\ JobEnds("off") \/ JobEnds("done")
    BY <1>8 DEF Fail, Cancelled, Select, Prune, Stop
  <2>2. QED
    BY <1>0, <2>1 DEF JobEnds, IndexTyped, IndexSteps, Active
<1>9. CASE Cancel
  BY <1>0, <1>9 DEF Cancel, IndexTyped, Active
<1>11. CASE Change
  <2>1. PICK f \in Documents : EditFile(f) \/ Take(f) \/ \E d \in Dirs \cup {Gone} : MoveFile(f, d)
    BY <1>11 DEF Change
  <2>2. disturbed' = TRUE /\ UNCHANGED <<rows, job>>
    BY <1>11 DEF Change
  <2>3. CASE EditFile(f)
    BY <1>0, <2>2, <2>3 DEF EditFile, IndexTyped, Active
  <2>4. CASE Take(f)
    <3>1. at' \in [Documents -> Dirs \cup {Gone}]
      BY <2>4 DEF Take, IndexTyped
    <3>2. QED
      BY <1>0, <2>2, <2>4, <3>1 DEF Take, IndexTyped, Active
  <2>5. ASSUME NEW d \in Dirs \cup {Gone}, MoveFile(f, d) PROVE IndexTyped'
    <3>1. at[f] \in Dirs
      BY <2>5 DEF MoveFile, IndexTyped
    <3>2. QED
      BY <2>2, <2>5, <3>1 DEF MoveFile, HandTyped, IndexTyped, Active
  <2>6. QED
    BY <2>1, <2>3, <2>4, <2>5
<1>12. CASE Note
  <2>1. hand[1] \in Documents /\ hand[2] \in Dirs /\ hand[3] \in Dirs \cup {Gone}
    BY <1>12 DEF Note, HandTyped, IndexTyped
  <2>2. /\ hand' = NoMove /\ disturbed' = TRUE /\ UNCHANGED <<tree, job>>
        /\ rows' = Noted(hand[1], hand[2], hand[3])
    BY <1>12 DEF Note
  <2>3. rows' \subseteq Rows
        /\ \A r, s \in rows' : r.dir = s.dir /\ r.file = s.file => r = s
    BY <2>1, <2>2, NotedRows
  <2>4. QED
    BY <1>0, <2>2, <2>3 DEF IndexTyped, Active
<1>13. CASE UNCHANGED indexVars
  BY <1>0, <1>13 DEF indexVars, IndexTyped, Active
<1>14. QED
  BY <1>1, <1>2, <1>3, <1>4, <1>5, <1>6, <1>7, <1>8, <1>9, <1>11, <1>12, <1>13
  DEF IndexNext, Build

\* The next folder is before the build, with all its files and, as deep as the build
\* goes, all its subfolders.
LEMMA OpenFollows == ASSUME IndexTyped, Following, Open PROVE Following'
<1>1. PICK d \in dirs :
         /\ dir' = d /\ list' \subseteq Present(d)
         /\ partial' \/ (/\ list' = Present(d) /\ dirs' = (dirs \ {d}) \cup Subfolders(d)
                        /\ partial' = partial)
  BY DEF Open, Rest
<1>2. /\ step = "open" /\ step' = "file"
      /\ UNCHANGED <<tree, rows, hand, root, full, text, seen, stale>>
  BY DEF Open
<1>3. SeenRight'
  BY <1>2 DEF Following, SeenRight, Active, HasRow, At
<1>4. ListRight' /\ TextRight' /\ PruneRight' /\ DoneRight'
  BY <1>1, <1>2 DEF ListRight, Present, TextRight, PruneRight, DoneRight
<1>5. Covered'
  <2> SUFFICES ASSUME full, ~partial', NEW f \in Documents, at[f] \in Reach(root)
               PROVE  \/ \E e \in dirs' : at[f] \in Below[e]
                      \/ at[f] = dir' /\ f \in list'
                      \/ <<at[f], f>> \in seen
    BY <1>2 DEF Covered, Reach
  <2>1. (\E e \in dirs : at[f] \in Below[e]) \/ <<at[f], f>> \in seen
    BY <1>1, <1>2 DEF Following, Covered
  <2>2. ASSUME at[f] \in Below[d], at[f] # d PROVE \E e \in dirs' : at[f] \in Below[e]
    <3>1. d \in Dirs /\ root \in Dirs
      BY <1>2 DEF IndexTyped, Active
    <3>2. PICK c \in Below[d] : Depth[c] = Depth[d] + 1 /\ at[f] \in Below[c]
      BY <2>2, <3>1, TreeAssumption
    <3>3. c \in Dirs
      BY <3>1, TreeAssumption
    <3>4. Depth[c] <= Depth[at[f]] /\ at[f] \in Dirs
      BY <3>2, <3>3, TreeAssumption
    <3>5. Depth[at[f]] < Depth[root] + MaxDepth
      BY DEF Reach
    <3>6. Depth[c] \in Nat /\ Depth[at[f]] \in Nat /\ Depth[root] \in Nat /\ MaxDepth \in Nat
      BY <3>1, <3>3, <3>4, TreeAssumption, IndexerAssumption
    <3>7. Depth[c] < Depth[root] + MaxDepth
      BY <3>4, <3>5, <3>6
    <3>8. c \in Subfolders(d)
      BY <3>2, <3>7 DEF Subfolders
    <3>9. QED
      BY <1>1, <3>2, <3>8
  <2>3. at[f] = d => f \in list'
    BY <1>1 DEF Present
  <2>4. QED
    BY <1>1, <2>1, <2>2, <2>3
<1>6. QED
  BY <1>2, <1>3, <1>4, <1>5 DEF Following

\* A file of the list is passed over, or its text is taken.
LEMMA LookFollows == ASSUME IndexTyped, Following, Look PROVE Following'
<1>1. PICK f \in list :
         /\ list' = list \ {f} /\ seen' = seen \cup {<<dir, f>>}
         /\ IF at[f] = dir /\ ~Unchanged(f)
            THEN step' = "extract" /\ text' = <<f, stamp[f]>>
            ELSE UNCHANGED <<step, text>>
  BY DEF Look
<1>2. /\ step = "file"
      /\ UNCHANGED <<tree, rows, hand, root, full, partial, dirs, dir, stale>>
  BY DEF Look
<1>3. f \in Documents /\ dir \in Dirs /\ at[f] = dir
  BY <1>2 DEF Following, ListRight, IndexTyped
<1>4. \/ step' = "extract" /\ text' = <<f, stamp[f]>> /\ ~HasRow(dir, f)
      \/ step' = "file" /\ text' = text /\ HasRow(dir, f)
  BY <1>1, <1>2, <1>3 DEF Unchanged, HasRow
<1>5. SeenRight'
  <2> SUFFICES ASSUME NEW d \in Dirs, NEW g \in Documents, <<d, g>> \in seen'
               PROVE  /\ at[g] = d
                      /\ \/ HasRow(d, g)
                         \/ step' = "extract" /\ text'[1] = g
    BY <1>2 DEF SeenRight, HasRow, At
  <2>1. CASE <<d, g>> \in seen
    BY <1>2, <2>1 DEF Following, SeenRight, Active
  <2>2. CASE d = dir /\ g = f
    BY <1>3, <1>4, <2>2
  <2>3. QED
    BY <1>1, <2>1, <2>2
<1>6. TextRight'
  BY <1>1, <1>2, <1>3, <1>4 DEF TextRight, HasRow, At
<1>7. ListRight'
  BY <1>1, <1>2 DEF Following, ListRight
<1>8. Covered'
  BY <1>1, <1>2, <1>4 DEF Following, Covered, Reach
<1>9. PruneRight' /\ DoneRight'
  BY <1>4 DEF PruneRight, DoneRight
<1>10. QED
  BY <1>2, <1>5, <1>6, <1>7, <1>8, <1>9 DEF Following

\* The row that is written is that of the file as it is; what was right stays.
LEMMA UpsertFollows ==
    ASSUME IndexTyped, Following, Upsert
    PROVE  Following' /\ \A r \in rows : Right(r) => r \in rows'
<1> DEFINE g == text[1]
           n == text[2]
<1>1. /\ step = "extract" /\ step' = "file"
      /\ rows' = (rows \ At(dir, g)) \cup {RowOf(dir, g, n, root)}
      /\ UNCHANGED <<tree, hand, root, full, partial, dirs, dir, list, seen, stale>>
  BY DEF Upsert, RowOf
<1>2. dir \in Dirs /\ g \in Documents /\ n \in Nat /\ root \in Dirs
  BY <1>1 DEF IndexTyped, Active
<1>3. n = stamp[g] /\ at[g] = dir
  BY <1>1 DEF Following, TextRight
<1>4. /\ RowOf(dir, g, n, root) \in rows'
      /\ \A r \in rows : r.dir # dir \/ r.file # g => r \in rows'
  <2> HIDE DEF g, n
  <2>1. QED
    BY <1>1, <1>2, UpsertRows
<1>5. SeenRight'
  <2> SUFFICES ASSUME NEW d \in Dirs, NEW f \in Documents, <<d, f>> \in seen
               PROVE  at[f] = d /\ \E r \in rows' : r.dir = d /\ r.file = f /\ r.sig = stamp[f]
    BY <1>1 DEF SeenRight, HasRow, At
  <2>1. at[f] = d /\ (HasRow(d, f) \/ g = f)
    BY <1>1 DEF Following, SeenRight, Active
  <2>2. CASE f = g
    BY <1>3, <1>4, <2>1, <2>2 DEF RowOf
  <2>3. CASE f # g
    BY <1>4, <2>1, <2>3 DEF HasRow, At
  <2>4. QED
    BY <2>2, <2>3
<1>6. TextRight' /\ ListRight' /\ Covered' /\ PruneRight' /\ DoneRight'
  BY <1>1 DEF Following, TextRight, ListRight, Covered, PruneRight, DoneRight, Reach
<1>7. ASSUME NEW r \in rows, Right(r) PROVE r.dir # dir \/ r.file # g
  BY <1>1, <1>7 DEF Following, TextRight, HasRow, At, Right
<1>8. QED
  BY <1>1, <1>4, <1>5, <1>6, <1>7 DEF Following

\* When nothing is left to look at, every file within reach was seen.
LEMMA SelectFollows == ASSUME IndexTyped, Following, Select PROVE Following'
<1>1. /\ step = "file" /\ list = {} /\ dirs = {}
      /\ UNCHANGED <<tree, rows, hand, root, full, partial>>
      /\ \/ /\ full /\ ~partial /\ step' = "prune" /\ seen' = seen
            /\ stale' = {r \in rows : r.root = root /\ <<r.dir, r.file>> \notin seen}
         \/ ~(full /\ ~partial) /\ step' = "done"
  BY DEF Select, MayPrune, JobEnds
<1>2. SeenRight'
  BY <1>1 DEF Following, SeenRight, Active, HasRow, At
<1>3. TextRight' /\ ListRight' /\ Covered'
  BY <1>1 DEF TextRight, ListRight, Covered
<1>4. PruneRight'
  BY <1>1 DEF Following, Covered, PruneRight, Reach
<1>5. DoneRight'
  BY <1>1 DEF DoneRight
<1>6. QED
  BY <1>1, <1>2, <1>3, <1>4, <1>5 DEF Following

\* What is pruned is what was not seen of the rows under the folder.
LEMMA PruneFollows ==
    ASSUME IndexTyped, Following, Prune
    PROVE  /\ Following'
           /\ \A r \in rows : Right(r) /\ r.dir \in Reach(r.root) => r \in rows'
<1>1. /\ step = "prune" /\ step' = "done"
      /\ rows' = {r \in rows : \A s \in stale : r.dir # s.dir \/ r.file # s.file}
      /\ UNCHANGED <<tree, hand, root, full, partial>>
  BY DEF Prune, JobEnds
<1>2. ASSUME NEW r \in rows
      PROVE  r \in rows' <=> r.root # root \/ <<r.dir, r.file>> \in seen
  <2>1. stale = {q \in rows : q.root = root /\ <<q.dir, q.file>> \notin seen}
    BY <1>1 DEF Following, PruneRight
  <2>2. \A s \in stale : r.dir = s.dir /\ r.file = s.file => r = s
    BY <2>1 DEF IndexTyped
  <2>3. QED
    BY <1>1, <2>1, <2>2
<1>3. ASSUME NEW f \in Documents, at[f] \in Reach(root) PROVE HasRow(at[f], f)'
  <2>1. <<at[f], f>> \in seen /\ at[f] \in Dirs
    BY <1>1, <1>3 DEF Following, PruneRight, IndexTyped
  <2>2. PICK r \in rows : r.dir = at[f] /\ r.file = f /\ r.sig = stamp[f]
    BY <1>1, <2>1 DEF Following, SeenRight, Active, HasRow, At
  <2>3. QED
    BY <1>1, <1>2, <2>1, <2>2 DEF HasRow, At
<1>4. ASSUME NEW r \in rows', r.root = root PROVE Right(r)
  <2>1. r \in rows /\ r \in Rows /\ <<r.dir, r.file>> \in seen
    BY <1>1, <1>2, <1>4 DEF IndexTyped
  <2>2. r.dir \in Dirs /\ r.file \in Documents
    BY <2>1 DEF Rows
  <2>3. at[r.file] = r.dir /\ HasRow(r.dir, r.file)
    BY <1>1, <2>1, <2>2 DEF Following, SeenRight, Active
  <2>4. QED
    BY <2>1, <2>3 DEF IndexTyped, HasRow, At, Right
<1>5. DoneRight'
  BY <1>1, <1>3, <1>4 DEF DoneRight, Reach, Right
<1>6. Following'
  BY <1>1, <1>5 DEF Following, SeenRight, Active, TextRight, ListRight, Covered, PruneRight
<1>7. ASSUME NEW r \in rows, Right(r), r.dir \in Reach(r.root) PROVE r \in rows'
  <2>1. r.file \in Documents
    BY DEF IndexTyped, Rows
  <2>2. r.root = root => <<r.dir, r.file>> \in seen
    BY <1>1, <1>7, <2>1 DEF Following, PruneRight, Right
  <2>3. QED
    BY <1>2, <2>2
<1>8. QED
  BY <1>6, <1>7

\* What every step of a build that is left alone keeps.
LEMMA IndexNextInv == IndexInv /\ [IndexNext]_indexVars => IndexInv'
<1> SUFFICES ASSUME IndexInv, [IndexNext]_indexVars, ~disturbed' PROVE Following'
  BY IndexTypedNext DEF IndexInv
<1>1. IndexTyped /\ (~disturbed => Following)
  BY DEF IndexInv
<1>2. CASE Start
  <2>1. hand' = NoMove /\ step' = "open" /\ seen' = {} /\ dirs' = {root'} /\ UNCHANGED tree
    BY <1>1, <1>2 DEF Start, IndexTyped, Active
  <2>2. QED
    BY <2>1
    DEF Following, SeenRight, TextRight, ListRight, Covered, PruneRight, DoneRight, Reach
<1>3. CASE Build
  <2>1. UNCHANGED disturbed
    BY <1>3 DEF Build, Open, Truncate, Look, Upsert, NextDir, Cancelled, Select, Prune
  <2>2. Following
    BY <1>1, <2>1
  <2>3. CASE Truncate
    BY <2>2, <2>3
    DEF Truncate, Following, SeenRight, TextRight, ListRight, Covered, PruneRight, DoneRight,
        Active, HasRow, At, Reach
  <2>4. CASE NextDir
    BY <2>2, <2>4
    DEF NextDir, Following, SeenRight, TextRight, ListRight, Covered, PruneRight, DoneRight,
        Active, HasRow, At, Reach
  <2>5. CASE Cancelled
    BY <2>2, <2>5
    DEF Cancelled, Following, SeenRight, TextRight, ListRight, Covered, PruneRight, DoneRight,
        Active, HasRow, At, Reach, JobEnds
  <2>6. QED
    BY <1>1, <1>3, <2>2, <2>3, <2>4, <2>5, OpenFollows, LookFollows, UpsertFollows,
       SelectFollows, PruneFollows DEF Build
<1>4. CASE Fail \/ Stop
  <2>1. step' = "off" /\ (hand' = hand \/ hand' = NoMove) /\ ~disturbed
    BY <1>4 DEF Fail, Stop, JobEnds
  <2>2. QED
    BY <1>1, <2>1
    DEF Active, Following, SeenRight, TextRight, ListRight, Covered, PruneRight, DoneRight
<1>5. CASE Cancel \/ UNCHANGED indexVars
  <2>1. ~disturbed
        /\ UNCHANGED <<tree, rows, hand, step, root, full, partial, dirs, dir, list, text,
                       seen, stale>>
    BY <1>5 DEF Cancel, indexVars
  <2>2. QED
    BY <1>1, <2>1
    DEF Following, SeenRight, TextRight, ListRight, Covered, PruneRight, DoneRight, Active,
        HasRow, At, Reach, Right
<1>6. CASE Change \/ Note
  BY <1>6 DEF Change, Note
<1>7. QED
  BY <1>2, <1>3, <1>4, <1>5, <1>6 DEF IndexNext

\* After a complete build that was left alone every file within its reach has its right
\* row, and every row under its folder is right, whatever earlier builds, cancels, stops
\* and moves have left in the index.
THEOREM IndexSafe == IndexSpec => []CompleteBuildExact
<1>1. IndexInv => CompleteBuildExact
  <2> SUFFICES ASSUME IndexInv, Complete
               PROVE  /\ \A f \in Documents :
                            at[f] \in Reach(root) => \E r \in At(at[f], f) : Right(r)
                      /\ \A r \in rows : r.root = root => Right(r)
    BY DEF CompleteBuildExact
  <2>1. DoneRight /\ step = "done" /\ full /\ ~partial
    BY DEF IndexInv, Following, Complete
  <2>2. QED
    BY <2>1 DEF DoneRight, HasRow, At, Right
<1>2. QED
  BY <1>1, IndexInitInv, IndexNextInv, PTL DEF IndexSpec

\* No step of a build, complete or not, drops the row of a file that is there as before,
\* and not deeper than a build goes under the folder the row is filed under.
THEOREM SearchSafe == IndexSpec => BuildKeepsFiles
<1> DEFINE Kept == ~disturbed /\ hand = NoMove =>
                      \A r \in rows : Right(r) /\ r.dir \in Reach(r.root) => r \in rows'
<1>1. ASSUME IndexInv, [IndexNext]_indexVars PROVE Kept
  <2> SUFFICES ASSUME ~disturbed, hand = NoMove,
                      NEW r \in rows, Right(r), r.dir \in Reach(r.root)
               PROVE  r \in rows'
    OBVIOUS
  <2>1. IndexTyped /\ Following
    BY <1>1 DEF IndexInv
  <2>2. CASE Upsert
    BY <2>1, <2>2, UpsertFollows
  <2>3. CASE Prune
    BY <2>1, <2>3, PruneFollows
  <2>4. CASE Note
    BY <2>4 DEF Note
  <2>5. CASE ~Upsert /\ ~Prune /\ ~Note
    <3>1. rows' = rows
      BY <1>1, <2>5
      DEF IndexNext, Build, Start, Open, Truncate, Look, NextDir, Cancelled, Select, Fail,
          Cancel, Stop, Change, indexVars
    <3>2. QED
      BY <3>1
  <2>6. QED
    BY <2>2, <2>3, <2>4, <2>5
<1>2. QED
  BY <1>1, IndexInitInv, IndexNextInv, PTL DEF IndexSpec, BuildKeepsFiles

=============================================================================
