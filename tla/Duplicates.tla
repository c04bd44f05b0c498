---------------------------- MODULE Duplicates ----------------------------
(***************************************************************************)
(* Search for and clean-up of duplicate files (tools/duplicates.py): a     *)
(* scan in a thread of its own collects groups of equal files; a clean-up  *)
(* keeps one file of each chosen group, hashes it and the others again,    *)
(* and moves the others to the trash.  Files are edited meanwhile, and     *)
(* several clean-ups may run.                                              *)
(***************************************************************************)
EXTENDS Naturals, FiniteSets

CONSTANTS
    Copies,         \* paths
    Contents,       \* what files may hold; all of one size
    Cleaners,       \* requests that clean up
    Absent,
    MaxEdits, MaxScans, MaxCleanups     \* bounds

ASSUME DuplicatesAssumption == Absent \notin Contents /\ Absent \notin Copies

VARIABLES
    holds,          \* what each path holds
    scan,           \* status: none, walk, hash (running), completed, cancelled, failed
    stopped,        \* its cancel event
    visit, sized,   \* paths to visit, paths seen
    digests,        \* what was hashed
    groups,         \* of the completed scan
    clean_up,       \* per cleaner: what it is doing
    edits, scans, cleanups,
    before,         \* history: the files as the clean-ups found them
    edited,         \* history: another program changed a file since
    overlap         \* history: two clean-ups ran at once since

scanVars == <<scan, stopped, visit, sized, digests, groups, scans>>
dupVars == <<holds, scanVars, clean_up, cleanups, edits, before, edited, overlap>>

Idle == [step |-> "off", groups |-> {}, hash |-> Absent, items |-> {}, item |-> Absent]

DupInit ==
    /\ holds \in [Copies -> Contents] /\ scan = "none" /\ stopped = FALSE
    /\ visit = {} /\ sized = {} /\ digests = {} /\ groups = {}
    /\ clean_up = [c \in Cleaners |-> Idle] /\ edits = 0 /\ scans = 0 /\ cleanups = 0
    /\ before = holds /\ edited = FALSE /\ overlap = FALSE

Holding(p, x) == holds' = [holds EXCEPT ![p] = x]

\* Another program edits, removes or creates a file.
Edit(p) ==
    /\ edits < MaxEdits /\ edits' = edits + 1
    /\ \E x \in (Contents \cup {Absent}) \ {holds[p]} : Holding(p, x)
    /\ edited' = TRUE
    /\ UNCHANGED <<scanVars, clean_up, cleanups, before, overlap>>

-----------------------------------------------------------------------------
untouchedByScan == <<holds, clean_up, cleanups, edits, before, edited, overlap>>

\* start_scan.
ScanStart ==
    /\ scan \notin {"walk", "hash"} /\ scans < MaxScans /\ scans' = scans + 1
    /\ scan' = "walk" /\ visit' = Copies
    /\ stopped' = FALSE /\ sized' = {} /\ digests' = {} /\ groups' = {}
    /\ UNCHANGED untouchedByScan

ScanCancel ==
    /\ scan \in {"walk", "hash"} /\ stopped' = TRUE
    /\ UNCHANGED <<untouchedByScan, scan, visit, sized, digests, groups, scans>>

\* _iter_files: a cancelled walk ends early.
Walk ==
    /\ scan = "walk" /\ visit # {}
    /\ IF stopped THEN visit' = {} /\ UNCHANGED sized
       ELSE \E p \in visit :
               /\ visit' = visit \ {p}
               /\ sized' = IF holds[p] = Absent THEN sized ELSE sized \cup {p}
    /\ UNCHANGED <<untouchedByScan, scan, stopped, digests, groups, scans>>

\* Files of a size of their own are no candidates.
Sift ==
    /\ scan = "walk" /\ visit = {} /\ scan' = "hash"
    /\ visit' = IF Cardinality(sized) > 1 THEN sized ELSE {}
    /\ UNCHANGED <<untouchedByScan, stopped, sized, digests, groups, scans>>

Digest(p) == <<p, holds[p]>>

\* _hash_stable; a file that cannot be read or does not stand still is left out, and
\* so is one whose first 64 KiB are like no other's.
Hash ==
    /\ scan = "hash" /\ ~stopped
    /\ \E p \in visit :
          /\ visit' = visit \ {p}
          /\ \/ holds[p] # Absent /\ digests' = digests \cup {Digest(p)}
             \/ UNCHANGED digests
    /\ UNCHANGED <<untouchedByScan, scan, stopped, sized, groups, scans>>

\* _build_groups.
ScanEnd ==
    /\ scan = "hash" /\ visit = {} /\ scan' = "completed"
    /\ groups' = {g \in {{d[1] : d \in {e \in digests : e[2] = x}} : x \in Contents} :
                     Cardinality(g) > 1}
    /\ UNCHANGED <<untouchedByScan, stopped, visit, sized, digests, scans>>

\* The cancel is seen before the next file, too many files or an error end the scan.
ScanBreak ==
    /\ \/ scan = "hash" /\ visit # {} /\ stopped /\ scan' = "cancelled"
       \/ scan \in {"walk", "hash"} /\ visit # {} /\ scan' = "failed"
    /\ UNCHANGED <<untouchedByScan, stopped, visit, sized, digests, groups, scans>>

-----------------------------------------------------------------------------
untouchedByCleanUp == <<scanVars, edits, edited>>

Other(c) == \E d \in Cleaners \ {c} : clean_up[d].step # "off"

\* cleanup: the groups are those of the scan, however old.
CleanUpStart(c) ==
    /\ clean_up[c].step = "off" /\ scan = "completed"
    /\ cleanups < MaxCleanups /\ cleanups' = cleanups + 1
    /\ \E chosen \in SUBSET groups \ {{}} :
          clean_up' = [clean_up EXCEPT ![c] = [Idle EXCEPT !.step = "group",
                                                           !.groups = chosen]]
    /\ IF Other(c) THEN overlap' = TRUE /\ UNCHANGED <<before, edited>>
       ELSE overlap' = FALSE /\ before' = holds /\ edited' = FALSE
    /\ UNCHANGED <<holds, scanVars, edits>>

Doing(c, j) == clean_up' = [clean_up EXCEPT ![c] = j]

\* The keeper is read again.
KeeperThere(k) == holds[k] # Absent

\* The keeper, suggested or chosen by the user, is hashed; a group without it is
\* skipped.
CleanUpGroup(c) ==
    LET j == clean_up[c] IN
    /\ j.step = "group"
    /\ \E g \in j.groups, k \in Copies :
          Doing(c, IF k \in g /\ KeeperThere(k)
                   THEN [j EXCEPT !.step = "item", !.groups = @ \ {g}, !.hash = holds[k],
                                  !.items = g \ {k}]
                   ELSE [j EXCEPT !.groups = @ \ {g}])
    /\ UNCHANGED <<holds, untouchedByCleanUp, cleanups, before, overlap>>

\* Mutant: the scan has said that the files are equal.
StillEqualAlways(p, j) == holds[p] # Absent

\* The file is read again.
StillEqual(p, j) == holds[p] = j.hash

CleanUpItem(c) ==
    LET j == clean_up[c] IN
    /\ j.step = "item"
    /\ \E p \in j.items :
          Doing(c, IF StillEqual(p, j)
                   THEN [j EXCEPT !.step = "delete", !.items = @ \ {p}, !.item = p]
                   ELSE [j EXCEPT !.items = @ \ {p}])
    /\ UNCHANGED <<holds, untouchedByCleanUp, cleanups, before, overlap>>

\* delete_file under the lock of the folder; it may fail.
CleanUpDelete(c) ==
    LET j == clean_up[c] IN
    /\ j.step = "delete" /\ Doing(c, [j EXCEPT !.step = "item", !.item = Absent])
    /\ Holding(j.item, Absent) \/ UNCHANGED holds
    /\ UNCHANGED <<untouchedByCleanUp, cleanups, before, overlap>>

CleanUpNext(c) ==
    LET j == clean_up[c] IN
    /\ \/ /\ j.step = "item" /\ j.items = {}
          /\ Doing(c, [j EXCEPT !.step = "group", !.hash = Absent])
       \/ j.step = "group" /\ j.groups = {} /\ Doing(c, Idle)
    /\ UNCHANGED <<holds, untouchedByCleanUp, cleanups, before, overlap>>

DupNext ==
    \/ ScanStart \/ ScanCancel \/ Walk \/ Sift \/ Hash \/ ScanEnd \/ ScanBreak
    \/ \E p \in Copies : Edit(p)
    \/ \E c \in Cleaners : CleanUpStart(c) \/ CleanUpGroup(c) \/ CleanUpItem(c)
                              \/ CleanUpDelete(c) \/ CleanUpNext(c)

DupSpec == DupInit /\ [][DupNext]_dupVars

-----------------------------------------------------------------------------
\* Types; a clean-up deletes nothing it has not compared.
DupTypeOK ==
    /\ holds \in [Copies -> Contents \cup {Absent}]
    /\ scan \in {"none", "walk", "hash", "completed", "cancelled", "failed"}
    /\ groups \subseteq SUBSET Copies
    /\ \A c \in Cleaners : LET j == clean_up[c] IN
          /\ j.step \in {"item", "delete"} <=> j.hash \in Contents
          /\ j.step = "delete" <=> j.item \in Copies

Kept == \A p \in Copies : before[p] # Absent => \E q \in Copies : holds[q] = before[p]

\* However old the scan and whatever was chosen as keepers, in one clean-up or one
\* after the other: the last copy of a content is never deleted.  (Not of clean-ups
\* at the same time: each may keep a copy that the other deletes, duplicates.py:447.)
CopyKept == ~edited /\ ~overlap => Kept
=============================================================================
