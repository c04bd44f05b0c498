------------------------------ MODULE Indexer ------------------------------
(***************************************************************************)
(* The content index (tools/indexer.py): a build goes through a folder and  *)
(* its subfolders file by file, then prunes the rows under that folder of  *)
(* what it did not see; every move of the program corrects the index by    *)
(* itself.  Documents are moved, edited and removed while a build runs; it *)
(* is cancelled or meets its limits; the process stops.                    *)
(***************************************************************************)
EXTENDS Naturals, FiniteSets

CONSTANTS
    Documents,
    Dirs,
    Below,          \* of each folder, itself and all in it
    Depth,
    Home,           \* the authorized folder it lies in (sandbox_root_for)
    MaxDepth,       \* max_depth of a recursive build
    Gone,
    MaxChanges      \* bound: changes of the disk

ASSUME IndexerAssumption ==
    /\ Gone \notin Dirs /\ IsFiniteSet(Documents) /\ IsFiniteSet(Dirs)
    /\ Home \in [Dirs -> Dirs] /\ MaxDepth \in Nat \ {0}

\* The folders are a forest: what lies in a folder lies in it or in one of its subfolders.
ASSUME TreeAssumption ==
    /\ Below \in [Dirs -> SUBSET Dirs] /\ Depth \in [Dirs -> Nat]
    /\ \A d \in Dirs : d \in Below[d] /\ \A e \in Below[d] : Depth[d] <= Depth[e]
    /\ \A d \in Dirs : \A e \in Below[d] \ {d} :
          \E c \in Below[d] : Depth[c] = Depth[d] + 1 /\ e \in Below[c]

NoMove == <<>>
Rows == [dir : Dirs, file : Documents, sig : Nat, root : Dirs]

VARIABLES
    at, stamp,      \* the disk: each file's folder, its size and mtime
    rows,           \* content_index with content_index_fts
    hand,           \* a move that is done and not yet noted in the index
    step,           \* off, open, file, extract, prune, done
    root,           \* the job: the folder it was asked for
    full, partial,  \* recursive; truncated or unreadable
    cancel, dirs,   \* dirs: the stack of folders to visit
    dir, list, text, seen, stale,
    changes,
    disturbed       \* history: the disk or a row changed during the build

tree == <<at, stamp>>
walk == <<dirs, dir, list, text, seen, stale>>
job == <<step, root, full, partial, cancel, walk>>
indexVars == <<tree, rows, hand, job, changes, disturbed>>

Present(d) == {f \in Documents : at[f] = d}

\* The row says what the disk says.
Right(r) == at[r.file] = r.dir /\ stamp[r.file] = r.sig

IndexInit ==
    /\ at \in [Documents -> Dirs] /\ stamp = [f \in Documents |-> 0] /\ rows = {} /\ hand = NoMove
    /\ step = "off" /\ root = Gone /\ full = FALSE /\ partial = FALSE /\ cancel = FALSE
    /\ dirs = {} /\ dir = Gone /\ list = {} /\ text = NoMove /\ seen = {} /\ stale = {}
    /\ changes = 0 /\ disturbed = FALSE

-----------------------------------------------------------------------------
\* start_index, of any folder, one build at a time.
Start ==
    /\ step \in {"off", "done"} /\ step' = "open"
    /\ root' \in Dirs /\ full' \in BOOLEAN /\ dirs' = {root'}
    /\ partial' = FALSE /\ cancel' = FALSE /\ disturbed' = (hand # NoMove)
    /\ UNCHANGED <<tree, rows, hand, changes, dir, list, text, seen, stale>>

\* What the thread of the job has in hand is gone once it ends.
JobEnds(s) ==
    /\ step' = s /\ dirs' = {} /\ dir' = Gone /\ list' = {} /\ text' = NoMove
    /\ seen' = {} /\ stale' = {}

\* The folders a recursive build of d goes down to.
Reach(d) == {e \in Below[d] : Depth[e] < Depth[d] + MaxDepth}

\* The subfolders that go onto the stack; beyond max_depth none does, and nothing notes it.
Subfolders(d) ==
    {c \in Below[d] : /\ Depth[c] = Depth[d] + 1
                     /\ Depth[c] < Depth[root] + (IF full THEN MaxDepth ELSE 1)}

\* Mutant: the folder is looked at, but stays on the stack.
RestKept(d) == dirs
Rest(d) == dirs \ {d}

\* _iter_indexable: the next folder is listed, or it or some of its entries cannot be.
Open ==
    /\ step = "open" /\ ~cancel /\ step' = "file"
    /\ \E d \in dirs :
          /\ dir' = d
          /\ \/ /\ list' = Present(d) /\ dirs' = Rest(d) \cup Subfolders(d)
                /\ UNCHANGED partial
             \/ /\ list' \in SUBSET Present(d) /\ partial' = TRUE
                /\ \E C \in SUBSET Subfolders(d) : dirs' = Rest(d) \cup C
    /\ UNCHANGED <<tree, rows, hand, root, full, cancel, text, seen, stale, changes,
                   disturbed>>

\* max_files is reached: the rest is not looked at.
Truncate ==
    /\ step = "file" /\ list # {} /\ ~cancel
    /\ partial' = TRUE /\ list' = {} /\ dirs' = {}
    /\ UNCHANGED <<tree, rows, hand, step, root, full, cancel, dir, text, seen, stale,
                   changes, disturbed>>

At(d, f) == {r \in rows : r.dir = d /\ r.file = f}

\* Mutant: a file that has a row is taken as unchanged.
UnchangedByPath(f) == At(dir, f) # {}

\* A row with the size and mtime of the file is kept, under whichever root it is.
Unchanged(f) == \E r \in At(dir, f) : r.sig = stamp[f]

\* _index_file up to the extraction of the text.
Look ==
    /\ step = "file" /\ ~cancel
    /\ \E f \in list :
          /\ list' = list \ {f} /\ seen' = seen \cup {<<dir, f>>}
          /\ IF at[f] = dir /\ ~Unchanged(f)
             THEN step' = "extract" /\ text' = <<f, stamp[f]>>
             ELSE UNCHANGED <<step, text>>
    /\ UNCHANGED <<tree, rows, hand, root, full, partial, cancel, dirs, dir, stale,
                   changes, disturbed>>

\* _upsert, with what stat said before.
Upsert ==
    /\ step = "extract" /\ step' = "file" /\ text' = NoMove
    /\ rows' = (rows \ At(dir, text[1]))
                 \cup {[dir |-> dir, file |-> text[1], sig |-> text[2], root |-> root]}
    /\ UNCHANGED <<tree, hand, root, full, partial, cancel, dirs, dir, list, seen, stale,
                   changes, disturbed>>

NextDir ==
    /\ step = "file" /\ list = {} /\ dirs # {} /\ step' = "open"
    /\ UNCHANGED <<tree, rows, hand, root, full, partial, cancel, dirs, dir, list, text, seen,
                   stale, changes, disturbed>>

\* The database fails under the job.
Fail ==
    /\ step \in {"file", "extract", "prune"} /\ JobEnds("off")
    /\ UNCHANGED <<tree, rows, hand, root, full, partial, cancel, changes, disturbed>>

\* The cancel event is looked at before every file and at the end.
Cancelled ==
    /\ step \in {"open", "file"} /\ cancel /\ JobEnds("off")
    /\ UNCHANGED <<tree, rows, hand, root, full, partial, cancel, changes, disturbed>>

\* Mutant: whatever was visited, the rest is pruned.
MayPruneAlways == TRUE

\* Only a build that went through everything knows what is gone; what lies deeper than
\* max_depth does not count.
MayPrune == full /\ ~partial

\* The stale rows under the job's folder are selected ...
Select ==
    /\ step = "file" /\ list = {} /\ dirs = {} /\ ~cancel
    /\ IF MayPrune
       THEN /\ step' = "prune"
            /\ stale' = {r \in rows : r.root = root /\ <<r.dir, r.file>> \notin seen}
            /\ UNCHANGED <<dirs, dir, list, text, seen>>
       ELSE JobEnds("done")
    /\ UNCHANGED <<tree, rows, hand, root, full, partial, cancel, changes, disturbed>>

\* ... and deleted by their paths.
Prune ==
    /\ step = "prune" /\ JobEnds("done")
    /\ rows' = {r \in rows : \A s \in stale : r.dir # s.dir \/ r.file # s.file}
    /\ UNCHANGED <<tree, hand, root, full, partial, cancel, changes, disturbed>>

Cancel ==
    /\ step \notin {"off", "done"} /\ ~cancel /\ cancel' = TRUE
    /\ UNCHANGED <<tree, rows, hand, step, root, full, partial, dirs, dir, list, text, seen,
                   stale, changes, disturbed>>

\* The rows stay, the job and a move that was not noted are forgotten.
Stop ==
    /\ changes < MaxChanges /\ changes' = changes + 1
    /\ JobEnds("off") /\ hand' = NoMove
    /\ UNCHANGED <<tree, rows, root, full, partial, cancel, disturbed>>

-----------------------------------------------------------------------------
\* A move or delete by the program, to be noted; Gone is the trash.
MoveFile(f, d) ==
    /\ hand = NoMove /\ at[f] \notin {Gone, d}
    /\ at' = [at EXCEPT ![f] = d] /\ hand' = <<f, at[f], d>> /\ UNCHANGED stamp

\* Another program edits a file, or takes it away or back.
EditFile(f) ==
    at[f] # Gone /\ stamp' = [stamp EXCEPT ![f] = @ + 1] /\ UNCHANGED <<at, hand>>

Take(f) ==
    /\ IF at[f] = Gone THEN \E d \in Dirs : at' = [at EXCEPT ![f] = d]
       ELSE at' = [at EXCEPT ![f] = Gone]
    /\ UNCHANGED <<stamp, hand>>

Change ==
    /\ changes < MaxChanges /\ changes' = changes + 1 /\ disturbed' = TRUE
    /\ \E f \in Documents : EditFile(f) \/ Take(f) \/ \E d \in Dirs \cup {Gone} : MoveFile(f, d)
    /\ UNCHANGED <<rows, job>>

\* A row stays under its folder if that still contains it.
Refiled(r, new) ==
    [dir |-> new, file |-> r.file, sig |-> r.sig,
     root |-> IF new \in Below[r.root] THEN r.root ELSE Home[new]]

\* note_path_moved and note_path_removed: the row goes along with the file.
Noted(f, old, new) ==
    IF At(old, f) = {} THEN rows
    ELSE (rows \ (At(old, f) \cup (IF new = Gone THEN {} ELSE At(new, f))))
           \cup {Refiled(r, new) : r \in IF new = Gone THEN {} ELSE At(old, f)}

Note ==
    /\ hand # NoMove /\ hand' = NoMove /\ disturbed' = TRUE
    /\ rows' = Noted(hand[1], hand[2], hand[3])
    /\ UNCHANGED <<tree, job, changes>>

Build == Open \/ Truncate \/ Look \/ Upsert \/ NextDir \/ Cancelled \/ Select \/ Prune

IndexNext == Start \/ Build \/ Fail \/ Cancel \/ Stop \/ Change \/ Note

IndexSpec == IndexInit /\ [][IndexNext]_indexVars
IndexFairSpec == IndexSpec /\ WF_indexVars(Build)

-----------------------------------------------------------------------------
\* Types; a path has one row.
IndexTypeOK ==
    /\ at \in [Documents -> Dirs \cup {Gone}] /\ stamp \in [Documents -> Nat]
    /\ rows \subseteq Rows
    /\ \A r, s \in rows : r.dir = s.dir /\ r.file = s.file => r = s
    /\ step \in {"off", "open", "file", "extract", "prune", "done"}
    /\ seen \subseteq Dirs \X Documents /\ stale \subseteq Rows

Complete == step = "done" /\ full /\ ~partial /\ ~disturbed

\* After a complete build that was left alone, every file it could reach is found with
\* its present text, and no row filed under its folder is of a file that is not there,
\* whatever earlier builds, cancels, stops and moves have left in the index.  (Rows filed
\* under another folder are not looked at, indexer.py:452.)
CompleteBuildExact ==
    Complete =>
        /\ \A f \in Documents :
              at[f] \in Reach(root) => \E r \in At(at[f], f) : Right(r)
        /\ \A r \in rows : r.root = root => Right(r)

\* A build never makes a file disappear from the search that is there as before and
\* within reach of the folder it is filed under: not one that was cancelled, met a limit
\* or could not read a folder.  (What a move has filed below the depth at which the walk
\* turns back, indexer.py:398, is pruned.)
BuildKeepsFiles ==
    [][~disturbed /\ hand = NoMove =>
          \A r \in rows : Right(r) /\ r.dir \in Reach(r.root) => r \in rows']_indexVars

\* A build ends: it is cancelled or gets through its folders.
BuildEnds == step # "off" ~> step \in {"off", "done"}
=============================================================================
