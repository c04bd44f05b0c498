------------------------------ MODULE Watcher ------------------------------
(***************************************************************************)
(* One rule that sorts the files of a folder (tools/watcher.py and its     *)
(* tables in db.py).  The watcher's thread and the user's "run now" each   *)
(* make passes: read the rule, look at the folder, move what has settled   *)
(* and is not recorded yet, file by file, recording each.  Meanwhile files *)
(* arrive, are written and rolled back, the rule is switched off or        *)
(* deleted, and the process stops.                                         *)
(***************************************************************************)
EXTENDS Naturals, FiniteSets

CONSTANTS
    Files,
    Threshold,      \* batch_approval_threshold
    MaxOutside      \* bound: edits, roll-backs, stops and failed statements

ASSUME WatcherAssumption ==
    IsFiniteSet(Files) /\ Threshold \in Nat \ {0} /\ MaxOutside \in Nat

Passes == {"loop", "manual"}
Unseen == [sig |-> 0, aged |-> FALSE, seen |-> FALSE]
Nothing == <<>>

VARIABLES
    rule,           \* on, off or deleted
    place,          \* absent, inbox (the rule's folder) or sorted
    sig,            \* size and mtime of the file
    obs,            \* _observations: what was seen, and whether it has aged
    recorded,       \* watch_events
    pc, todo, cur,  \* per pass: its step, what it has still to move, and moves
    outside,
    moves, again,   \* history: what was moved, and what more than once
    exposed,        \* history: moves that were not recorded, or undone in a pass
    edited          \* history: moves of a file written to since it was listed

disk == <<place, sig>>
passes == <<pc, todo, cur>>
history == <<moves, again, exposed, edited>>
watchVars == <<rule, disk, obs, recorded, passes, outside, history>>

WatchInit ==
    /\ rule = "on" /\ place = [f \in Files |-> "absent"] /\ sig = [f \in Files |-> 0]
    /\ obs = [f \in Files |-> Unseen] /\ recorded = {}
    /\ pc = [p \in Passes |-> "idle"] /\ todo = [p \in Passes |-> {}]
    /\ cur = [p \in Passes |-> Nothing] /\ outside = 0
    /\ moves = {} /\ again = {} /\ exposed = {} /\ edited = {}

Inbox == {f \in Files : place[f] = "inbox"}

-----------------------------------------------------------------------------
\* _loop: the rules are read once per round.
Polls == rule = "on"

LoopRead ==
    /\ pc["loop"] = "idle" /\ Polls
    /\ pc' = [pc EXCEPT !["loop"] = "scan"]
    /\ UNCHANGED <<rule, disk, obs, recorded, todo, cur, outside, history>>

\* run_rule_once: the rule need not be on, and its files count as settled.
ManualRead ==
    /\ pc["manual"] = "idle" /\ rule # "deleted"
    /\ pc' = [pc EXCEPT !["manual"] = "scan"]
    /\ obs' = [f \in Files |->
          IF f \in Inbox THEN [sig |-> sig[f], aged |-> TRUE, seen |-> TRUE] ELSE obs[f]]
    /\ UNCHANGED <<rule, disk, recorded, todo, cur, outside, history>>

\* The same signature as at an earlier look.
AsBefore(f) == obs[f].seen /\ obs[f].sig = sig[f]

\* _candidates: what was there before, unchanged, at least settle_seconds ago.
Stable == {f \in Inbox : AsBefore(f) /\ obs[f].aged}

\* What vanished is forgotten, what is new or changed is seen for the first time.
Looked(f) ==
    IF f \notin Inbox THEN Unseen
    ELSE IF AsBefore(f) THEN obs[f] ELSE [sig |-> sig[f], aged |-> FALSE, seen |-> TRUE]

\* Mutant: what is recorded is looked at again.
PendingAgain == {<<f, sig[f]>> : f \in Stable}

Pending == {<<f, sig[f]>> : f \in Stable} \ recorded

TooMany(n) == n > Threshold

\* poll_rule up to its first move: too many at once are left to the user.
Scan(p) ==
    /\ pc[p] = "scan"
    /\ obs' = [f \in Files |-> Looked(f)]
    /\ IF Pending = {} \/ TooMany(Cardinality(Pending))
       THEN pc' = [pc EXCEPT ![p] = "idle"] /\ recorded' = recorded \cup Pending
            /\ UNCHANGED todo
       ELSE pc' = [pc EXCEPT ![p] = "move"] /\ todo' = [todo EXCEPT ![p] = Pending]
            /\ UNCHANGED recorded
    /\ UNCHANGED <<rule, disk, cur, outside, history>>

\* The scan of the folder raises: the loop logs it and goes on with its next round.
ScanFails(p) ==
    /\ pc[p] = "scan" /\ outside < MaxOutside /\ outside' = outside + 1
    /\ pc' = [pc EXCEPT ![p] = "idle"]
    /\ UNCHANGED <<rule, disk, obs, recorded, todo, cur, history>>

\* classify and move one file under its locks (PathLocks), with the signature it has
\* by now, which need not be the one on the list.  It may be gone, and the move may fail.
Move(p) ==
    /\ pc[p] = "move" /\ pc' = [pc EXCEPT ![p] = "record"]
    /\ \E i \in todo[p] :
          /\ cur' = [cur EXCEPT ![p] = i]
          /\ todo' = [todo EXCEPT ![p] = @ \ {i}]
          /\ \/ /\ place[i[1]] = "inbox"
                /\ place' = [place EXCEPT ![i[1]] = "sorted"]
                /\ LET now == <<i[1], sig[i[1]]>> IN
                      /\ moves' = moves \cup {now}
                      /\ again' = again \cup (moves \cap {now})
                      /\ edited' = edited \cup ({now} \ {i})
                /\ UNCHANGED exposed
             \/ UNCHANGED <<place, history>>
    /\ UNCHANGED <<rule, sig, obs, recorded, outside>>

\* Mutant: only what was moved is recorded.
RecordedIfMoved(p) == IF place[cur[p][1]] = "sorted" THEN {cur[p]} ELSE {}
Recorded(p) == {cur[p]}

More(p) == todo[p] # {}

\* record_watch_event, for a move as for a failure, with the signature on the list.
Record(p) ==
    /\ pc[p] = "record"
    /\ recorded' = recorded \cup Recorded(p)
    /\ cur' = [cur EXCEPT ![p] = Nothing]
    /\ pc' = [pc EXCEPT ![p] = IF More(p) THEN "move" ELSE "idle"]
    /\ UNCHANGED <<rule, disk, obs, todo, outside, history>>

-----------------------------------------------------------------------------
\* What the pass of a set of passes loses when it ends here.
Unrecorded(S) == {cur[p] : p \in {q \in S : pc[q] = "record"}}

Ends(S) ==
    /\ pc' = [p \in Passes |-> IF p \in S THEN "idle" ELSE pc[p]]
    /\ todo' = [p \in Passes |-> IF p \in S THEN {} ELSE todo[p]]
    /\ cur' = [p \in Passes |-> IF p \in S THEN Nothing ELSE cur[p]]

\* The statement that records a move raises, and so does the one that records the
\* failure: the pass ends.
RecordFails(p) ==
    /\ pc[p] = "record" /\ outside < MaxOutside /\ outside' = outside + 1
    /\ Ends({p}) /\ exposed' = exposed \cup Unrecorded({p})
    /\ UNCHANGED <<rule, disk, obs, recorded, moves, again, edited>>

Crash ==
    /\ outside < MaxOutside /\ outside' = outside + 1
    /\ Ends(Passes) /\ exposed' = exposed \cup Unrecorded(Passes)
    /\ obs' = [f \in Files |-> Unseen]
    /\ UNCHANGED <<rule, disk, recorded, moves, again, edited>>

\* settle_seconds go by.
Tick ==
    /\ \E f \in Files : obs[f].seen /\ ~obs[f].aged
    /\ obs' = [f \in Files |-> [obs[f] EXCEPT !.aged = obs[f].seen]]
    /\ UNCHANGED <<rule, disk, recorded, passes, outside, history>>

\* A file arrives, is written to, or is rolled back to where it was.
Arrive(f) ==
    /\ place[f] = "absent" /\ place' = [place EXCEPT ![f] = "inbox"]
    /\ UNCHANGED <<rule, sig, obs, recorded, passes, outside, history>>

Edit(f) ==
    /\ f \in Inbox /\ outside < MaxOutside /\ outside' = outside + 1
    /\ sig' = [sig EXCEPT ![f] = @ + 1]
    /\ UNCHANGED <<rule, place, obs, recorded, passes, history>>

\* Passes that have the file in hand do not know of the roll-back.
InHand(f) ==
    LET mine == {i \in (UNION {todo[p] : p \in Passes}) \cup Unrecorded(Passes) : i[1] = f}
    IN  IF mine = {} THEN {} ELSE mine \cup {<<f, sig[f]>>}

RollBack(f) ==
    /\ place[f] = "sorted" /\ outside < MaxOutside /\ outside' = outside + 1
    /\ place' = [place EXCEPT ![f] = "inbox"]
    /\ exposed' = exposed \cup InHand(f)
    /\ UNCHANGED <<rule, sig, obs, recorded, passes, moves, again, edited>>

\* update_rule and delete_rule, which takes the rule's events along.
Switch ==
    /\ rule # "deleted" /\ rule' = IF rule = "on" THEN "off" ELSE "on"
    /\ UNCHANGED <<disk, obs, recorded, passes, outside, history>>

Delete ==
    /\ rule # "deleted" /\ rule' = "deleted" /\ recorded' = {}
    /\ UNCHANGED <<disk, obs, passes, outside, history>>

Work(p) == Scan(p) \/ Move(p) \/ Record(p)

WatchNext ==
    \/ LoopRead \/ ManualRead \/ Crash \/ Tick \/ Switch \/ Delete
    \/ \E p \in Passes : Work(p) \/ ScanFails(p) \/ RecordFails(p)
    \/ \E f \in Files : Arrive(f) \/ Edit(f) \/ RollBack(f)

WatchSpec == WatchInit /\ [][WatchNext]_watchVars

\* The watcher's thread goes on while the program runs, and time passes.
WatchFairSpec ==
    WatchSpec /\ WF_watchVars(LoopRead) /\ WF_watchVars(Work("loop")) /\ WF_watchVars(Tick)

-----------------------------------------------------------------------------
\* Types; a pass has one file at a time in hand, and only while it moves.
WatchTypeOK ==
    /\ rule \in {"on", "off", "deleted"}
    /\ place \in [Files -> {"absent", "inbox", "sorted"}] /\ sig \in [Files -> Nat]
    /\ obs \in [Files -> [sig : Nat, aged : BOOLEAN, seen : BOOLEAN]]
    /\ recorded \subseteq Files \X Nat
    /\ \A p \in Passes :
          /\ pc[p] \in {"idle", "scan", "move", "record"}
          /\ pc[p] = "move" => todo[p] # {}
          /\ pc[p] \in {"idle", "scan"} => todo[p] = {}
          /\ pc[p] = "record" <=> cur[p] # Nothing
          /\ todo[p] \subseteq Files \X Nat

\* A file that was rolled back stays where the user put it: a rule moves no file twice
\* with one size and mtime, over restarts and with two passes at a time.  Three ways
\* round it are left open: the move could not be recorded, a pass had the file in hand
\* at the roll-back (both exposed), or the file was written to between the look and the
\* move, so that the event names another signature (edited).
MovedOnce == rule # "deleted" => again \subseteq exposed \cup edited

\* What watcher.py:6 says of the recorded events: a repeated trigger or a restart does
\* not move the same file again.  The event has the signature of the look
\* (watcher.py:207), the move takes the file as it is by then (watcher.py:206).
EventsHold == rule # "deleted" => again \subseteq exposed

\* The loop reaches every file: while the rule stays on, each file ends up moved or
\* recorded, whatever failed on the way and however often the process stopped.
NothingForgotten ==
    <>[](rule = "on") => <>[](\A f \in Inbox : <<f, sig[f]>> \in recorded)
=============================================================================
