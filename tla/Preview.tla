------------------------------ MODULE Preview ------------------------------
(***************************************************************************)
(* One operation preview (tools/preview.py and its row in db.py): built    *)
(* from the disk, confirmed for a selection, claimed, checked and executed *)
(* file by file.  Requests run in the thread pool of the server; a step is *)
(* what lies between two of their accesses to the database or to a file.   *)
(* Other operations and programs change the disk in between, and the       *)
(* process may stop.                                                       *)
(***************************************************************************)
EXTENDS Naturals, Sequences, FiniteSets

CONSTANTS
    Items,          \* files the preview lists
    Categories,     \* folders below the target
    NameOf,         \* the name of each file
    Ops,            \* operations a preview can be made for
    Requests,       \* threads that confirm or execute
    Threshold,      \* batch_approval_threshold
    MaxAsks,        \* bound: confirmations
    MaxEvents       \* bound: changes of the disk from outside

ASSUME PreviewAssumption ==
    /\ IsFiniteSet(Items) /\ Categories # {} /\ Threshold \in Nat
    /\ Ops \subseteq {"move", "classify", "delete"}

Places == Categories \X {NameOf[i] : i \in Items}
Home == <<"home">>    \* where the preview found the file
Away == <<"away">>    \* the trash, or taken elsewhere
Wants == UNION {[S -> Categories] : S \in SUBSET Items}
Grants == [id : Nat, want : Wants, approved : BOOLEAN]
NoGrant == [id |-> 0, want |-> <<>>, approved |-> FALSE]
NoPlan == [i \in Items |-> [status |-> "skipped", stamp |-> 0,
                            category |-> CHOOSE c \in Categories : TRUE]]
Idle == [at |-> "idle", grant |-> NoGrant, left |-> {}]

VARIABLES
    status,         \* the row: none, preview, executing, executed
    op, plan,       \* the row: what to do, and the items
    approval,       \* the row: the last confirmation, and whether it is used
    late,           \* the authorization scope has expired
    where, stamp,   \* the disk: where each file is, its size and mtime
    taken,          \* the disk: target names that other files occupy
    req,            \* each request's step and what it has in hand
    asked, events,
    granted, moves, stopped     \* history

row == <<status, op, plan, approval>>
disk == <<where, stamp, taken>>
vars == <<row, late, disk, req, asked, events, granted, moves, stopped>>

-----------------------------------------------------------------------------
Target(i, c) == <<c, NameOf[i]>>

\* The steps of a request that holds the claim.
Owning == {"verify", "mark", "items"}

Occupied(p) == p \in taken \/ \E j \in Items : where[j] = p

\* authorize_preview_selection: the scope is made from the preview's own
\* folders, so it can only refuse because its time is over.
Authorized == ~late

NeedsApproval(o, want) == o = "delete" \/ Cardinality(DOMAIN want) > Threshold

\* Mutant: only the target is looked at again.
ValidTarget(i, want) == op # "delete" => ~Occupied(Target(i, want[i]))

\* Mutant: only the source is looked at again.
ValidSource(i, want) == where[i] = Home /\ stamp[i] = plan[i].stamp

\* The file is where the preview saw it, unchanged, and its target is free.
Valid(i, want) ==
    /\ where[i] = Home /\ stamp[i] = plan[i].stamp
    /\ op # "delete" => ~Occupied(Target(i, want[i]))

PreviewInit ==
    /\ status = "none" /\ op = "none" /\ plan = NoPlan
    /\ approval = [grant |-> NoGrant, used |-> FALSE] /\ late = FALSE
    /\ where = [i \in Items |-> Home] /\ stamp = [i \in Items |-> 0] /\ taken = {}
    /\ req = [r \in Requests |-> Idle] /\ asked = 0 /\ events = 0
    /\ granted = {} /\ moves = <<>> /\ stopped = FALSE

-----------------------------------------------------------------------------
\* build_items: every file with the category the rules or the model find for it.
Planned(o, i, c) ==
    [status |-> IF where[i] # Home THEN "skipped"
                ELSE IF o # "delete" /\ Occupied(Target(i, c)) THEN "conflict"
                ELSE "ready",
     stamp |-> stamp[i], category |-> c]

\* create
Create ==
    /\ status = "none" /\ status' = "preview"
    /\ \E o \in Ops : \E found \in [Items -> Categories] :
          /\ o # "classify" => found = [i \in Items |-> NoPlan[i].category]
          /\ op' = o /\ plan' = [i \in Items |-> Planned(o, i, found[i])]
    /\ UNCHANGED <<approval, late, disk, req, asked, events, granted, moves, stopped>>

\* confirm, up to its write: only ready items, only free targets; the user may
\* give a file another category when files are classified.
ConfirmRead(r) ==
    /\ req[r].at = "idle" /\ asked < MaxAsks /\ asked' = asked + 1
    /\ status = "preview" /\ Authorized
    /\ \E want \in Wants, approve \in BOOLEAN :
          /\ DOMAIN want # {}
          /\ \A i \in DOMAIN want :
                /\ plan[i].status = "ready"
                /\ want[i] # plan[i].category => op = "classify"
                /\ op # "delete" => ~Occupied(Target(i, want[i]))
          /\ NeedsApproval(op, want) => approve
          /\ req' = [req EXCEPT ![r] =
                [at |-> "confirm", left |-> {},
                 grant |-> [id |-> asked + 1, want |-> want,
                           approved |-> NeedsApproval(op, want) /\ approve]]]
    /\ UNCHANGED <<row, late, disk, events, granted, moves, stopped>>

ConfirmWrite(r) ==
    /\ req[r].at = "confirm"
    /\ approval' = [grant |-> req[r].grant, used |-> FALSE]
    /\ granted' = granted \cup {req[r].grant}
    /\ req' = [req EXCEPT ![r] = Idle]
    /\ UNCHANGED <<status, op, plan, late, disk, asked, events, moves, stopped>>

-----------------------------------------------------------------------------
\* Mutant: the token decides, whatever is selected now.
AcceptsToken(id, want) == approval.grant.id = id /\ ~approval.used

\* The checks of execute on what load returned: token, selection and targets.
Accepts(id, want) ==
    approval.grant.id = id /\ ~approval.used /\ approval.grant.want = want

\* execute, up to its claim.  (A refused request changes nothing.)
Execute(r) ==
    /\ req[r].at = "idle" /\ Authorized
    /\ \E g \in granted, want \in Wants :
          /\ DOMAIN want # {} /\ Accepts(g.id, want)
          /\ req' = [req EXCEPT ![r] =
                [at |-> "claim", grant |-> [approval.grant EXCEPT !.want = want],
                 left |-> {}]]
    /\ UNCHANGED <<row, late, disk, asked, events, granted, moves, stopped>>

\* UPDATE ... WHERE status = 'preview'
MayClaim == status = "preview"

Claim(r) ==
    /\ req[r].at = "claim"
    /\ IF MayClaim
       THEN status' = "executing" /\ req' = [req EXCEPT ![r].at = "verify"]
       ELSE req' = [req EXCEPT ![r] = Idle] /\ UNCHANGED status
    /\ UNCHANGED <<op, plan, approval, late, disk, asked, events, granted, moves, stopped>>

\* Mutant: a refused execution keeps its claim.
ReleasedKept == status

\* release_preview_execution
Released == IF status = "executing" THEN "preview" ELSE status

\* Every selected item is looked at again; one that changed stops them all.
Verify(r) ==
    /\ req[r].at = "verify"
    /\ IF \A i \in DOMAIN req[r].grant.want : Valid(i, req[r].grant.want)
       THEN req' = [req EXCEPT ![r].at = "mark"] /\ UNCHANGED status
       ELSE req' = [req EXCEPT ![r] = Idle] /\ status' = Released
    /\ UNCHANGED <<op, plan, approval, late, disk, asked, events, granted, moves, stopped>>

\* The approval the request loaded is written back as used.
Mark(r) ==
    /\ req[r].at = "mark"
    /\ approval' = [grant |-> req[r].grant, used |-> TRUE]
    /\ req' = [req EXCEPT ![r].at = "items", ![r].left = DOMAIN req[r].grant.want]
    /\ UNCHANGED <<status, op, plan, late, disk, asked, events, granted, moves, stopped>>

\* _execute_item under its locks (PathLocks): looked at once more, then done.
Done(r, i) ==
    /\ req[r].at = "items" /\ i \in req[r].left /\ Valid(i, req[r].grant.want)
    /\ req' = [req EXCEPT ![r].left = @ \ {i}]
    /\ where' = [where EXCEPT ![i] =
          IF op = "delete" THEN Away ELSE Target(i, req[r].grant.want[i])]
    /\ moves' = Append(moves, [item |-> i, grant |-> req[r].grant])
    /\ UNCHANGED <<row, late, stamp, taken, asked, events, granted, stopped>>

\* Skipped because it no longer is what was confirmed, or the move failed.
NotDone(r, i) ==
    /\ req[r].at = "items" /\ i \in req[r].left
    /\ req' = [req EXCEPT ![r].left = @ \ {i}]
    /\ UNCHANGED <<row, late, disk, asked, events, granted, moves, stopped>>

Finish(r) ==
    /\ req[r].at = "items" /\ req[r].left = {} /\ status' = "executed"
    /\ req' = [req EXCEPT ![r] = Idle]
    /\ UNCHANGED <<op, plan, approval, late, disk, asked, events, granted, moves, stopped>>

\* A statement or a look at a file raises: nothing gives the claim back.  (Bound:
\* one failure or stop of the process.)
Fail(r) ==
    /\ ~stopped
    /\ \/ req[r].at \in {"confirm", "claim", "verify", "mark"}
       \/ req[r].at = "items" /\ req[r].left = {}
    /\ req' = [req EXCEPT ![r] = Idle] /\ stopped' = TRUE
    /\ UNCHANGED <<row, late, disk, asked, events, granted, moves>>

Crash ==
    /\ ~stopped /\ stopped' = TRUE /\ req' = [r \in Requests |-> Idle]
    /\ UNCHANGED <<row, late, disk, asked, events, granted, moves>>

-----------------------------------------------------------------------------
\* Files edited, taken away and rolled back; names taken and freed; time.
Outside ==
    /\ events < MaxEvents /\ events' = events + 1
    /\ \/ \E i \in Items :
             \/ stamp' = [stamp EXCEPT ![i] = @ + 1] /\ UNCHANGED <<where, taken, late>>
             \/ /\ where' = [where EXCEPT ![i] = IF @ = Home THEN Away ELSE Home]
                /\ UNCHANGED <<stamp, taken, late>>
       \/ \E p \in Places :
             /\ taken' = IF p \in taken THEN taken \ {p} ELSE taken \cup {p}
             /\ \A i \in Items : where[i] # p
             /\ UNCHANGED <<where, stamp, late>>
       \/ late' = TRUE /\ UNCHANGED disk
    /\ UNCHANGED <<row, req, asked, granted, moves, stopped>>

Request(r) ==
    \/ ConfirmRead(r) \/ ConfirmWrite(r) \/ Execute(r) \/ Claim(r) \/ Verify(r)
    \/ Mark(r) \/ Finish(r) \/ Fail(r)
    \/ \E i \in Items : Done(r, i) \/ NotDone(r, i)

PreviewNext == Create \/ Crash \/ Outside \/ \E r \in Requests : Request(r)

PreviewSpec == PreviewInit /\ [][PreviewNext]_vars

-----------------------------------------------------------------------------
\* Types of the row, the disk and the requests.
PreviewTypeOK ==
    /\ status \in {"none", "preview", "executing", "executed"}
    /\ op \in Ops \cup {"none"} /\ late \in BOOLEAN /\ stopped \in BOOLEAN
    /\ plan \in [Items -> [status : {"ready", "conflict", "skipped"}, stamp : Nat,
                           category : Categories]]
    /\ asked \in Nat /\ events \in Nat
    /\ approval \in [grant : Grants \cup {NoGrant}, used : BOOLEAN]
    /\ where \in [Items -> Places \cup {Home, Away}]
    /\ stamp \in [Items -> Nat] /\ taken \subseteq Places
    /\ req \in [Requests ->
          [at : {"idle", "confirm", "claim", "verify", "mark", "items"},
           grant : Grants \cup {NoGrant}, left : SUBSET Items]]
    /\ granted \subseteq Grants
    /\ moves \in Seq([item : Items, grant : Grants])

\* A preview does what its user confirmed, at most once and in one go, whatever
\* else is confirmed, retried, rolled back or interrupted meanwhile.
Batch == INSTANCE ConfirmedBatch WITH Unknown <- "none"
KeepsPromise == Batch!Spec

\* A name is never taken twice: not by two items of one batch that have the same
\* name, nor by an item whose target was free when it was confirmed.
NothingOverwritten ==
    \A i \in Items : where[i] \in Places =>
       /\ where[i] \notin taken
       /\ \A j \in Items \ {i} : where[j] # where[i]

\* A file that was edited after the preview was shown is not moved, however
\* long after the check of the whole batch its turn comes.
MovedAsShown ==
    [][\A i \in Items :
          Len(moves') > Len(moves) /\ moves'[Len(moves')].item = i
             => stamp[i] = plan[i].stamp]_vars

\* A preview stays "executing" without a request that works on it only after the
\* process stopped or a statement failed; otherwise every claim is given back or
\* ends as executed.
ClaimsHaveOwners ==
    status = "executing" => stopped \/ \E r \in Requests : req[r].at \in Owning
=============================================================================
