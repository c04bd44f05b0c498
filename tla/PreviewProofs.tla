--------------------------- MODULE PreviewProofs ---------------------------
(***************************************************************************)
(* For any number of files, folders, requests and changes from outside: a  *)
(* preview carries out what was confirmed (it implements ConfirmedBatch),  *)
(* takes no name twice and gives every claim back.                         *)
(***************************************************************************)
EXTENDS Preview, TLAPS

\* Only one request is past its claim, and the preview is executing then.
OneOwner ==
    \A r \in Requests : req[r].at \in Owning =>
        /\ status = "executing"
        /\ \A s \in Requests : req[s].at \in Owning => s = r

\* The operation is known once the preview is there.
Shown == op = "none" <=> status = "none"

\* Nothing has moved before the claim, nor before the approval is used.
Untouched ==
    status \in {"none", "preview"} \/ (\E r \in Requests : req[r].at \in {"verify", "mark"})
       => moves = <<>>

\* What a request has in hand was confirmed, or may be;
InHand ==
    /\ approval.grant \in granted \cup {NoGrant}
    /\ \A r \in Requests :
          /\ req[r].at = "confirm" =>
                /\ op # "none" /\ req[r].grant \in Grants
                /\ NeedsApproval(op, req[r].grant.want) => req[r].grant.approved
          /\ req[r].at \in {"claim"} \cup Owning => req[r].grant \in granted

\* and all that has moved moved for it, each file once.
Working ==
    \A r \in Requests : req[r].at = "items" =>
        /\ req[r].left \subseteq DOMAIN req[r].grant.want
        /\ \A k \in DOMAIN moves :
              moves[k].grant = req[r].grant /\ moves[k].item \notin req[r].left

Inv == OneOwner /\ Shown /\ Untouched /\ InHand /\ Working

-----------------------------------------------------------------------------
\* A selection gives files of the preview their folders.
LEMMA Selections ==
  ASSUME NEW want \in Wants
  PROVE  DOMAIN want \subseteq Items /\ \A i \in DOMAIN want : want[i] \in Categories
  BY DEF Wants

\* A target is no other place.
LEMMA Elsewhere ==
  /\ Home \notin Places /\ Away \notin Places
  /\ \A i \in Items, c \in Categories : Target(i, c) \in Places
  BY DEF Home, Away, Places, Target

\* No confirmation is an empty selection.
LEMMA NoGrantIsEmpty == DOMAIN NoGrant.want = {}
  BY DEF NoGrant

\* What a request has in hand, whatever its step.
Steps == {"idle", "confirm", "claim", "verify", "mark", "items"}
Handled == [at : Steps, grant : Grants \cup {NoGrant}, left : SUBSET Items]

\* A request that goes on is well formed, and an idle one.
LEMMA HandledStays ==
  /\ Idle \in Handled
  /\ \A q \in Handled, a \in Steps : [q EXCEPT !.at = a] \in Handled
  /\ \A q \in Handled, a \in Steps, left \in SUBSET Items :
        [q EXCEPT !.at = a, !.left = left] \in Handled
  /\ \A q \in Handled, left \in SUBSET Items : [q EXCEPT !.left = left] \in Handled
  BY DEF Idle, Handled, Steps

\* The types of what a request's step may change.
LEMMA RequestTyped ==
  ASSUME PreviewTypeOK, NEW r \in Requests, NEW q \in Handled, req' = [req EXCEPT ![r] = q],
         status' \in {"none", "preview", "executing", "executed"}, stopped' \in BOOLEAN,
         UNCHANGED <<op, plan, approval, late, disk, asked, events, granted, moves>>
  PROVE  PreviewTypeOK'
<1>1. req' \in [Requests -> Handled]
  BY DEF PreviewTypeOK, Handled, Steps
<1>2. QED
  BY <1>1 DEF PreviewTypeOK, Handled, Steps, disk

\* At the start everything is well formed.  (PreviewTypeOK)
LEMMA TypeInit == PreviewInit => PreviewTypeOK
<1> SUFFICES ASSUME PreviewInit PROVE PreviewTypeOK
  OBVIOUS
<1>1. (CHOOSE c \in Categories : TRUE) \in Categories
  BY PreviewAssumption
<1>2. plan \in [Items -> [status : {"ready", "conflict", "skipped"}, stamp : Nat,
                          category : Categories]]
  BY <1>1 DEF PreviewInit, NoPlan
<1>3. req \in [Requests ->
          [at : {"idle", "confirm", "claim", "verify", "mark", "items"},
           grant : Grants \cup {NoGrant}, left : SUBSET Items]]
  BY HandledStays DEF PreviewInit, Handled, Steps
<1>4. moves \in Seq([item : Items, grant : Grants])
  BY DEF PreviewInit
<1>5. QED
  BY <1>2, <1>3, <1>4 DEF PreviewInit, PreviewTypeOK

\* Every step keeps the types; what is executed has to be a selection that was granted.
LEMMA TypeNext == PreviewTypeOK /\ InHand /\ Working /\ [PreviewNext]_vars => PreviewTypeOK'
<1> SUFFICES ASSUME PreviewTypeOK, InHand, Working, [PreviewNext]_vars PROVE PreviewTypeOK'
  OBVIOUS
<1> USE DEF PreviewTypeOK, row, disk
<1>1. CASE Create
  <2>1. PICK o \in Ops, found \in [Items -> Categories] :
           op' = o /\ plan' = [i \in Items |-> Planned(o, i, found[i])]
    BY <1>1 DEF Create
  <2>2. \A i \in Items : Planned(o, i, found[i]) \in
           [status : {"ready", "conflict", "skipped"}, stamp : Nat, category : Categories]
    BY DEF Planned
  <2>3. QED
    BY <1>1, <2>1, <2>2 DEF Create
<1>2. CASE Crash
  <2>1. req' \in [Requests -> Handled]
    BY <1>2, HandledStays DEF Crash
  <2>2. QED
    BY <1>2, <2>1 DEF Crash, Handled, Steps
<1>3. CASE Outside
  <2>1. /\ events' = events + 1
        /\ UNCHANGED <<row, req, asked, granted, moves, stopped>>
    BY <1>3 DEF Outside
  <2>2. late' \in BOOLEAN
    <3>1. late' = TRUE \/ late' = late
      BY <1>3, Zenon DEF Outside
    <3>2. QED
      BY <3>1
  <2>3. stamp' \in [Items -> Nat]
    <3>1. stamp' = stamp \/ \E i \in Items : stamp' = [stamp EXCEPT ![i] = @ + 1]
      BY <1>3, Zenon DEF Outside
    <3>2. stamp \in [Items -> Nat]
      OBVIOUS
    <3>3. ASSUME NEW i \in Items, stamp' = [stamp EXCEPT ![i] = @ + 1]
          PROVE  stamp' \in [Items -> Nat]
      <4> HIDE DEF PreviewTypeOK
      <4>1. stamp[i] + 1 \in Nat
        BY <3>2
      <4>2. QED
        BY <3>2, <3>3, <4>1
    <3>4. QED
      BY <3>1, <3>2, <3>3
  <2>4. where' \in [Items -> Places \cup {Home, Away}]
    BY <1>3 DEF Outside
  <2>5. taken' \subseteq Places
    BY <1>3 DEF Outside
  <2>6. QED
    BY <2>1, <2>2, <2>3, <2>4, <2>5
<1>4. ASSUME NEW r \in Requests, Request(r) PROVE PreviewTypeOK'
  <2>0. /\ req[r] \in Handled /\ Idle \in Handled
        /\ \A a \in Steps : [req[r] EXCEPT !.at = a] \in Handled
    <3>1. req[r] \in Handled
      BY DEF Handled, Steps
    <3>2. QED
      BY <3>1, HandledStays
  <2>1. CASE ConfirmRead(r)
    <3>1. PICK want \in Wants, approve \in BOOLEAN :
             req' = [req EXCEPT ![r] =
                [at |-> "confirm", left |-> {},
                 grant |-> [id |-> asked + 1, want |-> want,
                           approved |-> NeedsApproval(op, want) /\ approve]]]
      BY <2>1 DEF ConfirmRead
    <3>2. (NeedsApproval(op, want) /\ approve) \in BOOLEAN
      OBVIOUS
    <3>3. [id |-> asked + 1, want |-> want,
           approved |-> NeedsApproval(op, want) /\ approve] \in Grants
      BY <3>2 DEF Grants
    <3>4. QED
      BY <2>1, <3>1, <3>3 DEF ConfirmRead
  <2>2. CASE ConfirmWrite(r)
    BY <2>2, <2>0 DEF ConfirmWrite, InHand, Handled, Steps
  <2>3. CASE Execute(r)
    <3>1. PICK g \in granted, want \in Wants :
             /\ approval.grant.want = want
             /\ req' = [req EXCEPT ![r] =
                [at |-> "claim", grant |-> [approval.grant EXCEPT !.want = want],
                 left |-> {}]]
      BY <2>3 DEF Execute, Accepts
    <3>2. [approval.grant EXCEPT !.want = want] = approval.grant
      BY <3>1 DEF Grants, NoGrant
    <3>3. QED
      BY <2>3, <3>1, <3>2 DEF Execute
  <2>4. CASE Claim(r)
    <3>1. \/ req' = [req EXCEPT ![r] = [req[r] EXCEPT !.at = "verify"]]
                /\ status' = "executing"
          \/ req' = [req EXCEPT ![r] = Idle] /\ status' = status
      BY <2>4 DEF Claim
    <3>2. \E q \in Handled : req' = [req EXCEPT ![r] = q]
      BY <2>0, <3>1 DEF Steps
    <3>3. QED
      <4>1. UNCHANGED <<op, plan, approval, late, disk, asked, events, granted, moves, stopped>>
        BY <2>4 DEF Claim
      <4>2. stopped' \in BOOLEAN /\ status' \in {"none", "preview", "executing", "executed"}
        BY <3>1, <4>1
      <4> HIDE DEF PreviewTypeOK
      <4>3. QED
        BY <3>2, <4>1, <4>2, RequestTyped
  <2>5. CASE Verify(r)
    <3>1. \/ req' = [req EXCEPT ![r] = [req[r] EXCEPT !.at = "mark"]] /\ status' = status
          \/ req' = [req EXCEPT ![r] = Idle] /\ status' = Released
      BY <2>5 DEF Verify
    <3>2. \E q \in Handled : req' = [req EXCEPT ![r] = q]
      BY <2>0, <3>1 DEF Steps
    <3>3. status' \in {"none", "preview", "executing", "executed"}
      BY <3>1 DEF Released
    <3>4. QED
      BY <2>5, <3>2, <3>3, RequestTyped DEF Verify
  <2>6. CASE Mark(r)
    <3>1. req[r].grant \in Grants
      BY <2>6 DEF Mark, InHand, Owning
    <3>2. DOMAIN req[r].grant.want \subseteq Items
      BY <3>1, Selections DEF Grants
    <3>3. QED
      <4>1. [req[r] EXCEPT !.at = "items", !.left = DOMAIN req[r].grant.want] \in Handled
        BY <2>0, <3>2, HandledStays DEF Steps
      <4>2. req' = [req EXCEPT ![r] =
                [req[r] EXCEPT !.at = "items", !.left = DOMAIN req[r].grant.want]]
        BY <2>6 DEF Mark
      <4>3. req' \in [Requests -> Handled]
        BY <4>1, <4>2 DEF Handled, Steps
      <4>4. QED
        BY <2>6, <3>1, <4>3 DEF Mark, Handled, Steps
  <2>7. CASE Finish(r) \/ Fail(r)
    BY <2>7, <2>0, RequestTyped DEF Finish, Fail
  <2>8. ASSUME NEW i \in Items, Done(r, i) PROVE PreviewTypeOK'
    <3>1. req[r].grant \in Grants
      BY <2>8 DEF Done, InHand, Owning
    <3>0. req[r].grant.want[i] \in Categories
      <4>1. i \in DOMAIN req[r].grant.want
        BY <2>8 DEF Done, Working
      <4>2. QED
        BY <3>1, <4>1, Selections DEF Grants
    <3>2. op # "delete" => Target(i, req[r].grant.want[i]) \in Places
      BY <2>8, <3>0, Elsewhere DEF Done
    <3>3. [item |-> i, grant |-> req[r].grant] \in [item : Items, grant : Grants]
      BY <3>1
    <3>4. QED
      <4>1. req' = [req EXCEPT ![r] = [req[r] EXCEPT !.left = @ \ {i}]]
        BY <2>8 DEF Done
      <4>2. [req[r] EXCEPT !.left = @ \ {i}] \in Handled
        BY <2>0 DEF Handled
      <4>3. req' \in [Requests -> Handled]
        BY <4>1, <4>2 DEF Handled, Steps
      <4>4. where' \in [Items -> Places \cup {Home, Away}]
        BY <2>8, <3>2 DEF Done
      <4>5. moves' \in Seq([item : Items, grant : Grants])
        BY <2>8, <3>3 DEF Done
      <4>6. QED
        BY <2>8, <4>3, <4>4, <4>5 DEF Done, Handled, Steps
  <2>9. ASSUME NEW i \in Items, NotDone(r, i) PROVE PreviewTypeOK'
    <3>1. req' = [req EXCEPT ![r] = [req[r] EXCEPT !.left = @ \ {i}]]
          /\ UNCHANGED <<row, late, disk, asked, events, granted, moves, stopped>>
      BY <2>9 DEF NotDone
    <3>2. [req[r] EXCEPT !.left = @ \ {i}] \in Handled
      BY <2>0 DEF Handled
    <3> HIDE DEF PreviewTypeOK
    <3>3. status' \in {"none", "preview", "executing", "executed"} /\ stopped' \in BOOLEAN
      BY <3>1 DEF PreviewTypeOK
    <3>4. QED
      BY <3>1, <3>2, <3>3, RequestTyped
  <2>10. QED
    BY <1>4, <2>1, <2>2, <2>3, <2>4, <2>5, <2>6, <2>7, <2>8, <2>9 DEF Request
<1>5. CASE UNCHANGED vars
  BY <1>5 DEF vars
<1>6. QED
  BY <1>1, <1>2, <1>3, <1>4, <1>5 DEF PreviewNext

-----------------------------------------------------------------------------
\* At the start nobody has anything in hand.
LEMMA InvInit == PreviewInit => Inv
<1> SUFFICES ASSUME PreviewInit PROVE Inv
  OBVIOUS
<1>1. \A r \in Requests : req[r].at = "idle"
  BY DEF PreviewInit, Idle
<1>2. QED
  BY <1>1 DEF PreviewInit, Inv, OneOwner, Shown, Untouched, InHand, Working, Owning

\* The steps of a request that move nothing, with the only things they change.
LEMMA InvQuiet ==
  ASSUME PreviewTypeOK, Inv, NEW r \in Requests,
         \/ ConfirmRead(r) \/ ConfirmWrite(r) \/ Execute(r) \/ Claim(r) \/ Verify(r)
         \/ Mark(r) \/ Finish(r) \/ Fail(r)
  PROVE  Inv'
<1> DEFINE Others == \A s \in Requests \ {r} : req'[s] = req[s]
<1>0. ASSUME NEW q, req' = [req EXCEPT ![r] = q] PROVE Others /\ req'[r] = q
  BY <1>0 DEF PreviewTypeOK
<1>1. CASE ConfirmRead(r)
  <2>1. PICK want \in Wants, approve \in BOOLEAN :
           /\ NeedsApproval(op, want) => approve
           /\ req' = [req EXCEPT ![r] =
                [at |-> "confirm", left |-> {},
                 grant |-> [id |-> asked + 1, want |-> want,
                           approved |-> NeedsApproval(op, want) /\ approve]]]
    BY <1>1 DEF ConfirmRead
  <2>2. (NeedsApproval(op, want) /\ approve) \in BOOLEAN
    OBVIOUS
  <2> DEFINE g == [id |-> asked + 1, want |-> want,
                   approved |-> NeedsApproval(op, want) /\ approve]
  <2>3. g \in Grants
    BY <2>2 DEF Grants, PreviewTypeOK
  <2>4. g.want = want /\ (NeedsApproval(op, want) => g.approved)
    BY <2>1, <2>2
  <2>4a. req' = [req EXCEPT ![r] = [at |-> "confirm", left |-> {}, grant |-> g]]
    BY <2>1
  <2> HIDE DEF g
  <2>5. req'[r].at = "confirm" /\ req'[r].grant = g /\ Others
    BY <2>4a, <1>0
  <2>6. op # "none" /\ status = "preview" /\ op' = op
        /\ UNCHANGED <<row, granted, moves>>
    BY <1>1 DEF ConfirmRead, Inv, Shown, row
  <2>7. QED
    BY <2>3, <2>4, <2>5, <2>6 DEF Inv, OneOwner, Shown, Untouched, InHand, Working, Owning,
                                  row, NeedsApproval
<1>2. CASE ConfirmWrite(r)
  <2>1. req'[r] = Idle /\ Others
    BY <1>2, <1>0 DEF ConfirmWrite
  <2>2. QED
    BY <1>2, <2>1 DEF ConfirmWrite, Idle, Inv, OneOwner, Shown, Untouched, InHand, Working,
                      Owning, NeedsApproval
<1>3. CASE Execute(r)
  <2>1. PICK want \in Wants :
           /\ DOMAIN want # {} /\ approval.grant.want = want
           /\ req' = [req EXCEPT ![r] =
                [at |-> "claim", grant |-> [approval.grant EXCEPT !.want = want],
                 left |-> {}]]
    BY <1>3 DEF Execute, Accepts
  <2>2. [approval.grant EXCEPT !.want = want] = approval.grant
    BY <2>1 DEF PreviewTypeOK, Grants, NoGrant
  <2>3. req'[r].at = "claim" /\ req'[r].grant = approval.grant /\ Others
    <3>1. req' = [req EXCEPT ![r] = [at |-> "claim", grant |-> approval.grant, left |-> {}]]
      BY <2>1, <2>2
    <3>2. QED
      BY <3>1, <1>0
  <2>4. approval.grant \in granted
    BY <2>1, NoGrantIsEmpty DEF Inv, InHand
  <2>5. QED
    BY <1>3, <2>3, <2>4 DEF Execute, row, Inv, OneOwner, Shown, Untouched, InHand, Working,
                            Owning, NeedsApproval
<1>4. CASE Claim(r)
  <2>1. CASE MayClaim
    <3>1. req' = [req EXCEPT ![r] = [req[r] EXCEPT !.at = "verify"]] /\ status' = "executing"
      BY <1>4, <2>1 DEF Claim
    <3>2. req'[r].at = "verify" /\ req'[r].grant = req[r].grant /\ Others
      BY <3>1, <1>0 DEF PreviewTypeOK
    <3>3. QED
      BY <1>4, <2>1, <3>1, <3>2 DEF Claim, MayClaim, Inv, OneOwner, Shown, Untouched, InHand,
                                    Working, Owning, NeedsApproval
  <2>2. CASE ~MayClaim
    <3>1. req'[r] = Idle /\ Others /\ status' = status
      BY <1>4, <2>2, <1>0 DEF Claim
    <3>2. QED
      BY <1>4, <3>1 DEF Claim, Idle, Inv, OneOwner, Shown, Untouched, InHand, Working,
                        Owning, NeedsApproval
  <2>3. QED
    BY <2>1, <2>2
<1>5. CASE Verify(r)
  <2>1. CASE status' = status
    <3>1. \/ req' = [req EXCEPT ![r] = [req[r] EXCEPT !.at = "mark"]]
          \/ req' = [req EXCEPT ![r] = Idle]
      BY <1>5 DEF Verify
    <3>2. /\ Others
          /\ \/ req'[r].at = "mark" /\ req'[r].grant = req[r].grant
             \/ req'[r] = Idle
      BY <3>1, <1>0 DEF PreviewTypeOK
    <3>3. QED
      BY <1>5, <2>1, <3>2 DEF Verify, Idle, Inv, OneOwner, Shown, Untouched, InHand, Working,
                              Owning, NeedsApproval
  <2>2. CASE status' # status
    <3>1. req'[r] = Idle /\ Others /\ status' = "preview"
      BY <1>5, <2>2, <1>0 DEF Verify, Released
    <3>2. QED
      BY <1>5, <3>1 DEF Verify, Idle, Inv, OneOwner, Shown, Untouched, InHand, Working,
                        Owning, NeedsApproval
  <2>3. QED
    BY <2>1, <2>2
<1>6. CASE Mark(r)
  <2>1. req' = [req EXCEPT ![r] =
            [req[r] EXCEPT !.at = "items", !.left = DOMAIN req[r].grant.want]]
    BY <1>6 DEF Mark
  <2>2. /\ Others /\ req'[r].at = "items" /\ req'[r].grant = req[r].grant
        /\ req'[r].left = DOMAIN req[r].grant.want
    BY <2>1, <1>0 DEF PreviewTypeOK
  <2>3. moves = <<>> /\ DOMAIN moves = {} /\ req[r].grant \in granted
    BY <1>6 DEF Mark, Inv, Untouched, InHand, Owning
  <2>4. /\ UNCHANGED <<status, op, granted, moves>> /\ req[r].at = "mark"
        /\ approval'.grant = req[r].grant
    BY <1>6 DEF Mark
  <2>5. OneOwner' /\ Shown' /\ Untouched'
    BY <2>2, <2>3, <2>4 DEF Inv, OneOwner, Shown, Untouched, Owning
  <2>6. InHand'
    BY <2>2, <2>3, <2>4 DEF Inv, InHand, Owning, NeedsApproval
  <2>7. Working'
    BY <2>2, <2>3, <2>4 DEF Inv, Working
  <2>8. QED
    BY <2>5, <2>6, <2>7 DEF Inv
<1>7. CASE Finish(r) \/ Fail(r)
  <2>1. req'[r] = Idle /\ Others
    BY <1>7, <1>0 DEF Finish, Fail
  <2>2. req[r].at = "items" => op # "none" /\ status = "executing"
    BY DEF Inv, OneOwner, Shown, Owning
  <2>3. QED
    BY <1>7, <2>1, <2>2 DEF Finish, Fail, row, Idle, Inv, OneOwner, Shown, Untouched, InHand,
                            Working, Owning, NeedsApproval
<1>8. QED
  BY <1>1, <1>2, <1>3, <1>4, <1>5, <1>6, <1>7

\* What a further move adds to the history.
LEMMA Appended ==
  ASSUME NEW S, NEW seq \in Seq(S), NEW x
  PROVE  /\ DOMAIN Append(seq, x) = DOMAIN seq \cup {Len(seq) + 1}
         /\ \A k \in DOMAIN seq : Append(seq, x)[k] = seq[k]
         /\ Append(seq, x)[Len(seq) + 1] = x
         /\ Len(Append(seq, x)) = Len(seq) + 1
  OBVIOUS

\* A file that is done, or left, is no longer among those still to be done.
LEMMA InvItem ==
  ASSUME PreviewTypeOK, Inv, NEW r \in Requests, NEW i \in Items, Done(r, i) \/ NotDone(r, i)
  PROVE  Inv'
<1>1. /\ req' = [req EXCEPT ![r] = [req[r] EXCEPT !.left = @ \ {i}]]
      /\ req[r].at = "items" /\ i \in req[r].left
      /\ UNCHANGED <<status, op, plan, approval, granted>>
  BY DEF Done, NotDone, row
<1>2. /\ \A s \in Requests \ {r} : req'[s] = req[s]
      /\ req'[r].at = "items" /\ req'[r].grant = req[r].grant
      /\ req'[r].left = req[r].left \ {i}
  BY <1>1 DEF PreviewTypeOK
<1>3. OneOwner' /\ Shown' /\ InHand'
  BY <1>1, <1>2 DEF Inv, OneOwner, Shown, InHand, Owning, NeedsApproval
<1>4. Untouched'
  BY <1>1, <1>2 DEF Inv, OneOwner, Untouched, Owning
<1>5. \A s \in Requests : req'[s].at = "items" => s = r
  BY <1>1, <1>2 DEF Inv, OneOwner, Owning
<1>6. \A k \in DOMAIN moves' :
         \/ k \in DOMAIN moves /\ moves'[k] = moves[k]
         \/ moves'[k] = [item |-> i, grant |-> req[r].grant]
  <2>1. CASE Done(r, i)
    <3>1. moves \in Seq([item : Items, grant : Grants])
      BY DEF PreviewTypeOK
    <3>2. moves' = Append(moves, [item |-> i, grant |-> req[r].grant])
      BY <2>1 DEF Done
    <3>3. QED
      BY <3>1, <3>2, Appended
  <2>2. CASE NotDone(r, i)
    BY <2>2 DEF NotDone
  <2>3. QED
    BY <2>1, <2>2
<1>7. Working'
  BY <1>1, <1>2, <1>5, <1>6 DEF Inv, Working
<1>8. QED
  BY <1>3, <1>4, <1>7 DEF Inv

\* Every step of a request, of the process and of the disk keeps the invariant.
LEMMA InvNext == PreviewTypeOK /\ Inv /\ [PreviewNext]_vars => Inv'
<1> SUFFICES ASSUME PreviewTypeOK, Inv, [PreviewNext]_vars PROVE Inv'
  OBVIOUS
<1>1. CASE Create
  <2>1. op' # "none" /\ status = "none" /\ status' = "preview"
        /\ UNCHANGED <<approval, req, granted, moves>>
    BY <1>1, PreviewAssumption DEF Create
  <2>2. QED
    BY <2>1 DEF Inv, OneOwner, Shown, Untouched, InHand, Working, Owning
<1>2. CASE Crash
  <2>1. \A r \in Requests : req'[r].at = "idle"
    BY <1>2 DEF Crash, Idle
  <2>2. UNCHANGED <<status, op, approval, granted, moves>>
    BY <1>2 DEF Crash, row
  <2>3. QED
    BY <2>1, <2>2 DEF Inv, OneOwner, Shown, Untouched, InHand, Working, Owning
<1>3. CASE Outside \/ UNCHANGED vars
  <2>1. UNCHANGED <<status, op, approval, req, granted, moves>>
    BY <1>3 DEF Outside, vars, row
  <2>2. QED
    BY <2>1 DEF Inv, OneOwner, Shown, Untouched, InHand, Working, NeedsApproval
<1>4. ASSUME NEW r \in Requests, Request(r) PROVE Inv'
  BY <1>4, InvQuiet, InvItem DEF Request
<1>5. QED
  BY <1>1, <1>2, <1>3, <1>4 DEF PreviewNext

\* The invariant holds in every reachable state.
LEMMA Invariant == PreviewSpec => [](PreviewTypeOK /\ Inv)
<1>1. PreviewTypeOK /\ Inv /\ [PreviewNext]_vars => (PreviewTypeOK /\ Inv)'
  BY TypeNext, InvNext DEF Inv
<1>2. QED
  BY TypeInit, InvInit, <1>1, PTL DEF PreviewSpec

\* The row, the disk and the requests stay well formed.  (tools/preview.py)
THEOREM TypeCorrect == PreviewSpec => []PreviewTypeOK
  BY Invariant, PTL

-----------------------------------------------------------------------------
\* Every step is one of ConfirmedBatch, or none.
LEMMA BatchStep ==
  ASSUME PreviewTypeOK, Inv, [PreviewNext]_vars
  PROVE  [Batch!Next]_<<op, granted, moves>>
<1> USE DEF Batch!Next, Batch!Show, Batch!Confirm, Batch!Do, Batch!vars
<1>1. CASE Create
  <2>1. op = "none" /\ op' # "none" /\ UNCHANGED <<granted, moves>>
    BY <1>1, PreviewAssumption DEF Create, Inv, Shown
  <2>2. QED
    BY <2>1
<1>2. CASE Crash \/ Outside \/ UNCHANGED vars
  BY <1>2 DEF Crash, Outside, vars, row
<1>3. ASSUME NEW r \in Requests, Request(r) PROVE [Batch!Next]_<<op, granted, moves>>
  <2>1. CASE ConfirmWrite(r)
    <3>1. /\ op # "none" /\ UNCHANGED <<op, moves>>
          /\ granted' = granted \cup {req[r].grant}
          /\ Batch!Big(op, req[r].grant.want) => req[r].grant.approved
      <4>1. /\ req[r].at = "confirm" /\ granted' = granted \cup {req[r].grant}
            /\ UNCHANGED <<op, moves>>
        BY <2>1 DEF ConfirmWrite
      <4>2. op # "none" /\ (NeedsApproval(op, req[r].grant.want) => req[r].grant.approved)
        BY <4>1 DEF Inv, InHand
      \* Both modules count with FiniteSets: one definition under two names.
      <4>3. Batch!Big(op, req[r].grant.want) => NeedsApproval(op, req[r].grant.want)
        BY DEF Batch!Big, NeedsApproval, Cardinality, Batch!Cardinality
      <4>4. QED
        BY <4>1, <4>2, <4>3
    <3>2. CASE req[r].grant \in granted
      BY <3>1, <3>2
    <3>3. CASE req[r].grant \notin granted
      BY <3>1, <3>3
    <3>4. QED
      BY <3>2, <3>3
  <2>2. ASSUME NEW i \in Items, Done(r, i) PROVE [Batch!Next]_<<op, granted, moves>>
    <3> DEFINE g == req[r].grant
    <3>1. /\ UNCHANGED <<op, granted>>
          /\ moves' = Append(moves, [item |-> i, grant |-> g])
          /\ req[r].at = "items" /\ i \in req[r].left
      BY <2>2 DEF Done, row
    <3>2. g \in granted /\ i \in DOMAIN g.want
      BY <3>1 DEF Inv, InHand, Working, Owning
    <3>3. \A k \in DOMAIN moves : moves[k].grant = g /\ moves[k].item # i
      BY <3>1 DEF Inv, Working
    <3> HIDE DEF g
    <3>4. QED
      BY <3>1, <3>2, <3>3
  <2>3. CASE \/ ConfirmRead(r) \/ Execute(r) \/ Claim(r) \/ Verify(r) \/ Mark(r)
             \/ Finish(r) \/ Fail(r) \/ \E i \in Items : NotDone(r, i)
    BY <2>3 DEF ConfirmRead, Execute, Claim, Verify, Mark, Finish, Fail, NotDone, row
  <2>4. QED
    BY <1>3, <2>1, <2>2, <2>3 DEF Request
<1>4. QED
  BY <1>1, <1>2, <1>3 DEF PreviewNext

\* A preview does what its user confirmed, at most once and in one go: it implements
\* ConfirmedBatch, whatever is confirmed, retried, rolled back or interrupted meanwhile.
\* (confirm, execute, claim_preview_execution)
THEOREM PromiseKept == PreviewSpec => KeepsPromise
<1>1. PreviewInit => Batch!Init
  BY DEF PreviewInit, Batch!Init
<1>2. PreviewTypeOK /\ Inv /\ [PreviewNext]_vars => [Batch!Next]_(Batch!vars)
  BY BatchStep DEF Batch!vars
<1>3. QED
  BY <1>1, <1>2, Invariant, PTL DEF PreviewSpec, KeepsPromise, Batch!Spec

\* No name is ever taken twice, however many files of a batch have it and whatever else
\* comes into the folders.  (_validate_ready, _execute_item)
THEOREM NamesKept == PreviewSpec => []NothingOverwritten
<1>1. PreviewInit => NothingOverwritten
  BY Elsewhere DEF PreviewInit, NothingOverwritten
<1>2. PreviewTypeOK /\ Inv /\ NothingOverwritten /\ [PreviewNext]_vars => NothingOverwritten'
  <2> SUFFICES ASSUME PreviewTypeOK, Inv, NothingOverwritten, [PreviewNext]_vars
               PROVE  NothingOverwritten'
    OBVIOUS
  <2>1. CASE UNCHANGED <<where, taken>>
    BY <2>1 DEF NothingOverwritten
  <2>2. CASE Outside
    <3>1. ASSUME NEW i \in Items,
                 where' = [where EXCEPT ![i] = IF @ = Home THEN Away ELSE Home],
                 taken' = taken
          PROVE  NothingOverwritten'
      BY <3>1, Elsewhere DEF NothingOverwritten, PreviewTypeOK
    <3>2. ASSUME NEW p \in Places, \A i \in Items : where[i] # p, where' = where,
                 taken' = IF p \in taken THEN taken \ {p} ELSE taken \cup {p}
          PROVE  NothingOverwritten'
      BY <3>2 DEF NothingOverwritten
    <3>3. QED
      BY <2>1, <2>2, <3>1, <3>2 DEF Outside, disk
  <2>3. ASSUME NEW r \in Requests, NEW i \in Items, Done(r, i) PROVE NothingOverwritten'
    <3>1. taken' = taken /\ where' = [where EXCEPT ![i] =
             IF op = "delete" THEN Away ELSE Target(i, req[r].grant.want[i])]
      BY <2>3 DEF Done
    <3>2. op # "delete" => ~Occupied(Target(i, req[r].grant.want[i]))
      BY <2>3 DEF Done, Valid
    <3>3. QED
      BY <3>1, <3>2, Elsewhere DEF NothingOverwritten, PreviewTypeOK, Occupied
  <2>4. QED
    BY <2>1, <2>2, <2>3 DEF PreviewNext, Request, Create, Crash, vars, disk, ConfirmRead,
       ConfirmWrite, Execute, Claim, Verify, Mark, Finish, Fail, NotDone
<1>3. QED
  BY <1>1, <1>2, Invariant, PTL DEF PreviewSpec

\* A file that was edited after it was shown is not moved.  (_validate_ready)
THEOREM ShownIsMoved == PreviewSpec => MovedAsShown
<1> DEFINE Step == \A i \in Items :
       Len(moves') > Len(moves) /\ moves'[Len(moves')].item = i => stamp[i] = plan[i].stamp
<1>1. PreviewTypeOK /\ [PreviewNext]_vars => [Step]_vars
  <2> SUFFICES ASSUME PreviewTypeOK, PreviewNext PROVE Step
    OBVIOUS
  <2>0. moves \in Seq([item : Items, grant : Grants]) /\ Len(moves) \in Nat
    BY DEF PreviewTypeOK
  <2>1. CASE UNCHANGED moves
    BY <2>0, <2>1
  <2>2. ASSUME NEW r \in Requests, NEW i \in Items, Done(r, i) PROVE Step
    <3>1. moves' = Append(moves, [item |-> i, grant |-> req[r].grant])
          /\ stamp[i] = plan[i].stamp
      BY <2>2 DEF Done, Valid
    <3>2. moves'[Len(moves')].item = i
      BY <2>0, <3>1, Appended
    <3>3. QED
      BY <3>1, <3>2
  <2>3. QED
    BY <2>1, <2>2 DEF PreviewNext, Request, Create, Crash, Outside, ConfirmRead,
       ConfirmWrite, Execute, Claim, Verify, Mark, Finish, Fail, NotDone
<1>2. QED
  BY <1>1, Invariant, PTL DEF PreviewSpec, MovedAsShown

\* A claim is given back, or ends as executed, unless the process stopped or a statement
\* failed.  (execute, release_preview_execution, finish_preview)
THEOREM ClaimsGivenBack == PreviewSpec => []ClaimsHaveOwners
<1>1. PreviewInit => ClaimsHaveOwners
  BY DEF PreviewInit, ClaimsHaveOwners
<1>2. PreviewTypeOK /\ Inv /\ ClaimsHaveOwners /\ [PreviewNext]_vars => ClaimsHaveOwners'
  <2> SUFFICES ASSUME PreviewTypeOK, Inv, ClaimsHaveOwners, [PreviewNext]_vars
               PROVE  ClaimsHaveOwners'
    OBVIOUS
  <2> USE DEF ClaimsHaveOwners, Owning
  <2>1. CASE Create \/ Crash
    BY <2>1 DEF Create, Crash
  <2>2. CASE Outside \/ UNCHANGED vars
    BY <2>2 DEF Outside, vars, row
  <2>3. ASSUME NEW r \in Requests, ConfirmRead(r) \/ ConfirmWrite(r) \/ Execute(r)
        PROVE  ClaimsHaveOwners'
    <3>1. /\ \A s \in Requests \ {r} : req'[s] = req[s]
          /\ req[r].at \notin Owning /\ UNCHANGED <<status, stopped>>
      BY <2>3 DEF ConfirmRead, ConfirmWrite, Execute, row, PreviewTypeOK
    <3>2. QED
      BY <3>1
  <2>4. ASSUME NEW r \in Requests, Claim(r) PROVE ClaimsHaveOwners'
    <3>1. CASE MayClaim
      <4>1. req' = [req EXCEPT ![r] = [req[r] EXCEPT !.at = "verify"]]
        BY <2>4, <3>1 DEF Claim
      <4>2. req'[r].at = "verify"
        BY <4>1 DEF PreviewTypeOK
      <4>3. QED
        BY <4>2
    <3>2. CASE ~MayClaim
      <4>1. req' = [req EXCEPT ![r] = Idle] /\ req[r].at = "claim"
            /\ UNCHANGED <<status, stopped>>
        BY <2>4, <3>2 DEF Claim
      <4>2. \A s \in Requests \ {r} : req'[s] = req[s]
        BY <4>1 DEF PreviewTypeOK
      <4>3. QED
        BY <4>1, <4>2
    <3>3. QED
      BY <3>1, <3>2
  <2>5. ASSUME NEW r \in Requests, Verify(r) PROVE ClaimsHaveOwners'
    BY <2>5 DEF Verify, Released, PreviewTypeOK
  <2>6. ASSUME NEW r \in Requests,
               Mark(r) \/ \E i \in Items : Done(r, i) \/ NotDone(r, i)
        PROVE  ClaimsHaveOwners'
    <3>1. req'[r].at = "items"
      <4>1. CASE Mark(r)
        BY <4>1 DEF Mark, PreviewTypeOK
      <4>2. ASSUME NEW i \in Items, Done(r, i) \/ NotDone(r, i) PROVE req'[r].at = "items"
        <5>1. /\ req' = [req EXCEPT ![r] = [req[r] EXCEPT !.left = @ \ {i}]]
              /\ req[r].at = "items"
          BY <4>2 DEF Done, NotDone
        <5>2. QED
          BY <5>1 DEF PreviewTypeOK
      <4>3. QED
        BY <2>6, <4>1, <4>2
    <3>2. QED
      BY <3>1
  <2>7. ASSUME NEW r \in Requests, Finish(r) \/ Fail(r) PROVE ClaimsHaveOwners'
    BY <2>7 DEF Finish, Fail
  <2>8. QED
    BY <2>1, <2>2, <2>3, <2>4, <2>5, <2>6, <2>7 DEF PreviewNext, Request
<1>3. QED
  BY <1>1, <1>2, Invariant, PTL DEF PreviewSpec
=============================================================================
