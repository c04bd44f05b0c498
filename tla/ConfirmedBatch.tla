--------------------------- MODULE ConfirmedBatch ---------------------------
(***************************************************************************)
(* What a preview promises its user (the head of tools/preview.py): a      *)
(* selection is confirmed, with an explicit approval where one is needed;  *)
(* one confirmed selection is carried out, at most once, and nothing else. *)
(* Preview implements it.                                                  *)
(***************************************************************************)
EXTENDS Naturals, Sequences, FiniteSets

CONSTANTS
    Threshold,      \* larger selections need an approval
    Unknown         \* the operation before the preview is there

VARIABLES
    op,             \* what the preview does
    granted,        \* confirmations given: [id, want, approved]
    moves           \* what has been done, in order: [item, grant]

vars == <<op, granted, moves>>

Big(o, want) == o = "delete" \/ Cardinality(DOMAIN want) > Threshold

Init == op = Unknown /\ granted = {} /\ moves = <<>>

Show == op = Unknown /\ op' # Unknown /\ UNCHANGED <<granted, moves>>

Confirm ==
    /\ op # Unknown /\ UNCHANGED <<op, moves>>
    /\ \E g \in granted' \ granted :
          /\ granted' = granted \cup {g}
          /\ Big(op, g.want) => g.approved

Do ==
    /\ UNCHANGED <<op, granted>>
    /\ \E g \in granted : \E i \in DOMAIN g.want :
          /\ \A k \in DOMAIN moves : moves[k].grant = g /\ moves[k].item # i
          /\ moves' = Append(moves, [item |-> i, grant |-> g])

Next == Show \/ Confirm \/ Do

Spec == Init /\ [][Next]_vars
=============================================================================
