---------------------------- MODULE MCRequests ----------------------------
(* A request and the runtimes that serve requests, one of the two in each behaviour. *)
EXTENDS Request, Runtimes

CONSTANTS d1, d2, a, b

MCExtOf == [n \in Names |-> IF n = a THEN "pdf" ELSE "txt"]

Says(asks, from, names, to, only) ==
    [asks |-> asks, anew |-> FALSE, from |-> from, names |-> names, to |-> to, only |-> only]

MCMessages ==
    {Says({"move"}, {d1, d2}, {}, {}, {}),                      \* sort these folders
     Says({"move", "delete"}, {}, {<<d1, a>>}, {d2}, {}),       \* this file
     Says({"move", "rename"}, {}, {}, {d2}, {"pdf"}),           \* only PDFs
     Says({"write", "move"}, {}, {}, {}, {}),
     Says({}, {d2}, {<<d1, b>>}, {}, {"txt"}),                  \* an answer
     [Says({}, {d1}, {}, {}, {}) EXCEPT !.anew = TRUE]}         \* only look

VARIABLE part

RequestsInit == part \in {"request", "runtimes"} /\ RequestInit /\ Init

RequestsNext ==
    /\ UNCHANGED part
    /\ \/ part = "request" /\ RequestNext /\ UNCHANGED vars
       \/ part = "runtimes" /\ Next /\ UNCHANGED requestVars

RequestsSpec == RequestsInit /\ [][RequestsNext]_<<part, requestVars, vars>>
=============================================================================
