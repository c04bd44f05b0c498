---------------------------- MODULE RequestProofs ----------------------------
(***************************************************************************)
(* For any folders, names, messages and planner: a request does what the   *)
(* user asked for and nothing else, to the files the user named and no     *)
(* others, and is called a success only if it was one.                     *)
(***************************************************************************)
EXTENDS Request, TLAPS

Files == Paths \cup TrashPaths
Observation ==
    [effect : Effects \cup {"read", "none"}, status : {"ok", "failed", "rejected"},
     used : SUBSET Files, results : SUBSET (Files \cup {Text}),
     check : {"verified", "incomplete", "failed", "skipped"}]

\* What a call of this request may look like in its observations.
Legitimate(o) ==
    /\ o.used # {} => o.effect \in Effects
    /\ o.status = "ok" /\ o.effect # "read" =>
          /\ o.effect \in mandate.asks /\ o.check \in {"verified", "incomplete"}
          /\ mandate.files # {} => o.used \subseteq mandate.files
          /\ mandate.only # {} => \A p \in o.used : Ext(p) \in mandate.only

Observing ==
    observations \in Seq(Observation) /\ \A i \in Calls : Legitimate(observations[i])

\* The scope is no wider than what the user said before any answer.
Bounded ==
    /\ scope.effects = mandate.asks
    /\ mandate.files # {} => scope.files # {} /\ scope.files \subseteq mandate.files
    /\ mandate.only # {} => scope.only # {} /\ scope.only \subseteq mandate.only

RequestInv == RequestTypeOK /\ Observing /\ Bounded

\* A request has done nothing at first.
LEMMA RequestInitInv == RequestInit => RequestInv
<1> SUFFICES ASSUME RequestInit PROVE RequestInv
  OBVIOUS
<1>1. RequestTypeOK
  BY RequestAssumption DEF RequestInit, RequestTypeOK, Words, NoWords, NoScope, Paths
<1>2. Observing
  BY DEF RequestInit, Observing, Calls
<1>3. Bounded
  BY DEF RequestInit, Bounded, NoScope
<1>4. QED
  BY <1>1, <1>2, <1>3 DEF RequestInv

\* An answer narrows what was asked for before; a new task begins with nothing done.
LEMMA MessageKeeps ==
    ASSUME RequestInv, NEW w \in Messages, Message(w) PROVE RequestInv'
<1>1. /\ status' = "running" /\ observations' = <<>>
      /\ mandate' = Meant(w) /\ UNCHANGED <<disk, manifests>>
  BY DEF Message
<1>2. w \in Words /\ w.asks \subseteq Effects /\ NamedFiles(w) \subseteq Paths
  BY RequestAssumption DEF Words, NamedFiles
<1>3. Observing'
  BY <1>1 DEF Observing, Calls
<1>4. CASE Answers(w)
  <2> DEFINE said == Joined(intent, w)
  <2>1. intent' = said /\ scope' = Merged(scope, Scope(said)) /\ mandate' = mandate
    BY <1>1, <1>4 DEF Message, Answers, Meant
  <2>2. intent \in Words /\ w.asks = {}
    BY <1>4 DEF RequestInv, RequestTypeOK, Answers
  <2>3. said \in Words /\ said.asks = intent.asks
    BY <1>2, <2>2 DEF Joined, Words
  <2> HIDE DEF said
  <2>4. Scope(said).files \subseteq Paths
    BY <2>3 DEF Scope, NamedFiles, Words
  <2>5. /\ scope'.effects = scope.effects
        /\ scope'.files = IF scope.files = {} THEN Scope(said).files
                          ELSE Narrowed(scope.files, Scope(said).files)
        /\ scope'.only = Narrowed(scope.only, Scope(said).only)
    BY <2>1 DEF Merged
  <2>6. \A old, new : Narrowed(old, new) \subseteq old /\ (old # {} => Narrowed(old, new) # {})
    BY DEF Narrowed
  <2>7. scope'.files \subseteq Paths
    BY <2>4, <2>5, <2>6 DEF RequestInv, RequestTypeOK
  <2>8. Bounded'
    BY <2>1, <2>5, <2>6 DEF RequestInv, Bounded
  <2>9. RequestTypeOK'
    BY <1>1, <2>1, <2>3, <2>5, <2>7 DEF RequestInv, RequestTypeOK
  <2>10. QED
    BY <1>3, <2>8, <2>9 DEF RequestInv
<1>5. CASE ~Answers(w)
  <2>1. /\ intent' = w /\ scope' = Scope(w)
        /\ mandate' = [asks |-> w.asks, files |-> NamedFiles(w), only |-> w.only]
    BY <1>1, <1>5 DEF Message, Answers, Meant
  <2>2. scope'.effects = w.asks /\ scope'.files = NamedFiles(w) /\ scope'.only = w.only
    BY <2>1 DEF Scope
  <2>3. Bounded'
    BY <2>1, <2>2 DEF Bounded
  <2>4. RequestTypeOK'
    BY <1>1, <1>2, <2>1, <2>2 DEF RequestInv, RequestTypeOK
  <2>5. QED
    BY <1>3, <2>3, <2>4 DEF RequestInv
<1>6. QED
  BY <1>4, <1>5

\* A call is appended to the observations.
LEMMA Appending ==
    ASSUME RequestInv, NEW o \in Observation, Legitimate(o),
           observations' = Append(observations, o),
           UNCHANGED <<status, intent, scope, mandate>>,
           disk' \subseteq Files,
           \A m \in manifests' : m.items \subseteq {m.dir} \X Names
    PROVE  RequestInv'
<1>1. observations \in Seq(Observation)
  BY DEF RequestInv, Observing
<1>2. /\ observations' \in Seq(Observation) /\ Len(observations') = Len(observations) + 1
      /\ Len(observations) \in Nat
      /\ \A i \in 1 .. Len(observations) : observations'[i] = observations[i]
      /\ observations'[Len(observations) + 1] = o
  BY <1>1
<1>3. \A i \in 1 .. Len(observations') : i \in Calls \/ i = Len(observations) + 1
  BY <1>2 DEF Calls
<1>4. \A i \in Calls' : Legitimate(observations'[i])
  BY <1>2, <1>3 DEF RequestInv, Observing, Calls
<1>5. Observing'
  BY <1>2, <1>4 DEF Observing, Legitimate
<1>6. Bounded' /\ RequestTypeOK'
  BY DEF RequestInv, Bounded, RequestTypeOK, Files
<1>7. QED
  BY <1>5, <1>6 DEF RequestInv

\* A verified change within the scope, of files that it lists.
LEMMA ChangeKeeps ==
    ASSUME RequestInv, NEW e \in Effects, NEW used \in SUBSET Files,
           NEW results \in SUBSET Files, NEW check \in {"verified", "incomplete"},
           e \in scope.effects, Observed(e, "ok", used, results, check),
           \A p \in used : Listed(p) /\ Passes(p),
           disk' \subseteq Files, manifests' = manifests
    PROVE  RequestInv'
<1> DEFINE o == [effect |-> e, status |-> "ok", used |-> used, results |-> results,
                 check |-> check]
<1>1. observations' = Append(observations, o) /\ UNCHANGED <<status, intent, scope, mandate>>
  BY DEF Observed
<1>2. o \in Observation
  BY DEF Observation
<1>3. e \in mandate.asks
  BY DEF RequestInv, Bounded
<1>4. mandate.files # {} => used \subseteq mandate.files
  BY DEF RequestInv, Bounded, Listed
<1>5. mandate.only # {} => \A p \in used : Ext(p) \in mandate.only
  BY DEF RequestInv, Bounded, Passes
<1>6. Legitimate(o)
  BY <1>3, <1>4, <1>5 DEF Legitimate
<1>7. \A m \in manifests' : m.items \subseteq {m.dir} \X Names
  BY DEF RequestInv, RequestTypeOK
<1> HIDE DEF o
<1>8. QED
  BY <1>1, <1>2, <1>6, <1>7, Appending

\* A call that changes nothing.
LEMMA ReadKeeps ==
    ASSUME RequestInv, NEW e \in {"read", "none"}, NEW state \in {"ok", "failed", "rejected"},
           e = "read" \/ state # "ok", NEW results \in SUBSET (Files \cup {Text}),
           NEW check \in {"verified", "incomplete", "failed", "skipped"},
           Observed(e, state, {}, results, check), disk' = disk,
           \A m \in manifests' : m.items \subseteq {m.dir} \X Names
    PROVE  RequestInv'
<1> DEFINE o == [effect |-> e, status |-> state, used |-> {}, results |-> results,
                 check |-> check]
<1>1. observations' = Append(observations, o) /\ UNCHANGED <<status, intent, scope, mandate>>
  BY DEF Observed
<1>2. o \in Observation /\ Legitimate(o)
  BY DEF Observation, Legitimate
<1>3. disk' \subseteq Files
  BY DEF RequestInv, RequestTypeOK, Files
<1> HIDE DEF o
<1>4. QED
  BY <1>1, <1>2, <1>3, Appending

\* What is kept of the results of a batch is some of them.
LEMMA KeptIsSome == ASSUME NEW made, NEW k \in Kept(made) PROVE k \subseteq made
BY DEF Kept

\* Whatever the planner calls.
LEMMA CallKeeps == ASSUME RequestInv, Call PROVE RequestInv'
<1>0. /\ disk \subseteq Files /\ scope.files \subseteq Paths
      /\ \A m \in manifests : m.items \subseteq {m.dir} \X Names
      /\ \A d \in Dirs : {d} \X Names \subseteq Paths
      /\ {Trash} \X Names \subseteq Files /\ Paths \subseteq Files
  BY DEF RequestInv, RequestTypeOK, Files, Paths, TrashPaths
<1>1. CASE CallFails
  <2>1. /\ UNCHANGED <<disk, manifests>>
        /\ \/ Observed("none", "failed", {}, {}, "failed")
           \/ Observed("none", "rejected", {}, {}, "skipped")
    BY <1>1 DEF CallFails
  <2>2. QED
    BY <1>0, <2>1, ReadKeeps
<1>2. ASSUME NEW d \in Dirs, ScanDirectory(d) PROVE RequestInv'
  <2>1. PICK items \in SUBSET ({d} \X Names), check \in {"verified", "incomplete"} :
           /\ manifests' = manifests \cup {[dir |-> d, items |-> items,
                                            truncated |-> check = "incomplete"]}
           /\ Observed("read", "ok", {}, {}, check)
    BY <1>2 DEF ScanDirectory
  <2>2. disk' = disk
    BY <1>2 DEF ScanDirectory
  <2>3. \A m \in manifests' : m.items \subseteq {m.dir} \X Names
    BY <1>0, <2>1
  <2>4. QED
    BY <2>1, <2>2, <2>3, ReadKeeps
<1>3. ASSUME NEW p \in Paths, ExtractText(p) PROVE RequestInv'
  <2>1. Observed("read", "ok", {}, {Text}, "verified") /\ UNCHANGED <<disk, manifests>>
    BY <1>3 DEF ExtractText, Done
  <2>2. QED
    BY <1>0, <2>1, ReadKeeps
<1>4. ASSUME NEW p \in Paths, NEW q \in Files, NEW e \in Effects, NEW roots,
             MayDo(e), MayUse(p, roots), Done(e, {p}, {q}),
             disk' \subseteq disk \cup {q}, manifests' = manifests
      PROVE  RequestInv'
  <2>1. e \in scope.effects /\ \A r \in {p} : Listed(r) /\ Passes(r)
    BY <1>4 DEF MayDo, MayUse
  <2>2. Observed(e, "ok", {p}, {q}, "verified") /\ disk' \subseteq Files
    BY <1>0, <1>4 DEF Done
  <2>3. {p} \in SUBSET Files /\ {q} \in SUBSET Files
    BY <1>0
  <2>4. QED
    BY <1>4, <2>1, <2>2, <2>3, ChangeKeeps
<1>5. ASSUME NEW p \in Paths, NEW d \in Dirs, NEW n \in Names, MoveFile(p, d, n)
      PROVE  RequestInv'
  <2>1. PICK q \in {d} \X Names : Put(p, q) /\ Done("move", {p}, {q})
    BY <1>5 DEF MoveFile, Free
  <2>2. q \in Files /\ disk' \subseteq disk \cup {q} /\ manifests' = manifests
    BY <1>0, <2>1 DEF Put
  <2>3. QED
    BY <1>4, <1>5, <2>1, <2>2 DEF MoveFile, Effects
<1>6. ASSUME NEW p \in Paths, DeleteFile(p) PROVE RequestInv'
  <2>1. PICK q \in {Trash} \X Names : Put(p, q) /\ Done("delete", {p}, {q})
    BY <1>6 DEF DeleteFile, Free
  <2>2. q \in Files /\ disk' \subseteq disk \cup {q} /\ manifests' = manifests
    BY <1>0, <2>1 DEF Put
  <2>3. QED
    BY <1>4, <1>6, <2>1, <2>2 DEF DeleteFile, Effects
<1>7. ASSUME NEW p \in Paths, NEW n \in Names, RenameFile(p, n) PROVE RequestInv'
  <2> DEFINE q == <<DirOf(p), n>>
  <2>1. q \in Files
    BY <1>0 DEF Paths, DirOf
  <2>2. /\ MayDo("rename") /\ MayUse(p, scope.sources) /\ Done("rename", {p}, {q})
        /\ disk' \subseteq disk \cup {q} /\ manifests' = manifests
    BY <1>7 DEF RenameFile, Put
  <2> HIDE DEF q
  <2>3. QED
    BY <1>4, <2>1, <2>2 DEF Effects
<1>8. ASSUME NEW p \in Paths, NEW d \in Dirs, WriteSummary(p, d) PROVE RequestInv'
  <2>1. PICK q \in {d} \X Names : disk' = disk \cup {q} /\ Done("write", {p}, {q})
    BY <1>8 DEF WriteSummary
  <2>2. q \in Files
    BY <1>0
  <2>3. QED
    BY <1>4, <1>8, <2>1, <2>2 DEF WriteSummary, Effects
<1>9. ASSUME NEW m \in manifests, NEW exts, NEW d \in Dirs, BatchMove(m, exts, d)
      PROVE  RequestInv'
  <2> DEFINE Whole(moved) == IF moved = Matched(m, exts) /\ ~m.truncated THEN "verified"
                             ELSE "incomplete"
  <2>0. PICK moved \in SUBSET (Matched(m, exts) \cap disk) : \E at \in Landings(moved, d) :
           LET put == {at[p] : p \in moved} IN
           \E results \in Kept(put) :
           /\ disk' = (disk \ moved) \cup put
           /\ Observed("move", "ok", moved, results, Whole(moved))
    BY <1>9 DEF BatchMove
  <2>1. PICK at \in Landings(moved, d) :
           LET put == {at[p] : p \in moved} IN
           \E results \in Kept(put) :
           /\ disk' = (disk \ moved) \cup put
           /\ Observed("move", "ok", moved, results, Whole(moved))
    BY <2>0
  <2> DEFINE put == {at[p] : p \in moved}
  <2>2. PICK results \in Kept(put), check \in {"verified", "incomplete"} :
           /\ disk' = (disk \ moved) \cup put
           /\ Observed("move", "ok", moved, results, check)
    BY <2>1
  <2>3. put \subseteq {d} \X Names
    BY DEF Landings
  <2>4. put \subseteq Files
    BY <1>0, <2>3
  <2>5. moved \subseteq Files
    BY <1>0
  <2>6. /\ "move" \in scope.effects
        /\ scope.only # {} => exts # {} /\ exts \subseteq scope.only
        /\ \A p \in Matched(m, exts) : Listed(p)
        /\ manifests' = manifests
    BY <1>9 DEF BatchMove, MayDo, MayBatch
  <2>7. \A p \in moved : Listed(p) /\ Passes(p)
    BY <2>6 DEF Matched, Passes
  <2>8. results \in SUBSET Files
    BY <2>2, <2>4, KeptIsSome
  <2>9. disk' \subseteq Files
    BY <1>0, <2>2, <2>4
  <2> HIDE DEF put
  <2>10. QED
    BY <2>2, <2>4, <2>5, <2>6, <2>7, <2>8, <2>9, ChangeKeeps DEF Effects
<1>10. QED
  BY <1>1, <1>2, <1>3, <1>5, <1>6, <1>7, <1>8, <1>9 DEF Call

\* A request, and what other programs do meanwhile, stays within what was asked for.
LEMMA RequestNextInv == RequestInv /\ [RequestNext]_requestVars => RequestInv'
<1> SUFFICES ASSUME RequestInv, [RequestNext]_requestVars PROVE RequestInv'
  OBVIOUS
<1>1. ASSUME NEW w \in Messages, Message(w) PROVE RequestInv'
  BY <1>1, MessageKeeps
<1>2. CASE Call
  BY <1>2, CallKeeps
<1>3. ASSUME UNCHANGED <<intent, scope, observations, manifests, mandate>>,
             disk' \subseteq Files,
             status' \in {"none", "running", "needs_clarification", "completed"}
      PROVE  RequestInv'
  <2>1. Observing' /\ Bounded'
    BY <1>3 DEF RequestInv, Observing, Bounded, Calls, Legitimate
  <2>2. RequestTypeOK'
    BY <1>3 DEF RequestInv, RequestTypeOK, Files
  <2>3. QED
    BY <2>1, <2>2 DEF RequestInv
<1>4. disk \subseteq Files /\ status \in {"none", "running", "needs_clarification", "completed"}
  BY DEF RequestInv, RequestTypeOK, Files
<1>5. CASE Clarify \/ Finish
  BY <1>3, <1>4, <1>5 DEF Clarify, Finish, Ends
<1>6. CASE Tick \/ UNCHANGED requestVars
  BY <1>3, <1>4, <1>6 DEF Tick, requestVars, run
<1>7. ASSUME NEW p \in Paths \cup TrashPaths, Outside(p) PROVE RequestInv'
  <2>1. p \in Files
    BY DEF Files
  <2>2. disk' \subseteq Files
    BY <1>4, <1>7, <2>1 DEF Outside
  <2>3. QED
    BY <1>3, <1>4, <1>7, <2>2 DEF Outside, run
<1>8. QED
  BY <1>1, <1>2, <1>5, <1>6, <1>7 DEF RequestNext

\* What a request is about, at any time.
LEMMA RequestAlways == RequestSpec => []RequestInv
  BY RequestInitInv, RequestNextInv, PTL DEF RequestSpec

\* The state of a request keeps its types, and its scope never allows an effect that
\* its words do not ask for.
THEOREM RequestTyped == RequestSpec => []RequestTypeOK
  BY RequestAlways, PTL DEF RequestInv

\* Whatever the planner calls, and however often the user answers: only effects are
\* observed that the user asked for before any answer (authorization.py:7).
THEOREM AskedSafe == RequestSpec => []OnlyWhatWasAsked
<1>1. RequestInv => OnlyWhatWasAsked
  BY DEF RequestInv, Observing, Legitimate, OnlyWhatWasAsked, Changed, Ok
<1>2. QED
  BY <1>1, RequestAlways, PTL

\* Where the user named files or extensions, single calls and batches over any list
\* have worked on those only, whatever further files and extensions an answer names
\* (the folders that an answer adds are not in it, authorization.py:469).
THEOREM NamedSafe == RequestSpec => []OnlyWhatWasNamed
<1>1. RequestInv => OnlyWhatWasNamed
  BY DEF RequestInv, Observing, Legitimate, OnlyWhatWasNamed, Changed, Ok
<1>2. QED
  BY <1>1, RequestAlways, PTL

\* The verdict "success" means that every effect was observed, nothing failed or was
\* rejected, and what was kept of the results is there.
LEMMA SuccessMeans ==
    ASSUME RequestInv, NEW stop, NEW left, Verdict(stop, left) = "success"
    PROVE  /\ \A e \in mandate.asks : \E i \in Calls : Ok(i) /\ observations[i].effect = e
           /\ ~Some("failed") /\ ~Some("rejected")
           /\ Results \ Summarised \subseteq disk
<1>1. /\ Unmet = {} /\ ~Some("failed") /\ ~Some("rejected")
      /\ \A i \in Calls : Check(i) \notin {"failed", "incomplete"}
  BY DEF Verdict
<1>2. mandate.asks = intent.asks
  BY DEF RequestInv, RequestTypeOK, Bounded
<1>3. \A e \in mandate.asks : \E i \in Calls : Ok(i) /\ observations[i].effect = e
  BY <1>1, <1>2 DEF Unmet
<1>4. ASSUME NEW x \in Results, x \notin Summarised PROVE x \in disk
  <2>1. PICK i \in Calls : Changed(i) /\ x \in observations[i].results \ Taken(i)
    BY DEF Results
  <2>2. observations[i].check \in {"verified", "incomplete"}
    BY <2>1 DEF RequestInv, Observing, Legitimate, Changed, Ok
  <2>3. observations[i].results \ Consumed(i) \subseteq disk
    BY <1>1, <2>2 DEF Check
  <2>4. ASSUME x \in Consumed(i) PROVE FALSE
    <3>1. PICK j \in Calls : j > i /\ Ok(j) /\ x \in observations[j].used
      BY <2>4 DEF Consumed
    <3>2. observations[j].effect \in Effects
      BY <3>1 DEF RequestInv, Observing, Legitimate
    <3>3. observations[j].effect \notin {"move", "rename", "delete"}
      BY <2>1, <3>1 DEF Taken
    <3>4. observations[j].effect # "write"
      BY <1>4, <3>1 DEF Summarised
    <3>5. QED
      BY <3>2, <3>3, <3>4 DEF Effects
  <2>5. QED
    BY <2>1, <2>3, <2>4
<1>5. QED
  BY <1>1, <1>3, <1>4

\* A success is one: of everything asked for there was a call that ended well, nothing
\* failed or was rejected, and the results that were kept are still there.  (Of a batch
\* only the first are, tool_executor.py:219, and it may be one over no file,
\* outcome.py:241.)
THEOREM SuccessSafe == RequestSpec => SuccessIsTrue
<1>1. ASSUME RequestInv, [RequestNext]_requestVars, Succeeds
      PROVE  /\ \A e \in mandate.asks : \E i \in Calls : Ok(i) /\ observations[i].effect = e
             /\ ~Some("failed") /\ ~Some("rejected")
             /\ Results \ Summarised \subseteq disk
  <2>1. ~Call
    <3>1. ASSUME Call PROVE UNCHANGED outcome
      <4>1. CASE CallFails
        BY <4>1 DEF CallFails, Observed
      <4>2. ASSUME NEW d \in Dirs, ScanDirectory(d) PROVE UNCHANGED outcome
        BY <4>2 DEF ScanDirectory, Observed
      <4>3. ASSUME NEW p \in Paths,
                   \/ ExtractText(p) \/ DeleteFile(p)
                   \/ \E d \in Dirs : \/ WriteSummary(p, d)
                                      \/ \E n \in Names : MoveFile(p, d, n)
                   \/ \E n \in Names : RenameFile(p, n)
            PROVE  UNCHANGED outcome
        BY <4>3 DEF ExtractText, MoveFile, RenameFile, DeleteFile, WriteSummary, Done, Observed
      <4>4. ASSUME NEW m \in manifests, NEW exts, NEW d \in Dirs, BatchMove(m, exts, d)
            PROVE  UNCHANGED outcome
        BY <4>4 DEF BatchMove, Observed
      <4>5. QED
        BY <3>1, <4>1, <4>2, <4>3, <4>4 DEF Call
    <3>2. QED
      BY <1>1, <3>1 DEF Succeeds
  <2>2. Finish
    BY <1>1, <2>1 DEF Succeeds, RequestNext, Message, Clarify, Ends, Outside, Tick, run,
       requestVars
  <2>3. PICK stop, left : outcome' = Verdict(stop, left)
    BY <2>2 DEF Finish, Ends
  <2>4. Verdict(stop, left) = "success"
    BY <1>1, <2>3 DEF Succeeds
  <2>5. QED
    BY <1>1, <2>4, SuccessMeans
<1>2. QED
  BY <1>1, RequestAlways, PTL DEF RequestSpec, SuccessIsTrue
=============================================================================
