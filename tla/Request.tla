------------------------------ MODULE Request ------------------------------
(***************************************************************************)
(* What one request may do to files, and how its result is judged: the     *)
(* scope that policy/authorization.py derives from the user's words, its   *)
(* narrowing when the user answers a question (agent/graph.py), the check  *)
(* of every call against it (policy/engine.py, agent/tool_executor.py),    *)
(* lists of scanned files (tools/manifests.py), and the verdict over the   *)
(* observations (agent/outcome.py).  The model behind the planner may call *)
(* any tool with any arguments; other programs change the disk.  Words are *)
(* modelled by what is read out of them, folders have no subfolders.       *)
(***************************************************************************)
EXTENDS Naturals, Sequences, FiniteSets

CONSTANTS
    Dirs, Names,
    ExtOf,          \* the extension of each name
    Home,           \* the folder used when none is named
    Trash, Text,    \* the folder of deleted files; what extract_text returns
    Messages,       \* what users say
    MaxItems,       \* authorization_max_items
    MaxKept,        \* results of a batch that are kept: 10
    Ttl,            \* authorization_scope_ttl_seconds
    MaxMessages, MaxCalls, MaxScans, MaxOutside, MaxTime    \* bounds

Paths == Dirs \X Names
TrashPaths == {Trash} \X Names
DirOf(p) == p[1]
Ext(p) == ExtOf[p[2]]

Effects == {"move", "rename", "delete", "write"}

\* Read out of a message: the effects its verbs ask for, whether it starts anew (a verb
\* that only reads, or a change of task), and what it names: folders to work in, files,
\* folders to put things in, extensions after "only".
Words == [asks : SUBSET Effects, anew : BOOLEAN, from : SUBSET Dirs,
          names : SUBSET Paths, to : SUBSET Dirs, only : SUBSET {Ext(p) : p \in Paths}]

ASSUME RequestAssumption ==
    /\ Home \in Dirs /\ Trash \notin Dirs /\ Messages \subseteq Words
    /\ {MaxItems, MaxKept, Ttl} \subseteq Nat

VARIABLES
    disk,           \* the paths where a file is
    status,         \* of the thread
    intent,         \* trusted_user_intent
    scope,          \* authorization_scope
    observations, outcome,
    manifests,      \* in the database, kept over requests
    now, messages, calls, outside,
    mandate         \* history: what the user wants, said before any answer

run == <<status, intent, scope, observations, outcome>>
requestVars == <<disk, run, manifests, now, messages, calls, outside, mandate>>

NoWords == [asks |-> {}, anew |-> FALSE, from |-> {}, names |-> {}, to |-> {}, only |-> {}]
NoScope == [effects |-> {}, sources |-> {}, targets |-> {}, files |-> {}, only |-> {},
            expires |-> 0]

RequestInit ==
    /\ disk = {Home} \X Names
    /\ status = "none" /\ intent = NoWords /\ scope = NoScope
    /\ observations = <<>> /\ outcome = "none" /\ manifests = {}
    /\ now = 0 /\ messages = 0 /\ calls = 0 /\ outside = 0
    /\ mandate = [asks |-> {}, files |-> {}, only |-> {}]

-----------------------------------------------------------------------------
NamedFiles(w) == w.names \cap disk

\* _derive_roots: a file stands for its folder; what is no file is a root itself.
SourceRoots(w) ==
    LET named == w.from \cup {DirOf(p) : p \in NamedFiles(w)} \cup (w.names \ disk)
    IN IF named = {} THEN {Home} ELSE named

TargetRoots(w) == IF w.to = {} THEN SourceRoots(w) ELSE w.to

Scope(w) ==
    [effects |-> w.asks, sources |-> SourceRoots(w), targets |-> TargetRoots(w),
     files |-> NamedFiles(w), only |-> w.only, expires |-> now + Ttl]

\* Mutant: what the answer names counts.
NarrowedAnew(old, new) == IF new = {} THEN old ELSE new

\* What was asked for stays a bound.
Narrowed(old, new) == IF old \cap new = {} THEN old ELSE old \cap new

Expiry(prior, s) == IF prior.expires < s.expires THEN prior.expires ELSE s.expires

\* build_scope with a prior one.
Merged(prior, s) ==
    [effects |-> prior.effects,
     sources |-> prior.sources \cup s.sources, targets |-> prior.targets \cup s.targets,
     files |-> IF prior.files = {} THEN s.files ELSE Narrowed(prior.files, s.files),
     only |-> Narrowed(prior.only, s.only),
     expires |-> Expiry(prior, s)]

\* Mutant: a message that only wants to look is taken for an answer.
AnswersLooking(w) == status = "needs_clarification" /\ w.asks = {}

\* _is_clarification_answer, and a question was asked.
Answers(w) == status = "needs_clarification" /\ w.asks = {} /\ ~w.anew

Joined(v, w) ==
    [asks |-> v.asks \cup w.asks, anew |-> v.anew \/ w.anew, from |-> v.from \cup w.from,
     names |-> v.names \cup w.names, to |-> v.to \cup w.to, only |-> v.only \cup w.only]

\* What the user may expect of a next message.
Meant(w) ==
    IF status = "needs_clarification" /\ w.asks = {} /\ ~w.anew THEN mandate
    ELSE [asks |-> w.asks, files |-> NamedFiles(w), only |-> w.only]

\* start_stream.
Message(w) ==
    /\ status # "running" /\ messages < MaxMessages /\ messages' = messages + 1
    /\ status' = "running" /\ observations' = <<>> /\ outcome' = "none"
    /\ IF Answers(w)
       THEN LET said == Joined(intent, w) IN
            intent' = said /\ scope' = Merged(scope, Scope(said))
       ELSE intent' = w /\ scope' = Scope(w)
    /\ mandate' = Meant(w)
    /\ UNCHANGED <<disk, manifests, now, calls, outside>>

-----------------------------------------------------------------------------
Within(p, roots) == p \in roots \/ DirOf(p) \in roots
Roots == scope.sources \cup scope.targets

MayDo(effect) == effect \in scope.effects /\ now <= scope.expires

Passes(p) == scope.only = {} \/ Ext(p) \in scope.only

Listed(p) == scope.files = {} \/ p \in scope.files

MayUse(p, roots) == Within(p, roots) /\ Listed(p) /\ Passes(p)

\* manifests.match.
Matched(m, exts) == {p \in m.items : exts = {} \/ Ext(p) \in exts}

\* check_filter, the limit and the named files, for a batch.
MayBatch(m, exts) ==
    /\ m.dir \in scope.sources /\ Cardinality(Matched(m, exts)) <= MaxItems
    /\ scope.only # {} => exts # {} /\ exts \subseteq scope.only
    /\ \A p \in Matched(m, exts) : Listed(p)

\* Where files land in a folder: under their names, or under others of the same kind
\* where those are taken.
Landings(ps, d) ==
    {at \in [ps -> {d} \X Names] :
        /\ \A p \in ps : /\ at[p] \notin disk /\ Ext(at[p]) = Ext(p)
                         /\ <<d, p[2]>> \notin disk => at[p] = <<d, p[2]>>
        /\ \A p, q \in ps : at[p] = at[q] => p = q}

\* A call is over: what it has worked on, what is kept of what it has made as its
\* results, and what record_verification says of them at once.
Observed(effect, state, used, results, check) ==
    /\ status = "running" /\ calls < MaxCalls /\ calls' = calls + 1
    /\ observations' = Append(observations,
          [effect |-> effect, status |-> state, used |-> used, results |-> results,
           check |-> check])
    /\ UNCHANGED <<status, intent, scope, outcome, now, messages, outside, mandate>>

Done(effect, used, made) == Observed(effect, "ok", used, made, "verified")

\* Whatever is not authorized, not valid or raises; whatever the user rejects.
CallFails ==
    /\ \/ Observed("none", "failed", {}, {}, "failed")
       \/ Observed("none", "rejected", {}, {}, "skipped")
    /\ UNCHANGED <<disk, manifests>>

\* scan_directory and manifests.create; a scan may be cut short.
ScanDirectory(d) ==
    /\ d \in Roots /\ Cardinality(manifests) < MaxScans
    /\ \E items \in {i \in SUBSET ({d} \X Names) : i \subseteq disk},
          check \in {"verified", "incomplete"} :
          /\ check = "verified" <=> items = {p \in disk : DirOf(p) = d}
          /\ manifests' = manifests \cup {[dir |-> d, items |-> items,
                                           truncated |-> check = "incomplete"]}
          /\ Observed("read", "ok", {}, {}, check)
    /\ UNCHANGED disk

ExtractText(p) ==
    /\ p \in disk /\ Within(p, Roots) /\ Done("read", {}, {Text})
    /\ UNCHANGED <<disk, manifests>>

Put(p, q) == disk' = (disk \ {p}) \cup {q} /\ UNCHANGED manifests

\* Places in a folder for one file that is to have name n.
Free(d, n) ==
    {q \in ({d} \X Names) \ disk : Ext(q) = ExtOf[n] /\ (<<d, n>> \notin disk => q = <<d, n>>)}

\* Under its name, or under new_name.
MoveFile(p, d, n) ==
    /\ MayDo("move") /\ MayUse(p, scope.sources) /\ d \in scope.targets /\ p \in disk
    /\ \E q \in Free(d, n) : Put(p, q) /\ Done("move", {p}, {q})

RenameFile(p, n) ==
    LET q == <<DirOf(p), n>> IN
    /\ MayDo("rename") /\ MayUse(p, scope.sources) /\ p \in disk /\ q \notin disk
    /\ Put(p, q) /\ Done("rename", {p}, {q})

\* After the user's approval.
DeleteFile(p) ==
    /\ MayDo("delete") /\ MayUse(p, Roots) /\ p \in disk
    /\ \E q \in Free(Trash, p[2]) : Put(p, q) /\ Done("delete", {p}, {q})

WriteSummary(p, d) ==
    /\ MayDo("write") /\ MayUse(p, scope.sources) /\ d \in scope.targets /\ p \in disk
    /\ \E q \in ({d} \X Names) \ disk :
          disk' = disk \cup {q} /\ Done("write", {p}, {q})
    /\ UNCHANGED manifests

\* batch_result: the first results only are kept.
Kept(made) ==
    IF Cardinality(made) <= MaxKept THEN {made}
    ELSE {k \in SUBSET made : Cardinality(k) = MaxKept}

\* Each file by itself: one that is gone is skipped, one that raises has failed.
BatchMove(m, exts, d) ==
    /\ MayDo("move") /\ MayBatch(m, exts) /\ d \in scope.targets
    /\ \E moved \in SUBSET (Matched(m, exts) \cap disk) : \E at \in Landings(moved, d) :
          LET put == {at[p] : p \in moved} IN
          \E results \in Kept(put) :
          /\ disk' = (disk \ moved) \cup put
          /\ Observed("move", "ok", moved, results,
                      IF moved = Matched(m, exts) /\ ~m.truncated THEN "verified"
                      ELSE "incomplete")
    /\ UNCHANGED manifests

Call ==
    \/ CallFails
    \/ \E d \in Dirs : ScanDirectory(d)
    \/ \E p \in Paths : \/ ExtractText(p) \/ DeleteFile(p)
                        \/ \E d \in Dirs : \/ WriteSummary(p, d)
                                           \/ \E n \in Names : MoveFile(p, d, n)
                        \/ \E n \in Names : RenameFile(p, n)
    \/ \E m \in manifests, exts \in SUBSET {Ext(p) : p \in Paths}, d \in Dirs :
          BatchMove(m, exts, d)

-----------------------------------------------------------------------------
Calls == 1 .. Len(observations)
Ok(i) == observations[i].status = "ok"
Some(state) == \E i \in Calls : observations[i].status = state

\* Mutant: the order of the calls is not looked at.
ConsumedAnyTime(i) == UNION {observations[j].used : j \in Calls \ {i}}

\* _consumed_sources: what later calls have worked on.
Consumed(i) == UNION {observations[j].used : j \in {k \in Calls : k > i /\ Ok(k)}}

\* _verify_observation.
Check(i) ==
    IF observations[i].check = "verified" /\ ~(observations[i].results \ Consumed(i) \subseteq disk)
    THEN "failed" ELSE observations[i].check

Unmet == intent.asks \ {observations[i].effect : i \in {k \in Calls : Ok(k)}}

NoFileDone == \A i \in Calls : observations[i].used = {}

\* evaluate_completion; left: planned steps were not executed.
Verdict(stop, left) ==
    CASE stop = "error" -> "failed"
      [] stop = "replan_limit" -> "budget_exhausted"
      [] stop = "cancelled" -> "cancelled"
      [] OTHER ->
         IF Some("rejected") /\ NoFileDone /\ ~Some("failed") THEN "rejected"
         ELSE IF Some("failed") /\ ~Some("ok") THEN "failed"
         ELSE IF Unmet \cap {"move", "rename", "delete"} # {} THEN "goal_unmet"
         ELSE IF \/ \E i \in Calls : Check(i) \in {"failed", "incomplete"}
                 \/ left \/ Unmet # {} \/ Some("failed") \/ Some("rejected")
         THEN "partial"
         ELSE "success"

Ends(to, verdict) ==
    /\ status = "running" /\ status' = to /\ outcome' = verdict
    /\ UNCHANGED <<intent, scope, observations, disk, manifests, now, messages, calls,
                   outside, mandate>>

\* request_clarification.
Clarify == Ends("needs_clarification", "needs_clarification")

Finish ==
    \E stop \in {"model_done", "replan_limit", "cancelled", "error"}, left \in BOOLEAN :
        Ends("completed", Verdict(stop, left))

-----------------------------------------------------------------------------
\* Another program removes a file or puts one there.
Outside(p) ==
    /\ outside < MaxOutside /\ outside' = outside + 1
    /\ disk' = IF p \in disk THEN disk \ {p} ELSE disk \cup {p}
    /\ UNCHANGED <<run, manifests, now, messages, calls, mandate>>

Tick ==
    /\ now < MaxTime /\ now' = now + 1
    /\ UNCHANGED <<disk, run, manifests, messages, calls, outside, mandate>>

RequestNext ==
    \/ \E w \in Messages : Message(w)
    \/ Call \/ Clarify \/ Finish \/ Tick
    \/ \E p \in Paths \cup TrashPaths : Outside(p)

RequestSpec == RequestInit /\ [][RequestNext]_requestVars

-----------------------------------------------------------------------------
\* Types; only a request that asks for changes makes any.
RequestTypeOK ==
    /\ disk \subseteq Paths \cup TrashPaths
    /\ status \in {"none", "running", "needs_clarification", "completed"}
    /\ intent \in Words /\ scope.effects = intent.asks
    /\ scope.files \subseteq Paths
    /\ \A m \in manifests : m.items \subseteq {m.dir} \X Names

Changed(i) == Ok(i) /\ observations[i].effect # "read"

\* Whatever is planned: only what the user asked for is done, in a new task never what an
\* earlier one asked for, and an answer to a question adds nothing to it
\* (authorization.py:7).  A move may give the file another name all the same.
OnlyWhatWasAsked == \A i \in Calls : Changed(i) => observations[i].effect \in mandate.asks

\* Where a task has named files, or extensions with "only", no others are worked on, one
\* by one or in batches over lists from earlier requests, and whatever further files and
\* extensions an answer names.  (Folders are not in it, which an answer does add,
\* authorization.py:469, nor an extension that only the answer names, which is dropped,
\* authorization.py:492.)
OnlyWhatWasNamed ==
    \A i \in Calls : Changed(i) =>
        /\ mandate.files # {} => observations[i].used \subseteq mandate.files
        /\ mandate.only # {} => \A p \in observations[i].used : Ext(p) \in mandate.only

\* What later calls have taken away.
Taken(i) ==
    UNION {observations[j].used : j \in {k \in Calls :
        k > i /\ Ok(k) /\ observations[k].effect \in {"move", "rename", "delete"}}}

\* What was kept of what the calls have made and not taken away again.
Results == UNION {observations[i].results \ Taken(i) : i \in {k \in Calls : Changed(k)}}

Summarised == UNION {observations[i].used : i \in {k \in Calls : observations[k].effect = "write"}}

Succeeds == outcome # "success" /\ outcome' = "success"

\* A success is one: of everything asked for there was a call that ended well, nothing
\* failed or was rejected, and the results the calls kept are still there at the end.
\* (So it may hold though a result of a batch beyond the first MaxKept has vanished,
\* tool_executor.py:219, and a batch over no file ends well, outcome.py:241.  A file that
\* a summary was made of counts as consumed, outcome.py:122.)
SuccessIsTrue ==
    [][Succeeds => /\ \A e \in mandate.asks : \E i \in Calls : Ok(i) /\ observations[i].effect = e
                   /\ ~Some("failed") /\ ~Some("rejected")
                   /\ Results \ Summarised \subseteq disk]_requestVars
=============================================================================
