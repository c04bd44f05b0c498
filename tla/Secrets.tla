------------------------------ MODULE Secrets ------------------------------
(***************************************************************************)
(* The model's API key (llm_config.py over security/secrets.py and the     *)
(* settings pages).  Older versions wrote it as plain text to the          *)
(* database; it is moved to the secret store at start or when the user     *)
(* asks to try again, while others save or clear the key.  Any access to   *)
(* the store may raise, and the process may stop between two accesses.     *)
(***************************************************************************)
EXTENDS Naturals, FiniteSets

CONSTANTS
    Threads,        \* requests of the settings pages
    Keys,           \* keys a user may type
    Old,            \* the key an older version left in the database
    Env,            \* OPENAI_API_KEY of the environment
    None,
    MaxCrashes, MaxSaves    \* bounds

ASSUME SecretsAssumption == {None, Env} \cap (Keys \cup {Old}) = {} /\ None \notin Threads

VARIABLES
    backend,        \* windows-dpapi, or unavailable on other platforms
    store,          \* the key in the secret store
    legacy,         \* the plain text in the database
    migration,      \* _migration["status"]
    attempted,      \* _migration["attempted"]
    lock,           \* owner of _MIGRATION_LOCK
    up,             \* the migration at start is over, requests are served
    pc, key,        \* per thread: its step, the key it has in hand
    crashes, saves,
    last,           \* history: the user's last choice that reached the store
    raced,          \* history: a choice and a migration ran at the same time
    cut             \* history: the last choice was to clear the key, and the database
                    \* was not reached

state == <<backend, store, legacy>>
history == <<last, raced, cut>>
keyVars == <<state, migration, attempted, lock, up, pc, key, crashes, saves, history>>

SecretsInit ==
    /\ backend \in {"windows-dpapi", "unavailable"}
    /\ store = None /\ legacy \in {Old, None}
    /\ migration = "unknown" /\ attempted = FALSE /\ lock = None /\ up = FALSE
    /\ pc = [t \in Threads |-> "idle"] /\ key = [t \in Threads |-> None]
    /\ crashes = 0 /\ saves = 0 /\ last = legacy /\ raced = FALSE /\ cut = FALSE

Goes(t, from, to) == pc[t] = from /\ pc' = [pc EXCEPT ![t] = to]

\* set_secret, with its own read-back: it may raise before or after the write.
\* An unavailable store refuses every write.
Write(k, written, ok) ==
    /\ backend = "unavailable" => ~written
    /\ ok => written
    /\ store' = IF written THEN k ELSE store

-----------------------------------------------------------------------------
\* The lock is given back and the outcome noted; at start the server goes up.
Settle(t, status) ==
    /\ pc' = [pc EXCEPT ![t] = "idle"] /\ lock' = None /\ up' = TRUE
    /\ migration' = status /\ attempted' = TRUE

Owner(t) == t

\* The store is cleared and the database is not yet.
Clearing == \E t \in Threads : pc[t] = "clearclean"

\* migrate_legacy_api_key at start, on a first read (resolve_api_key), or forced
\* by POST /settings/llm/key/migrate.
MigrateBegin(t) ==
    /\ pc[t] = "idle" /\ lock = None
    /\ \E force \in BOOLEAN : (force => up) /\ (attempted => force)
    /\ IF legacy = None
       THEN Settle(t, "not_needed") /\ UNCHANGED <<key, raced>>
       ELSE /\ Goes(t, "idle", "look") /\ lock' = Owner(t)
            /\ key' = [key EXCEPT ![t] = legacy]
            /\ raced' = (raced \/ Clearing)
            /\ UNCHANGED <<migration, attempted, up>>
    /\ UNCHANGED <<state, crashes, saves, last, cut>>

\* Mutant: what an older version left wins over what is in the store.
NextStepOldest == "store"

\* Mutant: nobody looks whether the store has a key.
NextStepDone == "clean"

\* A key that is in the store already is newer than the plain text, or the same.
NextStep == IF store = None THEN "store" ELSE "clean"

MigrateLook(t) ==
    /\ \/ Goes(t, "look", NextStep) /\ UNCHANGED <<migration, attempted, lock, up>>
       \/ pc[t] = "look" /\ store # None /\ Settle(t, "failed")
    /\ UNCHANGED <<state, key, crashes, saves, history>>

MigrateStore(t) ==
    /\ pc[t] = "store"
    /\ \E written, ok \in BOOLEAN :
          /\ Write(key[t], written, ok)
          /\ IF ok
             THEN Goes(t, "store", "check") /\ UNCHANGED <<migration, attempted, lock, up>>
             ELSE Settle(t, "failed")
    /\ UNCHANGED <<backend, legacy, key, crashes, saves, history>>

\* readback = legacy; the read may raise.
Same(t) == store = key[t]

MigrateCheck(t) ==
    /\ \/ Same(t) /\ Goes(t, "check", "clean") /\ UNCHANGED <<migration, attempted, lock, up>>
       \/ pc[t] = "check" /\ Settle(t, "failed")
    /\ UNCHANGED <<state, key, crashes, saves, history>>

\* delete_llm_config_key and scrub_llm_config_plaintext.
MigrateClean(t) ==
    /\ pc[t] = "clean" /\ legacy' = None /\ Settle(t, "migrated")
    /\ UNCHANGED <<backend, store, key, crashes, saves, history>>

\* The database raises outside the try: nothing is noted, the next read tries again.
MigrateRaises(t) ==
    /\ pc[t] = "clean" /\ pc' = [pc EXCEPT ![t] = "idle"] /\ lock' = None /\ up' = TRUE
    /\ UNCHANGED <<state, migration, attempted, key, crashes, saves, history>>

-----------------------------------------------------------------------------
\* A choice reaches the store: the migration's lock is not asked for.
Choose(k) == last' = k /\ raced' = (raced \/ lock # None) /\ cut' = FALSE

\* set_api_key: the write and its read-back.
SaveStore(t) ==
    /\ up /\ pc[t] = "idle" /\ saves < MaxSaves /\ saves' = saves + 1
    /\ \E k \in Keys, written, ok \in BOOLEAN :
          /\ Write(k, written, ok)
          /\ IF written THEN Choose(k) ELSE UNCHANGED history
          /\ IF ok THEN /\ pc' = [pc EXCEPT ![t] = "saved"] /\ key' = [key EXCEPT ![t] = k]
             ELSE UNCHANGED <<pc, key>>
    /\ UNCHANGED <<backend, legacy, migration, attempted, lock, up, crashes>>

\* The second read-back: another save may have come between.
SaveCheck(t) ==
    /\ \/ Same(t) /\ Goes(t, "saved", "saveclean")
       \/ Goes(t, "saved", "idle")
    /\ UNCHANGED <<state, migration, attempted, lock, up, key, crashes, saves, history>>

Tidy(t, from, status) ==
    /\ Goes(t, from, "idle") /\ legacy' = None
    /\ migration' = status /\ attempted' = TRUE
    /\ UNCHANGED <<backend, store, lock, up, key, crashes, saves, history>>

SaveClean(t) == Tidy(t, "saveclean", "configured")

\* clear_api_key.  It raises when the file cannot be deleted (a missing one is no
\* error) and then leaves the plain text alone; an unavailable store has none.
ClearStore(t) ==
    /\ up /\ pc[t] = "idle" /\ saves < MaxSaves /\ saves' = saves + 1
    /\ \/ /\ store' = None /\ Choose(None) /\ pc' = [pc EXCEPT ![t] = "clearclean"]
          /\ UNCHANGED <<migration, attempted>>
       \/ /\ store # None /\ migration' = "clear_failed" /\ attempted' = TRUE
          /\ UNCHANGED <<store, history, pc>>
    /\ UNCHANGED <<backend, legacy, lock, up, key, crashes>>

ClearClean(t) == Tidy(t, "clearclean", "cleared")

\* The database raises after the store was changed.
TidyRaises(t) ==
    /\ pc[t] \in {"saveclean", "clearclean"} /\ Goes(t, pc[t], "idle")
    /\ cut' = (cut \/ pc[t] = "clearclean")
    /\ UNCHANGED <<state, migration, attempted, lock, up, key, crashes, saves, last,
                   raced>>

\* What is on the disk stays.
ProcessStops ==
    /\ crashes < MaxCrashes /\ crashes' = crashes + 1
    /\ pc' = [t \in Threads |-> "idle"] /\ key' = [t \in Threads |-> None]
    /\ lock' = None /\ up' = FALSE /\ migration' = "unknown" /\ attempted' = FALSE
    /\ cut' = (cut \/ Clearing)
    /\ UNCHANGED <<state, saves, last, raced>>

SecretsNext ==
    \/ ProcessStops
    \/ \E t \in Threads :
          \/ MigrateBegin(t) \/ MigrateLook(t) \/ MigrateStore(t) \/ MigrateCheck(t)
          \/ MigrateClean(t) \/ MigrateRaises(t)
          \/ SaveStore(t) \/ SaveCheck(t) \/ SaveClean(t)
          \/ ClearStore(t) \/ ClearClean(t) \/ TidyRaises(t)

SecretsSpec == SecretsInit /\ [][SecretsNext]_keyVars

-----------------------------------------------------------------------------
\* Types; whoever migrates holds the lock.
SecretsTypeOK ==
    /\ store \in Keys \cup {Old, None} /\ legacy \in {Old, None}
    /\ migration \in {"unknown", "not_needed", "failed", "migrated", "configured",
                      "cleared", "clear_failed"}
    /\ \A t \in Threads : pc[t] \in {"look", "store", "check", "clean"} <=> lock = t

\* What resolve_api_key returns when the store can be read.
Resolved ==
    IF store # None THEN store ELSE IF migration = "failed" THEN None ELSE Env

Quiet == up /\ attempted /\ \A t \in Threads : pc[t] = "idle"

\* The key the user has given last and not cleared, or the one an older version left
\* when he has given none, is never lost, whichever access fails and wherever the
\* process stops: the store has it, or has none while the database still does.
\* (Unless a migration ran during the choice, which does not take its lock,
\* llm_config.py:226: it may write the old key over the new one.)
KeyNeverLost ==
    last # None /\ ~raced => store = last \/ (store = None /\ legacy = last)

\* Between requests, the model is called with the key the user chose last or with
\* none: not with the older one that a save left in the database when the process
\* stopped, and not with the one of the environment while the migration is
\* unfinished.  Once he has cleared it, no key is left but that of the environment.
\* (Unless a migration ran during the choice, or the clearing of the key ended between
\* the store and the database: the next migration then brings the old one back.)
ChosenKeyServed ==
    Quiet /\ ~raced /\ ~cut
        => Resolved \in {last, None} \cup (IF last = None THEN {Env} ELSE {})
=============================================================================
