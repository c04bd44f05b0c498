----------------------------- MODULE MCFolders -----------------------------
(* The two services that look through the user's folders by themselves, one of them
   in each behaviour. *)
EXTENDS Watcher, Indexer, TLC

CONSTANTS x, y, z

\* A folder in a folder in a folder, of which the outermost is authorized.
Deep == x :> 0 @@ y :> 1 @@ z :> 2
Inside == x :> {x, y, z} @@ y :> {y, z} @@ z :> {z}
Outermost == [d \in {x, y, z} |-> x]

VARIABLE service

FoldersInit ==
    /\ service \in {"watcher", "indexer"}
    /\ WatchInit /\ IndexInit
    /\ service = "watcher" => at \in [Documents -> {x}]

FoldersNext ==
    /\ UNCHANGED service
    /\ \/ service = "watcher" /\ WatchNext /\ UNCHANGED indexVars
       \/ service = "indexer" /\ IndexNext /\ UNCHANGED watchVars

\* Each service goes on while the program runs: see WatchFairSpec and IndexFairSpec.
FoldersSpec ==
    /\ FoldersInit /\ [][FoldersNext]_<<service, watchVars, indexVars>>
    /\ WF_watchVars(service = "watcher" /\ LoopRead /\ UNCHANGED <<service, indexVars>>)
    /\ WF_watchVars(service = "watcher" /\ Work("loop") /\ UNCHANGED <<service, indexVars>>)
    /\ WF_watchVars(service = "watcher" /\ Tick /\ UNCHANGED <<service, indexVars>>)
    /\ WF_indexVars(service = "indexer" /\ Build /\ UNCHANGED <<service, watchVars>>)
=============================================================================
