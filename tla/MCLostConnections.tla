------------------------- MODULE MCLostConnections -------------------------
(* The two programs that open a connection once and keep it: the historic   *)
(* matching task and the import of situations. They share nothing, so TLC   *)
(* takes one behaviour of either at a time.                                 *)
EXTENDS HistoricWorkers, SituationsImport, TLC

CONSTANTS o1, o2, o3, j1, j2, j3, j4

TwoEach == j1 :> o1 @@ j2 :> o1 @@ j3 :> o2 @@ j4 :> o3

Bulletin == "reinstated" :> <<"cancelled", "normalService">> @@
            "corrected" :> <<"unreadable", "cancelled">>

VARIABLE program

Programs == {"historic", "situations"}

Init == program \in Programs /\ WorkersInit /\ SxInit

Next ==
    /\ UNCHANGED program
    /\ \/ program = "historic" /\ WorkersNext /\ UNCHANGED sxVars
       \/ program = "situations" /\ SxNext /\ UNCHANGED workersVars

LostSpec ==
    /\ Init /\ [][Next]_<<program, workersVars, sxVars>>
    /\ program = "historic" => WorkersFairness
    /\ program = "situations" => SxFairness

(* The task ends, whatever its workers run into (main, worker.join).        *)
TaskEndsAnyway == program = "historic" => TaskEnds

(* What the feed says is stored in the end, whatever is lost (the schedule, *)
(* and ON CONFLICT DO NOTHING).                                             *)
ImportedAnyway == program = "situations" => EventuallyImported
=============================================================================
