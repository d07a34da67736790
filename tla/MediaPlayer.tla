----------------------------- MODULE MediaPlayer -----------------------------
(***************************************************************************)
(* What opening and closing media promises to the rest of the player, told *)
(* by the load state, the media whose graph stands and the media that is   *)
(* remembered as the last one opened.  One media is opened at a time: its  *)
(* graph is built once while it is loading, it is loaded only with its     *)
(* graph standing, it may fail with or without, and whatever was opened    *)
(* is destroyed and forgotten before the player is closed and may open     *)
(* again.                                                                  *)
(*                                                                         *)
(* A command of another program that enters a wait ends the promise.       *)
(***************************************************************************)
CONSTANTS Media, None

VARIABLES state, graph, last

vars == <<state, graph, last>>

Init == state = "CLOSED" /\ graph = None /\ last = None

Open ==
    /\ state = "CLOSED" /\ state' = "LOADING"
    /\ UNCHANGED <<graph, last>>

Build ==
    /\ state = "LOADING" /\ graph = None /\ graph' \in Media
    /\ UNCHANGED <<state, last>>

Load ==
    /\ state = "LOADING" /\ graph # None
    /\ state' = "LOADED" /\ last' = graph
    /\ UNCHANGED graph

\* The media that failed is the one whose graph stands, unless its graph was never built.
Fail ==
    /\ state = "LOADING" /\ state' = "FAILING"
    /\ last' \in IF graph = None THEN Media ELSE {graph}
    /\ UNCHANGED graph

\* Media that is still loading may be closed as well.
Close ==
    /\ state \in {"LOADING", "LOADED", "FAILING"} /\ state' = "CLOSING"
    /\ UNCHANGED <<graph, last>>

Destroy ==
    /\ state = "CLOSING"
    /\ graph' = None /\ last' = None
    /\ UNCHANGED state

Closed ==
    /\ state = "CLOSING" /\ graph = None /\ last = None /\ state' = "CLOSED"
    /\ UNCHANGED <<graph, last>>

Intrude == state' = "INTRUDED" /\ graph' = None /\ last' = None

Next == Open \/ Build \/ Load \/ Fail \/ Close \/ Destroy \/ Closed \/ Intrude

Spec == Init /\ [][Next]_vars
==============================================================================
