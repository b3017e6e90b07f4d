------------------------------ MODULE AgentSlots ------------------------------
(***************************************************************************)
(* What the hosting side promises about the agents of the runs, one slot   *)
(* for each (run, participant): at most one agent that nobody has told to  *)
(* end, no agent that is forgotten, and a shutdown that reaches all of     *)
(* them at once.  How processes, signals, events and timers achieve it is  *)
(* left to LaunchSupervisor.                                               *)
(***************************************************************************)
CONSTANT Key

VARIABLES
    slot,  \* "empty", "live", or "ending": told to end and not dead yet
    open   \* the service has not been shut down

Init == slot = [k \in Key |-> "empty"] /\ open = TRUE

Spawn(k) ==
    /\ slot[k] = "empty"
    /\ slot' = [slot EXCEPT ![k] = "live"]
    /\ UNCHANGED open

Terminate(k) ==
    /\ slot[k] = "live"
    /\ slot' = [slot EXCEPT ![k] = "ending"]
    /\ UNCHANGED open

Die(k) ==
    /\ slot[k] # "empty"
    /\ slot' = [slot EXCEPT ![k] = "empty"]
    /\ UNCHANGED open

Shutdown ==
    /\ open
    /\ open' = FALSE
    /\ slot' = [k \in Key |-> IF slot[k] = "live" THEN "ending" ELSE slot[k]]

Next ==
    \/ \E k \in Key : Spawn(k) \/ Terminate(k) \/ Die(k)
    \/ Shutdown

Spec == Init /\ [][Next]_<<slot, open>>
=============================================================================
