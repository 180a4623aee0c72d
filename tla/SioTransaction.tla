---------------------------- MODULE SioTransaction ----------------------------
(***************************************************************************)
(* What a caller of the SIO master may rely on, whatever the line does: a  *)
(* transaction reported as done was performed by the device, which may     *)
(* have been asked to perform it more than once; a device error is         *)
(* reported only if the device's last word on it was an error; and of any  *)
(* other failure nothing follows.                                          *)
(***************************************************************************)
EXTENDS Naturals

CONSTANT Outcomes        \* the results a transaction may have

VARIABLES
    open,                \* a transaction is under way
    done,                \* how often the device has performed it
    answer,              \* the device's last word: none, complete or error
    outcome              \* what the caller was told

vars == <<open, done, answer, outcome>>

Init == open = FALSE /\ done = 0 /\ answer = "none" /\ outcome = "none"

Begin ==
    /\ ~open
    /\ open' = TRUE
    /\ done' = 0
    /\ answer' = "none"
    /\ outcome' = "none"

\* The device may still be at it when the caller has been told of a failure.
Perform ==
    /\ \/ answer' = "complete" /\ done' = done + 1
       \/ answer' = "error"    /\ done' = done
    /\ UNCHANGED <<open, outcome>>

End ==
    /\ open
    /\ open' = FALSE
    /\ outcome' \in Outcomes
    /\ outcome' = "ok" => done > 0 /\ answer = "complete"
    /\ outcome' = "device_error" => answer = "error"
    /\ UNCHANGED <<done, answer>>

Next == Begin \/ Perform \/ End

Spec == Init /\ [][Next]_vars
=============================================================================
