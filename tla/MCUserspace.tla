----------------------------- MODULE MCUserspace -----------------------------
(***************************************************************************)
(* Instances for TLC of the two programs that UserspaceSIOWrapper runs on  *)
(* an ordinary serial port: the master, with the requests of its caller,   *)
(* or the server.  The part that does not run stands still.                *)
(***************************************************************************)
EXTENDS UserMaster, UserServer

VARIABLE part

Ask(m, k, d) == [mode |-> m, cmd |-> k, dir |-> d]

\* Both rates of the frame, both switches behind it, and every direction of
\* the data.
Repertoire ==
    {Ask("normal", "other", {}), Ask("ultra", "sector", {"recv"}),
     Ask("turbo", "sector", {"send"}), Ask("xf551", "sector", {"recv"}),
     Ask("xf551", "format", {"recv"})}

UserInit ==
    /\ Init /\ ServerInit /\ part \in {"master", "server"}
    /\ part = "master" => ~prompt /\ haveLine /\ autobaud /\ arate = "std"

UserNext ==
    /\ UNCHANGED part
    /\ \/ part = "master" /\ Next /\ UNCHANGED servervars
       \/ part = "server" /\ ServerNext /\ UNCHANGED vars

\* The fairness of both, for the part that runs.
UserSpec ==
    /\ UserInit /\ [][UserNext]_<<part, vars, servervars>>
    /\ WF_<<part, vars, servervars>>(part = "master" /\ Run /\ UNCHANGED <<part, servervars>>)
    /\ WF_<<part, vars, servervars>>(part = "master" /\ Uart /\ UNCHANGED <<part, servervars>>)
    /\ WF_<<part, vars, servervars>>(part = "server" /\ Loop /\ UNCHANGED <<part, vars>>)
    /\ SF_<<part, vars, servervars>>(part = "server" /\ TimerExpires /\ UNCHANGED <<part, vars>>)
    /\ SF_<<part, vars, servervars>>(part = "server" /\ prompt /\ (Assert \/ Deassert \/ SendChar) /\ UNCHANGED <<part, vars>>)
=============================================================================
