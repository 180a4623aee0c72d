----------------------------- MODULE MCSioMaster -----------------------------
(***************************************************************************)
(* Instances of SioMaster for TLC: the requests of the caller.             *)
(***************************************************************************)
EXTENDS SioMaster

Ask(m, k, d) == [mode |-> m, cmd |-> k, dir |-> d]

\* Every speed, with the commands that are exceptions to it, and every
\* direction of the data.
Repertoire ==
    {Ask("normal", "other", {}), Ask("ultra", "sector", {"recv"}),
     Ask("turbo", "sector", {"send"}), Ask("warp", "sector", {"recv"}),
     Ask("warp", "other", {}), Ask("xf551", "sector", {"send"}),
     Ask("xf551", "format", {"recv"})}

\* A command without data and a write.
ShortRequests == {Ask("normal", "other", {}), Ask("normal", "sector", {"send"})}
=============================================================================
