--------------------------- MODULE MCRegistries ---------------------------
(* The two registries of connections, checked side by side: a behaviour runs  *)
(* one of them, chosen at the start, and leaves the other in its initial      *)
(* state.  They share no state in the code.                                   *)
EXTENDS StreamMux, RelayManager

VARIABLE part

RegistriesInit == MuxInit /\ ManagerInit /\ part \in {"mux", "manager"}

RegistriesNext ==
    \/ part = "mux" /\ MuxNext /\ UNCHANGED <<managerVars, part>>
    \/ part = "manager" /\ ManagerNext /\ UNCHANGED <<muxVars, part>>

RegistriesSpec ==
    /\ RegistriesInit /\ [][RegistriesNext]_<<muxVars, managerVars, part>>
    /\ ManagerFairness
=============================================================================
