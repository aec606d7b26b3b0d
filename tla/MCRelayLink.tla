---------------------------- MODULE MCRelayLink ----------------------------
(***************************************************************************)
(* One direction of a Relay for TLC.  A behaviour has one of three ends:   *)
(* a Flush, the reads and the Close of the sender, or the Close of the     *)
(* receiver.  The retransmission timer, after which the sender gives up    *)
(* here, races with a Flush; repeated packets need no timer in dataNet.    *)
(***************************************************************************)
EXTENDS RelayLink

Flushes == flush # "idle"
Closes == closer # "idle" \/ read # <<>>
Leaves == rCloser # "idle"

OneEnd ==
    /\ ~(Flushes /\ Closes) /\ ~(Flushes /\ Leaves) /\ ~(Closes /\ Leaves)
    /\ retry # "none" => ~Closes /\ ~Leaves

MCNext == Next /\ OneEnd'
MCSpec == Init /\ [][MCNext]_vars
=============================================================================
