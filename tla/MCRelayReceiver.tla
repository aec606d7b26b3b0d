-------------------------- MODULE MCRelayReceiver --------------------------
(***************************************************************************)
(* The receiving half for TLC, in three settings.  A behaviour runs one of *)
(* them, chosen at the start: ReliableOrdered with the values of the       *)
(* configuration file; the same with a window of one, a Close of this side *)
(* and every failure; or AtLeastOnce, whose frames pass the reorder window *)
(* by and can fill the budget, without RPC failures.                       *)
(***************************************************************************)
EXTENDS RelayReceiver

CONSTANTS LooseWindow, LooseSeq

VARIABLE mode

Loose == INSTANCE RelayReceiver WITH
    RecvReliability <- "AtLeastOnce", RecvWindow <- LooseWindow, MaxSeq <- LooseSeq,
    MaxAckRetries <- 0, RecvFaults <- {}

Faulty == INSTANCE RelayReceiver WITH
    RecvWindow <- LooseWindow, MaxSeq <- LooseWindow,
    MaxAckRetries <- 1, MaxRClose <- 1, RecvFaults <- {"abort", "ack"}

ModesInit == ReceiverInit /\ mode \in {"ordered", "faulty", "loose"}

ModesNext ==
    \/ mode = "ordered" /\ ReceiverNext /\ UNCHANGED mode
    \/ mode = "faulty" /\ Faulty!ReceiverNext /\ UNCHANGED mode
    \/ mode = "loose" /\ Loose!ReceiverNext /\ UNCHANGED mode

InMode(ordered, faulty, loose) ==
    /\ \/ mode = "ordered" /\ ordered
       \/ mode = "faulty" /\ faulty
       \/ mode = "loose" /\ loose
    /\ UNCHANGED mode

modesVars == <<receiverVars, mode>>

\* ReceiverFairness of the mode.
ModesFairness ==
    /\ WF_modesVars(InMode(EnqueueDecide, Faulty!EnqueueDecide, Loose!EnqueueDecide))
    /\ WF_modesVars(InMode(DispatchStep, Faulty!DispatchStep, Loose!DispatchStep))
    /\ WF_modesVars(InMode(AckProgress, Faulty!AckProgress, Loose!AckProgress))

ModesSpec == ModesInit /\ [][ModesNext]_modesVars /\ ModesFairness

\* AdmittedFits, of the modes that have a reorder window: a frame enqueueEnvelope
\* admits on values read earlier fits the window when handleData gets it.
OrderedFits ==
    /\ mode = "ordered" => AdmittedFits
    /\ mode = "faulty" => Faulty!AdmittedFits

\* WithinBudget, in every mode: enqueueEnvelope never lets the stored frames
\* exceed relayReceiveQueueCap and twice the window.
ModesWithinBudget ==
    /\ mode = "ordered" => WithinBudget
    /\ mode = "faulty" => Faulty!WithinBudget
    /\ mode = "loose" => Loose!WithinBudget
=============================================================================
