----------------------- MODULE MCPollingIoConnector -----------------------
(* Nobody cancels in a behaviour with a dispose(). *)
EXTENDS PollingIoConnector

Next ==
  \/ ~serviceDisposing /\ Cancellation
  \/ (\A q \in Requests : value[q] # "canceled") /\ Disposal
  \/ Connecting

Spec == ConnectorInit /\ [][Next]_connectorVars /\ ConnectorFairness
===========================================================================
