------------------------ MODULE MCPollingIoAcceptor ------------------------
(* The acceptor of a behaviour is a socket's or a datagram's. *)
EXTENDS DatagramAcceptor

VARIABLE datagram

Init ==
  /\ datagram \in BOOLEAN
  /\ \/ datagram /\ DatagramAcceptorInit
     \/ ~datagram /\ AcceptorInit

Next ==
  /\ UNCHANGED datagram
  /\ \/ datagram /\ DatagramAcceptorNext
     \/ ~datagram /\ AcceptorNext

OfDatagram(A) == datagram /\ A /\ UNCHANGED datagram
OfSocket(A) == ~datagram /\ A /\ UNCHANGED datagram
vars == <<datagram, acceptorVars>>

Fairness ==
  /\ \A c \in Calls : WF_vars(OfDatagram(DatagramCallStep(c)) \/ OfSocket(CallStep(c)))
  /\ \A r \in Acceptors : WF_vars(OfDatagram(AcceptorProcess(r)) \/ OfSocket(AcceptorStep(r)))

Spec == Init /\ [][Next]_vars /\ Fairness
=============================================================================
