------------------------------ MODULE MCServices ------------------------------
(* Seven components around a service that share no state: a behaviour is   *)
(* one of the part it begins with.                                         *)
EXTENDS ServiceSessions, DatagramSessions, DatagramWrites, FilterChain, ServiceStatistics,
  SelectorSwitch, ExpirerThread, TLC

VARIABLE part

Parts == {"service", "recycler", "datagram", "chain", "statistics", "selector", "expirer"}

(* Nothing is claimed of a connector with two Processors. *)
Init ==
  /\ part \in Parts
  /\ ServiceInit /\ RecyclerInit /\ DatagramInit /\ ChainInit /\ StatisticsInit /\ SelectorInit /\ ExpirerInit
  /\ (part = "service" => service.isAcceptor \/ service.length = 1)
  /\ (part # "service" => service = [isAcceptor |-> TRUE, length |-> 1])

otherVars == <<chainVars, statisticsVars, selectorVars, expirerVars>>

Next ==
  /\ UNCHANGED part
  /\ \/ part = "service" /\ ServiceNext /\ UNCHANGED <<recyclerVars, datagramVars, otherVars>>
     \/ part = "recycler" /\ RecyclerNext /\ UNCHANGED <<serviceVars, datagramVars, otherVars>>
     \/ part = "datagram" /\ DatagramNext /\ UNCHANGED <<serviceVars, recyclerVars, otherVars>>
     \/ /\ UNCHANGED <<serviceVars, recyclerVars, datagramVars>>
        /\ \/ part = "chain" /\ ChainNext /\ UNCHANGED <<statisticsVars, selectorVars, expirerVars>>
           \/ part = "statistics" /\ StatisticsNext /\ UNCHANGED <<chainVars, selectorVars, expirerVars>>
           \/ part = "selector" /\ SelectorNext /\ UNCHANGED <<chainVars, statisticsVars, expirerVars>>
           \/ part = "expirer" /\ ExpirerNext /\ UNCHANGED <<chainVars, statisticsVars, selectorVars>>

Spec == Init /\ [][Next]_<<part, serviceVars, recyclerVars, datagramVars, otherVars>>

(* What a service tells of its sessions, and of its throughput, is true,   *)
(* the keys of its sessions follow its Processors' selectors, and those of *)
(* its recycler are watched by the thread that expires them.               *)
ServiceSound == ServiceTruthful /\ StatisticsTruthful /\ KeysFollow /\ SessionsWatched

(* The builder of a service changes before the session is known; a         *)
(* chain that a builder fills has two entries, another up to MaxEntries.   *)
(* An acceptor has two Processors and two sessions, or one and three.      *)
(* Names and peers are interchangeable: the first that is used may be any. *)
(* An acceptor's isCloseOnDeactivation() changes until it is looked at.    *)
Bounded ==
  /\ builder' # builder => change.kind \in {"unbuilt", "building"}
  /\ builder' # <<>> => Len(nameOf') <= 2
  /\ service.isAcceptor /\ service.length = 2 => stage'[3] = "unborn"
  /\ closesSessions' # closesSessions => \A u \in Unbinders : unbinder[u] \in {"idle", "deactivated"}
  /\ nameOf' # <<>> => nameOf'[1] = CHOOSE n \in Names : TRUE
  /\ peerOf' # <<>> => peerOf'[1] = CHOOSE p \in Peers : TRUE
===============================================================================
