--------------------------- MODULE ServicesProofs ---------------------------
(***************************************************************************)
(* Theorems about the parts around a service, for any sets of sessions,    *)
(* peers, selectors and threads: what unbind() has disconnected when it    *)
(* returns and what a service with one Processor says of itself            *)
(* (ServiceSessions), the datagrams that wait for a flush (DatagramWrites),*)
(* the recycler's session of a peer and its thread (DatagramSessions,      *)
(* ExpirerThread), keys that move to a new selector (SelectorSwitch),      *)
(* throughputs (ServiceStatistics), the list and the map of a chain and    *)
(* the events that walk along it while it changes (FilterChain).           *)
(* ServiceSoundCorrect and ServicePartsCorrect put them together for the   *)
(* specification of MCServices.                                            *)
(***************************************************************************)
EXTENDS MCServices, FiniteSetTheorems, SequenceTheorems, WellFoundedInduction, TLAPS

-----------------------------------------------------------------------------
(* unbind() *)

Registered == {"activating", "telling up", "creating", "counting", "raising", "counted", "open", "destroyed"}
Stages == Registered \cup {"unborn", "refused", "queued", "registering", "closed", "deactivating", "telling down", "gone"}

Destroyed(s) == stage[s] \in {"closed", "gone"}

\* A session in closing stays there; one that the iterator has shown is in it.
UnbindInv ==
  /\ stage \in [Sessions -> Stages] /\ managed \subseteq Sessions
  /\ unbinder \in [Unbinders -> {"idle", "left", "deactivated", "kept", "iterating", "waiting", "done", "interrupted"}]
  /\ atStart \in [Unbinders -> SUBSET Sessions] /\ visited \in [Unbinders -> SUBSET Sessions]
  /\ \A s \in managed : stage[s] \in Registered
  /\ \A u \in Unbinders :
       /\ unbinder[u] # "idle" => service.isAcceptor
       /\ visited[u] \subseteq closing
       /\ unbinder[u] \in {"iterating", "waiting", "done", "interrupted"} =>
            \A s \in atStart[u] : s \in managed \/ Destroyed(s)
       /\ unbinder[u] \in {"waiting", "done", "interrupted"} => atStart[u] \cap managed \subseteq closing
       /\ unbinder[u] = "done" => \A s \in atStart[u] : Destroyed(s)

\* A session of an acceptor that is destroyed stays so, one that is
\* registered is unregistered only when its channel is gone.
StageMoves(s) ==
  /\ UNCHANGED <<service, unbinder, atStart, visited>> /\ closing \subseteq closing'
  /\ stage' \in [Sessions -> Stages] /\ \A t \in Sessions \ {s} : stage'[t] = stage[t]
  /\ \/ managed' = managed /\ (stage[s] \in Registered => stage'[s] \in Registered)
     \/ managed' = managed \cup {s} /\ stage'[s] \in Registered /\ stage[s] = "registering"
     \/ managed' = managed \ {s} /\ Destroyed(s)'
  /\ service.isAcceptor /\ Destroyed(s) => Destroyed(s)'

LEMMA StageStep ==
  ASSUME UnbindInv, NEW s \in Sessions,
         \/ AddSession(s) \/ RefuseSession(s)
         \/ LookForFirst(s) \/ Register(s) \/ FireServiceActivated(s) \/ TellActivated(s)
         \/ CountManaged(s) \/ CompareCount(s) \/ RaiseLargest(s) \/ CountCumulative(s)
         \/ CloseSession(s) \/ DestroyChannel(s) \/ Unregister(s)
         \/ LookForLast(s) \/ FireServiceDeactivated(s) \/ TellDeactivated(s)
  PROVE  StageMoves(s)
<1> USE DEF StageMoves, UnbindInv, Stages, Registered, Destroyed, Stage, unbindVars
<1>1. CASE AddSession(s) \/ RefuseSession(s)
  BY <1>1 DEF AddSession, RefuseSession
<1>2. CASE LookForFirst(s) \/ FireServiceActivated(s) \/ TellActivated(s)
  BY <1>2 DEF LookForFirst, FireServiceActivated, TellActivated
<1>3. CASE Register(s)
  BY <1>3 DEF Register
<1>4. CASE CountManaged(s) \/ CompareCount(s) \/ RaiseLargest(s) \/ CountCumulative(s)
  BY ZenonT(30), <1>4 DEF CountManaged, CompareCount, RaiseLargest, CountCumulative
<1>5. CASE CloseSession(s) \/ DestroyChannel(s)
  BY <1>5 DEF CloseSession, DestroyChannel
<1>6. CASE Unregister(s)
  BY <1>6 DEF Unregister
<1>7. CASE LookForLast(s) \/ FireServiceDeactivated(s) \/ TellDeactivated(s)
  <2>1. CASE LookForLast(s)
    BY <2>1 DEF LookForLast
  <2>2. CASE FireServiceDeactivated(s)
    BY <2>2 DEF FireServiceDeactivated
  <2>3. CASE TellDeactivated(s)
    BY <2>3 DEF TellDeactivated
  <2> HIDE DEF StageMoves, UnbindInv, Stages, Registered, Destroyed, Stage, unbindVars
  <2> QED
    BY <1>7, <2>1, <2>2, <2>3
<1> HIDE DEF StageMoves, UnbindInv, Stages, Registered, Destroyed, Stage, unbindVars
<1> QED
  BY <1>1, <1>2, <1>3, <1>4, <1>5, <1>6, <1>7

LEMMA UnbindStep == ASSUME UnbindInv, [ServiceNext]_serviceVars PROVE UnbindInv'
<1>1. CASE UNCHANGED serviceVars
  BY <1>1 DEF UnbindInv, Destroyed, serviceVars
<1>2. CASE DisposePool \/ PoolDisposed \/ SetCloseOnDeactivation
  BY <1>2 DEF DisposePool, PoolDisposed, SetCloseOnDeactivation, UnbindInv, Destroyed, unbindVars
<1>3. ASSUME NEW s \in Sessions,
             \/ AddSession(s) \/ RefuseSession(s)
             \/ LookForFirst(s) \/ Register(s) \/ FireServiceActivated(s) \/ TellActivated(s)
             \/ CountManaged(s) \/ CompareCount(s) \/ RaiseLargest(s) \/ CountCumulative(s)
             \/ CloseSession(s) \/ DestroyChannel(s) \/ Unregister(s)
             \/ LookForLast(s) \/ FireServiceDeactivated(s) \/ TellDeactivated(s)
      PROVE  UnbindInv'
  <2>1. StageMoves(s)
    BY <1>3, StageStep
  <2>2. \A t \in Sessions \ {s} : Destroyed(t)' = Destroyed(t)
    BY <2>1 DEF StageMoves, Destroyed
  <2>3. s \in managed' \ managed => stage[s] = "registering"
    BY <2>1 DEF StageMoves
  <2>4. stage[s] = "registering" => s \notin managed /\ ~Destroyed(s)
    BY DEF UnbindInv, Registered, Destroyed
  <2>5. managed' \subseteq Sessions /\ \A t \in managed' : stage'[t] \in Registered
    BY <2>1 DEF StageMoves, UnbindInv, Destroyed
  <2>6. ASSUME NEW u \in Unbinders, unbinder[u] \in {"iterating", "waiting", "done", "interrupted"}, NEW t \in atStart[u]
        PROVE  (t \in managed' \/ Destroyed(t)') /\ (Destroyed(t) => Destroyed(t)') /\ (t \in managed' => t \in managed)
    <3>1. service.isAcceptor /\ t \in Sessions /\ (t \in managed \/ Destroyed(t))
      BY <2>6 DEF UnbindInv
    <3>2. CASE t # s
      BY <2>1, <2>2, <3>1, <3>2 DEF StageMoves
    <3>3. CASE t = s
      BY <2>1, <2>3, <2>4, <3>1, <3>3 DEF StageMoves
    <3> QED
      BY <3>2, <3>3
  <2> QED
    BY <2>1, <2>5, <2>6 DEF StageMoves, UnbindInv
<1> USE DEF UnbindInv, Destroyed
<1>4. ASSUME NEW u \in Unbinders, BeginUnbinding(u) \/ KeepSessions(u) PROVE UnbindInv'
  BY <1>4 DEF BeginUnbinding, KeepSessions, Returns
<1>5. ASSUME NEW u \in Unbinders, BeginDisconnecting(u) PROVE UnbindInv'
  BY <1>5 DEF BeginDisconnecting
<1>6. ASSUME NEW u \in Unbinders, CloseNext(u) PROVE UnbindInv'
  BY <1>6 DEF CloseNext
<1>7. ASSUME NEW u \in Unbinders, EndIteration(u) PROVE UnbindInv'
  BY <1>7 DEF EndIteration, Returns
<1>8. ASSUME NEW u \in Unbinders, WaitUntilEmpty(u) \/ InterruptWait(u) PROVE UnbindInv'
  BY <1>8 DEF WaitUntilEmpty, InterruptWait, Returns
<1> QED
  BY <1>1, <1>2, <1>3, <1>4, <1>5, <1>6, <1>7, <1>8 DEF ServiceNext

\* Every session that disconnectSessions() found is closed, or unregistered,
\* when its walk ends; if it waits to the end, all their channels are gone.
THEOREM DisconnectedAllCorrect == ServiceSpec => []DisconnectedAll
<1>1. ServiceInit => UnbindInv
  BY DEF ServiceInit, UnbindInv, Stages
<1>2. UnbindInv /\ [ServiceNext]_serviceVars => UnbindInv'
  BY UnbindStep
<1>3. UnbindInv => DisconnectedAll
  BY DEF UnbindInv, DisconnectedAll, Destroyed
<1> QED
  BY <1>1, <1>2, <1>3, PTL DEF ServiceSpec

-----------------------------------------------------------------------------
(* Datagrams that wait. *)

Scheduling == \E t \in Clients : step[t] = "schedule"

BacklogInv ==
  /\ step \in [Writers -> {"idle", "offer", "schedule", "send", "sent", "blocked", "flush", "flushing", "recheck"}]
  /\ flagged \in BOOLEAN /\ writable \in BOOLEAN /\ muted \in BOOLEAN
  /\ step[IoThread] \in {"idle", "offer", "send", "blocked"} /\ (backlog # <<>> \/ current # NoDatagram) =>
       flagged \/ writable \/ muted \/ Scheduling
  /\ step[IoThread] \in {"send", "sent", "blocked"} /\ backlog # <<>> => flagged \/ Scheduling
  /\ step[IoThread] = "recheck" => current = NoDatagram

\* The steps of a client keep the acceptor's thread where it is.
LEMMA ClientStep ==
  ASSUME BacklogInv, NEW t \in Clients,
         \/ BeginWrite(t) \/ Offer(t) \/ Schedule(t)
         \/ SendDirectly(t) \/ SendBlocked(t) \/ SendThrows(t) \/ ReportDirectly(t) \/ ReportEmpty(t)
  PROVE  BacklogInv'
<1> USE DatagramAssumption DEF BacklogInv, Writers, Goes, Scheduling
<1>1. CASE BeginWrite(t)
  BY <1>1 DEF BeginWrite
<1>2. CASE Offer(t)
  BY <1>2 DEF Offer
<1>3. CASE Schedule(t)
  BY <1>3 DEF Schedule, ScheduleFlush, queueVars
<1>4. CASE SendDirectly(t)
  BY <1>4 DEF SendDirectly, queueVars
<1>5. CASE SendBlocked(t)
  BY <1>5 DEF SendBlocked, InterestOn, queueVars
<1>6. CASE SendThrows(t)
  BY <1>6 DEF SendThrows, queueVars
<1>7. CASE ReportDirectly(t)
  BY <1>7 DEF ReportDirectly, Report
<1>8. CASE ReportEmpty(t)
  BY <1>8 DEF ReportEmpty, Report
<1> QED
  BY <1>1, <1>2, <1>3, <1>4, <1>5, <1>6, <1>7, <1>8

\* The acceptor's thread begins a write() with an empty queue: whoever fills
\* the queue meanwhile schedules the session.
LEMMA HandlerStep ==
  ASSUME BacklogInv,
         \/ BeginWrite(IoThread) \/ Offer(IoThread) \/ Schedule(IoThread)
         \/ SendDirectly(IoThread) \/ SendBlocked(IoThread) \/ SendThrows(IoThread)
         \/ ReportDirectly(IoThread) \/ ReportEmpty(IoThread)
  PROVE  BacklogInv'
<1> USE DatagramAssumption DEF BacklogInv, Writers, Goes, Scheduling
<1>1. CASE BeginWrite(IoThread)
  BY <1>1 DEF BeginWrite
<1>2. CASE Offer(IoThread)
  BY <1>2 DEF Offer
<1>3. CASE Schedule(IoThread)
  BY <1>3 DEF Schedule, ScheduleFlush, queueVars
<1>4. CASE SendDirectly(IoThread)
  BY <1>4 DEF SendDirectly, queueVars
<1>5. CASE SendBlocked(IoThread)
  BY <1>5 DEF SendBlocked, InterestOn, queueVars
<1>6. CASE SendThrows(IoThread)
  BY <1>6 DEF SendThrows, queueVars
<1>7. CASE ReportDirectly(IoThread)
  BY <1>7 DEF ReportDirectly, Report
<1>8. CASE ReportEmpty(IoThread)
  BY <1>8 DEF ReportEmpty, Report
<1> QED
  BY <1>1, <1>2, <1>3, <1>4, <1>5, <1>6, <1>7, <1>8

LEMMA BacklogStep == ASSUME BacklogInv, [DatagramNext]_datagramVars PROVE BacklogInv'
<1> USE DatagramAssumption DEF BacklogInv, Writers, Goes, Scheduling
<1>1. CASE UNCHANGED datagramVars
  BY <1>1 DEF datagramVars, queueVars
<1>2. ASSUME NEW t \in Writers,
             \/ BeginWrite(t) \/ Offer(t) \/ Schedule(t)
             \/ SendDirectly(t) \/ SendBlocked(t) \/ SendThrows(t) \/ ReportDirectly(t) \/ ReportEmpty(t)
      PROVE  BacklogInv'
  BY <1>2, ClientStep, HandlerStep
<1>3. CASE OtherSession
  BY <1>3 DEF OtherSession, InterestOn, queueVars
<1>4. CASE ProcessWritable \/ PollSession
  BY <1>4 DEF ProcessWritable, PollSession, ScheduleFlush, queueVars
<1>5. CASE PollRequest \/ ResumeCurrent
  BY <1>5 DEF PollRequest, ResumeCurrent, queueVars
<1>6. CASE FlushEmpty
  BY <1>6 DEF FlushEmpty, queueVars
<1>7. CASE Recheck
  BY <1>7 DEF Recheck, ScheduleFlush, queueVars
<1>8. CASE FlushReportsEmpty \/ FlushSends
  BY <1>8 DEF FlushReportsEmpty, FlushSends, Report
<1>9. CASE FlushStops
  BY <1>9 DEF FlushStops, InterestOn, queueVars
<1>10. CASE FlushThrows
  BY <1>10 DEF FlushThrows, queueVars
<1> QED
  BY <1>1, <1>2, <1>3, <1>4, <1>5, <1>6, <1>7, <1>8, <1>9, <1>10 DEF DatagramNext

\* Whoever writes, and whatever the other sessions of the address do: what
\* waits is scheduled, or will be when there is room, unless a flush() ended
\* with an exception or somebody else turned its interest in OP_WRITE off.
THEOREM BacklogHasFlushCorrect == DatagramSpec => []BacklogHasFlush
<1>1. DatagramInit => BacklogInv
  BY DEF DatagramInit, BacklogInv, Writers
<1>2. BacklogInv /\ [DatagramNext]_datagramVars => BacklogInv'
  BY BacklogStep
<1>3. BacklogInv => BacklogHasFlush
  BY DEF BacklogInv, BacklogHasFlush, Scheduling
<1> QED
  BY <1>1, <1>2, <1>3, PTL DEF DatagramSpec

-----------------------------------------------------------------------------
(* The recycler's session of a peer. *)

Removing(t) == at[t] \in {"remove", "destroy"}

\* What a thread that closes sessions has in hand.
CloserInv(t) ==
  LET p == peerOf[holds[t]]
  IN  /\ at[t] = "expire" => p \in outrun
      /\ Removing(t) => holds[t] \in shut
      /\ at[t] = "remove" /\ p \notin outrun => recycler[p] = holds[t]
      /\ at[t] = "destroy" /\ p \notin outrun => recycler[p] # holds[t]

RecyclerTypeOK ==
  /\ peerOf \in Seq(Peers) /\ Len(peerOf) <= MaxSessions
  /\ life \in [PeerSessions -> {"none", "made", "ready"}]
  /\ shut \subseteq DOMAIN peerOf /\ gone \subseteq shut /\ outrun \subseteq Peers
  /\ recycler \in [Peers -> PeerSessions \cup {NoPeerSession}]
  /\ at \in [Receivers \cup Closers -> {"idle", "init", "deliver", "expire", "close", "remove", "destroy"}]
  /\ holds \in [Receivers \cup Closers -> PeerSessions \cup {NoPeerSession}]

PeerInv ==
  /\ \A s \in PeerSessions : life[s] # "none" => s \in DOMAIN peerOf
  /\ \A p \in Peers : recycler[p] # NoPeerSession => recycler[p] \in DOMAIN peerOf /\ peerOf[recycler[p]] = p
  /\ \A t \in Receivers \cup Closers : at[t] # "idle" => holds[t] \in DOMAIN peerOf
  /\ \A t \in Receivers : ~Removing(t)
  /\ \A t \in Closers : CloserInv(t)
  /\ \A t, u \in Closers : Removing(t) /\ Removing(u) /\ t # u => holds[t] # holds[u]
  /\ \A s \in DOMAIN peerOf \ shut : peerOf[s] \notin outrun => recycler[peerOf[s]] = s
  /\ \A p \in Peers \ outrun : recycler[p] \notin gone

RecyclerInv == RecyclerTypeOK /\ PeerInv

LEMMA RecyclerStep == ASSUME RecyclerInv, [RecyclerNext]_recyclerVars PROVE RecyclerInv'
<1> USE RecyclerAssumption DEF RecyclerInv, RecyclerTypeOK, PeerInv, CloserInv, Removing, PeerSessions, Advances, Takes
<1>1. CASE UNCHANGED recyclerVars
  BY <1>1 DEF recyclerVars
<1>2. ASSUME NEW t \in Receivers, NEW p \in Peers, Recycle(t, p) PROVE RecyclerInv'
  BY <1>2 DEF Recycle
<1>3. ASSUME NEW t \in Receivers, NEW p \in Peers, Make(t, p) PROVE RecyclerInv'
  BY <1>3 DEF Make, NewSession
<1>4. ASSUME NEW t \in Receivers, Initialise(t) PROVE RecyclerInv'
  <2>1. holds[t] \in DOMAIN peerOf /\ DOMAIN peerOf \subseteq PeerSessions
    <3>1. holds[t] \in DOMAIN peerOf
      BY <1>4 DEF Initialise
    <3>2. DOMAIN peerOf = 1..Len(peerOf) /\ Len(peerOf) \in Nat /\ Len(peerOf) <= MaxSessions
      OBVIOUS
    <3> QED
      BY <3>1, <3>2
  <2>2. RecyclerTypeOK'
    BY <1>4, <2>1 DEF Initialise
  <2>3. \A s \in PeerSessions : life'[s] # "none" => s \in DOMAIN peerOf
    BY <1>4, <2>1 DEF Initialise
  <2>4. \A u \in Closers : at'[u] = at[u]
    BY <1>4 DEF Initialise
  <2> QED
    BY <1>4, <2>2, <2>3, <2>4 DEF Initialise
<1>5. ASSUME NEW t \in Receivers, Deliver(t) PROVE RecyclerInv'
  BY <1>5 DEF Deliver
<1>6. ASSUME NEW s \in PeerSessions, Age(s) PROVE RecyclerInv'
  BY <1>6 DEF Age
<1>7. ASSUME NEW s \in PeerSessions, FindStale(s) PROVE RecyclerInv'
  BY <1>7 DEF FindStale
<1>8. CASE Expire
  BY <1>8 DEF Expire
<1>9. ASSUME NEW t \in Closers, BeginClose(t) PROVE RecyclerInv'
  BY <1>9 DEF BeginClose
<1>10. ASSUME NEW t \in Closers, CloseNow(t) PROVE RecyclerInv'
  BY <1>10 DEF CloseNow
<1>11. ASSUME NEW t \in Closers, RemoveFromRecycler(t) PROVE RecyclerInv'
  BY <1>11 DEF RemoveFromRecycler
<1>12. ASSUME NEW t \in Closers, FireDestroyed(t) PROVE RecyclerInv'
  BY <1>12 DEF FireDestroyed
<1> QED
  BY <1>1, <1>2, <1>3, <1>4, <1>5, <1>6, <1>7, <1>8, <1>9, <1>10, <1>11, <1>12 DEF RecyclerNext

\* Until the expirer takes a session of a peer, the recycler knows the one
\* session of the peer that nobody closes, and shows no session that is gone.
THEOREM OneSessionPerPeerCorrect == RecyclerSpec => []OneSessionPerPeer
<1>1. RecyclerInit => RecyclerInv
  BY RecyclerAssumption DEF RecyclerInit, RecyclerInv, RecyclerTypeOK, PeerInv, CloserInv, Removing, PeerSessions
<1>2. RecyclerInv /\ [RecyclerNext]_recyclerVars => RecyclerInv'
  BY RecyclerStep
<1>3. RecyclerInv => OneSessionPerPeer
  BY DEF RecyclerInv, RecyclerTypeOK, PeerInv, OneSessionPerPeer, SessionsOf
<1> QED
  BY <1>1, <1>2, <1>3, PTL DEF RecyclerSpec

-----------------------------------------------------------------------------
(* The keys of sessions and the selectors. *)

Moving == loop = "move"

SelectorTypeOK ==
  /\ selector \in Selectors /\ opened \in Selectors
  /\ registered \in [Selectors -> SUBSET Watched]
  /\ reads \in [Selectors -> [Watched -> BOOLEAN]]
  /\ keyOf \in [Watched -> Selectors \cup {NoSelector}]
  /\ suspended \in [Watched -> BOOLEAN]
  /\ caller \in [Watched -> [at : {"idle", "look", "set"}, key : Selectors \cup {NoSelector}]]
  /\ loop \in {"select", "handle", "futile", "move"}
  /\ nbTries \in 0..MaxTries /\ futile \in Nat
  /\ moving \subseteq Watched /\ copied \in [of : SUBSET Watched, reads : BOOLEAN]
  /\ leaked \subseteq torn /\ torn \subseteq Watched

\* The futile selects that nbTries does not stand for any more were made.
TriesInv ==
  /\ futile + nbTries >= MaxTries /\ (loop = "futile" => futile + nbTries > MaxTries)
  /\ Moving => futile > MaxTries

\* In a move a key that was moved is in both selectors, and its session
\* holds the new one.
KeyInv ==
  /\ selector <= opened /\ (Moving => selector < opened)
  /\ moving \subseteq registered[selector] /\ copied.of \subseteq moving
  /\ ~Moving => moving = {}
  /\ \A n \in Selectors : n > opened => registered[n] = {}
  /\ Moving => registered[opened] = registered[selector] \ moving
  /\ \A s \in Watched : keyOf[s] <= opened
  /\ \A s \in Watched : Moving /\ s \in registered[opened] => keyOf[s] = opened /\ s \notin leaked
  /\ \A s \in Watched \ leaked :
       /\ IsValid(s, keyOf[s]) => keyOf[s] = selector \/ (Moving /\ keyOf[s] = opened)
       /\ s \in registered[selector] => keyOf[s] = IF Moving /\ s \notin moving THEN opened ELSE selector

\* A client whose call does not meet a move has the key that counts, and
\* the interest of every copy of the key is the one it wants.
ReadsInv ==
  /\ \A s \in Watched : keyOf[s] = NoSelector => caller[s].at = "idle" /\ ~suspended[s]
  /\ \A s \in Watched \ torn : s \in registered[selector] =>
       /\ caller[s].at = "set" /\ (s \in moving \/ ~Moving) => caller[s].key = selector
       /\ caller[s].at = "idle" =>
            /\ reads[selector][s] = ~suspended[s]
            /\ Moving /\ s \in registered[opened] => reads[opened][s] = ~suspended[s]
            /\ s \in copied.of => copied.reads = ~suspended[s]

SwitchInv == SelectorTypeOK /\ TriesInv /\ KeyInv /\ ReadsInv

LEMMA SwitchStep == ASSUME SwitchInv, [SelectorNext]_selectorVars PROVE SwitchInv'
<1> USE SelectorAssumption
    DEF SwitchInv, SelectorTypeOK, TriesInv, KeyInv, ReadsInv, Moving, IsValid, Selectors, NoSelector,
        keyVars, clientVars, moveVars, NoCopy, Idle
<1>1. CASE UNCHANGED selectorVars
  BY <1>1 DEF selectorVars
<1>2. CASE SelectSucceeds \/ SelectFutile
  BY <1>2 DEF SelectSucceeds, SelectFutile
<1>3. CASE CancelBroken
  BY <1>3 DEF CancelBroken, Broken
<1>4. CASE TryAgain \/ EndPass
  BY <1>4 DEF TryAgain, EndPass
<1>5. CASE OpenSelector
  <2>1. SelectorTypeOK'
    BY <1>5 DEF OpenSelector
  <2>2. TriesInv'
    BY <1>5 DEF OpenSelector
  <2>3. KeyInv'
    <3>1. CASE loop' = "move"
      <4>1. opened' = opened + 1 /\ registered[opened'] = {} /\ moving' = registered[selector]
        BY <1>5, <3>1 DEF OpenSelector
      <4>2. ~Moving /\ Moving' /\ UNCHANGED <<selector, registered, keyOf, copied, leaked>>
        BY <1>5, <3>1 DEF OpenSelector
      <4>3. \A s \in Watched : s \notin registered[opened']
        BY <4>1
      <4> QED
        <5>1. moving' \subseteq registered'[selector'] /\ copied'.of \subseteq moving'
          BY <4>1, <4>2
        <5>2. \A n \in Selectors : n > opened' => registered'[n] = {}
          BY <4>1, <4>2, <2>1
        <5>3. registered'[opened'] = registered'[selector'] \ moving'
          BY <4>1, <4>2
        <5>4. \A s \in Watched : keyOf'[s] <= opened'
          BY <4>1, <4>2
        <5>5. ASSUME NEW s \in Watched \ leaked'
              PROVE  /\ IsValid(s, keyOf[s])' => keyOf'[s] = selector'
                     /\ s \in registered'[selector'] => s \in moving' /\ keyOf'[s] = selector'
          BY <4>1, <4>2
        <5> QED
          BY <4>1, <4>2, <4>3, <5>1, <5>2, <5>3, <5>4, <5>5
    <3>2. CASE loop' # "move"
      BY <1>5, <3>2 DEF OpenSelector
    <3> QED
      BY <3>1, <3>2
  <2>4. ReadsInv'
    BY <1>5 DEF OpenSelector
  <2> QED
    BY <2>1, <2>2, <2>3, <2>4
<1>6. CASE CloseOldSelector
  BY <1>6 DEF CloseOldSelector
<1>7. ASSUME NEW s \in Watched, CopyInterest(s) PROVE SwitchInv'
  BY <1>7 DEF CopyInterest
<1>8. ASSUME NEW s \in Watched, MoveKey(s) PROVE SwitchInv'
  BY <1>8 DEF MoveKey
<1>9. ASSUME NEW s \in Watched, MoveFails(s) PROVE SwitchInv'
  BY <1>9 DEF MoveFails
<1>10. ASSUME NEW s \in Watched, InitKey(s) PROVE SwitchInv'
  <2>1. SelectorTypeOK'
    BY <1>10 DEF InitKey
  <2>2. TriesInv'
    BY <1>10 DEF InitKey
  <2>3. KeyInv'
    BY <1>10 DEF InitKey
  <2>4. reads'[selector][s] = TRUE /\ \A t \in Watched \ {s} : reads'[selector][t] = reads[selector][t]
    BY <1>10 DEF InitKey
  <2>5. ~Moving /\ ~Moving' /\ copied'.of = {} /\ selector' = selector
    BY <1>10 DEF InitKey
  <2>6. caller'[s].at = "idle" /\ suspended'[s] = FALSE /\ keyOf'[s] # NoSelector
    BY <1>10 DEF InitKey
  <2>7. \A t \in Watched \ {s} : keyOf'[t] = keyOf[t] /\ (t \in registered'[selector] <=> t \in registered[selector])
    BY <1>10 DEF InitKey
  <2>8. UNCHANGED <<caller, suspended, torn>>
    BY <1>10 DEF InitKey
  <2>9. ReadsInv'
    <3>1. \A t \in Watched : keyOf'[t] = NoSelector => caller'[t].at = "idle" /\ ~suspended'[t]
      BY <2>6, <2>7, <2>8
    <3>2. ASSUME NEW t \in Watched \ torn', t \in registered'[selector']
          PROVE  /\ caller'[t].at = "set" => caller'[t].key = selector'
                 /\ caller'[t].at = "idle" => reads'[selector'][t] = ~suspended'[t]
      <4>1. CASE t = s
        BY <4>1, <2>4, <2>5, <2>6
      <4>2. CASE t # s
        BY <4>2, <3>2, <2>4, <2>5, <2>7, <2>8
      <4> QED
        BY <4>1, <4>2
    <3> QED
      BY <2>5, <3>1, <3>2
  <2> QED
    BY <2>1, <2>2, <2>3, <2>9
<1>11. ASSUME NEW s \in Watched, DestroyKey(s) PROVE SwitchInv'
  BY <1>11 DEF DestroyKey
<1>12. ASSUME NEW s \in Watched, Disconnect(s) PROVE SwitchInv'
  BY <1>12 DEF Disconnect
<1>13. ASSUME NEW s \in Watched, Toggle(s) PROVE SwitchInv'
  BY <1>13 DEF Toggle
<1>14. ASSUME NEW s \in Watched, LookForKey(s) PROVE SwitchInv'
  BY <1>14 DEF LookForKey
<1>15. ASSUME NEW s \in Watched, SetInterestedInRead(s) PROVE SwitchInv'
  BY <1>15 DEF SetInterestedInRead
<1> QED
  BY <1>1, <1>2, <1>3, <1>4, <1>5, <1>6, <1>7, <1>8, <1>9, <1>10, <1>11, <1>12, <1>13, <1>14, <1>15 DEF SelectorNext

\* Between two moves the valid keys are those of the selector in use, with
\* the interest their clients want, but for calls that met a move and moves
\* that failed; a selector is given up after MaxTries + 1 futile selects.
THEOREM KeysFollowCorrect == SelectorSpec => []KeysFollow
<1>1. SelectorInit => SwitchInv
  <2> USE SelectorAssumption DEF SelectorInit, Moving, Selectors, NoSelector, NoCopy, Idle
  <2>1. SelectorInit => SelectorTypeOK
    BY DEF SelectorTypeOK
  <2>2. SelectorInit => TriesInv
    BY DEF TriesInv
  <2>3. SelectorInit => KeyInv
    BY DEF KeyInv, IsValid
  <2>4. SelectorInit => ReadsInv
    <3>1. SelectorInit => \A s \in Watched : caller[s].at = "idle" /\ suspended[s] = FALSE
      OBVIOUS
    <3>2. SelectorInit => registered[selector] = {}
      OBVIOUS
    <3> QED
      BY <3>1, <3>2 DEF ReadsInv
  <2> QED
    BY <2>1, <2>2, <2>3, <2>4 DEF SwitchInv
<1>2. SwitchInv /\ [SelectorNext]_selectorVars => SwitchInv'
  BY SwitchStep
<1>3. SwitchInv => KeysFollow
  BY DEF SwitchInv, SelectorTypeOK, TriesInv, KeyInv, ReadsInv, Moving, KeysFollow, IsValid, Idle, Selectors, NoSelector
<1> QED
  BY <1>1, <1>2, <1>3, PTL DEF SelectorSpec

-----------------------------------------------------------------------------
(* The expirer's thread. *)

\* Until somebody stops it: the thread is started by the one put() that has
\* the write lock, and no put() goes on to the map before.
WatchInv ==
  /\ stops \in Nat
  /\ putter \in [Putters -> {"idle", "look", "start", "starting", "map", "done", "thrown"}]
  /\ thread \in {"new", "looking", "searching", "sleeping", "ended"} /\ expiring \in BOOLEAN
  /\ stops = 0 =>
       /\ thread # "ended" /\ (thread # "new" => expiring)
       /\ \A p \in Putters : putter[p] = "starting" => writer = p /\ thread = "new" /\ expiring
       /\ \A p \in Putters : putter[p] # "thrown"
       /\ writer # Nobody => writer \in Putters /\ putter[writer] = "starting"
       /\ expiring /\ writer = Nobody => thread # "new"
       /\ sessionMap # {} \/ (\E p \in Putters : putter[p] \in {"map", "done"}) => thread # "new"

LEMMA WatchStep == ASSUME WatchInv, [ExpirerNext]_expirerVars PROVE WatchInv'
<1> USE ExpirerAssumption DEF WatchInv, PutStep
<1>1. CASE UNCHANGED expirerVars
  BY <1>1 DEF expirerVars
<1>2. ASSUME NEW p \in Putters, Put(p) PROVE WatchInv'
  BY <1>2 DEF Put
<1>3. ASSUME NEW p \in Putters, LookIfStarted(p) PROVE WatchInv'
  BY <1>3 DEF LookIfStarted
<1>4. ASSUME NEW p \in Putters, SetRunning(p) PROVE WatchInv'
  BY <1>4 DEF SetRunning
<1>5. ASSUME NEW p \in Putters, StartThread(p) PROVE WatchInv'
  BY <1>5 DEF StartThread
<1>6. ASSUME NEW p \in Putters, PutInMap(p) PROVE WatchInv'
  BY <1>6 DEF PutInMap
<1>7. CASE StopExpiring
  <2>1. stops' \in Nat /\ stops' # 0
    BY <1>7 DEF StopExpiring
  <2> QED
    BY <1>7, <2>1 DEF StopExpiring
<1>8. CASE LookIfRunning \/ SleepEnds
  BY <1>8 DEF LookIfRunning, SleepEnds
<1>9. CASE ProcessExpires
  BY <1>9 DEF ProcessExpires
<1> QED
  BY <1>1, <1>2, <1>3, <1>4, <1>5, <1>6, <1>7, <1>8, <1>9 DEF ExpirerNext

\* Until somebody stops it, the thread that expires sessions is started
\* once and watches every session of the map.
THEOREM SessionsWatchedCorrect == ExpirerSpec => []SessionsWatched
<1>1. ExpirerInit => WatchInv
  <2>1. ExpirerInit => stops \in Nat
    BY DEF ExpirerInit
  <2> QED
    BY <2>1, Zenon DEF ExpirerInit, WatchInv
<1>2. WatchInv /\ [ExpirerNext]_expirerVars => WatchInv'
  BY WatchStep
<1>3. WatchInv => SessionsWatched
  BY DEF WatchInv, SessionsWatched
<1> QED
  BY <1>1, <1>2, <1>3, PTL DEF ExpirerSpec

-----------------------------------------------------------------------------
(* Throughputs. *)

Rates == [delta : Int, interval : Int]

StatisticsInv ==
  /\ now \in Nat \ {0} /\ looked \in [IoThreads -> Nat] /\ \A t \in IoThreads : looked[t] <= now
  /\ counter \in [Counted -> Int] /\ lastCounter \in [Counted -> Int]
  /\ lastCalculation \in Int /\ minInterval \in 0..2 /\ elapsed \in Int
  /\ throughput \in [Counted -> Rates] /\ largestThroughput \in [Counted -> Rates]
  /\ StatisticsTruthful

LEMMA ToIntType == ASSUME NEW n \in Int PROVE ToInt(n) \in Int
  BY StatisticsAssumption DEF ToInt, Half

LEMMA StatisticsStep == ASSUME StatisticsInv, [StatisticsNext]_statisticsVars PROVE StatisticsInv'
<1> USE DEF StatisticsInv, StatisticsTruthful
<1>1. CASE UNCHANGED statisticsVars
  BY <1>1 DEF statisticsVars, Exceeds
<1>2. CASE Tick
  <2>1. PICK pause \in Pauses : now' = now + pause
    BY <1>2 DEF Tick
  <2>2. now' \in Nat \ {0} /\ now <= now'
    BY <2>1, StatisticsAssumption
  <2> QED
    BY <1>2, <2>2 DEF Tick, Exceeds
<1>3. CASE SetThroughputCalculationInterval
  BY <1>3 DEF SetThroughputCalculationInterval, Exceeds
<1>4. ASSUME NEW t \in IoThreads, Look(t) PROVE StatisticsInv'
  BY <1>4 DEF Look, Exceeds
<1>5. ASSUME NEW t \in IoThreads, NEW k \in Counted, Increase(t, k) PROVE StatisticsInv'
  BY <1>5 DEF Increase, Exceeds
<1>6. ASSUME NEW t \in IoThreads, UpdateThroughput(t) PROVE StatisticsInv'
  <2> DEFINE interval == ToInt(looked[t] - lastCalculation)
             new == [k \in Counted |-> [delta |-> counter[k] - lastCounter[k], interval |-> interval]]
  <2>1. interval \in Int
    BY ToIntType
  <2>2. /\ looked' = [looked EXCEPT ![t] = 0] /\ UNCHANGED <<now, counter, minInterval>>
        /\ wrapped' = (wrapped \/ interval # looked[t] - lastCalculation)
    BY <1>6 DEF UpdateThroughput
  <2> DEFINE clock ==
        now' \in Nat \ {0} /\ looked' \in [IoThreads -> Nat] /\ \A u \in IoThreads : looked'[u] <= now'
  <2>c. clock
    BY <2>2
  <2>w. ~wrapped' => ~wrapped /\ interval = looked[t] - lastCalculation
    BY <2>2
  <2> HIDE DEF interval
  <2>3. CASE TooEarly(interval)
    <3>1. UNCHANGED <<lastCounter, lastCalculation, throughput, largestThroughput, elapsed>>
      BY <1>6, <2>3 DEF UpdateThroughput, interval
    <3>2. StatisticsTruthful'
      BY <2>2, <2>w, <3>1
    <3> QED
      BY <2>2, <2>c, <3>1, <3>2
  <2>4. CASE ~TooEarly(interval)
    <3>1. /\ throughput' = new /\ lastCounter' = counter /\ lastCalculation' = looked[t]
          /\ largestThroughput' = [k \in Counted |-> IF Exceeds(new[k], largestThroughput[k]) THEN new[k] ELSE largestThroughput[k]]
          /\ elapsed' = looked[t] - lastCalculation
      BY <1>6, <2>4 DEF UpdateThroughput, interval
    <3>2. interval > 0
      BY <2>1, <2>4 DEF TooEarly
    <3>3. new \in [Counted -> Rates] /\ \A k \in Counted : new[k].interval = interval
      BY <2>1 DEF Rates
    <3> HIDE DEF new
    <3>4. \A k \in Counted : ~Exceeds(new[k], new[k])
      BY <3>3 DEF Exceeds, Rates
    <3>5. \A k \in Counted : ~Exceeds(throughput'[k], largestThroughput'[k])
      BY <3>1, <3>4
    <3>6. largestThroughput' \in [Counted -> Rates]
      BY <3>1, <3>3
    <3>7. ~wrapped' => elapsed' = interval /\ elapsed' > 0 /\ lastCalculation' <= now'
      BY <2>2, <2>w, <3>1, <3>2
    <3>8. StatisticsTruthful'
      BY <3>1, <3>2, <3>3, <3>5, <3>7
    <3> QED
      BY <2>2, <2>c, <3>1, <3>3, <3>6, <3>8
  <2> QED
    BY <2>3, <2>4
<1> QED
  BY <1>1, <1>2, <1>3, <1>4, <1>5, <1>6 DEF StatisticsNext

\* Threads that come late with an old time make no throughput one over no
\* time or over negative time, and no time away from the last one less than
\* an int holds makes a throughput over another time than the one passed.
THEOREM StatisticsTruthfulCorrect == StatisticsSpec => []StatisticsTruthful
<1>1. StatisticsInit => StatisticsInv
  BY DEF StatisticsInit, StatisticsInv, StatisticsTruthful, NoThroughput, Rates, Exceeds
<1>2. StatisticsInv /\ [StatisticsNext]_statisticsVars => StatisticsInv'
  BY StatisticsStep
<1>3. StatisticsInv => StatisticsTruthful
  BY DEF StatisticsInv
<1> QED
  BY <1>1, <1>2, <1>3, PTL DEF StatisticsSpec

-----------------------------------------------------------------------------
(* What a service with one Processor says of itself. *)

Busy(s) == stage[s] \notin Resting
Opened == {"open", "destroyed", "closed", "deactivating", "telling down", "gone"}
Uncounted == {"activating", "telling up", "creating", "counting", "raising"}
Believes(b) == activated = b /\ listenersTold = b

ServiceTypeOK ==
  /\ service \in [isAcceptor : BOOLEAN, length : PoolSizes]
  /\ stage \in [Sessions -> Stages] /\ managed \subseteq Sessions
  /\ edge \in [Sessions -> BOOLEAN] /\ sized \in [Sessions -> Nat]
  /\ largest \in Nat /\ cumulative \in Nat
  /\ activated \in BOOLEAN /\ listenersTold \in BOOLEAN

\* The Processor is busy with one session at a time.
SoleInv ==
  /\ \A s, t \in Sessions : Busy(s) /\ Busy(t) => s = t
  /\ managed = {s \in Sessions : stage[s] \in Registered}

CountsInv ==
  /\ cumulative = Cardinality({s \in Sessions : stage[s] \in Opened})
  /\ \A s \in Sessions : stage[s] \in {"counting", "raising"} => sized[s] = Cardinality(managed)
  /\ (\A s \in Sessions : stage[s] \notin Uncounted) => largest >= Cardinality(managed)

\* What a connector takes for true while it is busy with a session.
BeliefsInv(s) ==
  /\ stage[s] = "registering" => Believes(managed # {}) /\ edge[s] = (managed = {})
  /\ stage[s] = "activating" => ~activated /\ ~listenersTold
  /\ stage[s] = "telling up" => activated /\ ~listenersTold
  /\ stage[s] \in {"creating", "counting", "raising", "counted", "destroyed", "closed"} => Believes(TRUE)
  /\ stage[s] = "deactivating" => managed = {} /\ Believes(TRUE)
  /\ stage[s] = "telling down" => managed = {} /\ ~activated

ConnectorInv ==
  ~service.isAcceptor =>
    /\ \A s \in Sessions : BeliefsInv(s)
    /\ (\A s \in Sessions : ~Busy(s)) => Believes(managed # {})

SoleProcessorInv == ServiceTypeOK /\ (service.length = 1 => SoleInv /\ CountsInv /\ ConnectorInv)

SessionStep(s) ==
  \/ AddSession(s) \/ RefuseSession(s)
  \/ LookForFirst(s) \/ Register(s) \/ FireServiceActivated(s) \/ TellActivated(s)
  \/ CountManaged(s) \/ CompareCount(s) \/ RaiseLargest(s) \/ CountCumulative(s)
  \/ CloseSession(s) \/ DestroyChannel(s) \/ Unregister(s)
  \/ LookForLast(s) \/ FireServiceDeactivated(s) \/ TellDeactivated(s)

\* Every number leaves the remainder 0 when it is divided by 1.
LEMMA OneProcessor == ASSUME ServiceTypeOK, service.length = 1, NEW s \in Sessions, NEW t \in Sessions
                      PROVE  ProcessorOf(s) = ProcessorOf(t)
<1>1. s \in Nat /\ t \in Nat
  BY ServiceAssumption
<1>2. \A n \in Nat : n % 1 = 0
  OBVIOUS
<1> QED
  BY <1>1, <1>2 DEF ProcessorOf

LEMMA ManagedCount == ASSUME ServiceTypeOK
                      PROVE  IsFiniteSet(managed) /\ Cardinality(managed) \in Nat
  BY ServiceAssumption, FS_Subset, FS_CardinalityType DEF ServiceTypeOK

LEMMA ServiceTypeStep == ASSUME ServiceTypeOK, NEW s \in Sessions, SessionStep(s) PROVE ServiceTypeOK'
<1> USE ManagedCount DEF ServiceTypeOK, Stages, Registered, Stage, listenerVars, countVars
<1>1. CASE AddSession(s) \/ RefuseSession(s)
  BY <1>1 DEF AddSession, RefuseSession
<1>2. CASE LookForFirst(s) \/ Register(s) \/ FireServiceActivated(s) \/ TellActivated(s)
  BY <1>2 DEF LookForFirst, Register, FireServiceActivated, TellActivated
<1>3. CASE CountManaged(s)
  BY <1>3 DEF CountManaged
<1>4. CASE CompareCount(s) \/ RaiseLargest(s) \/ CountCumulative(s)
  <2>1. stage' \in [Sessions -> Stages]
    BY <1>4 DEF CompareCount, RaiseLargest, CountCumulative
  <2>2. (largest' = largest \/ largest' = sized[s]) /\ cumulative' \in {cumulative, cumulative + 1} /\ sized' = sized
    BY <1>4 DEF CompareCount, RaiseLargest, CountCumulative
  <2>3. largest' \in Nat
    <3>1. largest \in Nat /\ sized[s] \in Nat
      OBVIOUS
    <3> HIDE DEF ServiceTypeOK
    <3> QED
      BY <2>2, <3>1
  <2>4. cumulative' \in Nat
    <3>1. cumulative \in Nat
      OBVIOUS
    <3> HIDE DEF ServiceTypeOK
    <3> QED
      BY <2>2, <3>1
  <2> QED
    BY <1>4, <2>1, <2>2, <2>3, <2>4 DEF CompareCount, RaiseLargest, CountCumulative
<1>5. CASE CloseSession(s) \/ DestroyChannel(s) \/ Unregister(s)
  BY <1>5 DEF CloseSession, DestroyChannel, Unregister
<1>6. CASE LookForLast(s) \/ FireServiceDeactivated(s) \/ TellDeactivated(s)
  BY <1>6 DEF LookForLast, FireServiceDeactivated, TellDeactivated
<1> QED
  BY <1>1, <1>2, <1>3, <1>4, <1>5, <1>6 DEF SessionStep

\* Who becomes busy finds the Processor free, and then everybody else rests.
LEMMA SoleStep ==
  ASSUME ServiceTypeOK, service.length = 1, SoleInv, NEW s \in Sessions, SessionStep(s)
  PROVE  SoleInv' /\ (Busy(s) \/ Busy(s)' => \A t \in Sessions \ {s} : ~Busy(t) /\ ~Busy(t)')
<1> USE DEF ServiceTypeOK, SoleInv, Busy, Resting, Registered, Stage
<1>1. CASE AddSession(s) \/ RefuseSession(s) \/ CloseSession(s)
  BY <1>1 DEF AddSession, RefuseSession, CloseSession
<1>2. CASE LookForFirst(s)
  BY <1>2, OneProcessor DEF LookForFirst, Free
<1>3. CASE Register(s)
  BY ZenonT(30), <1>3 DEF Register
<1>4. CASE FireServiceActivated(s) \/ TellActivated(s)
  BY <1>4 DEF FireServiceActivated, TellActivated
<1>5. CASE CountManaged(s) \/ CompareCount(s) \/ RaiseLargest(s) \/ CountCumulative(s)
  BY ZenonT(30), <1>5 DEF CountManaged, CompareCount, RaiseLargest, CountCumulative
<1>6. CASE DestroyChannel(s)
  BY <1>6, OneProcessor DEF DestroyChannel, Free
<1>7. CASE Unregister(s)
  BY <1>7 DEF Unregister
<1>8. CASE LookForLast(s) \/ FireServiceDeactivated(s) \/ TellDeactivated(s)
  BY <1>8 DEF LookForLast, FireServiceDeactivated, TellDeactivated
<1> QED
  BY <1>1, <1>2, <1>3, <1>4, <1>5, <1>6, <1>7, <1>8 DEF SessionStep

LEMMA NotGreater == ASSUME NEW m \in Nat, NEW n \in Nat, ~(m > n) PROVE n >= m
  OBVIOUS

LEMMA NotMore == ASSUME NEW k \in Nat, NEW m \in Nat, NEW n \in Nat, k <= m, n >= m PROVE n >= k
  OBVIOUS

LEMMA CountsStep ==
  ASSUME ServiceTypeOK, service.length = 1, SoleInv, CountsInv, NEW s \in Sessions, SessionStep(s)
  PROVE  CountsInv'
<1> DEFINE past == {t \in Sessions : stage[t] \in Opened}
<1>0. /\ Busy(s) \/ Busy(s)' => \A t \in Sessions \ {s} : ~Busy(t) /\ ~Busy(t)'
      /\ ServiceTypeOK' /\ SoleInv'
  BY SoleStep, ServiceTypeStep
<1>1. IsFiniteSet(past) /\ IsFiniteSet(managed) /\ Cardinality(managed) \in Nat
  BY ServiceAssumption, FS_Subset, ManagedCount
<1> USE DEF Busy, Resting, Opened, Uncounted, Stage, ServiceTypeOK, Stages, Registered
<1>2. CASE AddSession(s) \/ RefuseSession(s) \/ CloseSession(s) \/ LookForFirst(s) \/ DestroyChannel(s)
  <2>1. past' = past /\ UNCHANGED <<managed, sized, largest, cumulative>>
    BY <1>2 DEF AddSession, RefuseSession, CloseSession, LookForFirst, DestroyChannel, countVars
  <2>2. \A t \in Sessions : (stage'[t] \in Uncounted <=> stage[t] \in Uncounted) /\ (stage'[t] \in {"counting", "raising"} <=> stage[t] \in {"counting", "raising"})
    BY <1>2 DEF AddSession, RefuseSession, CloseSession, LookForFirst, DestroyChannel
  <2> QED
    BY <2>1, <2>2 DEF CountsInv
<1>3. CASE Register(s) \/ FireServiceActivated(s) \/ TellActivated(s)
  <2>1. past' = past /\ UNCHANGED cumulative
    BY <1>3 DEF Register, FireServiceActivated, TellActivated, countVars
  <2>2. stage'[s] \in {"activating", "telling up", "creating"} /\ Busy(s)
    BY <1>3 DEF Register, FireServiceActivated, TellActivated
  <2> QED
    BY <1>0, <2>1, <2>2 DEF CountsInv
<1>4. CASE CountManaged(s)
  <2>1. past' = past /\ UNCHANGED <<cumulative, managed>> /\ sized'[s] = Cardinality(managed) /\ stage'[s] = "counting" /\ Busy(s)
    BY <1>4 DEF CountManaged
  <2> QED
    BY <1>0, <2>1 DEF CountsInv
<1>5. CASE CompareCount(s)
  <2>1. past' = past /\ UNCHANGED <<cumulative, managed, sized, largest>> /\ Busy(s) /\ stage[s] = "counting"
    BY <1>5 DEF CompareCount, countVars
  <2>2. stage'[s] = "raising" \/ (stage'[s] = "counted" /\ largest >= sized[s])
    <3>1. largest \in Nat /\ sized[s] \in Nat
      OBVIOUS
    <3>2. stage'[s] = IF sized[s] > largest THEN "raising" ELSE "counted"
      BY <1>5 DEF CompareCount
    <3> QED
      BY <3>1, <3>2, NotGreater
  <2> QED
    BY <1>0, <1>1, <2>1, <2>2 DEF CountsInv
<1>6. CASE RaiseLargest(s)
  <2>0. sized[s] = Cardinality(managed)
    BY <1>6 DEF RaiseLargest, CountsInv
  <2>1. /\ past' = past /\ UNCHANGED <<cumulative, managed, sized>> /\ Busy(s)
        /\ stage[s] = "raising" /\ stage'[s] = "counted" /\ largest' = sized[s]
    BY <1>6 DEF RaiseLargest
  <2>2. largest' >= Cardinality(managed')
    <3>1. largest' = Cardinality(managed') /\ largest' \in Nat
      BY <1>1, <2>0, <2>1
    <3> HIDE DEF ServiceTypeOK
    <3> QED
      BY <3>1
  <2>3. \A t \in Sessions : stage'[t] \notin {"counting", "raising"}
    BY <1>0, <2>1
  <2> QED
    BY <2>1, <2>2, <2>3 DEF CountsInv
<1>7. CASE CountCumulative(s)
  <2>1. /\ s \notin past /\ past' = past \cup {s} /\ cumulative' = cumulative + 1
        /\ UNCHANGED <<managed, sized, largest>> /\ Busy(s) /\ stage'[s] = "open"
    BY <1>7 DEF CountCumulative
  <2>2. Cardinality(past') = Cardinality(past) + 1
    BY ZenonT(30), <1>1, <2>1, FS_AddElement
  <2>3. \A t \in Sessions : stage[t] \notin Uncounted
    BY <1>0, <2>1, <1>7 DEF CountCumulative
  <2> QED
    BY <1>0, <2>1, <2>2, <2>3 DEF CountsInv
<1>8. CASE Unregister(s)
  <2>1. /\ past' = past /\ UNCHANGED <<cumulative, sized, largest>> /\ managed' = managed \ {s} /\ Busy(s)
        /\ stage[s] = "destroyed" /\ stage'[s] = "closed"
    BY <1>8 DEF Unregister, countVars
  <2>2. Cardinality(managed') \in Nat /\ Cardinality(managed') <= Cardinality(managed)
    BY <1>1, <2>1, FS_RemoveElement, FS_Subset, FS_CardinalityType
  <2>3. \A t \in Sessions : stage[t] \notin Uncounted
    BY <1>0, <2>1
  <2>4. largest' >= Cardinality(managed')
    <3>1. largest >= Cardinality(managed) /\ largest \in Nat /\ largest' = largest
      BY <2>1, <2>3 DEF CountsInv
    <3> HIDE DEF ServiceTypeOK
    <3> QED
      BY <1>1, <2>2, <3>1, NotMore
  <2>5. \A t \in Sessions : stage'[t] \notin {"counting", "raising"}
    BY <1>0, <2>1
  <2> QED
    BY <2>1, <2>4, <2>5 DEF CountsInv
<1>9. CASE LookForLast(s) \/ FireServiceDeactivated(s) \/ TellDeactivated(s)
  <2>1. /\ past' = past /\ UNCHANGED <<cumulative, sized, largest, managed>> /\ Busy(s)
        /\ stage[s] \notin Uncounted /\ stage'[s] \notin Uncounted
    BY <1>9 DEF LookForLast, FireServiceDeactivated, TellDeactivated, countVars
  <2> QED
    BY <1>0, <2>1 DEF CountsInv
<1> QED
  BY <1>2, <1>3, <1>4, <1>5, <1>6, <1>7, <1>8, <1>9 DEF SessionStep

LEMMA ConnectorStep ==
  ASSUME ServiceTypeOK, service.length = 1, SoleInv, ConnectorInv, NEW s \in Sessions, SessionStep(s)
  PROVE  ConnectorInv'
<1>0. /\ Busy(s) \/ Busy(s)' => \A t \in Sessions \ {s} : ~Busy(t) /\ ~Busy(t)'
      /\ ServiceTypeOK' /\ SoleInv'
  BY SoleStep, ServiceTypeStep
<1> SUFFICES ASSUME ~service'.isAcceptor PROVE ConnectorInv'
  BY DEF ConnectorInv
<1>1. service' = service
  BY DEF SessionStep, AddSession, RefuseSession, LookForFirst, Register, FireServiceActivated, TellActivated,
    CountManaged, CompareCount, RaiseLargest, CountCumulative, CloseSession, DestroyChannel, Unregister,
    LookForLast, FireServiceDeactivated, TellDeactivated
<1>2. ASSUME NEW t \in Sessions, ~Busy(t)' PROVE BeliefsInv(t)'
  BY <1>2 DEF BeliefsInv, Busy, Resting
<1>3. ASSUME Busy(s) \/ Busy(s)', Busy(s)' => BeliefsInv(s)', ~Busy(s)' => Believes(managed # {})'
      PROVE  ConnectorInv'
  BY <1>0, <1>2, <1>3 DEF ConnectorInv
<1>4. BeliefsInv(s) /\ (Busy(s)' /\ ~Busy(s) => Believes(managed # {}))
  BY <1>0, <1>1 DEF ConnectorInv
<1> USE <1>4 DEF BeliefsInv, Believes, Busy, Resting, Stage, ServiceTypeOK
<1>5. CASE AddSession(s) \/ RefuseSession(s) \/ CloseSession(s)
  <2>1. UNCHANGED <<managed, activated, listenersTold, edge>>
    BY <1>5 DEF AddSession, RefuseSession, CloseSession, listenerVars
  <2>2. ~Busy(s) /\ ~Busy(s)' /\ \A t \in Sessions \ {s} : stage'[t] = stage[t]
    BY <1>5 DEF AddSession, RefuseSession, CloseSession
  <2> QED
    <3>1. \A t \in Sessions : stage'[t] = stage[t] \/ ~Busy(t)'
      BY <2>2
    <3>2. \A t \in Sessions : BeliefsInv(t)'
      BY ZenonT(30), <1>1, <2>1, <3>1 DEF ConnectorInv
    <3>3. (\A t \in Sessions : ~Busy(t)') => Believes(managed # {})
      BY <1>1, <2>2 DEF ConnectorInv
    <3> QED
      BY <2>1, <3>2, <3>3 DEF ConnectorInv
<1>6. CASE LookForFirst(s)
  <2>1. UNCHANGED <<managed, activated, listenersTold>> /\ stage'[s] = "registering" /\ edge'[s] = (managed = {}) /\ ~Busy(s)
    BY <1>1, <1>6 DEF LookForFirst, listenerVars
  <2> QED
    BY <1>3, <2>1
<1>7. CASE Register(s)
  <2>1. /\ UNCHANGED <<activated, listenersTold>> /\ stage[s] = "registering"
        /\ stage'[s] = IF managed = {} THEN "activating" ELSE "creating"
    BY <1>7 DEF Register, listenerVars
  <2> QED
    BY <1>3, <2>1
<1>8. CASE FireServiceActivated(s)
  <2>1. stage[s] = "activating" /\ stage'[s] = "telling up" /\ activated' = TRUE /\ listenersTold' = listenersTold
    BY <1>8 DEF FireServiceActivated
  <2> QED
    BY <1>3, <2>1
<1>9. CASE TellActivated(s)
  BY <1>3, <1>9 DEF TellActivated
<1>10. CASE CountManaged(s) \/ CompareCount(s) \/ RaiseLargest(s)
  BY <1>3, <1>10 DEF CountManaged, CompareCount, RaiseLargest, listenerVars
<1>11. CASE CountCumulative(s)
  <2>1. s \in managed'
    BY <1>11 DEF CountCumulative, SoleInv, Registered
  <2> QED
    BY <1>3, <1>11, <2>1 DEF CountCumulative, listenerVars
<1>12. CASE DestroyChannel(s)
  <2>1. s \in managed /\ UNCHANGED <<managed, activated, listenersTold>> /\ stage[s] = "open" /\ stage'[s] = "destroyed"
    BY <1>12 DEF DestroyChannel, SoleInv, Registered, listenerVars
  <2> QED
    BY <1>3, <2>1
<1>13. CASE Unregister(s)
  BY <1>3, <1>13 DEF Unregister, listenerVars
<1>14. CASE LookForLast(s)
  BY <1>1, <1>3, <1>14 DEF LookForLast, listenerVars
<1>15. CASE FireServiceDeactivated(s)
  BY <1>3, <1>15 DEF FireServiceDeactivated
<1>16. CASE TellDeactivated(s)
  BY <1>3, <1>16 DEF TellDeactivated
<1> QED
  BY <1>5, <1>6, <1>7, <1>8, <1>9, <1>10, <1>11, <1>12, <1>13, <1>14, <1>15, <1>16 DEF SessionStep

LEMMA SoleProcessorStep == ASSUME SoleProcessorInv, [ServiceNext]_serviceVars PROVE SoleProcessorInv'
<1>1. CASE UNCHANGED serviceVars
  BY <1>1 DEF serviceVars, SoleProcessorInv, ServiceTypeOK, SoleInv, CountsInv, ConnectorInv, BeliefsInv, Believes, Busy
<1>2. ASSUME NEW s \in Sessions, SessionStep(s) PROVE SoleProcessorInv'
  <2>1. service' = service
    BY <1>2 DEF SessionStep, AddSession, RefuseSession, LookForFirst, Register, FireServiceActivated, TellActivated,
      CountManaged, CompareCount, RaiseLargest, CountCumulative, CloseSession, DestroyChannel, Unregister,
      LookForLast, FireServiceDeactivated, TellDeactivated
  <2>2. ServiceTypeOK'
    BY <1>2, ServiceTypeStep DEF SoleProcessorInv
  <2>3. ASSUME service.length = 1 PROVE (SoleInv /\ CountsInv /\ ConnectorInv)'
    BY <1>2, <2>3, SoleStep, CountsStep, ConnectorStep DEF SoleProcessorInv
  <2> QED
    BY <2>1, <2>2, <2>3 DEF SoleProcessorInv
<1>3. CASE \/ DisposePool \/ PoolDisposed \/ SetCloseOnDeactivation
           \/ \E u \in Unbinders :
                \/ KeepSessions(u) \/ BeginDisconnecting(u) \/ CloseNext(u) \/ EndIteration(u)
                \/ WaitUntilEmpty(u) \/ InterruptWait(u)
  <2>1. UNCHANGED <<service, stage, edge, sized, managed, largest, cumulative, activated, listenersTold>>
    BY <1>3 DEF DisposePool, PoolDisposed, SetCloseOnDeactivation, KeepSessions, BeginDisconnecting, CloseNext,
      EndIteration, WaitUntilEmpty, InterruptWait, Returns, listenerVars, countVars
  <2> QED
    BY <2>1 DEF SoleProcessorInv, ServiceTypeOK, SoleInv, CountsInv, ConnectorInv, BeliefsInv, Believes, Busy
<1>4. ASSUME NEW u \in Unbinders, BeginUnbinding(u) PROVE SoleProcessorInv'
  <2>1. /\ UNCHANGED <<service, stage, edge, sized, managed, largest, cumulative>> /\ service.isAcceptor
        /\ activated' = FALSE /\ listenersTold' = FALSE
    BY <1>4 DEF BeginUnbinding, countVars
  <2> QED
    BY <2>1 DEF SoleProcessorInv, ServiceTypeOK, SoleInv, CountsInv, ConnectorInv, Busy
<1> QED
  BY <1>1, <1>2, <1>3, <1>4 DEF ServiceNext, SessionStep

\* What a service with one Processor says of itself when the Processor
\* rests: a connector is active while it manages a session, every session
\* that was opened is counted, and so is the largest number at a time.
THEOREM ServiceTruthfulCorrect == ServiceSpec => []ServiceTruthful
<1>1. ServiceInit => SoleProcessorInv
  <2> SUFFICES ASSUME ServiceInit PROVE SoleProcessorInv
    OBVIOUS
  <2>1. ServiceTypeOK
    BY DEF ServiceInit, ServiceTypeOK, Stages
  <2>2. managed = {} /\ \A s \in Sessions : stage[s] = "unborn"
    BY DEF ServiceInit
  <2>3. {s \in Sessions : stage[s] \in Opened} = {} /\ {s \in Sessions : stage[s] \in Registered} = {}
    BY <2>2 DEF Opened, Registered
  <2>4. Cardinality(managed) = 0 /\ Cardinality({s \in Sessions : stage[s] \in Opened}) = 0
    BY <2>2, <2>3, FS_EmptySet
  <2>5. SoleInv
    BY <2>2, <2>3 DEF SoleInv, Busy, Resting
  <2>6. CountsInv
    BY <2>1, <2>2, <2>4 DEF CountsInv, ServiceInit
  <2>7. ConnectorInv
    BY <2>1, <2>2 DEF ConnectorInv, BeliefsInv, Believes, ServiceInit, ServiceTypeOK
  <2> QED
    BY <2>1, <2>5, <2>6, <2>7 DEF SoleProcessorInv
<1>2. SoleProcessorInv /\ [ServiceNext]_serviceVars => SoleProcessorInv'
  BY SoleProcessorStep
<1>3. SoleProcessorInv => ServiceTruthful
  <2> SUFFICES ASSUME SoleProcessorInv, service.length = 1, \A s \in Sessions : stage[s] \in Resting
               PROVE  /\ ~service.isAcceptor => activated = (managed # {}) /\ listenersTold = activated
                      /\ largest >= Cardinality(managed)
                      /\ cumulative = Cardinality({s \in Sessions : stage[s] \in {"open", "gone"}})
    BY DEF ServiceTruthful
  <2>1. {s \in Sessions : stage[s] \in {"open", "gone"}} = {s \in Sessions : stage[s] \in Opened}
    BY DEF Resting, Opened
  <2>2. \A s \in Sessions : stage[s] \notin Uncounted /\ ~Busy(s)
    BY DEF Resting, Uncounted, Busy
  <2> QED
    BY <2>1, <2>2 DEF SoleProcessorInv, CountsInv, ConnectorInv, Believes
<1> QED
  BY <1>1, <1>2, <1>3, PTL DEF ServiceSpec

-----------------------------------------------------------------------------
(* The links of a filter chain. *)

Known == 1..Len(nameOf) \cup {HeadEntry, TailEntry}

\* Entries that are linked both ways and are not on their way out.
Firm == InChain \ (IF change.kind = "added" THEN {} ELSE {change.entry})

\* The nodes of the list, and who comes before each: a change that has set
\* one of two links is made as far as nextEntry goes.
Live == (InChain \ (IF change.kind \in {"unlinked", "undone"} THEN {change.entry} ELSE {})) \cup {HeadEntry, TailEntry}
HalfLinked == change.kind \in {"linked", "unlinked", "undone"}
Before(x) == IF HalfLinked /\ x = nextEntry[change.entry] THEN prevEntry[change.entry] ELSE prevEntry[x]

ChangeKinds == {"unbuilt", "building", "none", "clearing", "add", "linked", "added", "undo", "undone", "free",
                "remove", "unlinked", "removed"}

ChainTypeOK ==
  /\ builder \in Seq(Names) /\ snapshot \in Seq(Names) /\ toBuild \in Seq(Names)
  /\ nextEntry \in [Nodes -> Nodes \cup {NoEntry}] /\ prevEntry \in [Nodes -> Nodes \cup {NoEntry}]
  /\ nameOf \in Seq(Names) /\ Len(nameOf) <= MaxEntries
  /\ \A n \in DOMAIN name2entry : name2entry[n] \in 1..Len(nameOf) /\ nameOf[name2entry[n]] = n
  /\ change \in [kind : ChangeKinds, entry : ChainEntries \cup {NoEntry}, during : {"none", "clearing", "building"}]

ListInv ==
  /\ \A x \in Known \ {TailEntry} : nextEntry[x] \in Known \ {HeadEntry}
  /\ \A x \in Known \ {HeadEntry} : prevEntry[x] \in Known \ {TailEntry}
  /\ \A x \in Live \ {TailEntry} : nextEntry[x] \in Live /\ Before(nextEntry[x]) = x
  /\ \A x \in Live \ {HeadEntry} : Before(x) \in Live /\ nextEntry[Before(x)] = x

\* The entry that is added or removed.
EntryInv ==
  LET e == change.entry
  IN  /\ change.kind \in {"unbuilt", "none", "clearing", "building"} => e = NoEntry
      /\ change.kind \in {"add", "linked"} =>
           /\ e = Len(nameOf) /\ e \in ChainEntries /\ nameOf[e] \notin DOMAIN name2entry
           /\ prevEntry[e] \in Live \ {TailEntry} /\ nextEntry[e] = nextEntry[prevEntry[e]]
      /\ change.kind \in {"added", "remove", "undo", "unlinked", "undone"} => e \in InChain
      /\ change.kind \in {"unlinked", "undone"} => prevEntry[e] \in Live \ {TailEntry} /\ nextEntry[prevEntry[e]] = nextEntry[e]
      /\ HalfLinked => prevEntry[nextEntry[e]] = e
      /\ change.kind \in {"removed", "free"} => e \in 1..Len(nameOf) /\ e \notin InChain

LinksInv == ChainTypeOK /\ ListInv /\ EntryInv

LEMMA ChainSets ==
  ASSUME ChainTypeOK
  PROVE  /\ InChain \subseteq 1..Len(nameOf) /\ 1..Len(nameOf) \subseteq ChainEntries /\ InChain \subseteq Nat
         /\ Len(nameOf) \in Nat /\ Known \subseteq Nodes
         /\ HeadEntry \notin Nat /\ TailEntry \notin Nat /\ NoEntry \notin Nat
         /\ HeadEntry # TailEntry /\ NoEntry # HeadEntry /\ NoEntry # TailEntry
         /\ \A m, n \in DOMAIN name2entry : name2entry[m] = name2entry[n] => m = n
<1>1. Len(nameOf) \in Nat /\ MaxEntries \in Nat /\ Len(nameOf) <= MaxEntries
  BY ChainAssumption DEF ChainTypeOK
<1>2. 1..Len(nameOf) \subseteq ChainEntries
  BY <1>1 DEF ChainEntries
<1>3. InChain \subseteq 1..Len(nameOf)
  BY DEF ChainTypeOK, InChain
<1>4. Known \subseteq Nodes
  BY <1>2 DEF Known, Nodes
<1>5. InChain \subseteq Nat
  <2>1. \A x \in 1..Len(nameOf) : x \in Nat
    BY <1>1
  <2> QED
    BY <1>3, <2>1
<1> QED
  BY <1>1, <1>2, <1>3, <1>4, <1>5, ChainAssumption DEF ChainTypeOK

LEMMA NewEntryLinks ==
  ASSUME LinksInv, NEW name \in Names, NEW prev \in Live \ {TailEntry}, NewEntry(name, prev, "add"),
         change.kind \in {"none", "building"},
         builder' \in Seq(Names) /\ snapshot' \in Seq(Names) /\ toBuild' \in Seq(Names)
  PROVE  /\ LinksInv' /\ Firm' = Firm /\ InChain' = InChain
         /\ change'.kind = "add" /\ change'.entry \in Nodes \ Known /\ Known' = Known \cup {change'.entry}
         /\ nextEntry' = [nextEntry EXCEPT ![change'.entry] = nextEntry[prev]]
         /\ prevEntry' = [prevEntry EXCEPT ![change'.entry] = prev]
<1> DEFINE e == Len(nameOf) + 1
<1>0. /\ InChain \subseteq 1..Len(nameOf) /\ 1..Len(nameOf) \subseteq ChainEntries /\ InChain \subseteq Nat
      /\ Len(nameOf) \in Nat /\ Known \subseteq Nodes
      /\ HeadEntry \notin Nat /\ TailEntry \notin Nat /\ NoEntry \notin Nat
      /\ HeadEntry # TailEntry /\ NoEntry # HeadEntry /\ NoEntry # TailEntry
  BY ChainSets DEF LinksInv
<1>1. /\ name \notin DOMAIN name2entry /\ Len(nameOf) < MaxEntries
      /\ nameOf' = Append(nameOf, name) /\ change' = [change EXCEPT !.kind = "add", !.entry = e]
      /\ nextEntry' = [nextEntry EXCEPT ![e] = nextEntry[prev]] /\ prevEntry' = [prevEntry EXCEPT ![e] = prev]
      /\ name2entry' = name2entry
  BY DEF NewEntry
<1>2. e \in ChainEntries /\ e \in Nodes /\ e \notin Known /\ e \in Nat
  BY <1>0, <1>1, ChainAssumption DEF ChainEntries, Nodes, Known
<1>3. change'.kind = "add" /\ change'.entry = e /\ change'.during = change.during /\ change.entry = NoEntry
  BY <1>1 DEF LinksInv, ChainTypeOK, EntryInv
<1>4. InChain' = InChain
  BY <1>1 DEF InChain
<1>5. nameOf' \in Seq(Names) /\ Len(nameOf') = e /\ nameOf'[e] = name /\ \A i \in 1..Len(nameOf) : nameOf'[i] = nameOf[i]
  BY <1>0, <1>1 DEF LinksInv, ChainTypeOK
<1>6. 1..Len(nameOf') = 1..Len(nameOf) \cup {e}
  BY <1>0, <1>5
<1>7. Known' = Known \cup {e}
  BY <1>6 DEF Known
<1>8. Firm' = Firm
  <2>1. InChain \subseteq Known
    BY <1>0 DEF Known
  <2>0. NoEntry \notin InChain
    BY <1>0
  <2>2. e \notin InChain
    BY <1>2, <2>1
  <2> QED
    BY <1>3, <1>4, <2>0, <2>1, <2>2 DEF Firm
<1>9. Live' = Live /\ Live \subseteq Known /\ ~HalfLinked /\ ~HalfLinked'
  BY <1>0, <1>3, <1>4 DEF Live, HalfLinked, Known
<1>10. \A x \in Known : nextEntry'[x] = nextEntry[x] /\ prevEntry'[x] = prevEntry[x]
  BY <1>0, <1>1, <1>2 DEF LinksInv, ChainTypeOK
<1>11. nextEntry'[e] = nextEntry[prev] /\ prevEntry'[e] = prev
  BY <1>1, <1>2 DEF LinksInv, ChainTypeOK
<1>12. ChainTypeOK'
  <2>1. nextEntry' \in [Nodes -> Nodes \cup {NoEntry}] /\ prevEntry' \in [Nodes -> Nodes \cup {NoEntry}]
    BY <1>0, <1>1, <1>2, <1>9 DEF LinksInv, ChainTypeOK
  <2>2. \A n \in DOMAIN name2entry' : name2entry'[n] \in 1..Len(nameOf') /\ nameOf'[name2entry'[n]] = n
    BY <1>1, <1>5, <1>6 DEF LinksInv, ChainTypeOK
  <2>3. change' \in [kind : ChangeKinds, entry : ChainEntries \cup {NoEntry}, during : {"none", "clearing", "building"}]
    BY <1>1, <1>2 DEF LinksInv, ChainTypeOK, ChangeKinds
  <2>4. Len(nameOf') <= MaxEntries
    BY <1>0, <1>1, <1>5, ChainAssumption
  <2> QED
    BY <2>1, <2>2, <2>3, <2>4, <1>5 DEF ChainTypeOK
<1>13. \A x \in Known : Before(x) = prevEntry[x] /\ Before(x)' = prevEntry[x]
  BY <1>9, <1>10 DEF Before
<1>14. ListInv'
  <2>1. \A x \in Known' \ {TailEntry} : nextEntry'[x] \in Known' \ {HeadEntry}
    BY <1>7, <1>9, <1>10, <1>11 DEF LinksInv, ListInv
  <2>2. \A x \in Known' \ {HeadEntry} : prevEntry'[x] \in Known' \ {TailEntry}
    BY <1>7, <1>9, <1>10, <1>11 DEF LinksInv, ListInv
  <2>3. \A x \in Live' \ {TailEntry} : nextEntry'[x] \in Live' /\ Before(nextEntry[x])' = x
    BY <1>9, <1>10, <1>13 DEF LinksInv, ListInv, Before
  <2>4. \A x \in Live' \ {HeadEntry} : Before(x)' \in Live' /\ nextEntry'[Before(x)'] = x
    BY <1>9, <1>10, <1>13 DEF LinksInv, ListInv
  <2> QED
    BY <2>1, <2>2, <2>3, <2>4 DEF ListInv
<1>15. EntryInv'
  BY <1>1, <1>2, <1>3, <1>5, <1>9, <1>10, <1>11 DEF EntryInv
<1> QED
  BY <1>1, <1>2, <1>3, <1>4, <1>7, <1>8, <1>12, <1>14, <1>15 DEF LinksInv

\* The first link of a new entry.
LEMMA LinkBackLinks ==
  ASSUME LinksInv, LinkBack
  PROVE  LET e == change.entry
         IN  /\ LinksInv' /\ Firm' = Firm /\ Known' = Known
             /\ change'.kind = "linked" /\ change.kind = "add" /\ change'.entry = e
             /\ nextEntry' = nextEntry /\ nextEntry[e] \in Known \ {HeadEntry} /\ e \in Known
             /\ prevEntry' = [prevEntry EXCEPT ![nextEntry[e]] = e]
<1> DEFINE e == change.entry
           n == nextEntry[e]
<1>0. /\ InChain \subseteq 1..Len(nameOf) /\ 1..Len(nameOf) \subseteq ChainEntries /\ InChain \subseteq Nat
      /\ Len(nameOf) \in Nat /\ Known \subseteq Nodes
      /\ HeadEntry \notin Nat /\ TailEntry \notin Nat /\ NoEntry \notin Nat
      /\ HeadEntry # TailEntry /\ NoEntry # HeadEntry /\ NoEntry # TailEntry
  BY ChainSets DEF LinksInv
<1>1. change.kind = "add" /\ change' = [change EXCEPT !.kind = "linked"] /\ UNCHANGED <<buildVars, nextEntry, nameOf, name2entry>>
  BY DEF LinkBack
<1>2. change'.kind = "linked" /\ change'.entry = e
  BY <1>1 DEF LinksInv, ChainTypeOK
<1>3. /\ e = Len(nameOf) /\ e \in ChainEntries /\ nameOf[e] \notin DOMAIN name2entry
      /\ prevEntry[e] \in Live \ {TailEntry} /\ n = nextEntry[prevEntry[e]]
  BY <1>1 DEF LinksInv, EntryInv
<1>4. e \in Known /\ e \notin InChain /\ e \notin Live
  <2>1. e \notin InChain
    BY <1>3 DEF LinksInv, ChainTypeOK, InChain
  <2>2. e \in 1..Len(nameOf)
    BY <1>0, <1>3 DEF ChainEntries
  <2> QED
    BY <1>0, <2>1, <2>2 DEF Known, Live
<1>5. prevEntry' = [prevEntry EXCEPT ![n] = e]
  BY <1>3 DEF LinkBack
<1>6. n \in Live \ {HeadEntry} /\ n # e /\ n \in Known
  <2>1. Live \subseteq Known
    BY <1>0 DEF Live, Known
  <2> QED
    BY <1>3, <1>4, <2>1 DEF LinksInv, ListInv
<1>7. InChain' = InChain /\ Live' = Live /\ Known' = Known /\ Firm' = Firm
  BY <1>1, <1>2 DEF InChain, Live, Known, Firm
<1>8. \A x \in Known : prevEntry'[x] = IF x = n THEN e ELSE prevEntry[x]
  BY <1>0, <1>5 DEF LinksInv, ChainTypeOK
<1>9. Live \subseteq Known
  BY <1>0 DEF Live, Known
<1>10. ~HalfLinked /\ HalfLinked'
  BY <1>1, <1>2 DEF HalfLinked
<1>11. prevEntry[n] = prevEntry[e]
  BY <1>3, <1>10 DEF LinksInv, ListInv, Before
<1>12. \A x \in Known : Before(x) = prevEntry[x] /\ Before(x)' = prevEntry[x]
  BY <1>1, <1>2, <1>4, <1>6, <1>8, <1>10, <1>11 DEF Before
<1>13. ChainTypeOK'
  <2>1. prevEntry' \in [Nodes -> Nodes \cup {NoEntry}]
    BY <1>0, <1>4, <1>5 DEF LinksInv, ChainTypeOK
  <2>2. change' \in [kind : ChangeKinds, entry : ChainEntries \cup {NoEntry}, during : {"none", "clearing", "building"}]
    BY <1>1 DEF LinksInv, ChainTypeOK, ChangeKinds
  <2> QED
    BY <1>1, <2>1, <2>2 DEF LinksInv, ChainTypeOK, buildVars
<1>14. ListInv'
  <2>1. \A x \in Known' \ {HeadEntry} : prevEntry'[x] \in Known' \ {TailEntry}
    BY <1>0, <1>4, <1>3, <1>7, <1>8 DEF LinksInv, ListInv, Known
  <2>2. \A x \in Live' \ {TailEntry} : nextEntry'[x] \in Live' /\ Before(nextEntry[x])' = x
    BY <1>1, <1>7, <1>9, <1>12 DEF LinksInv, ListInv
  <2>3. \A x \in Live' \ {HeadEntry} : Before(x)' \in Live' /\ nextEntry'[Before(x)'] = x
    BY <1>1, <1>7, <1>9, <1>12 DEF LinksInv, ListInv
  <2> QED
    BY <1>1, <1>7, <2>1, <2>2, <2>3 DEF LinksInv, ListInv, Before
<1>15. EntryInv'
  <2>1. prevEntry'[e] = prevEntry[e] /\ prevEntry'[n] = e
    BY <1>4, <1>6, <1>8
  <2> QED
    BY <1>1, <1>2, <1>3, <1>7, <2>1 DEF EntryInv
<1> QED
  BY <1>1, <1>2, <1>4, <1>5, <1>6, <1>7, <1>13, <1>14, <1>15 DEF LinksInv

\* The second link, and the name.
LEMMA LinkForwardLinks ==
  ASSUME LinksInv, LinkForward
  PROVE  LET e == change.entry
             p == prevEntry[e]
         IN  /\ LinksInv' /\ Firm' = Firm \cup {e} /\ Known' = Known
             /\ change'.kind = "added" /\ change.kind = "linked"
             /\ e \in Known /\ p \in Firm \cup {HeadEntry} /\ nextEntry[e] \in Firm \cup {TailEntry}
             /\ prevEntry[nextEntry[e]] = e /\ p \in Known \ {TailEntry} /\ nextEntry[e] \in Known \ {HeadEntry}
             /\ nextEntry' = [nextEntry EXCEPT ![p] = e] /\ prevEntry' = prevEntry
<1> DEFINE e == change.entry
           p == prevEntry[e]
           n == nextEntry[e]
<1>0. /\ InChain \subseteq 1..Len(nameOf) /\ 1..Len(nameOf) \subseteq ChainEntries /\ InChain \subseteq Nat
      /\ Len(nameOf) \in Nat /\ Known \subseteq Nodes
      /\ HeadEntry \notin Nat /\ TailEntry \notin Nat /\ NoEntry \notin Nat
      /\ HeadEntry # TailEntry /\ NoEntry # HeadEntry /\ NoEntry # TailEntry
  BY ChainSets DEF LinksInv
<1>1. /\ change.kind = "linked" /\ change' = [change EXCEPT !.kind = "added"] /\ UNCHANGED <<buildVars, prevEntry, nameOf>>
      /\ nextEntry' = [nextEntry EXCEPT ![p] = e]
      /\ name2entry' = [m \in DOMAIN name2entry \cup {nameOf[e]} |-> IF m = nameOf[e] THEN e ELSE name2entry[m]]
  BY DEF LinkForward
<1>2. change'.kind = "added" /\ change'.entry = e
  BY <1>1 DEF LinksInv, ChainTypeOK
<1>3. /\ e = Len(nameOf) /\ e \in ChainEntries /\ nameOf[e] \notin DOMAIN name2entry
      /\ p \in Live \ {TailEntry} /\ n = nextEntry[p] /\ prevEntry[n] = e
  BY <1>1 DEF LinksInv, EntryInv, HalfLinked
<1>4. e \in 1..Len(nameOf) /\ e \in Known /\ e \notin InChain /\ e \notin Live
  <2>1. e \notin InChain
    BY <1>3 DEF LinksInv, ChainTypeOK, InChain
  <2>2. e \in 1..Len(nameOf)
    BY <1>0, <1>3 DEF ChainEntries
  <2> QED
    BY <1>0, <2>1, <2>2 DEF Known, Live
<1>5. InChain' = InChain \cup {e}
  BY <1>1, <1>3 DEF InChain
<1>6. Live \subseteq Known /\ Live = InChain \cup {HeadEntry, TailEntry} /\ Live' = Live \cup {e} /\ Known' = Known
  BY <1>0, <1>1, <1>2, <1>5 DEF Live, Known
<1>7. Firm = InChain /\ Firm' = Firm \cup {e}
  BY <1>1, <1>2, <1>4, <1>5 DEF Firm
<1>8. n \in Live \ {HeadEntry} /\ n \in Known /\ n # e /\ p # e
  BY <1>3, <1>4, <1>6 DEF LinksInv, ListInv
<1>9. \A x \in Known : nextEntry'[x] = IF x = p THEN e ELSE nextEntry[x]
  BY <1>0, <1>1 DEF LinksInv, ChainTypeOK
<1>10. \A x \in Known : Before(x) = (IF x = n THEN p ELSE prevEntry[x]) /\ Before(x)' = prevEntry[x]
  BY <1>1, <1>2 DEF Before, HalfLinked
<1>11. ChainTypeOK'
  <2>1. nextEntry' \in [Nodes -> Nodes \cup {NoEntry}]
    BY <1>0, <1>1, <1>4 DEF LinksInv, ChainTypeOK
  <2>2. change' \in [kind : ChangeKinds, entry : ChainEntries \cup {NoEntry}, during : {"none", "clearing", "building"}]
    BY <1>1 DEF LinksInv, ChainTypeOK, ChangeKinds
  <2>3. \A m \in DOMAIN name2entry' : name2entry'[m] \in 1..Len(nameOf) /\ nameOf[name2entry'[m]] = m
    BY <1>1, <1>4 DEF LinksInv, ChainTypeOK
  <2> QED
    BY <1>1, <2>1, <2>2, <2>3 DEF LinksInv, ChainTypeOK, buildVars
<1>12. ListInv'
  <2>1. \A x \in Known' \ {TailEntry} : nextEntry'[x] \in Known' \ {HeadEntry}
    BY <1>0, <1>4, <1>6, <1>9 DEF LinksInv, ListInv, Known
  <2>2. \A x \in Live' \ {TailEntry} : nextEntry'[x] \in Live' /\ prevEntry[nextEntry'[x]] = x
    <3>3. ASSUME NEW x \in Live' \ {TailEntry}, x # e, x # p
          PROVE  nextEntry'[x] \in Live' /\ prevEntry[nextEntry'[x]] = x
      <4>1. nextEntry[x] \in Live /\ Before(nextEntry[x]) = x
        BY <1>6, <3>3 DEF LinksInv, ListInv
      <4> QED
        BY <1>6, <1>9, <1>10, <3>3, <4>1
    <3> QED
      BY <1>3, <1>4, <1>6, <1>8, <1>9, <3>3
  <2>3. \A x \in Live' \ {HeadEntry} : prevEntry[x] \in Live' /\ nextEntry'[prevEntry[x]] = x
    <3>1. ASSUME NEW x \in Live' \ {HeadEntry}, x # e, x # n
          PROVE  prevEntry[x] \in Live' /\ nextEntry'[prevEntry[x]] = x
      <4>1. prevEntry[x] \in Live /\ nextEntry[prevEntry[x]] = x
        BY <1>6, <1>10, <3>1 DEF LinksInv, ListInv
      <4> QED
        BY <1>3, <1>6, <1>9, <3>1, <4>1
    <3> QED
      BY <1>3, <1>4, <1>6, <1>8, <1>9, <3>1
  <2> QED
    BY <1>1, <1>6, <1>10, <1>4, <2>1, <2>2, <2>3 DEF LinksInv, ListInv, Before, HalfLinked
<1>13. EntryInv'
  BY <1>2, <1>5 DEF EntryInv, HalfLinked
<1> QED
  BY <1>1, <1>2, <1>3, <1>4, <1>6, <1>7, <1>8, <1>11, <1>12, <1>13 DEF LinksInv

\* An entry leaves the list, first forward, ...
LEMMA UnlinkForwardLinks ==
  ASSUME LinksInv, UnlinkForward, nextEntry[change.entry] # change.entry
  PROVE  LET e == change.entry
             p == prevEntry[e]
         IN  /\ LinksInv' /\ Firm' = Firm /\ Known' = Known /\ e \notin Firm
             /\ change'.kind \in {"unlinked", "undone"}
             /\ e \in Known \ {TailEntry} /\ p \in Known \ {TailEntry} /\ nextEntry[p] = e
             /\ nextEntry' = [nextEntry EXCEPT ![p] = nextEntry[e]] /\ prevEntry' = prevEntry
<1> DEFINE e == change.entry
           p == prevEntry[e]
           n == nextEntry[e]
<1>0. /\ InChain \subseteq 1..Len(nameOf) /\ 1..Len(nameOf) \subseteq ChainEntries /\ InChain \subseteq Nat
      /\ Len(nameOf) \in Nat /\ Known \subseteq Nodes
      /\ HeadEntry \notin Nat /\ TailEntry \notin Nat /\ NoEntry \notin Nat
      /\ HeadEntry # TailEntry /\ NoEntry # HeadEntry /\ NoEntry # TailEntry
  BY ChainSets DEF LinksInv
<1>1. /\ change.kind \in {"remove", "undo"} /\ UNCHANGED <<buildVars, prevEntry, nameOf, name2entry>>
      /\ nextEntry' = [nextEntry EXCEPT ![p] = n]
      /\ change' = [change EXCEPT !.kind = IF @ = "undo" THEN "undone" ELSE "unlinked"]
  BY DEF UnlinkForward
<1>2. change'.kind \in {"unlinked", "undone"} /\ change'.entry = e
  BY <1>1 DEF LinksInv, ChainTypeOK
<1>3. e \in InChain /\ InChain' = InChain
  BY <1>1 DEF LinksInv, EntryInv, InChain
<1>4. Live = InChain \cup {HeadEntry, TailEntry} /\ Live' = Live \ {e} /\ Known' = Known /\ Live \subseteq Known
  <2>1. Live = InChain \cup {HeadEntry, TailEntry} /\ Live \subseteq Known
    BY <1>0, <1>1 DEF Live, Known
  <2>2. e \notin {HeadEntry, TailEntry}
    <3>1. e \in Nat
      BY <1>0, <1>3
    <3> QED
      BY <1>0, <3>1
  <2> QED
    BY <1>1, <1>2, <1>3, <2>1, <2>2 DEF Live, Known
<1>5. e \in Live \ {HeadEntry, TailEntry} /\ e \in Known
  <2>1. e \in Nat
    BY <1>0, <1>3
  <2>2. e \in Live
    BY <1>3, <1>4
  <2> QED
    BY <1>0, <1>4, <2>1, <2>2
<1>6. ~HalfLinked /\ HalfLinked' /\ \A x : Before(x) = prevEntry[x]
  BY <1>1, <1>2 DEF HalfLinked, Before
<1>7. p \in Live \ {TailEntry} /\ nextEntry[p] = e /\ n \in Live \ {HeadEntry} /\ prevEntry[n] = e
  BY <1>4, <1>5, <1>6 DEF LinksInv, ListInv
<1>8. p # e /\ n # e
  BY <1>7
<1>9. \A x \in Known : nextEntry'[x] = IF x = p THEN n ELSE nextEntry[x]
  BY <1>0, <1>1 DEF LinksInv, ChainTypeOK
<1>10. \A x \in Known : Before(x)' = IF x = n THEN p ELSE prevEntry[x]
  BY <1>1, <1>2, <1>5, <1>6, <1>8, <1>9 DEF Before
<1>11. ChainTypeOK'
  <2>1. nextEntry' \in [Nodes -> Nodes \cup {NoEntry}]
    BY <1>0, <1>1, <1>4, <1>7 DEF LinksInv, ChainTypeOK
  <2>2. change' \in [kind : ChangeKinds, entry : ChainEntries \cup {NoEntry}, during : {"none", "clearing", "building"}]
    BY <1>1 DEF LinksInv, ChainTypeOK, ChangeKinds
  <2> QED
    BY <1>1, <2>1, <2>2 DEF LinksInv, ChainTypeOK, buildVars
<1>12. ListInv'
  <2>1. \A x \in Known' \ {TailEntry} : nextEntry'[x] \in Known' \ {HeadEntry}
    BY <1>4, <1>7, <1>9 DEF LinksInv, ListInv
  <2>2. ASSUME NEW x \in Live' \ {TailEntry}
        PROVE  nextEntry'[x] \in Live' /\ Before(nextEntry[x])' = x
    <3>1. nextEntry[x] \in Live /\ prevEntry[nextEntry[x]] = x
      BY <1>4, <1>6, <2>2 DEF LinksInv, ListInv
    <3> QED
      BY <1>4, <1>7, <1>8, <1>9, <1>10, <2>2, <3>1
  <2>3. ASSUME NEW x \in Live' \ {HeadEntry}
        PROVE  Before(x)' \in Live' /\ nextEntry'[Before(x)'] = x
    <3>1. prevEntry[x] \in Live /\ nextEntry[prevEntry[x]] = x
      BY <1>4, <1>6, <2>3 DEF LinksInv, ListInv
    <3> QED
      BY <1>4, <1>7, <1>8, <1>9, <1>10, <2>3, <3>1
  <2> QED
    BY <1>1, <1>4, <2>1, <2>2, <2>3 DEF LinksInv, ListInv
<1>13. EntryInv'
  BY <1>1, <1>2, <1>3, <1>4, <1>5, <1>7, <1>8, <1>9 DEF EntryInv
<1>14. Firm' = Firm /\ e \notin Firm
  BY <1>1, <1>2, <1>3 DEF Firm
<1> QED
  BY <1>1, <1>2, <1>4, <1>5, <1>7, <1>11, <1>12, <1>13, <1>14 DEF LinksInv

\* ... then backward, and its name is forgotten.
LEMMA UnlinkBackLinks ==
  ASSUME LinksInv, UnlinkBack
  PROVE  LET e == change.entry
             n == nextEntry[e]
         IN  /\ LinksInv' /\ Firm' = Firm /\ Known' = Known /\ e \notin Firm
             /\ change'.kind \in {"removed", "free"}
             /\ e \in Known \ {HeadEntry} /\ n \in Known \ {HeadEntry} /\ prevEntry[n] = e
             /\ prevEntry' = [prevEntry EXCEPT ![n] = prevEntry[e]] /\ nextEntry' = nextEntry
<1> DEFINE e == change.entry
           p == prevEntry[e]
           n == nextEntry[e]
<1>0. /\ InChain \subseteq 1..Len(nameOf) /\ 1..Len(nameOf) \subseteq ChainEntries /\ InChain \subseteq Nat
      /\ Len(nameOf) \in Nat /\ Known \subseteq Nodes
      /\ HeadEntry \notin Nat /\ TailEntry \notin Nat /\ NoEntry \notin Nat
      /\ HeadEntry # TailEntry /\ NoEntry # HeadEntry /\ NoEntry # TailEntry
  BY ChainSets DEF LinksInv
<1>1. /\ change.kind \in {"unlinked", "undone"} /\ UNCHANGED <<buildVars, nextEntry, nameOf>>
      /\ prevEntry' = [prevEntry EXCEPT ![n] = p]
      /\ name2entry' = [m \in DOMAIN name2entry \ {nameOf[e]} |-> name2entry[m]]
      /\ change' = [change EXCEPT !.kind = IF @ = "undone" THEN "free" ELSE "removed"]
  BY DEF UnlinkBack
<1>2. change'.kind \in {"removed", "free"} /\ change'.entry = e
  BY <1>1 DEF LinksInv, ChainTypeOK
<1>3. e \in InChain /\ p \in Live \ {TailEntry} /\ nextEntry[p] = n /\ prevEntry[n] = e
  BY <1>1 DEF LinksInv, EntryInv, HalfLinked
<1>4. InChain' = InChain \ {e}
  <2>1. PICK m \in DOMAIN name2entry : name2entry[m] = e /\ nameOf[e] = m
    BY <1>3 DEF LinksInv, ChainTypeOK, InChain
  <2>2. \A k \in DOMAIN name2entry : name2entry[k] = e => k = m
    BY <2>1 DEF LinksInv, ChainTypeOK
  <2> QED
    BY <1>1, <2>1, <2>2 DEF InChain
<1>5. e \in Known \ {HeadEntry, TailEntry} /\ Known' = Known /\ Live \subseteq Known
  BY <1>0, <1>1, <1>3 DEF Known, Live
<1>6. Live' = Live /\ e \notin Live
  <2>1. e \notin {HeadEntry, TailEntry}
    BY <1>5
  <2> QED
    BY <1>1, <1>2, <1>4, <2>1 DEF Live
<1>7. n \in Live \ {HeadEntry} /\ n \in Known /\ n # e
  BY <1>3, <1>5, <1>6 DEF LinksInv, ListInv
<1>8. \A x \in Known : prevEntry'[x] = IF x = n THEN p ELSE prevEntry[x]
  BY <1>0, <1>1 DEF LinksInv, ChainTypeOK
<1>9. \A x \in Known : Before(x) = prevEntry'[x] /\ Before(x)' = prevEntry'[x]
  BY <1>1, <1>2, <1>8 DEF Before, HalfLinked
<1>10. ChainTypeOK'
  <2>1. prevEntry' \in [Nodes -> Nodes \cup {NoEntry}]
    BY <1>0, <1>1, <1>3, <1>5 DEF LinksInv, ChainTypeOK
  <2>2. change' \in [kind : ChangeKinds, entry : ChainEntries \cup {NoEntry}, during : {"none", "clearing", "building"}]
    BY <1>1 DEF LinksInv, ChainTypeOK, ChangeKinds
  <2>3. \A m \in DOMAIN name2entry' : name2entry'[m] \in 1..Len(nameOf) /\ nameOf[name2entry'[m]] = m
    BY <1>1 DEF LinksInv, ChainTypeOK
  <2> QED
    BY <1>1, <2>1, <2>2, <2>3 DEF LinksInv, ChainTypeOK, buildVars
<1>11. ListInv'
  <2>1. \A x \in Known' \ {HeadEntry} : prevEntry'[x] \in Known' \ {TailEntry}
    BY <1>3, <1>5, <1>8 DEF LinksInv, ListInv
  <2>2. \A x \in Live' \ {TailEntry} : nextEntry'[x] \in Live' /\ Before(nextEntry[x])' = x
    BY <1>1, <1>5, <1>6, <1>9 DEF LinksInv, ListInv
  <2>3. \A x \in Live' \ {HeadEntry} : Before(x)' \in Live' /\ nextEntry'[Before(x)'] = x
    BY <1>1, <1>5, <1>6, <1>9 DEF LinksInv, ListInv
  <2> QED
    BY <1>1, <1>5, <2>1, <2>2, <2>3 DEF LinksInv, ListInv
<1>12. EntryInv'
  BY <1>0, <1>1, <1>2, <1>3, <1>4 DEF EntryInv, HalfLinked
<1>13. Firm' = Firm /\ e \notin Firm
  BY <1>1, <1>2, <1>4 DEF Firm
<1> QED
  BY <1>1, <1>2, <1>3, <1>5, <1>7, <1>10, <1>11, <1>12, <1>13 DEF LinksInv

\* Changes that leave the links alone.
OtherChange ==
  \/ \E n \in Names : BuilderAdd(n) \/ BuilderRemove(n) \/ BeginRemove(n) \/ ReplaceThrows(n)
  \/ BuilderClear \/ BeginBuild \/ EndBuild \/ AddReturns \/ AddThrows
  \/ BeginClear \/ EndClear \/ FreeEntry \/ RemoveThrows

LEMMA BuilderTypes ==
  ASSUME NEW s \in Seq(Names), NEW n \in Names
  PROVE  /\ \A i \in 1..(Len(s) + 1) : InsertAt(s, i, n) \in Seq(Names)
         /\ \A i \in 1..Len(s) : RemoveAt(s, i) \in Seq(Names)
<1>1. ASSUME NEW i \in 1..(Len(s) + 1) PROVE InsertAt(s, i, n) \in Seq(Names)
  <2>1. SubSeq(s, 1, i - 1) \in Seq(Names) /\ SubSeq(s, i, Len(s)) \in Seq(Names)
    BY <1>1, SubSeqProperties
  <2>2. <<n>> \in Seq(Names)
    OBVIOUS
  <2> QED
    BY <2>1, <2>2, ConcatProperties DEF InsertAt
<1>2. ASSUME NEW i \in 1..Len(s) PROVE RemoveAt(s, i) \in Seq(Names)
  <2>1. SubSeq(s, 1, i - 1) \in Seq(Names) /\ SubSeq(s, i + 1, Len(s)) \in Seq(Names)
    BY <1>2, SubSeqProperties
  <2> QED
    BY <2>1, ConcatProperties DEF RemoveAt
<1> QED
  BY <1>1, <1>2

LEMMA OtherTypes ==
  ASSUME LinksInv, OtherChange
  PROVE  builder' \in Seq(Names) /\ snapshot' \in Seq(Names) /\ toBuild' \in Seq(Names)
<1>0. builder \in Seq(Names) /\ snapshot \in Seq(Names) /\ toBuild \in Seq(Names) /\ <<>> \in Seq(Names)
  BY DEF LinksInv, ChainTypeOK
<1>1. ASSUME NEW n \in Names, BuilderAdd(n)
      PROVE  builder' \in Seq(Names) /\ UNCHANGED <<snapshot, toBuild>>
  BY <1>0, <1>1, BuilderTypes DEF BuilderAdd
<1>2. ASSUME NEW n \in Names, BuilderRemove(n)
      PROVE  builder' \in Seq(Names) /\ UNCHANGED <<snapshot, toBuild>>
  <2>1. DOMAIN builder = 1..Len(builder)
    BY <1>0
  <2> QED
    BY <1>0, <1>2, <2>1, BuilderTypes DEF BuilderRemove
<1>3. ASSUME NEW n \in Names, BeginRemove(n) \/ ReplaceThrows(n) PROVE UNCHANGED buildVars
  BY <1>3 DEF BeginRemove, ReplaceThrows
<1>4. CASE BuilderClear \/ BeginBuild \/ EndBuild \/ AddThrows
  BY <1>0, <1>4 DEF BuilderClear, BeginBuild, EndBuild, AddThrows
<1>5. CASE AddReturns \/ BeginClear \/ EndClear \/ FreeEntry \/ RemoveThrows
  BY <1>0, <1>5 DEF AddReturns, BeginClear, EndClear, FreeEntry, RemoveThrows, buildVars
<1> QED
  BY <1>0, <1>1, <1>2, <1>3, <1>4, <1>5 DEF OtherChange, buildVars

Settled == {"unbuilt", "building", "none", "clearing"}

\* What such a change does to the entry in hand, and to what events are owed.
Steady == change' = change /\ owed' = owed
Settles ==
  /\ change.kind \in Settled \cup {"added", "removed", "free"}
  /\ change'.kind \in Settled /\ change'.entry = NoEntry /\ owed' = owed
TakesOut ==
  /\ change.kind \in {"added", "none", "clearing"} /\ change'.kind \in {"undo", "remove"}
  /\ change'.entry \in InChain /\ (change.kind = "added" => change'.entry = change.entry)
  /\ owed' = [w \in Walks |-> owed[w] \ {change'.entry}]

LEMMA OtherEffect ==
  ASSUME LinksInv, OtherChange
  PROVE  /\ UNCHANGED <<linkVars, nameOf, name2entry, walker, seen>>
         /\ change' \in [kind : ChangeKinds, entry : ChainEntries \cup {NoEntry}, during : {"none", "clearing", "building"}]
         /\ Steady \/ Settles \/ TakesOut
<1>0. change \in [kind : ChangeKinds, entry : ChainEntries \cup {NoEntry}, during : {"none", "clearing", "building"}]
  BY DEF LinksInv, ChainTypeOK
<1>1. ASSUME NEW n \in Names, BuilderAdd(n) \/ BuilderRemove(n) \/ ReplaceThrows(n)
      PROVE  Steady /\ UNCHANGED <<linkVars, nameOf, name2entry, walker, seen>>
  BY <1>1 DEF BuilderAdd, BuilderRemove, ReplaceThrows, walkVars, Steady
<1>2. CASE BuilderClear
  BY <1>0, <1>2 DEF BuilderClear, walkVars, Steady
<1>3. CASE BeginBuild \/ EndBuild \/ BeginClear \/ EndClear \/ RemoveThrows
  <2>1. UNCHANGED <<linkVars, nameOf, name2entry, walker, seen, owed>>
    BY <1>3 DEF BeginBuild, EndBuild, BeginClear, EndClear, RemoveThrows, walkVars
  <2>2. change.kind \in Settled \cup {"removed"}
    BY <1>3 DEF BeginBuild, EndBuild, BeginClear, EndClear, RemoveThrows, Settled
  <2>3. \E k \in Settled, d \in {"none", "clearing", "building"} : change' = [kind |-> k, entry |-> NoEntry, during |-> d]
    BY <1>3 DEF BeginBuild, EndBuild, BeginClear, EndClear, RemoveThrows, Settled, NoChange
  <2> QED
    BY <2>1, <2>2, <2>3 DEF Settles, Settled, ChangeKinds
<1>5. CASE AddReturns \/ FreeEntry
  BY <1>0, <1>5 DEF AddReturns, FreeEntry, walkVars, Settles, Settled, ChangeKinds
<1>6. CASE AddThrows
  <2>1. change.entry \in InChain
    BY <1>6 DEF LinksInv, EntryInv, AddThrows
  <2> QED
    BY <1>0, <1>6, <2>1 DEF AddThrows, TakesOut, ChangeKinds
<1>7. ASSUME NEW n \in Names, BeginRemove(n)
      PROVE  /\ UNCHANGED <<linkVars, nameOf, name2entry, walker, seen>> /\ TakesOut
             /\ change' \in [kind : ChangeKinds, entry : ChainEntries \cup {NoEntry}, during : {"none", "clearing", "building"}]
  <2>1. name2entry[n] \in InChain /\ name2entry[n] \in ChainEntries
    BY <1>7, ChainSets DEF BeginRemove, InChain, LinksInv
  <2> QED
    BY <1>0, <1>7, <2>1 DEF BeginRemove, TakesOut, ChangeKinds
<1> QED
  BY <1>0, <1>1, <1>2, <1>3, <1>5, <1>6, <1>7 DEF OtherChange, Steady

LEMMA OtherLinks ==
  ASSUME LinksInv, OtherChange
  PROVE  /\ LinksInv' /\ UNCHANGED linkVars /\ Known' = Known /\ Firm' \subseteq Firm
         /\ \A w \in Walks : owed[w] \subseteq Firm => owed'[w] \subseteq owed[w] /\ owed'[w] \subseteq Firm'
         /\ UNCHANGED <<walker, seen>>
         /\ change'.kind \in {"add", "linked"} => change' = change
<1>1. /\ UNCHANGED <<linkVars, nameOf, name2entry, walker, seen>>
      /\ change' \in [kind : ChangeKinds, entry : ChainEntries \cup {NoEntry}, during : {"none", "clearing", "building"}]
      /\ Steady \/ Settles \/ TakesOut
  BY OtherEffect
<1>2. builder' \in Seq(Names) /\ snapshot' \in Seq(Names) /\ toBuild' \in Seq(Names)
  BY OtherTypes
<1>3. UNCHANGED <<nextEntry, prevEntry>> /\ InChain' = InChain /\ Known' = Known
  BY <1>1 DEF linkVars, InChain, Known
<1>4. ChainTypeOK'
  BY <1>1, <1>2, <1>3 DEF LinksInv, ChainTypeOK
<1>5. NoEntry \notin InChain
  BY ChainSets DEF LinksInv
<1>6. /\ change.kind \in Settled => change.entry = NoEntry
      /\ change.kind \in {"removed", "free"} => change.entry \notin InChain
  BY DEF LinksInv, EntryInv, Settled
<1>7. CASE Steady
  <2>1. UNCHANGED change /\ owed' = owed
    BY <1>7 DEF Steady
  <2>2. Firm' = Firm /\ Live' = Live
    BY <1>3, <2>1 DEF Firm, Live
  <2>3. ListInv'
    BY <1>3, <2>1, <2>2 DEF LinksInv, ListInv, Before, HalfLinked
  <2>4. EntryInv'
    BY <1>1, <1>3, <2>1, <2>2 DEF LinksInv, EntryInv, HalfLinked
  <2> QED
    BY <1>1, <1>3, <1>4, <2>1, <2>2, <2>3, <2>4 DEF LinksInv, linkVars
<1>8. CASE Settles \/ TakesOut
  <2>1. ~HalfLinked /\ ~HalfLinked' /\ change'.kind \notin {"add", "linked"}
    BY <1>8 DEF Settles, TakesOut, HalfLinked, Settled
  <2>2. Live = InChain \cup {HeadEntry, TailEntry} /\ Live' = Live
    BY <1>3, <1>8 DEF Live, Settles, TakesOut, Settled
  <2>3. ListInv'
    BY <1>3, <2>1, <2>2 DEF LinksInv, ListInv, Before
  <2>4. EntryInv'
    BY <1>3, <1>8, <2>1 DEF EntryInv, Settles, TakesOut, Settled
  <2>5. Firm = InChain
    BY <1>5, <1>6, <1>8 DEF Firm, Settles, TakesOut, Settled
  <2>6. CASE Settles
    <3>1. Firm' = Firm /\ owed' = owed
      BY <1>3, <1>5, <2>5, <2>6 DEF Firm, Settles, Settled
    <3> QED
      BY <1>1, <1>3, <1>4, <2>1, <2>3, <2>4, <3>1 DEF LinksInv, linkVars
  <2>7. CASE TakesOut
    <3>1. Firm' = Firm \ {change'.entry}
      BY <1>3, <2>5, <2>7 DEF Firm, TakesOut
    <3>2. \A w \in Walks : owed'[w] = owed[w] \ {change'.entry}
      BY <2>7 DEF TakesOut
    <3> QED
      BY <1>1, <1>3, <1>4, <2>1, <2>3, <2>4, <3>1, <3>2 DEF LinksInv, linkVars
  <2> QED
    BY <1>8, <2>6, <2>7
<1> QED
  BY <1>1, <1>7, <1>8

-----------------------------------------------------------------------------
(* The entries in an order that the links of one direction respect: a link *)
(* leads to a later node and passes none of F.                             *)

Ordered(K, F, links, first, last, rank) ==
  /\ \A x, y \in K : rank[x] = rank[y] => x = y
  /\ \A x \in K : rank[first] <= rank[x] /\ rank[x] <= rank[last]
  /\ \A x \in K \ {last} :
       /\ rank[x] < rank[links[x]]
       /\ \A z \in F : ~(rank[x] < rank[z] /\ rank[z] < rank[links[x]])

\* e comes right after near.
Follows(K, e, near, rank) ==
  /\ rank[near] < rank[e]
  /\ \A x \in K : ~(rank[near] < rank[x] /\ rank[x] < rank[e])

Ranks == [Nodes -> Nat]
Links == [Nodes -> Nodes \cup {NoEntry}]

\* A new entry that leads where another one does finds a place right after it.
Shifted(rank, e, near) ==
  [x \in Nodes |-> IF x = e THEN rank[near] + 1 ELSE IF rank[x] > rank[near] THEN rank[x] + 1 ELSE rank[x]]

LEMMA ShiftedKeeps ==
  ASSUME NEW rank \in Ranks, NEW e \in Nodes, NEW near \in Nodes, e # near
  PROVE  LET new == Shifted(rank, e, near)
         IN  /\ new \in Ranks /\ new[e] = rank[near] + 1 /\ new[near] = rank[near]
             /\ \A x \in Nodes \ {e} : new[x] # new[e] /\ (new[near] < new[x] => new[e] < new[x])
             /\ \A x, y \in Nodes \ {e} : (new[x] < new[y] <=> rank[x] < rank[y]) /\ (new[x] = new[y] <=> rank[x] = rank[y])
<1> DEFINE new == Shifted(rank, e, near)
<1>1. new[e] = rank[near] + 1 /\ rank[near] \in Nat
  BY DEF Shifted, Ranks
<1>2. \A x \in Nodes \ {e} : rank[x] \in Nat /\ new[x] = IF rank[x] > rank[near] THEN rank[x] + 1 ELSE rank[x]
  BY DEF Shifted, Ranks
<1>3. new \in Ranks
  <2>1. \A x \in Nodes : new[x] \in Nat
    BY <1>1, <1>2
  <2> QED
    BY <2>1 DEF Ranks, Shifted
<1>4. new[near] = rank[near]
  BY <1>1, <1>2
<1>5. \A x \in Nodes \ {e} : new[x] # new[e] /\ (new[near] < new[x] => new[e] < new[x])
  BY <1>1, <1>2, <1>4
<1>6. \A x, y \in Nodes \ {e} : (new[x] < new[y] <=> rank[x] < rank[y]) /\ (new[x] = new[y] <=> rank[x] = rank[y])
  BY <1>1, <1>2
<1> QED
  BY <1>1, <1>3, <1>4, <1>5, <1>6

LEMMA InsertRank ==
  ASSUME NEW K \in SUBSET Nodes, NEW F \in SUBSET K, NEW links \in Links, NEW first \in K, NEW last \in K,
         NEW rank \in Ranks, Ordered(K, F, links, first, last, rank),
         NEW e \in Nodes \ K, NEW near \in K \ {last},
         \A x \in K \ {last} : links[x] \in K
  PROVE  LET new == Shifted(rank, e, near)
         IN  /\ Ordered(K \cup {e}, F, [links EXCEPT ![e] = links[near]], first, last, new)
             /\ Follows(K \cup {e}, e, near, new)
<1> DEFINE new == Shifted(rank, e, near)
           links2 == [links EXCEPT ![e] = links[near]]
<1>0. links2[e] = links[near] /\ \A x \in K : links2[x] = links[x]
  BY DEF Links
<1>1. /\ new \in Ranks /\ new[e] = rank[near] + 1 /\ new[near] = rank[near]
      /\ \A x \in Nodes \ {e} : new[x] # new[e] /\ (new[near] < new[x] => new[e] < new[x])
      /\ \A x, y \in Nodes \ {e} : (new[x] < new[y] <=> rank[x] < rank[y]) /\ (new[x] = new[y] <=> rank[x] = rank[y])
  BY ShiftedKeeps
<1> HIDE DEF new, links2
<1>2. \A x \in K \cup {e} : rank[x] \in Nat /\ new[x] \in Nat
  BY <1>1 DEF Ranks
<1>3. K \subseteq Nodes \ {e}
  OBVIOUS
<1>4. \A x, y \in K \cup {e} : new[x] = new[y] => x = y
  BY <1>1, <1>3 DEF Ordered
<1>5. \A x \in K : new[first] <= new[x] /\ new[x] <= new[last]
  BY <1>1, <1>2, <1>3 DEF Ordered
<1>6. rank[near] < rank[last]
  BY <1>2 DEF Ordered
<1>7. new[near] < new[e] /\ new[e] < new[last] /\ new[first] < new[e]
  BY <1>1, <1>2, <1>3, <1>5, <1>6
<1>8. \A x \in K \ {last} :
        /\ new[x] < new[links2[x]]
        /\ \A z \in F : ~(new[x] < new[z] /\ new[z] < new[links2[x]])
  BY <1>0, <1>1, <1>3 DEF Ordered
<1>9. new[e] < new[links2[e]] /\ \A z \in F : ~(new[e] < new[z] /\ new[z] < new[links2[e]])
  <2>1. new[near] < new[links[near]] /\ links[near] \in K
    BY <1>0, <1>8
  <2>2. new[e] < new[links[near]]
    BY <1>1, <1>3, <2>1
  <2>3. \A z \in F : new[e] < new[z] => new[near] < new[z]
    BY <1>2, <1>7
  <2> QED
    BY <1>0, <1>8, <2>2, <2>3
<1>10. Ordered(K \cup {e}, F, links2, first, last, new)
  BY <1>2, <1>4, <1>5, <1>7, <1>8, <1>9 DEF Ordered
<1>11. Follows(K \cup {e}, e, near, new)
  BY <1>1, <1>2, <1>3, <1>7 DEF Follows
<1> QED
  BY <1>10, <1>11 DEF new, links2

\* A node may lead to the entry that comes right after it ...
LEMMA Relink ==
  ASSUME NEW K \in SUBSET Nodes, NEW F \in SUBSET K, NEW links \in Links, NEW first \in K, NEW last \in K,
         NEW rank \in Ranks, Ordered(K, F, links, first, last, rank),
         NEW e \in K, NEW near \in K \ {last}, Follows(K, e, near, rank)
  PROVE  Ordered(K, F, [links EXCEPT ![near] = e], first, last, rank)
<1> DEFINE links2 == [links EXCEPT ![near] = e]
<1>1. \A x \in K : links2[x] = IF x = near THEN e ELSE links[x]
  BY DEF Links
<1> HIDE DEF links2
<1>2. Ordered(K, F, links2, first, last, rank)
  BY <1>1 DEF Ordered, Follows
<1> QED
  BY <1>2 DEF links2

\* ... and then no link passes that entry any more.
LEMMA Firmer ==
  ASSUME NEW K \in SUBSET Nodes, NEW F \in SUBSET K, NEW links, NEW first \in K, NEW last \in K,
         NEW rank \in Ranks, Ordered(K, F, links, first, last, rank),
         NEW e \in K, NEW near \in F \cup {first}, links[near] = e, Follows(K, e, near, rank),
         \A x \in K \ {last} : links[x] \in K
  PROVE  Ordered(K, F \cup {e}, links, first, last, rank)
<1>1. \A x \in K : rank[x] \in Nat
  BY DEF Ranks
<1>2. ASSUME NEW x \in K \ {last} PROVE ~(rank[x] < rank[e] /\ rank[e] < rank[links[x]])
  <2>1. SUFFICES ASSUME rank[x] < rank[e], rank[e] < rank[links[x]] PROVE FALSE
    OBVIOUS
  <2>2. rank[x] <= rank[near] /\ x # near
    BY <1>1, <2>1 DEF Follows
  <2>3. rank[x] < rank[near]
    BY <1>1, <2>2 DEF Ordered
  <2>4. near \in F
    BY <1>1, <2>3 DEF Ordered
  <2>5. rank[near] < rank[links[x]]
    BY <1>1, <2>1 DEF Follows
  <2> QED
    BY <2>3, <2>4, <2>5 DEF Ordered
<1> QED
  BY <1>2 DEF Ordered

\* A node may lead past an entry that nobody is owed.
LEMMA Skip ==
  ASSUME NEW K \in SUBSET Nodes, NEW F \in SUBSET K, NEW links \in Links, NEW first \in K, NEW last \in K,
         NEW rank \in Ranks, Ordered(K, F, links, first, last, rank),
         NEW e \in K \ {last}, e \notin F, NEW p \in K \ {last}, links[p] = e,
         \A x \in K \ {last} : links[x] \in K
  PROVE  Ordered(K, F, [links EXCEPT ![p] = links[e]], first, last, rank)
<1> DEFINE links2 == [links EXCEPT ![p] = links[e]]
<1>0. \A x \in K : links2[x] = IF x = p THEN links[e] ELSE links[x]
  BY DEF Links
<1> HIDE DEF links2
<1>1. \A x \in K : rank[x] \in Nat
  BY DEF Ranks
<1>2. rank[p] < rank[e] /\ rank[e] < rank[links[e]]
  BY DEF Ordered
<1>3. rank[p] < rank[links[e]]
  BY <1>1, <1>2
<1>4. ASSUME NEW z \in F PROVE ~(rank[p] < rank[z] /\ rank[z] < rank[links[e]])
  <2>1. rank[z] # rank[e]
    BY DEF Ordered
  <2>2. ~(rank[p] < rank[z] /\ rank[z] < rank[e]) /\ ~(rank[e] < rank[z] /\ rank[z] < rank[links[e]])
    BY DEF Ordered
  <2> QED
    BY <1>1, <2>1, <2>2
<1>5. Ordered(K, F, links2, first, last, rank)
  BY <1>0, <1>3, <1>4 DEF Ordered
<1> QED
  BY <1>5 DEF links2

LEMMA FewerFirm ==
  ASSUME NEW K, NEW F, NEW F2 \in SUBSET F, NEW links, NEW first, NEW last, NEW rank,
         Ordered(K, F, links, first, last, rank)
  PROVE  Ordered(K, F2, links, first, last, rank)
BY DEF Ordered

-----------------------------------------------------------------------------
(* Events on their way. *)

WalkTypeOK ==
  /\ walker \in [Walks -> [at : Nodes \cup {NoEntry}, writes : BOOLEAN]]
  /\ seen \in [Walks -> SUBSET Nodes] /\ owed \in [Walks -> SUBSET Nodes]
  /\ \A w \in Walks : walker[w].at \in Known \cup {NoEntry} /\ owed[w] \subseteq Firm

\* What an event is owed of the nodes up to where it is, it has passed.
Passed(back, rank) ==
  \A w \in Walks : walker[w].writes = back /\ walker[w].at # NoEntry =>
    \A z \in owed[w] : rank[z] <= rank[walker[w].at] => z \in seen[w]

ForwardInv(rank) ==
  /\ Ordered(Known, Firm, nextEntry, HeadEntry, TailEntry, rank)
  /\ change.kind \in {"add", "linked"} => Follows(Known, change.entry, prevEntry[change.entry], rank)
  /\ Passed(FALSE, rank)

BackwardInv(rank) ==
  /\ Ordered(Known, Firm, prevEntry, TailEntry, HeadEntry, rank)
  /\ change.kind \in {"add", "linked"} => Follows(Known, change.entry, nextEntry[change.entry], rank)
  /\ Passed(TRUE, rank)

WalkInv == LinksInv /\ WalkTypeOK /\ (\E rank \in Ranks : ForwardInv(rank)) /\ (\E rank \in Ranks : BackwardInv(rank))

LEMMA FirmKnown ==
  ASSUME LinksInv
  PROVE  /\ Firm \subseteq Known /\ Firm \subseteq Nodes /\ Known \subseteq Nodes
         /\ HeadEntry \in Known /\ TailEntry \in Known
         /\ HeadEntry \notin Firm /\ TailEntry \notin Firm /\ NoEntry \notin Known
         /\ \A x \in Known \ {TailEntry} : nextEntry[x] \in Known
         /\ \A x \in Known \ {HeadEntry} : prevEntry[x] \in Known
<1>1. /\ InChain \subseteq Nat /\ InChain \subseteq 1..Len(nameOf) /\ Known \subseteq Nodes /\ 1..Len(nameOf) \subseteq ChainEntries
      /\ HeadEntry \notin Nat /\ TailEntry \notin Nat /\ NoEntry \notin Nat
      /\ NoEntry # HeadEntry /\ NoEntry # TailEntry
  BY ChainSets DEF LinksInv
<1>2. Firm \subseteq InChain
  BY DEF Firm
<1>3. NoEntry \notin Known
  BY <1>1 DEF Known, ChainEntries
<1>4. Firm \subseteq Known /\ HeadEntry \in Known /\ TailEntry \in Known
  BY <1>1, <1>2 DEF Known
<1> QED
  BY <1>1, <1>2, <1>3, <1>4 DEF LinksInv, ListInv

\* Changes beside the events.
LEMMA PassedKept ==
  ASSUME NEW back \in BOOLEAN, NEW rank, Passed(back, rank), UNCHANGED <<walker, seen>>,
         \A w \in Walks : owed'[w] \subseteq owed[w]
  PROVE  Passed(back, rank)'
BY DEF Passed

LEMMA WalkTypesKept ==
  ASSUME WalkTypeOK, UNCHANGED walkVars, Known \subseteq Known', Firm \subseteq Firm'
  PROVE  WalkTypeOK'
BY DEF WalkTypeOK, walkVars

LEMMA PassedShifted ==
  ASSUME LinksInv, WalkTypeOK, NEW back \in BOOLEAN, NEW rank \in Ranks, Passed(back, rank), UNCHANGED walkVars,
         NEW e \in Nodes \ Known, NEW near \in Known
  PROVE  Passed(back, Shifted(rank, e, near))'
<1> DEFINE new == Shifted(rank, e, near)
<1>1. /\ new \in Ranks
      /\ \A x, y \in Nodes \ {e} : (new[x] < new[y] <=> rank[x] < rank[y]) /\ (new[x] = new[y] <=> rank[x] = rank[y])
  BY ShiftedKeeps, FirmKnown
<1>2. Known \subseteq Nodes \ {e} /\ Firm \subseteq Known
  BY FirmKnown
<1> HIDE DEF new
<1>3. \A x, y \in Known : new[x] <= new[y] <=> rank[x] <= rank[y]
  BY <1>1, <1>2 DEF Ranks
<1>4. Passed(back, new)'
  BY <1>2, <1>3 DEF Passed, WalkTypeOK, walkVars
<1> QED
  BY <1>4 DEF new

LEMMA NewEntryWalks ==
  ASSUME WalkInv, NEW name \in Names, NEW prev \in Live \ {TailEntry}, NewEntry(name, prev, "add"),
         change.kind \in {"none", "building"},
         builder' \in Seq(Names) /\ snapshot' \in Seq(Names) /\ toBuild' \in Seq(Names)
  PROVE  WalkInv'
<1>0. PICK e, n : e = change'.entry /\ n = nextEntry[prev]
  OBVIOUS
<1>1. /\ LinksInv' /\ Firm' = Firm /\ change'.kind = "add" /\ e \in Nodes \ Known /\ Known' = Known \cup {e}
      /\ nextEntry' = [nextEntry EXCEPT ![e] = n] /\ prevEntry' = [prevEntry EXCEPT ![e] = prev]
  BY <1>0, NewEntryLinks DEF WalkInv
<1>2. UNCHANGED walkVars
  BY DEF NewEntry
<1>3. /\ LinksInv /\ Firm \subseteq Known /\ Known \subseteq Nodes /\ HeadEntry \in Known /\ TailEntry \in Known
      /\ \A x \in Known \ {TailEntry} : nextEntry[x] \in Known
      /\ \A x \in Known \ {HeadEntry} : prevEntry[x] \in Known
  BY FirmKnown DEF WalkInv
<1>4. nextEntry \in Links /\ prevEntry \in Links
  BY <1>3 DEF LinksInv, ChainTypeOK, Links
<1>5. prev \in Known \ {TailEntry} /\ n \in Known \ {HeadEntry} /\ prevEntry[n] = prev
  <2>1. prev \in Known
    BY <1>3, ChainSets DEF Live, Known, LinksInv
  <2>2. Before(n) = prevEntry[n]
    BY DEF Before, HalfLinked
  <2> QED
    BY <1>0, <1>3, <2>1, <2>2 DEF LinksInv, ListInv
<1>6. /\ nextEntry'[e] = n /\ prevEntry'[e] = prev
      /\ \A x \in Known : nextEntry'[x] = nextEntry[x] /\ prevEntry'[x] = prevEntry[x]
  BY <1>1, <1>3, <1>4 DEF Links
<1>7. WalkTypeOK'
  BY <1>1, <1>2, WalkTypesKept DEF WalkInv
<1>8. \E rank \in Ranks : ForwardInv(rank)'
  <2>1. PICK rank \in Ranks : ForwardInv(rank)
    BY DEF WalkInv
  <2>2. PICK new \in Ranks : new = Shifted(rank, e, prev)
    BY <1>1, <1>3, <1>5, ShiftedKeeps
  <2>3. /\ Ordered(Known \cup {e}, Firm, nextEntry', HeadEntry, TailEntry, new)
        /\ Follows(Known \cup {e}, e, prev, new)
    BY <1>0, <1>1, <1>3, <1>4, <1>5, <2>1, <2>2, InsertRank DEF ForwardInv
  <2>4. Passed(FALSE, new)'
    BY <1>1, <1>2, <1>3, <1>5, <2>1, <2>2, PassedShifted DEF ForwardInv, WalkInv
  <2>5. ForwardInv(new)'
    BY <1>0, <1>1, <1>6, <2>3, <2>4 DEF ForwardInv
  <2> QED
    BY <2>2, <2>5
<1>9. \E rank \in Ranks : BackwardInv(rank)'
  <2>1. PICK rank \in Ranks : BackwardInv(rank)
    BY DEF WalkInv
  <2>2. PICK new \in Ranks : new = Shifted(rank, e, n)
    BY <1>1, <1>3, <1>5, ShiftedKeeps
  <2>3. /\ Ordered(Known \cup {e}, Firm, prevEntry', TailEntry, HeadEntry, new)
        /\ Follows(Known \cup {e}, e, n, new)
    BY <1>0, <1>1, <1>3, <1>4, <1>5, <2>1, <2>2, InsertRank DEF BackwardInv
  <2>4. Passed(TRUE, new)'
    BY <1>1, <1>2, <1>3, <1>5, <2>1, <2>2, PassedShifted DEF BackwardInv, WalkInv
  <2>5. BackwardInv(new)'
    BY <1>0, <1>1, <1>6, <2>3, <2>4 DEF BackwardInv
  <2> QED
    BY <2>2, <2>5
<1> QED
  BY <1>1, <1>7, <1>8, <1>9 DEF WalkInv

LEMMA LinkBackWalks == ASSUME WalkInv, LinkBack PROVE WalkInv'
<1> DEFINE e == change.entry
           n == nextEntry[e]
<1>1. /\ LinksInv' /\ Firm' = Firm /\ Known' = Known /\ change'.kind = "linked" /\ change.kind = "add" /\ change'.entry = e
      /\ nextEntry' = nextEntry /\ n \in Known \ {HeadEntry} /\ e \in Known
      /\ prevEntry' = [prevEntry EXCEPT ![n] = e]
  BY LinkBackLinks DEF WalkInv
<1>2. UNCHANGED walkVars
  BY DEF LinkBack
<1>3. /\ LinksInv /\ Firm \subseteq Known /\ Known \subseteq Nodes /\ HeadEntry \in Known /\ TailEntry \in Known
      /\ e # HeadEntry /\ e # TailEntry
  <2>1. e \in InChain \/ e \in 1..Len(nameOf)
    BY <1>1, ChainSets DEF WalkInv, LinksInv, EntryInv, ChainEntries
  <2> QED
    BY <2>1, FirmKnown, ChainSets DEF WalkInv, LinksInv
<1>4. \A x \in Known : prevEntry'[x] = IF x = n THEN e ELSE prevEntry[x]
  BY <1>1, <1>3 DEF LinksInv, ChainTypeOK
<1>5. WalkTypeOK'
  BY <1>1, <1>2, WalkTypesKept DEF WalkInv
<1>6. PICK rank \in Ranks : ForwardInv(rank)
  BY DEF WalkInv
<1>7. n # e
  BY <1>1, <1>3, <1>6 DEF ForwardInv, Ordered, Ranks
<1>8. ForwardInv(rank)'
  <2>1. Passed(FALSE, rank)'
    BY <1>2, <1>6, PassedKept DEF ForwardInv, walkVars
  <2>2. prevEntry'[e] = prevEntry[e]
    BY <1>1, <1>4, <1>7
  <2> QED
    BY <1>1, <1>6, <2>1, <2>2 DEF ForwardInv
<1>9. PICK back \in Ranks : BackwardInv(back)
  BY DEF WalkInv
<1>10. BackwardInv(back)'
  <2>1. Passed(TRUE, back)'
    BY <1>2, <1>9, PassedKept DEF BackwardInv, walkVars
  <2>2. Ordered(Known, Firm, prevEntry', TailEntry, HeadEntry, back)
    BY <1>1, <1>3, <1>9, Relink DEF BackwardInv, LinksInv, ChainTypeOK, Links
  <2> QED
    BY <1>1, <1>9, <2>1, <2>2 DEF BackwardInv
<1> QED
  BY <1>1, <1>5, <1>6, <1>8, <1>9, <1>10 DEF WalkInv

LEMMA LinkForwardWalks == ASSUME WalkInv, LinkForward PROVE WalkInv'
<1> DEFINE e == change.entry
           p == prevEntry[e]
           n == nextEntry[e]
<1>1. /\ LinksInv' /\ Firm' = Firm \cup {e} /\ Known' = Known /\ change'.kind = "added" /\ change.kind = "linked"
      /\ e \in Known /\ p \in Firm \cup {HeadEntry} /\ n \in Firm \cup {TailEntry}
      /\ prevEntry[n] = e /\ p \in Known \ {TailEntry} /\ n \in Known \ {HeadEntry}
      /\ nextEntry' = [nextEntry EXCEPT ![p] = e] /\ prevEntry' = prevEntry
  BY LinkForwardLinks DEF WalkInv
<1>2. UNCHANGED walkVars
  BY DEF LinkForward
<1>3. /\ LinksInv /\ Firm \subseteq Known /\ Known \subseteq Nodes /\ HeadEntry \in Known /\ TailEntry \in Known
      /\ \A x \in Known \ {TailEntry} : nextEntry[x] \in Known
      /\ \A x \in Known \ {HeadEntry} : prevEntry[x] \in Known
  BY FirmKnown DEF WalkInv
<1>4. \A x \in Known : nextEntry'[x] = IF x = p THEN e ELSE nextEntry[x]
  BY <1>1, <1>3 DEF LinksInv, ChainTypeOK
<1>5. WalkTypeOK'
  BY <1>1, <1>2, WalkTypesKept DEF WalkInv
<1>6. PICK rank \in Ranks : ForwardInv(rank)
  BY DEF WalkInv
<1>7. ForwardInv(rank)'
  <2>1. Passed(FALSE, rank)'
    BY <1>2, <1>6, PassedKept DEF ForwardInv, walkVars
  <2>2. Ordered(Known, Firm, nextEntry', HeadEntry, TailEntry, rank) /\ Follows(Known, e, p, rank)
    BY <1>1, <1>3, <1>6, Relink DEF ForwardInv, LinksInv, ChainTypeOK, Links
  <2>3. nextEntry'[p] = e /\ \A x \in Known \ {TailEntry} : nextEntry'[x] \in Known
    BY <1>1, <1>3, <1>4
  <2>4. Ordered(Known, Firm \cup {e}, nextEntry', HeadEntry, TailEntry, rank)
    BY <1>1, <1>3, <2>2, <2>3, Firmer
  <2> QED
    BY <1>1, <2>1, <2>4 DEF ForwardInv
<1>8. PICK back \in Ranks : BackwardInv(back)
  BY DEF WalkInv
<1>9. BackwardInv(back)'
  <2>1. Passed(TRUE, back)'
    BY <1>2, <1>8, PassedKept DEF BackwardInv, walkVars
  <2>2. Ordered(Known, Firm \cup {e}, prevEntry, TailEntry, HeadEntry, back)
    BY <1>1, <1>3, <1>8, Firmer DEF BackwardInv
  <2> QED
    BY <1>1, <2>1, <2>2 DEF BackwardInv
<1> QED
  BY <1>1, <1>5, <1>6, <1>7, <1>8, <1>9 DEF WalkInv

LEMMA UnlinkForwardWalks == ASSUME WalkInv, UnlinkForward PROVE WalkInv'
<1> DEFINE e == change.entry
           p == prevEntry[e]
<1>1. PICK rank \in Ranks : ForwardInv(rank)
  BY DEF WalkInv
<1>2. nextEntry[e] # e
  <2>1. e \in Known \ {TailEntry}
    <3>1. e \in InChain
      BY DEF UnlinkForward, WalkInv, LinksInv, EntryInv
    <3> QED
      BY <3>1, ChainSets DEF WalkInv, LinksInv, Known
  <2> QED
    BY <1>1, <2>1, FirmKnown DEF ForwardInv, Ordered, Ranks, WalkInv
<1>3. /\ LinksInv' /\ Firm' = Firm /\ Known' = Known /\ e \notin Firm
      /\ change'.kind \in {"unlinked", "undone"}
      /\ e \in Known \ {TailEntry} /\ p \in Known \ {TailEntry} /\ nextEntry[p] = e
      /\ nextEntry' = [nextEntry EXCEPT ![p] = nextEntry[e]] /\ prevEntry' = prevEntry
  BY <1>2, UnlinkForwardLinks DEF WalkInv
<1>4. UNCHANGED walkVars
  BY DEF UnlinkForward
<1>5. /\ LinksInv /\ Firm \subseteq Known /\ Known \subseteq Nodes /\ HeadEntry \in Known /\ TailEntry \in Known
      /\ \A x \in Known \ {TailEntry} : nextEntry[x] \in Known
  BY FirmKnown DEF WalkInv
<1>6. \A x \in Known : nextEntry'[x] = IF x = p THEN nextEntry[e] ELSE nextEntry[x]
  BY <1>3, <1>5 DEF LinksInv, ChainTypeOK
<1>7. WalkTypeOK'
  BY <1>3, <1>4, WalkTypesKept DEF WalkInv
<1>8. ForwardInv(rank)'
  <2>1. Passed(FALSE, rank)'
    BY <1>1, <1>4, PassedKept DEF ForwardInv, walkVars
  <2>2. Ordered(Known, Firm, nextEntry', HeadEntry, TailEntry, rank)
    BY <1>1, <1>3, <1>5, Skip DEF ForwardInv, LinksInv, ChainTypeOK, Links
  <2> QED
    BY <1>3, <2>1, <2>2 DEF ForwardInv
<1>9. PICK back \in Ranks : BackwardInv(back)
  BY DEF WalkInv
<1>10. BackwardInv(back)'
  <2>1. Passed(TRUE, back)'
    BY <1>4, <1>9, PassedKept DEF BackwardInv, walkVars
  <2> QED
    BY <1>3, <1>9, <2>1 DEF BackwardInv
<1> QED
  BY <1>1, <1>3, <1>7, <1>8, <1>9, <1>10 DEF WalkInv

LEMMA UnlinkBackWalks == ASSUME WalkInv, UnlinkBack PROVE WalkInv'
<1> DEFINE e == change.entry
           n == nextEntry[e]
<1>1. /\ LinksInv' /\ Firm' = Firm /\ Known' = Known /\ e \notin Firm
      /\ change'.kind \in {"removed", "free"}
      /\ e \in Known \ {HeadEntry} /\ n \in Known \ {HeadEntry} /\ prevEntry[n] = e
      /\ prevEntry' = [prevEntry EXCEPT ![n] = prevEntry[e]] /\ nextEntry' = nextEntry
  BY UnlinkBackLinks DEF WalkInv
<1>2. UNCHANGED walkVars
  BY DEF UnlinkBack
<1>3. /\ LinksInv /\ Firm \subseteq Known /\ Known \subseteq Nodes /\ HeadEntry \in Known /\ TailEntry \in Known
      /\ \A x \in Known \ {HeadEntry} : prevEntry[x] \in Known
  BY FirmKnown DEF WalkInv
<1>4. \A x \in Known : prevEntry'[x] = IF x = n THEN prevEntry[e] ELSE prevEntry[x]
  BY <1>1, <1>3 DEF LinksInv, ChainTypeOK
<1>5. WalkTypeOK'
  BY <1>1, <1>2, WalkTypesKept DEF WalkInv
<1>6. PICK rank \in Ranks : ForwardInv(rank)
  BY DEF WalkInv
<1>7. ForwardInv(rank)'
  <2>1. Passed(FALSE, rank)'
    BY <1>2, <1>6, PassedKept DEF ForwardInv, walkVars
  <2> QED
    BY <1>1, <1>6, <2>1 DEF ForwardInv
<1>8. PICK back \in Ranks : BackwardInv(back)
  BY DEF WalkInv
<1>9. BackwardInv(back)'
  <2>1. Passed(TRUE, back)'
    BY <1>2, <1>8, PassedKept DEF BackwardInv, walkVars
  <2>2. Ordered(Known, Firm, prevEntry', TailEntry, HeadEntry, back)
    BY <1>1, <1>3, <1>8, Skip DEF BackwardInv, LinksInv, ChainTypeOK, Links
  <2> QED
    BY <1>1, <2>1, <2>2 DEF BackwardInv
<1> QED
  BY <1>1, <1>5, <1>6, <1>7, <1>8, <1>9 DEF WalkInv

LEMMA OtherWalks == ASSUME WalkInv, OtherChange PROVE WalkInv'
<1>1. /\ LinksInv' /\ UNCHANGED <<nextEntry, prevEntry>> /\ Known' = Known /\ Firm' \subseteq Firm
      /\ \A w \in Walks : owed[w] \subseteq Firm => owed'[w] \subseteq owed[w] /\ owed'[w] \subseteq Firm'
      /\ UNCHANGED <<walker, seen>>
      /\ change'.kind \in {"add", "linked"} => change' = change
  BY OtherLinks DEF WalkInv, linkVars
<1>2. owed' \in [Walks -> SUBSET Nodes]
  BY OtherEffect DEF Steady, Settles, TakesOut, WalkInv, WalkTypeOK
<1>3. WalkTypeOK'
  BY <1>1, <1>2 DEF WalkInv, WalkTypeOK
<1>4. \A w \in Walks : owed'[w] \subseteq owed[w]
  BY <1>1 DEF WalkInv, WalkTypeOK
<1>5. PICK rank \in Ranks : ForwardInv(rank)
  BY DEF WalkInv
<1>6. ForwardInv(rank)'
  BY <1>1, <1>4, <1>5, PassedKept, FewerFirm DEF ForwardInv
<1>7. PICK back \in Ranks : BackwardInv(back)
  BY DEF WalkInv
<1>8. BackwardInv(back)'
  BY <1>1, <1>4, <1>7, PassedKept, FewerFirm DEF BackwardInv
<1> QED
  BY <1>1, <1>3, <1>5, <1>6, <1>7, <1>8 DEF WalkInv

\* addFirst(), addLast(), addBefore() and addAfter() find their place in the
\* list, and so does the builder.
LEMMA AddWalks == ASSUME WalkInv, BuildNext \/ \E n \in Names : Add(n) PROVE WalkInv'
<1>1. change.kind \in {"none", "building"}
  BY DEF BuildNext, Add
<1>2. Live = InChain \cup {HeadEntry, TailEntry}
  BY <1>1 DEF Live
<1>3. \A x \in Live \ {HeadEntry} : prevEntry[x] \in Live \ {TailEntry}
  <2>1. \A x : Before(x) = prevEntry[x]
    BY <1>1 DEF Before, HalfLinked
  <2>2. Live \subseteq Known
    BY <1>2, ChainSets DEF Known, WalkInv, LinksInv
  <2> QED
    BY <2>1, <2>2 DEF WalkInv, LinksInv, ListInv
<1>4. InChain \cap {HeadEntry, TailEntry} = {} /\ HeadEntry # TailEntry
  BY ChainSets DEF WalkInv, LinksInv
<1>5. /\ HeadEntry \in Live \ {TailEntry} /\ prevEntry[TailEntry] \in Live \ {TailEntry}
      /\ \A b \in DOMAIN name2entry : name2entry[b] \in Live \ {TailEntry} /\ prevEntry[name2entry[b]] \in Live \ {TailEntry}
  BY <1>2, <1>3, <1>4 DEF InChain
<1>6. builder \in Seq(Names) /\ snapshot \in Seq(Names) /\ toBuild \in Seq(Names)
  BY DEF WalkInv, LinksInv, ChainTypeOK
<1>7. ASSUME BuildNext PROVE WalkInv'
  <2>1. toBuild' \in Seq(Names) /\ Head(toBuild) \in Names /\ UNCHANGED <<builder, snapshot>>
    BY <1>6, <1>7 DEF BuildNext
  <2>2. NewEntry(Head(toBuild), prevEntry[TailEntry], "add")
    BY <1>7 DEF BuildNext
  <2> QED
    BY <1>1, <1>5, <1>6, <2>1, <2>2, NewEntryWalks
<1>8. ASSUME NEW n \in Names, Add(n) PROVE WalkInv'
  <2>1. PICK prev \in Live \ {TailEntry} : NewEntry(n, prev, "add")
    BY <1>5, <1>8 DEF Add
  <2>2. builder' \in Seq(Names) /\ snapshot' \in Seq(Names) /\ toBuild' \in Seq(Names)
    BY <1>6, <1>8 DEF Add, buildVars
  <2> QED
    BY <1>1, <2>1, <2>2, NewEntryWalks
<1> QED
  BY <1>7, <1>8

\* The list stays as it is.
LEMMA ListKept ==
  ASSUME UNCHANGED <<buildVars, linkVars, nameOf, name2entry, change>>
  PROVE  /\ LinksInv => LinksInv' /\ Known' = Known /\ Firm' = Firm
         /\ UNCHANGED <<nextEntry, prevEntry, change>>
<1>1. UNCHANGED <<builder, snapshot, toBuild, nextEntry, prevEntry, nameOf, name2entry, change>>
  BY DEF buildVars, linkVars
<1>2. Known' = Known /\ InChain' = InChain
  BY <1>1 DEF Known, InChain
<1>3. Firm' = Firm /\ Live' = Live
  BY <1>1, <1>2 DEF Firm, Live
<1>4. ChainTypeOK => ChainTypeOK'
  BY <1>1 DEF ChainTypeOK
<1>5. ListInv => ListInv'
  BY <1>1, <1>2, <1>3 DEF ListInv, Before, HalfLinked
<1>6. EntryInv => EntryInv'
  BY <1>1, <1>2, <1>3 DEF EntryInv, HalfLinked
<1> QED
  BY <1>1, <1>2, <1>3, <1>4, <1>5, <1>6 DEF LinksInv

\* An event begins before all it is owed.
LEMMA FireWalks == ASSUME WalkInv, NEW w \in Walks, Fire(w) PROVE WalkInv'
<1>1. /\ LinksInv' /\ Known' = Known /\ Firm' = Firm /\ UNCHANGED <<nextEntry, prevEntry, change, seen>>
  BY ListKept DEF Fire, WalkInv
<1>2. PICK writes \in BOOLEAN :
        walker' = [walker EXCEPT ![w] = [at |-> IF writes THEN TailEntry ELSE HeadEntry, writes |-> writes]]
  BY DEF Fire
<1>3. owed' = [owed EXCEPT ![w] = Firm]
  BY DEF Fire, Firm
<1>4. /\ Firm \subseteq Known /\ Firm \subseteq Nodes /\ Known \subseteq Nodes
      /\ HeadEntry \in Known /\ TailEntry \in Known /\ HeadEntry \notin Firm /\ TailEntry \notin Firm
  BY FirmKnown DEF WalkInv
<1>5. \A v \in Walks : /\ v # w => walker'[v] = walker[v] /\ owed'[v] = owed[v]
                       /\ v = w => /\ walker'[v] = [at |-> IF writes THEN TailEntry ELSE HeadEntry, writes |-> writes]
                                   /\ owed'[v] = Firm
  BY <1>2, <1>3 DEF WalkInv, WalkTypeOK
<1>6. WalkTypeOK'
  <2>1. walker' \in [Walks -> [at : Nodes \cup {NoEntry}, writes : BOOLEAN]] /\ owed' \in [Walks -> SUBSET Nodes]
    BY <1>2, <1>3, <1>4 DEF WalkInv, WalkTypeOK
  <2>2. \A v \in Walks : walker'[v].at \in Known \cup {NoEntry} /\ owed'[v] \subseteq Firm
    BY <1>4, <1>5 DEF WalkInv, WalkTypeOK
  <2> QED
    BY <1>1, <2>1, <2>2 DEF WalkInv, WalkTypeOK
<1>7. PICK rank \in Ranks : ForwardInv(rank)
  BY DEF WalkInv
<1>8. ForwardInv(rank)'
  <2>1. \A z \in Firm : ~(rank[z] <= rank[HeadEntry])
    BY <1>4, <1>7 DEF ForwardInv, Ordered, Ranks
  <2>2. Passed(FALSE, rank)'
    BY <1>1, <1>5, <1>7, <2>1 DEF ForwardInv, Passed
  <2> QED
    BY <1>1, <1>7, <2>2 DEF ForwardInv
<1>9. PICK back \in Ranks : BackwardInv(back)
  BY DEF WalkInv
<1>10. BackwardInv(back)'
  <2>1. \A z \in Firm : ~(back[z] <= back[TailEntry])
    BY <1>4, <1>9 DEF BackwardInv, Ordered, Ranks
  <2>2. Passed(TRUE, back)'
    BY <1>1, <1>5, <1>9, <2>1 DEF BackwardInv, Passed
  <2> QED
    BY <1>1, <1>9, <2>2 DEF BackwardInv
<1> QED
  BY <1>1, <1>6, <1>7, <1>8, <1>9, <1>10 DEF WalkInv

\* A link leads to a later node and past nothing that is owed.
LEMMA GoesWalks ==
  ASSUME WalkInv, NEW w \in Walks, CallNext(w) \/ CallPrevious(w)
  PROVE  WalkInv'
<1>1. PICK here \in Nodes, to \in Nodes \cup {NoEntry} :
        /\ walker[w].at = here /\ GoesTo(w, to)
        /\ \/ ~walker[w].writes /\ here # TailEntry /\ to = nextEntry[here]
           \/ walker[w].writes /\ here # HeadEntry /\ to = prevEntry[here]
  BY DEF CallNext, CallPrevious, WalkInv, LinksInv, ChainTypeOK
<1>2. /\ LinksInv' /\ Known' = Known /\ Firm' = Firm /\ UNCHANGED <<nextEntry, prevEntry, change, owed>>
  BY <1>1, ListKept DEF GoesTo, WalkInv
<1>3. here \in Known /\ to \in Known /\ Known \subseteq Nodes /\ Firm \subseteq Known
  <2>1. here \in Known
    BY <1>1, ChainAssumption, FirmKnown, ChainSets DEF WalkInv, WalkTypeOK, LinksInv, Nodes, ChainEntries
  <2> QED
    BY <1>1, <2>1, FirmKnown DEF WalkInv
<1>4. \A v \in Walks : /\ walker'[v].writes = walker[v].writes
                       /\ v # w => walker'[v] = walker[v] /\ seen'[v] = seen[v]
                       /\ v = w => walker'[v].at = to /\ seen'[v] = seen[v] \cup {to}
  BY <1>1 DEF GoesTo, WalkInv, WalkTypeOK
<1>5. WalkTypeOK'
  <2>1. walker' \in [Walks -> [at : Nodes \cup {NoEntry}, writes : BOOLEAN]] /\ seen' \in [Walks -> SUBSET Nodes]
    BY <1>1, <1>3 DEF GoesTo, WalkInv, WalkTypeOK
  <2>2. \A v \in Walks : walker'[v].at \in Known \cup {NoEntry} /\ owed[v] \subseteq Firm
    BY <1>3, <1>4 DEF WalkInv, WalkTypeOK
  <2> QED
    BY <1>2, <2>1, <2>2 DEF WalkInv, WalkTypeOK
<1>6. \A z \in owed[w] : z \in Firm /\ z \in Known
  BY <1>3 DEF WalkInv, WalkTypeOK
<1>7. PICK rank \in Ranks : ForwardInv(rank)
  BY DEF WalkInv
<1>8. ForwardInv(rank)'
  <2>1. ASSUME ~walker[w].writes, NEW z \in owed[w], rank[z] <= rank[to] PROVE z \in seen'[w]
    <3>1. CASE rank[z] <= rank[here]
      BY <1>1, <1>3, <1>4, <1>7, <2>1, <3>1, FirmKnown DEF ForwardInv, Passed, WalkInv
    <3>2. CASE rank[z] > rank[here]
      <4>1. ~(rank[here] < rank[z] /\ rank[z] < rank[to])
        BY <1>1, <1>3, <1>6, <1>7, <2>1 DEF ForwardInv, Ordered
      <4>2. rank[z] = rank[to]
        BY <1>3, <1>6, <2>1, <3>2, <4>1 DEF Ranks
      <4> QED
        BY <1>3, <1>4, <1>6, <1>7, <4>2 DEF ForwardInv, Ordered
    <3> QED
      BY <1>3, <1>6, <3>1, <3>2 DEF Ranks
  <2>2. Passed(FALSE, rank)'
    BY <1>2, <1>4, <1>7, <2>1 DEF ForwardInv, Passed
  <2> QED
    BY <1>2, <1>7, <2>2 DEF ForwardInv
<1>9. PICK back \in Ranks : BackwardInv(back)
  BY DEF WalkInv
<1>10. BackwardInv(back)'
  <2>1. ASSUME walker[w].writes, NEW z \in owed[w], back[z] <= back[to] PROVE z \in seen'[w]
    <3>1. CASE back[z] <= back[here]
      BY <1>1, <1>3, <1>4, <1>9, <2>1, <3>1, FirmKnown DEF BackwardInv, Passed, WalkInv
    <3>2. CASE back[z] > back[here]
      <4>1. ~(back[here] < back[z] /\ back[z] < back[to])
        BY <1>1, <1>3, <1>6, <1>9, <2>1 DEF BackwardInv, Ordered
      <4>2. back[z] = back[to]
        BY <1>3, <1>6, <2>1, <3>2, <4>1 DEF Ranks
      <4> QED
        BY <1>3, <1>4, <1>6, <1>9, <4>2 DEF BackwardInv, Ordered
    <3> QED
      BY <1>3, <1>6, <3>1, <3>2 DEF Ranks
  <2>2. Passed(TRUE, back)'
    BY <1>2, <1>4, <1>9, <2>1 DEF BackwardInv, Passed
  <2> QED
    BY <1>2, <1>9, <2>2 DEF BackwardInv
<1> QED
  BY <1>2, <1>5, <1>7, <1>8, <1>9, <1>10 DEF WalkInv

LEMMA WalkStep == ASSUME WalkInv, [ChainNext]_chainVars PROVE WalkInv'
<1>1. CASE UNCHANGED chainVars
  <2>1. LinksInv' /\ Known' = Known /\ Firm' = Firm /\ UNCHANGED <<nextEntry, prevEntry, change, walker, seen, owed>>
    BY <1>1, ListKept DEF chainVars, walkVars, WalkInv
  <2>2. WalkTypeOK'
    BY <2>1 DEF WalkTypeOK, WalkInv
  <2>3. PICK rank \in Ranks : ForwardInv(rank)
    BY DEF WalkInv
  <2>4. PICK back \in Ranks : BackwardInv(back)
    BY DEF WalkInv
  <2>5. ForwardInv(rank)' /\ BackwardInv(back)'
    BY <2>1, <2>3, <2>4 DEF ForwardInv, BackwardInv, Passed
  <2> QED
    BY <2>1, <2>2, <2>3, <2>4, <2>5 DEF WalkInv
<1>2. CASE OtherChange
  BY <1>2, OtherWalks
<1>3. CASE BuildNext \/ \E n \in Names : Add(n)
  BY <1>3, AddWalks
<1>4. CASE LinkBack \/ LinkForward \/ UnlinkForward \/ UnlinkBack
  BY <1>4, LinkBackWalks, LinkForwardWalks, UnlinkForwardWalks, UnlinkBackWalks
<1>5. CASE \E w \in Walks : Fire(w) \/ CallNext(w) \/ CallPrevious(w)
  BY <1>5, FireWalks, GoesWalks
<1> QED
  BY <1>1, <1>2, <1>3, <1>4, <1>5 DEF ChainNext, OtherChange

LEMMA WalkInit == ChainInit => WalkInv
<1> SUFFICES ASSUME ChainInit PROVE WalkInv
  OBVIOUS
<1>1. /\ nameOf = <<>> /\ DOMAIN name2entry = {} /\ change = [kind |-> "unbuilt", entry |-> NoEntry, during |-> "none"]
      /\ builder = <<>> /\ snapshot = <<>> /\ toBuild = <<>>
  BY DEF ChainInit, NoChange
<1>2. InChain = {} /\ 1..Len(nameOf) = {} /\ Len(nameOf) = 0
  BY <1>1 DEF InChain
<1>3. Known = {HeadEntry, TailEntry} /\ Live = {HeadEntry, TailEntry} /\ Firm = {}
  BY <1>2 DEF Known, Live, Firm
<1>4. HeadEntry # TailEntry /\ NoEntry # HeadEntry /\ NoEntry # TailEntry /\ HeadEntry \in Nodes /\ TailEntry \in Nodes
  BY ChainAssumption DEF Nodes
<1>5. nextEntry[HeadEntry] = TailEntry /\ prevEntry[TailEntry] = HeadEntry
  BY <1>4 DEF ChainInit
<1>6. ChainTypeOK
  <2>1. nextEntry \in [Nodes -> Nodes \cup {NoEntry}] /\ prevEntry \in [Nodes -> Nodes \cup {NoEntry}]
    BY <1>4 DEF ChainInit
  <2>2. builder \in Seq(Names) /\ snapshot \in Seq(Names) /\ toBuild \in Seq(Names) /\ nameOf \in Seq(Names)
    BY <1>1
  <2> QED
    BY <1>1, <1>2, <2>1, <2>2, ChainAssumption DEF ChainTypeOK, ChangeKinds
<1>7. ListInv
  BY <1>1, <1>3, <1>4, <1>5 DEF ListInv, Before, HalfLinked
<1>8. EntryInv
  BY <1>1 DEF EntryInv, HalfLinked
<1>9. WalkTypeOK
  BY <1>3, <1>4 DEF WalkTypeOK, ChainInit
<1>10. \A back \in BOOLEAN, rank \in Ranks : Passed(back, rank)
  BY DEF Passed, ChainInit
<1>11. \E rank \in Ranks : ForwardInv(rank)
  <2> DEFINE rank == [x \in Nodes |-> IF x = HeadEntry THEN 0 ELSE 1]
  <2>1. rank \in Ranks
    BY DEF Ranks
  <2>2. rank[HeadEntry] = 0 /\ rank[TailEntry] = 1
    BY <1>4
  <2> HIDE DEF rank
  <2>3. Ordered(Known, Firm, nextEntry, HeadEntry, TailEntry, rank)
    BY <1>3, <1>4, <1>5, <2>2 DEF Ordered
  <2> QED
    BY <1>1, <1>10, <2>1, <2>3 DEF ForwardInv
<1>12. \E rank \in Ranks : BackwardInv(rank)
  <2> DEFINE rank == [x \in Nodes |-> IF x = TailEntry THEN 0 ELSE 1]
  <2>1. rank \in Ranks
    BY DEF Ranks
  <2>2. rank[HeadEntry] = 1 /\ rank[TailEntry] = 0
    BY <1>4
  <2> HIDE DEF rank
  <2>3. Ordered(Known, Firm, prevEntry, TailEntry, HeadEntry, rank)
    BY <1>3, <1>4, <1>5, <2>2 DEF Ordered
  <2> QED
    BY <1>1, <1>10, <2>1, <2>3 DEF BackwardInv
<1> QED
  BY <1>6, <1>7, <1>8, <1>9, <1>11, <1>12 DEF WalkInv, LinksInv

\* An event that reaches the end of the chain has passed every filter that was
\* in it all the time, however many filters there are and whatever is added,
\* removed and taken back link by link beside it.
THEOREM WalkSeesAllCorrect == ChainSpec => []WalkSeesAll
<1>1. ChainInit => WalkInv
  BY WalkInit
<1>2. WalkInv /\ [ChainNext]_chainVars => WalkInv'
  BY WalkStep
<1>3. WalkInv => WalkSeesAll
  <2> SUFFICES ASSUME WalkInv, NEW w \in Walks, walker[w].at = (IF walker[w].writes THEN HeadEntry ELSE TailEntry),
                      NEW z \in owed[w]
               PROVE  z \in seen[w]
    BY DEF WalkSeesAll
  <2>1. z \in Known /\ HeadEntry # NoEntry /\ TailEntry # NoEntry /\ walker[w].writes \in BOOLEAN
    BY FirmKnown, ChainAssumption DEF WalkInv, WalkTypeOK
  <2>2. CASE walker[w].writes
    <3>1. PICK back \in Ranks : BackwardInv(back)
      BY DEF WalkInv
    <3>2. back[z] <= back[walker[w].at]
      BY <2>1, <2>2, <3>1 DEF BackwardInv, Ordered
    <3> QED
      BY <2>1, <2>2, <3>1, <3>2 DEF BackwardInv, Passed
  <2>3. CASE ~walker[w].writes
    <3>1. PICK rank \in Ranks : ForwardInv(rank)
      BY DEF WalkInv
    <3>2. rank[z] <= rank[walker[w].at]
      BY <2>1, <2>3, <3>1 DEF ForwardInv, Ordered
    <3> QED
      BY <2>1, <2>3, <3>1, <3>2 DEF ForwardInv, Passed
  <2> QED
    BY <2>2, <2>3
<1> QED
  BY <1>1, <1>2, <1>3, PTL DEF ChainSpec

-----------------------------------------------------------------------------
(* The list a chain is, read along its links from either end: what Along() *)
(* computes step by step is shown by the least step at which it would      *)
(* differ.                                                                 *)

LEMMA LessWellFounded == IsWellFoundedOn({p \in Nat \X Nat : p[1] < p[2]}, Nat)
  BY NatLessThanWellFounded DEF OpToRel

\* A set of naturals that is not empty has a least element: induction over a
\* length or a count is an argument about the least counterexample.
LEMMA LeastNat ==
  ASSUME NEW T, T \subseteq Nat, T # {}
  PROVE  \E n \in T : \A k \in T : n <= k
<1> DEFINE R == {p \in Nat \X Nat : p[1] < p[2]}
<1>1. IsWellFoundedOn(R, Nat)
  BY LessWellFounded
<1> HIDE DEF R
<1>2. PICK n \in T : \A k \in T : <<k, n>> \notin R
  BY <1>1, WFMin
<1>3. ASSUME NEW k \in T PROVE n <= k
  <2>1. n \in Nat /\ k \in Nat /\ <<k, n>> \in Nat \X Nat
    OBVIOUS
  <2>2. ~(k < n)
    BY <1>2, <2>1 DEF R
  <2> QED
    BY <2>1, <2>2
<1> QED
  BY <1>3

\* A list that the links give and that ends where they lead out of the chain
\* is what Along() reads.
LEMMA AlongIs ==
  ASSUME NEW links, NEW s \in Seq(Nodes), Len(s) >= 1, Len(s) <= Cardinality(ChainEntries) + 2,
         Cardinality(ChainEntries) \in Nat,
         \A i \in 1..(Len(s) - 1) : links[s[i]] = s[i + 1], links[s[Len(s)]] \notin Nodes
  PROVE  Along(links, s[1]) = s
<1> DEFINE K == Cardinality(ChainEntries) + 1
           walk == CHOOSE f : f = [i \in 0..K |->
                     IF i = 0 THEN <<s[1]>>
                     ELSE IF links[Last(f[i - 1])] \in Nodes THEN Append(f[i - 1], links[Last(f[i - 1])]) ELSE f[i - 1]]
           upTo(i) == IF i + 1 <= Len(s) THEN SubSeq(s, 1, i + 1) ELSE s
<1>1. Along(links, s[1]) = walk[K]
  BY DEF Along
<1>k. K \in Nat /\ Len(s) \in Nat /\ Len(s) <= K + 1
  OBVIOUS
<1> HIDE DEF K
<1>2. ASSUME NEW i \in 0..K, i + 1 <= Len(s)
      PROVE  upTo(i) \in Seq(Nodes) /\ Len(upTo(i)) = i + 1 /\ \A j \in 1..(i + 1) : upTo(i)[j] = s[j]
  BY <1>2, <1>k
<1>2a. ASSUME NEW i \in 0..K, i + 1 > Len(s) PROVE upTo(i) = s
  BY <1>2a, <1>k
<1>2b. upTo(0) = <<s[1]>> /\ upTo(K) = s
  <2>1. upTo(0) = <<s[1]>>
    <3>1. upTo(0) \in Seq(Nodes) /\ Len(upTo(0)) = 1 /\ upTo(0)[1] = s[1]
      BY <1>2, <1>k
    <3> HIDE DEF upTo
    <3> QED
      BY <3>1, SeqEqual
  <2>2. upTo(K) = s
    BY <1>k
  <2> QED
    BY <2>1, <2>2
<1> HIDE DEF upTo
<1>3. \A i \in 1..K : upTo(i) = IF links[Last(upTo(i - 1))] \in Nodes
                                THEN Append(upTo(i - 1), links[Last(upTo(i - 1))]) ELSE upTo(i - 1)
  <2> SUFFICES ASSUME NEW i \in 1..K
               PROVE  upTo(i) = IF links[Last(upTo(i - 1))] \in Nodes
                                THEN Append(upTo(i - 1), links[Last(upTo(i - 1))]) ELSE upTo(i - 1)
    OBVIOUS
  <2>0. i - 1 \in 0..K /\ i \in 0..K /\ (i - 1) + 1 = i
    BY <1>k
  <2>1. CASE i + 1 <= Len(s)
    <3>0. upTo(i - 1) \in Seq(Nodes) /\ Len(upTo(i - 1)) = i /\ \A j \in 1..i : upTo(i - 1)[j] = s[j]
      BY <1>2, <1>k, <2>0, <2>1
    <3>1. Last(upTo(i - 1)) = s[i] /\ links[s[i]] = s[i + 1] /\ s[i + 1] \in Nodes
      BY <1>k, <2>1, <3>0 DEF Last
    <3>2. upTo(i) \in Seq(Nodes) /\ Len(upTo(i)) = i + 1 /\ \A j \in 1..(i + 1) : upTo(i)[j] = s[j]
      BY <1>2, <2>0, <2>1
    <3>3. upTo(i) = Append(upTo(i - 1), s[i + 1])
      <4> DEFINE t == Append(upTo(i - 1), s[i + 1])
      <4>1. t \in Seq(Nodes) /\ Len(t) = i + 1 /\ \A j \in 1..(i + 1) : t[j] = s[j]
        BY <1>k, <3>0, <3>1
      <4> HIDE DEF t
      <4>2. upTo(i) = t
        BY <3>2, <4>1, SeqEqual
      <4> QED
        BY <4>2 DEF t
    <3> QED
      BY <3>1, <3>3
  <2>2. CASE i + 1 > Len(s)
    <3>1. upTo(i) = s
      BY <1>2a, <2>0, <2>2
    <3>2. upTo(i - 1) = s
      <4>1. CASE i > Len(s)
        BY <1>2a, <2>0, <4>1
      <4>2. CASE i = Len(s)
        <5>1. upTo(i - 1) \in Seq(Nodes) /\ Len(upTo(i - 1)) = i /\ \A j \in 1..i : upTo(i - 1)[j] = s[j]
          BY <1>2, <1>k, <2>0, <4>2
        <5> QED
          BY <4>2, <5>1
      <4> QED
        BY <1>k, <2>2, <4>1, <4>2
    <3> QED
      BY <3>1, <3>2 DEF Last
  <2> QED
    BY <1>k, <2>1, <2>2
<1>5. \E f : f = [i \in 0..K |->
                  IF i = 0 THEN <<s[1]>>
                  ELSE IF links[Last(f[i - 1])] \in Nodes THEN Append(f[i - 1], links[Last(f[i - 1])]) ELSE f[i - 1]]
  <2> DEFINE g == [i \in 0..K |-> upTo(i)]
  <2>1. \A i \in 0..K : i # 0 => i \in 1..K /\ i - 1 \in 0..K
    BY <1>k
  <2>2. \A i \in 0..K : upTo(i) = IF i = 0 THEN <<s[1]>>
                  ELSE IF links[Last(g[i - 1])] \in Nodes THEN Append(g[i - 1], links[Last(g[i - 1])]) ELSE g[i - 1]
    BY <1>3, <1>2b, <2>1
  <2>3. g = [i \in 0..K |->
                  IF i = 0 THEN <<s[1]>>
                  ELSE IF links[Last(g[i - 1])] \in Nodes THEN Append(g[i - 1], links[Last(g[i - 1])]) ELSE g[i - 1]]
    BY <2>2
  <2> QED
    BY <2>3
<1>6. walk = [i \in 0..K |->
                  IF i = 0 THEN <<s[1]>>
                  ELSE IF links[Last(walk[i - 1])] \in Nodes THEN Append(walk[i - 1], links[Last(walk[i - 1])]) ELSE walk[i - 1]]
  BY <1>5
<1> HIDE DEF walk
<1>7. \A i \in 0..K : walk[i] = upTo(i)
  <2> DEFINE T == {i \in 0..K : walk[i] # upTo(i)}
  <2>1. SUFFICES ASSUME T # {} PROVE FALSE
    OBVIOUS
  <2>2. PICK n \in T : \A k \in T : n <= k
    <3>1. T \subseteq Nat
      OBVIOUS
    <3> HIDE DEF T
    <3> QED
      BY <2>1, <3>1, LeastNat
  <2>3. n \in 0..K /\ walk[n] # upTo(n)
    OBVIOUS
  <2>4. n # 0
    BY <1>2b, <1>6, <1>k, <2>3
  <2>5. n \in 1..K /\ n - 1 \in 0..K /\ n - 1 \notin T
    BY <1>k, <2>2, <2>3, <2>4
  <2>6. walk[n - 1] = upTo(n - 1)
    BY <2>5
  <2>7. walk[n] = IF links[Last(walk[n - 1])] \in Nodes THEN Append(walk[n - 1], links[Last(walk[n - 1])]) ELSE walk[n - 1]
    BY <1>6, <2>4, <2>3
  <2> QED
    BY <1>3, <2>3, <2>5, <2>6, <2>7
<1> QED
  BY <1>1, <1>2b, <1>7, <1>k

\* The nodes of K one after the other, as the links of a chain give them.
IsList(s, K, links) ==
  /\ s \in Seq(Nodes) /\ Len(s) >= 2 /\ s[1] = HeadEntry /\ s[Len(s)] = TailEntry
  /\ \A i, j \in 1..Len(s) : s[i] = s[j] => i = j
  /\ \A i \in 1..Len(s) : s[i] \in K
  /\ \A x \in K : \E i \in 1..Len(s) : s[i] = x
  /\ \A i \in 1..(Len(s) - 1) : links[s[i]] = s[i + 1]

Inserted(s, k, e) == [i \in 1..(Len(s) + 1) |-> IF i <= k THEN s[i] ELSE IF i = k + 1 THEN e ELSE s[i - 1]]
Without(s, k) == [i \in 1..(Len(s) - 1) |-> IF i < k THEN s[i] ELSE s[i + 1]]

LEMMA InsertedIn ==
  ASSUME NEW s \in Seq(Nodes), NEW e \in Nodes, NEW k \in 1..(Len(s) - 1)
  PROVE  LET t == Inserted(s, k, e)
         IN  /\ t \in Seq(Nodes) /\ Len(t) = Len(s) + 1 /\ t[k + 1] = e
             /\ \A i \in 1..k : t[i] = s[i]
             /\ \A i \in (k + 1)..Len(s) : t[i + 1] = s[i]
<1> DEFINE t == Inserted(s, k, e)
<1>1. Len(s) \in Nat /\ k \in Nat /\ k < Len(s)
  OBVIOUS
<1>2. \A i \in 1..(Len(s) + 1) : t[i] = IF i <= k THEN s[i] ELSE IF i = k + 1 THEN e ELSE s[i - 1]
  BY DEF Inserted
<1>3. t \in [1..(Len(s) + 1) -> Nodes]
  <2>1. \A i \in 1..(Len(s) + 1) : (IF i <= k THEN s[i] ELSE IF i = k + 1 THEN e ELSE s[i - 1]) \in Nodes
    <3> TAKE i \in 1..(Len(s) + 1)
    <3>1. i <= k => i \in 1..Len(s)
      BY <1>1
    <3>2. ~(i <= k) /\ i # k + 1 => i - 1 \in 1..Len(s)
      BY <1>1
    <3>3. \A j \in 1..Len(s) : s[j] \in Nodes
      OBVIOUS
    <3> QED
      BY <3>1, <3>2, <3>3
  <2> QED
    BY <2>1 DEF Inserted
<1>4. t \in Seq(Nodes) /\ Len(t) = Len(s) + 1
  BY <1>1, <1>3
<1> HIDE DEF t
<1>5. t[k + 1] = e
  BY <1>1, <1>2
<1>6. \A i \in 1..k : t[i] = s[i]
  BY <1>1, <1>2
<1>7. ASSUME NEW i \in (k + 1)..Len(s) PROVE t[i + 1] = s[i]
  <2>1. i + 1 \in 1..(Len(s) + 1) /\ ~(i + 1 <= k) /\ i + 1 # k + 1 /\ (i + 1) - 1 = i
    BY <1>1
  <2> QED
    BY <1>2, <2>1
<1> QED
  BY <1>4, <1>5, <1>6, <1>7 DEF t

LEMMA InsertedPlaces ==
  ASSUME NEW n \in Nat, NEW k \in 1..(n - 1), NEW i \in 1..(n + 1)
  PROVE  i \in 1..k \/ i = k + 1 \/ \E j \in (k + 1)..n : i = j + 1
<1>1. CASE i > k + 1
  <2>1. i - 1 \in (k + 1)..n /\ i = (i - 1) + 1
    BY <1>1
  <2> QED
    BY <2>1
<1> QED
  BY <1>1

LEMMA InsertedList ==
  ASSUME NEW K, NEW links \in Links, NEW s, IsList(s, K, links), K \subseteq Nodes,
         NEW e \in Nodes \ K, NEW k \in 1..(Len(s) - 1), links[e] = links[s[k]]
  PROVE  IsList(Inserted(s, k, e), K \cup {e}, [links EXCEPT ![s[k]] = e])
<1> DEFINE t == Inserted(s, k, e)
           next == [links EXCEPT ![s[k]] = e]
<1>1. /\ s \in Seq(Nodes) /\ Len(s) >= 2 /\ s[1] = HeadEntry /\ s[Len(s)] = TailEntry
      /\ \A i, j \in 1..Len(s) : s[i] = s[j] => i = j
      /\ \A i \in 1..Len(s) : s[i] \in K
      /\ \A x \in K : \E i \in 1..Len(s) : s[i] = x
      /\ \A i \in 1..(Len(s) - 1) : links[s[i]] = s[i + 1]
  BY DEF IsList
<1>2. Len(s) \in Nat /\ k \in Nat /\ k < Len(s) /\ k >= 1
  BY <1>1
<1>3. /\ t \in Seq(Nodes) /\ Len(t) = Len(s) + 1 /\ t[k + 1] = e
      /\ \A i \in 1..k : t[i] = s[i]
      /\ \A i \in (k + 1)..Len(s) : t[i + 1] = s[i]
  <2>1. s \in Seq(Nodes) /\ e \in Nodes
    BY <1>1
  <2> QED
    BY SMTT(30), <2>1, InsertedIn
<1> HIDE DEF t
<1>4. \A i \in 1..Len(t) : i \in 1..k \/ i = k + 1 \/ \E j \in (k + 1)..Len(s) : i = j + 1
  BY <1>2, <1>3, InsertedPlaces
<1>5. 1..k \subseteq 1..Len(s) /\ (k + 1)..Len(s) \subseteq 1..Len(s)
  BY <1>2
<1>6. t[1] = HeadEntry /\ t[Len(t)] = TailEntry /\ Len(t) >= 2
  <2>1. 1 \in 1..k /\ Len(s) \in (k + 1)..Len(s)
    BY <1>2
  <2> QED
    BY <1>1, <1>2, <1>3, <2>1
<1>7. ASSUME NEW i \in 1..Len(t) PROVE t[i] \in K \cup {e}
  <2>1. CASE i \in 1..k
    BY <1>1, <1>3, <1>5, <2>1
  <2>2. CASE i = k + 1
    BY <1>3, <2>2
  <2>3. ASSUME NEW j \in (k + 1)..Len(s), i = j + 1 PROVE t[i] \in K \cup {e}
    <3>1. t[i] = s[j] /\ j \in 1..Len(s)
      BY <1>3, <1>5, <2>3
    <3> QED
      BY <1>1, <3>1
  <2> QED
    BY <1>4, <2>1, <2>2, <2>3
<1>8. ASSUME NEW x \in K \cup {e} PROVE \E i \in 1..Len(t) : t[i] = x
  <2>1. CASE x = e
    <3>1. k + 1 \in 1..Len(t)
      BY <1>2, <1>3
    <3> QED
      BY <1>3, <2>1, <3>1
  <2>2. CASE x \in K
    <3>1. PICK i \in 1..Len(s) : s[i] = x
      BY <1>1, <2>2
    <3>2. CASE i <= k
      <4>1. i \in 1..k /\ i \in 1..Len(t)
        BY <1>2, <1>3, <3>2
      <4> QED
        BY <1>3, <3>1, <4>1
    <3>3. CASE i > k
      <4>1. i \in (k + 1)..Len(s) /\ i + 1 \in 1..Len(t)
        BY <1>2, <1>3, <3>3
      <4> QED
        BY <1>3, <3>1, <4>1
    <3> QED
      BY <1>2, <3>2, <3>3
  <2> QED
    BY <2>1, <2>2
<1>9. ASSUME NEW i \in 1..Len(t), NEW j \in 1..Len(t), t[i] = t[j] PROVE i = j
  <2>1. ASSUME NEW m \in 1..k, NEW n \in (k + 1)..Len(s) PROVE s[m] # s[n]
    <3>1. m # n
      BY <1>2
    <3> QED
      BY <1>1, <1>5, <3>1
  <2>2. \A m \in 1..Len(s) : s[m] # e
    BY <1>1
  <2>3. CASE i \in 1..k
    <3>1. t[i] = s[i] /\ i \in 1..Len(s)
      BY <1>3, <1>5, <2>3
    <3>2. CASE j \in 1..k
      <4>1. t[j] = s[j] /\ j \in 1..Len(s)
        BY <1>3, <1>5, <3>2
      <4>2. s[i] = s[j]
        BY <1>9, <3>1, <4>1
      <4> QED
        BY <1>1, <3>1, <4>1, <4>2
    <3>3. CASE j = k + 1
      BY <1>3, <1>9, <2>2, <3>1, <3>3
    <3>4. ASSUME NEW n \in (k + 1)..Len(s), j = n + 1 PROVE FALSE
      <4>1. t[j] = s[n]
        BY <1>3, <3>4
      <4> QED
        BY <1>9, <2>1, <2>3, <3>1, <4>1
    <3> QED
      BY <1>4, <3>2, <3>3, <3>4
  <2>4. CASE i = k + 1
    <3>2. CASE j \in 1..k
      BY <1>3, <1>5, <1>9, <2>2, <2>4, <3>2
    <3>4. ASSUME NEW n \in (k + 1)..Len(s), j = n + 1 PROVE FALSE
      BY <1>3, <1>5, <1>9, <2>2, <2>4, <3>4
    <3> QED
      BY <1>4, <2>4, <3>2, <3>4
  <2>5. ASSUME NEW m \in (k + 1)..Len(s), i = m + 1 PROVE i = j
    <3>1. t[i] = s[m] /\ m \in 1..Len(s)
      BY <1>3, <1>5, <2>5
    <3>2. CASE j \in 1..k
      BY <1>3, <1>9, <2>1, <3>1, <3>2
    <3>3. CASE j = k + 1
      BY <1>3, <1>9, <2>2, <3>1, <3>3
    <3>4. ASSUME NEW n \in (k + 1)..Len(s), j = n + 1 PROVE i = j
      <4>1. s[m] = s[n] /\ n \in 1..Len(s)
        BY <1>3, <1>5, <1>9, <3>1, <3>4
      <4>2. m = n
        BY <1>1, <3>1, <4>1
      <4> QED
        BY <2>5, <3>4, <4>2
    <3> QED
      BY <1>4, <3>2, <3>3, <3>4
  <2> QED
    BY <1>4, <2>3, <2>4, <2>5
<1>10. \A x \in Nodes : next[x] = IF x = s[k] THEN e ELSE links[x]
  BY DEF Links
<1> HIDE DEF next
<1>11. ASSUME NEW i \in 1..(Len(t) - 1) PROVE next[t[i]] = t[i + 1]
  <2>0. i \in 1..Len(t) /\ s[k] \in Nodes /\ e # s[k] /\ k \in 1..Len(s) /\ k + 1 \in (k + 1)..Len(s)
    BY <1>1, <1>2, <1>3
  <2>1. CASE i \in 1..k /\ i # k
    <3>1. t[i] = s[i] /\ i + 1 \in 1..k /\ t[i + 1] = s[i + 1] /\ i \in 1..Len(s) /\ i \in 1..(Len(s) - 1)
      BY <1>2, <1>3, <1>5, <2>1
    <3>2. s[i] # s[k] /\ s[i] \in Nodes
      BY <1>1, <2>0, <2>1, <3>1
    <3> QED
      BY <1>1, <1>10, <3>1, <3>2
  <2>2. CASE i = k
    <3>1. t[i] = s[k] /\ t[i + 1] = e
      BY <1>2, <1>3, <2>2
    <3> QED
      BY <1>10, <2>0, <3>1
  <2>3. CASE i = k + 1
    <3>1. t[i] = e /\ t[i + 1] = s[k + 1] /\ links[s[k]] = s[k + 1]
      BY <1>1, <1>2, <1>3, <2>0, <2>3
    <3> QED
      BY <1>10, <2>0, <3>1
  <2>4. ASSUME NEW n \in (k + 1)..Len(s), i = n + 1 PROVE next[t[i]] = t[i + 1]
    <3>1. n + 1 \in (k + 1)..Len(s) /\ n \in 1..Len(s) /\ n \in 1..(Len(s) - 1) /\ n # k
      BY <1>2, <1>3, <2>4
    <3>2. t[i] = s[n] /\ t[i + 1] = s[n + 1]
      BY <1>3, <2>4, <3>1
    <3>3. s[n] # s[k] /\ s[n] \in Nodes
      BY <1>1, <2>0, <3>1
    <3>4. next[s[n]] = links[s[n]]
      BY <1>10, <3>3
    <3>5. links[s[n]] = s[n + 1]
      BY <1>1, <3>1
    <3> QED
      BY <3>2, <3>4, <3>5
  <2> QED
    BY <1>4, <2>0, <2>1, <2>2, <2>3, <2>4
<1>12. IsList(t, K \cup {e}, next)
  BY <1>3, <1>6, <1>7, <1>8, <1>9, <1>11 DEF IsList
<1> QED
  BY <1>12 DEF t, next

LEMMA WithoutIn ==
  ASSUME NEW s \in Seq(Nodes), NEW k \in 2..(Len(s) - 1)
  PROVE  LET t == Without(s, k)
         IN  /\ t \in Seq(Nodes) /\ Len(t) = Len(s) - 1
             /\ \A i \in 1..(k - 1) : t[i] = s[i]
             /\ \A i \in k..(Len(s) - 1) : t[i] = s[i + 1]
<1> DEFINE t == Without(s, k)
<1>1. Len(s) \in Nat /\ k \in Nat /\ k < Len(s) /\ k >= 2
  OBVIOUS
<1>2. \A i \in 1..(Len(s) - 1) : t[i] = IF i < k THEN s[i] ELSE s[i + 1]
  BY DEF Without
<1>3. t \in [1..(Len(s) - 1) -> Nodes]
  <2>1. \A i \in 1..(Len(s) - 1) : (IF i < k THEN s[i] ELSE s[i + 1]) \in Nodes
    <3> TAKE i \in 1..(Len(s) - 1)
    <3>1. i \in 1..Len(s) /\ i + 1 \in 1..Len(s)
      BY <1>1
    <3>2. \A j \in 1..Len(s) : s[j] \in Nodes
      OBVIOUS
    <3> QED
      BY <3>1, <3>2
  <2> QED
    BY <2>1 DEF Without
<1>4. t \in Seq(Nodes) /\ Len(t) = Len(s) - 1
  BY <1>1, <1>3
<1> HIDE DEF t
<1>5. \A i \in 1..(k - 1) : t[i] = s[i]
  BY <1>1, <1>2
<1>6. \A i \in k..(Len(s) - 1) : t[i] = s[i + 1]
  BY <1>1, <1>2
<1> QED
  BY <1>4, <1>5, <1>6 DEF t

LEMMA WithoutList ==
  ASSUME NEW K, NEW links \in Links, NEW s, IsList(s, K, links), K \subseteq Nodes, NEW k \in 2..(Len(s) - 1)
  PROVE  IsList(Without(s, k), K \ {s[k]}, [links EXCEPT ![s[k - 1]] = links[s[k]]])
<1> DEFINE t == Without(s, k)
           next == [links EXCEPT ![s[k - 1]] = links[s[k]]]
<1>1. /\ s \in Seq(Nodes) /\ Len(s) >= 2 /\ s[1] = HeadEntry /\ s[Len(s)] = TailEntry
      /\ \A i, j \in 1..Len(s) : s[i] = s[j] => i = j
      /\ \A i \in 1..Len(s) : s[i] \in K
      /\ \A x \in K : \E i \in 1..Len(s) : s[i] = x
      /\ \A i \in 1..(Len(s) - 1) : links[s[i]] = s[i + 1]
  BY DEF IsList
<1>2. Len(s) \in Nat /\ k \in Nat /\ k < Len(s) /\ k >= 2
  BY <1>1
<1>3. /\ t \in Seq(Nodes) /\ Len(t) = Len(s) - 1
      /\ \A i \in 1..(k - 1) : t[i] = s[i]
      /\ \A i \in k..(Len(s) - 1) : t[i] = s[i + 1]
  BY <1>1, WithoutIn
<1> HIDE DEF t
<1>4. \A i \in 1..Len(t) : i \in 1..(k - 1) \/ i \in k..(Len(s) - 1)
  BY <1>2, <1>3
<1>5. /\ 1..(k - 1) \subseteq 1..Len(s) /\ \A i \in k..(Len(s) - 1) : i + 1 \in 1..Len(s) /\ i + 1 # k
      /\ \A i \in 1..(k - 1) : i # k
  BY <1>2
<1>6. t[1] = HeadEntry /\ t[Len(t)] = TailEntry /\ Len(t) >= 2
  <2>1. 1 \in 1..(k - 1) /\ Len(s) - 1 \in k..(Len(s) - 1) /\ (Len(s) - 1) + 1 = Len(s)
    BY <1>2
  <2> QED
    BY <1>1, <1>2, <1>3, <2>1
<1>7. \A i \in 1..Len(t) : \E j \in 1..Len(s) \ {k} : t[i] = s[j] /\ j = IF i < k THEN i ELSE i + 1
  <2> TAKE i \in 1..Len(t)
  <2>1. CASE i \in 1..(k - 1)
    <3>1. t[i] = s[i] /\ i \in 1..Len(s) \ {k} /\ i < k
      BY <1>2, <1>3, <1>5, <2>1
    <3> QED
      BY <3>1
  <2>2. CASE i \in k..(Len(s) - 1)
    <3>1. t[i] = s[i + 1] /\ i + 1 \in 1..Len(s) \ {k} /\ ~(i < k)
      BY <1>2, <1>3, <1>5, <2>2
    <3> QED
      BY <3>1
  <2> QED
    BY <1>4, <2>1, <2>2
<1>8. \A i \in 1..Len(t) : t[i] \in K \ {s[k]}
  <2> TAKE i \in 1..Len(t)
  <2>1. PICK j \in 1..Len(s) \ {k} : t[i] = s[j]
    BY <1>7
  <2>2. k \in 1..Len(s) /\ j \in 1..Len(s) /\ j # k
    BY <1>2
  <2> QED
    BY <1>1, <2>1, <2>2
<1>9. ASSUME NEW x \in K \ {s[k]} PROVE \E i \in 1..Len(t) : t[i] = x
  <2>1. PICK i \in 1..Len(s) : s[i] = x
    BY <1>1
  <2>2. i # k
    BY <2>1
  <2>3. CASE i < k
    <3>1. i \in 1..(k - 1) /\ i \in 1..Len(t)
      BY <1>2, <1>3, <2>3
    <3> QED
      BY <1>3, <2>1, <3>1
  <2>4. CASE i > k
    <3>1. i - 1 \in k..(Len(s) - 1) /\ i - 1 \in 1..Len(t) /\ (i - 1) + 1 = i
      BY <1>2, <1>3, <2>4
    <3> QED
      BY <1>3, <2>1, <3>1
  <2> QED
    BY <1>2, <2>2, <2>3, <2>4
<1>10. ASSUME NEW i \in 1..Len(t), NEW j \in 1..Len(t), t[i] = t[j] PROVE i = j
  <2>1. PICK m \in 1..Len(s) \ {k} : t[i] = s[m] /\ m = IF i < k THEN i ELSE i + 1
    BY <1>7
  <2>2. PICK n \in 1..Len(s) \ {k} : t[j] = s[n] /\ n = IF j < k THEN j ELSE j + 1
    BY <1>7
  <2>3. s[m] = s[n] /\ m \in 1..Len(s) /\ n \in 1..Len(s)
    BY <1>10, <2>1, <2>2
  <2>4. m = n
    BY <1>1, <2>3
  <2>5. i \in Nat /\ j \in Nat
    BY <1>2, <1>3
  <2> QED
    BY <1>2, <2>1, <2>2, <2>4, <2>5
<1>11. \A x \in Nodes : next[x] = IF x = s[k - 1] THEN s[k + 1] ELSE links[x]
  <2>1. links[s[k]] = s[k + 1]
    BY <1>1, <1>2
  <2> QED
    BY <2>1 DEF Links
<1> HIDE DEF next
<1>12. ASSUME NEW i \in 1..(Len(t) - 1) PROVE next[t[i]] = t[i + 1]
  <2>0. i \in 1..Len(t) /\ k - 1 \in 1..(k - 1) /\ k - 1 \in 1..Len(s) /\ k \in k..(Len(s) - 1)
    BY <1>2, <1>3
  <2>1. CASE i \in 1..(k - 1) /\ i # k - 1
    <3>1. t[i] = s[i] /\ i + 1 \in 1..(k - 1) /\ t[i + 1] = s[i + 1] /\ i \in 1..Len(s) /\ i \in 1..(Len(s) - 1)
      <4>1. i \in 1..(k - 1) /\ i + 1 \in 1..(k - 1) /\ i \in 1..Len(s) /\ i \in 1..(Len(s) - 1)
        BY <1>2, <2>1
      <4> QED
        BY <1>3, <4>1
    <3>2. s[i] # s[k - 1] /\ s[i] \in Nodes
      BY <1>1, <2>0, <2>1, <3>1
    <3>3. next[s[i]] = links[s[i]]
      BY <1>11, <3>2
    <3>4. links[s[i]] = s[i + 1]
      BY <1>1, <3>1
    <3> QED
      BY <3>1, <3>3, <3>4
  <2>2. CASE i = k - 1
    <3>1. t[i] = s[k - 1] /\ t[i + 1] = s[k + 1] /\ s[k - 1] \in Nodes
      BY <1>1, <1>2, <1>3, <2>0, <2>2
    <3> QED
      BY <1>11, <3>1
  <2>3. CASE i \in k..(Len(s) - 1)
    <3>1. i + 1 \in k..(Len(s) - 1) /\ t[i] = s[i + 1] /\ t[i + 1] = s[i + 2] /\ i + 1 \in 1..Len(s) /\ i + 1 \in 1..(Len(s) - 1)
      BY <1>2, <1>3, <2>3
    <3>2. s[i + 1] # s[k - 1] /\ s[i + 1] \in Nodes
      <4>1. i + 1 # k - 1
        BY <1>2, <2>3
      <4> QED
        BY <1>1, <2>0, <3>1, <4>1
    <3>3. next[s[i + 1]] = links[s[i + 1]]
      BY <1>11, <3>2
    <3>4. links[s[i + 1]] = s[i + 2]
      <4>1. (i + 1) + 1 = i + 2
        OBVIOUS
      <4> QED
        BY <1>1, <3>1, <4>1
    <3> QED
      BY <3>1, <3>3, <3>4
  <2> QED
    BY <1>4, <2>0, <2>1, <2>2, <2>3
<1>13. IsList(t, K \ {s[k]}, next)
  BY <1>3, <1>6, <1>8, <1>9, <1>10, <1>12 DEF IsList
<1> QED
  BY <1>13 DEF t, next

\* The names along a list, and the name of one entry more at its end.
NamesIn(s, names) == [i \in 1..(Len(s) - 2) |-> names[s[i + 1]]]

LEMMA NamesAppended ==
  ASSUME NEW s \in Seq(Nodes), Len(s) >= 2, NEW e \in Nodes, NEW names,
         \A i \in 1..(Len(s) - 2) : names[s[i + 1]] \in Names, names[e] \in Names
  PROVE  /\ NamesIn(s, names) \in Seq(Names)
         /\ NamesIn(Inserted(s, Len(s) - 1, e), names) = Append(NamesIn(s, names), names[e])
<1> DEFINE k == Len(s) - 1
           t == Inserted(s, k, e)
           a == NamesIn(s, names)
           b == NamesIn(t, names)
           c == Append(a, names[e])
<1>1. Len(s) \in Nat /\ k \in 1..(Len(s) - 1) /\ k \in Nat /\ k = Len(s) - 1
  OBVIOUS
<1>2. a \in Seq(Names) /\ Len(a) = k - 1 /\ \A i \in 1..(k - 1) : a[i] = names[s[i + 1]]
  <2>1. a \in [1..(k - 1) -> Names] /\ k - 1 = Len(s) - 2
    BY <1>1 DEF NamesIn
  <2> QED
    BY <1>1, <2>1 DEF NamesIn
<1> HIDE DEF k
<1>3. t \in Seq(Nodes) /\ Len(t) = Len(s) + 1 /\ t[k + 1] = e /\ \A i \in 1..k : t[i] = s[i]
  BY <1>1, InsertedIn
<1> HIDE DEF t, a
<1>4. \A i \in 1..k : names[t[i + 1]] = IF i = k THEN names[e] ELSE names[s[i + 1]]
  <2> TAKE i \in 1..k
  <2>1. i # k => i + 1 \in 1..k
    BY <1>1
  <2> QED
    BY <1>3, <2>1
<1>5. b \in Seq(Names) /\ Len(b) = k /\ \A i \in 1..k : b[i] = IF i = k THEN names[e] ELSE names[s[i + 1]]
  <2>1. Len(t) - 2 = k
    BY <1>1, <1>3
  <2>2. \A i \in 1..k : i # k => i \in 1..(Len(s) - 2)
    BY <1>1
  <2>3. b \in [1..k -> Names] /\ \A i \in 1..k : b[i] = names[t[i + 1]]
    BY <1>4, <2>1, <2>2 DEF NamesIn
  <2> QED
    BY <1>1, <1>4, <2>3
<1>6. c \in Seq(Names) /\ Len(c) = k /\ \A i \in 1..k : c[i] = IF i = k THEN names[e] ELSE names[s[i + 1]]
  <2>1. c \in Seq(Names) /\ Len(c) = k /\ c[k] = names[e] /\ \A i \in 1..(k - 1) : c[i] = a[i]
    BY <1>1, <1>2
  <2>2. \A i \in 1..k : i # k => i \in 1..(k - 1)
    BY <1>1
  <2> HIDE DEF c
  <2> QED
    BY <1>2, <2>1, <2>2
<1> HIDE DEF b, c
<1>7. \A i \in 1..k : b[i] = c[i]
  BY <1>5, <1>6
<1>8. b = c
  BY <1>5, <1>6, <1>7, SeqEqual
<1> QED
  BY <1>2, <1>8 DEF a, b, c, t, k

\* The links of the two ends, and what a change is part of.
EndsInv == nextEntry[TailEntry] = NoEntry /\ prevEntry[HeadEntry] = NoEntry
DuringInv ==
  /\ change.kind \in {"unbuilt", "none", "undo", "undone", "free"} => change.during = "none"
  /\ change.kind = "building" => change.during = "building"
  /\ change.kind \in {"clearing", "remove", "unlinked", "removed"} => change.during # "building"

\* What has been built, what is being added and what is left.
BuildInv(s) ==
  /\ change.kind = "unbuilt" => Len(s) = 2
  /\ change.during = "building" =>
       /\ change.kind \in {"building", "added"} => NamesIn(s, nameOf) \o toBuild = snapshot
       /\ change.kind \in {"add", "linked"} =>
            /\ NamesIn(s, nameOf) \o (<<nameOf[change.entry]>> \o toBuild) = snapshot
            /\ prevEntry[change.entry] = s[Len(s) - 1]

OrderInv == EndsInv /\ DuringInv /\ \E s \in Seq(Nodes) : IsList(s, Live, nextEntry) /\ BuildInv(s)

LEMMA KeptList ==
  ASSUME NEW s, NEW K, NEW links, NEW next, IsList(s, K, links), \A x \in K \ {TailEntry} : next[x] = links[x]
  PROVE  IsList(s, K, next)
<1>1. ASSUME NEW i \in 1..(Len(s) - 1) PROVE next[s[i]] = s[i + 1]
  <2>1. Len(s) \in Nat
    BY DEF IsList
  <2>2. i \in 1..Len(s) /\ Len(s) \in 1..Len(s) /\ i # Len(s)
    BY <2>1
  <2>3. s[i] \in K \ {TailEntry}
    BY <2>2 DEF IsList
  <2> QED
    BY <2>3 DEF IsList
<1> QED
  BY <1>1 DEF IsList

\* What lies between the ends of a list are entries with names.
LEMMA Between ==
  ASSUME LinksInv, NEW s, IsList(s, Live, nextEntry), NEW i \in 1..(Len(s) - 2)
  PROVE  s[i + 1] \in InChain /\ s[i + 1] \in 1..Len(nameOf) /\ nameOf[s[i + 1]] \in Names
<1>1. s \in Seq(Nodes) /\ Len(s) \in Nat
  BY DEF IsList
<1>2. i + 1 \in 1..Len(s) /\ 1 \in 1..Len(s) /\ Len(s) \in 1..Len(s) /\ i + 1 # 1 /\ i + 1 # Len(s)
  BY <1>1
<1>3. s[i + 1] \in Live /\ s[i + 1] # HeadEntry /\ s[i + 1] # TailEntry
  BY <1>2 DEF IsList
<1>4. s[i + 1] \in InChain /\ InChain \subseteq 1..Len(nameOf)
  BY <1>3, ChainSets DEF Live, LinksInv
<1>5. nameOf \in Seq(Names) /\ s[i + 1] \in 1..Len(nameOf)
  BY <1>4 DEF LinksInv, ChainTypeOK
<1>6. \A j \in 1..Len(nameOf) : nameOf[j] \in Names
  BY <1>5
<1> QED
  BY <1>4, <1>5, <1>6

LEMMA LiveNodes == ASSUME LinksInv PROVE Live \subseteq Known /\ Live \subseteq Nodes /\ nextEntry \in Links
<1>1. InChain \subseteq 1..Len(nameOf) /\ Known \subseteq Nodes
  BY ChainSets DEF LinksInv
<1>2. Live \subseteq Known
  BY <1>1 DEF Live, Known
<1> QED
  BY <1>1, <1>2 DEF LinksInv, ChainTypeOK, Links

\* The node before the tail is where the links of the tail lead.
LEMMA LastEntry ==
  ASSUME LinksInv, NEW s, IsList(s, Live, nextEntry), ~HalfLinked
  PROVE  prevEntry[TailEntry] = s[Len(s) - 1]
<1>1. Len(s) \in Nat /\ Len(s) >= 2
  BY DEF IsList
<1>2. Len(s) - 1 \in 1..(Len(s) - 1) /\ (Len(s) - 1) + 1 = Len(s) /\ Len(s) - 1 \in 1..Len(s) /\ Len(s) \in 1..Len(s)
      /\ Len(s) - 1 # Len(s)
  BY <1>1
<1>3. nextEntry[s[Len(s) - 1]] = TailEntry /\ s[Len(s) - 1] \in Live
  BY <1>2 DEF IsList
<1>4. s[Len(s) - 1] # TailEntry
  BY <1>2 DEF IsList
<1>5. Before(nextEntry[s[Len(s) - 1]]) = s[Len(s) - 1]
  BY <1>3, <1>4 DEF LinksInv, ListInv
<1> QED
  BY <1>3, <1>5 DEF Before

LEMMA AppendedThen ==
  ASSUME NEW a \in Seq(Names), NEW b \in Seq(Names), NEW n \in Names
  PROVE  Append(a, n) \o b = a \o (<<n>> \o b)
<1> DEFINE l == Append(a, n) \o b
           r == a \o (<<n>> \o b)
<1>1. l \in Seq(Names) /\ Len(l) = Len(a) + 1 + Len(b)
  OBVIOUS
<1>2. r \in Seq(Names) /\ Len(r) = Len(a) + 1 + Len(b)
  OBVIOUS
<1>3. \A i \in 1..(Len(a) + 1 + Len(b)) : l[i] = r[i]
  OBVIOUS
<1> HIDE DEF l, r
<1>4. l = r
  BY <1>1, <1>2, <1>3, SeqEqual
<1> QED
  BY <1>4 DEF l, r

LEMMA LinkForwardOrder == ASSUME LinksInv, OrderInv, LinkForward PROVE OrderInv'
<1> DEFINE e == change.entry
           p == prevEntry[e]
<1>1. PICK s \in Seq(Nodes) : IsList(s, Live, nextEntry) /\ BuildInv(s)
  BY DEF OrderInv
<1>2. /\ change.kind = "linked" /\ UNCHANGED <<buildVars, prevEntry, nameOf>>
      /\ nextEntry' = [nextEntry EXCEPT ![p] = e]
      /\ name2entry' = [m \in DOMAIN name2entry \cup {nameOf[e]} |-> IF m = nameOf[e] THEN e ELSE name2entry[m]]
      /\ change' = [change EXCEPT !.kind = "added"]
  BY DEF LinkForward
<1>3. change'.kind = "added" /\ change'.entry = e /\ change'.during = change.during
  BY <1>2 DEF LinksInv, ChainTypeOK
<1>4. /\ e = Len(nameOf) /\ e \in ChainEntries /\ nameOf[e] \notin DOMAIN name2entry
      /\ p \in Live \ {TailEntry} /\ nextEntry[e] = nextEntry[p]
  BY <1>2 DEF LinksInv, EntryInv
<1>5. InChain' = InChain \cup {e} /\ e \notin InChain
  <2>1. InChain' = InChain \cup {e}
    BY <1>2, <1>4 DEF InChain
  <2>2. e \notin InChain
    BY <1>4 DEF InChain, LinksInv, ChainTypeOK
  <2> QED
    BY <2>1, <2>2
<1>6. e \in Nodes /\ e \notin {HeadEntry, TailEntry} /\ e \in 1..Len(nameOf)
  <2>1. e \in Nat /\ HeadEntry \notin Nat /\ TailEntry \notin Nat /\ e \in 1..e
    BY <1>4, ChainAssumption DEF ChainEntries
  <2> QED
    BY <1>4, <2>1 DEF Nodes
<1>7. Live' = Live \cup {e} /\ e \notin Live
  BY <1>2, <1>3, <1>5, <1>6 DEF Live
<1>8. PICK k \in 1..Len(s) : s[k] = p
  BY <1>1, <1>4 DEF IsList
<1>9. k \in 1..(Len(s) - 1) /\ Len(s) \in Nat /\ Len(s) >= 2
  <2>1. k # Len(s)
    BY <1>1, <1>4, <1>8 DEF IsList
  <2> QED
    BY <1>1, <2>1 DEF IsList
<1>10. Live \subseteq Nodes /\ nextEntry \in Links
  BY LiveNodes
<1>11. PICK t : t = Inserted(s, k, e)
  OBVIOUS
<1>12. IsList(t, Live', nextEntry') /\ t \in Seq(Nodes)
  <2>1. IsList(t, Live', nextEntry')
    BY <1>1, <1>2, <1>4, <1>6, <1>7, <1>8, <1>9, <1>10, <1>11, InsertedList
  <2> QED
    BY <2>1 DEF IsList
<1>13. ASSUME change.during = "building" PROVE NamesIn(t, nameOf) \o toBuild = snapshot
  <2>1. NamesIn(s, nameOf) \o (<<nameOf[e]>> \o toBuild) = snapshot /\ p = s[Len(s) - 1]
    BY <1>1, <1>2, <1>13 DEF BuildInv
  <2>2. k = Len(s) - 1
    <3>1. Len(s) - 1 \in 1..Len(s)
      BY <1>9
    <3> QED
      BY <1>1, <1>8, <2>1, <3>1 DEF IsList
  <2>3. nameOf[e] \in Names
    BY <1>6 DEF LinksInv, ChainTypeOK
  <2>4. \A i \in 1..(Len(s) - 2) : nameOf[s[i + 1]] \in Names
    BY <1>1, Between
  <2>5. /\ NamesIn(s, nameOf) \in Seq(Names)
        /\ NamesIn(t, nameOf) = Append(NamesIn(s, nameOf), nameOf[e])
    BY <1>6, <1>9, <1>11, <2>2, <2>3, <2>4, NamesAppended
  <2>6. toBuild \in Seq(Names)
    BY DEF LinksInv, ChainTypeOK
  <2>7. Append(NamesIn(s, nameOf), nameOf[e]) \o toBuild = NamesIn(s, nameOf) \o (<<nameOf[e]>> \o toBuild)
    BY <2>3, <2>5, <2>6, AppendedThen
  <2> QED
    BY <2>1, <2>5, <2>7
<1>14. BuildInv(t)'
  <2>1. toBuild' = toBuild /\ snapshot' = snapshot /\ nameOf' = nameOf
    BY <1>2 DEF buildVars
  <2> QED
    BY <1>3, <1>13, <2>1 DEF BuildInv
<1>15. EndsInv' /\ DuringInv'
  BY <1>2, <1>3, <1>4 DEF OrderInv, EndsInv, DuringInv, LinksInv, ChainTypeOK
<1> QED
  BY <1>12, <1>14, <1>15 DEF OrderInv

LEMMA UnlinkForwardOrder == ASSUME LinksInv, OrderInv, UnlinkForward PROVE OrderInv'
<1> DEFINE e == change.entry
           p == prevEntry[e]
<1>1. PICK s \in Seq(Nodes) : IsList(s, Live, nextEntry) /\ BuildInv(s)
  BY DEF OrderInv
<1>2. /\ change.kind \in {"remove", "undo"} /\ UNCHANGED <<prevEntry, name2entry>>
      /\ nextEntry' = [nextEntry EXCEPT ![p] = nextEntry[e]]
      /\ change' = [change EXCEPT !.kind = IF @ = "undo" THEN "undone" ELSE "unlinked"]
  BY DEF UnlinkForward
<1>3. change'.entry = e /\ change'.during = change.during
      /\ change'.kind = IF change.kind = "undo" THEN "undone" ELSE "unlinked"
  BY <1>2 DEF LinksInv, ChainTypeOK
<1>4. e \in InChain /\ e \notin {HeadEntry, TailEntry}
  <2>1. e \in InChain /\ InChain \subseteq Nat /\ HeadEntry \notin Nat /\ TailEntry \notin Nat
    BY <1>2, ChainSets DEF LinksInv, EntryInv
  <2> QED
    BY <2>1
<1>5. Live = InChain \cup {HeadEntry, TailEntry} /\ Live' = Live \ {e} /\ ~HalfLinked
  BY <1>2, <1>3, <1>4 DEF Live, InChain, HalfLinked
<1>6. p \in Live \ {TailEntry} /\ nextEntry[p] = e
  <2>1. Before(e) = p /\ e \in Live \ {HeadEntry}
    BY <1>4, <1>5 DEF Before
  <2>2. Live \subseteq Known /\ e \in Known
    BY <2>1, LiveNodes
  <2>3. p \in Live /\ nextEntry[p] = e /\ p # TailEntry
    BY <2>1, <2>2, <1>5 DEF LinksInv, ListInv, Before
  <2> QED
    BY <2>3
<1>7. PICK j \in 1..Len(s) : s[j] = p
  BY <1>1, <1>6 DEF IsList
<1>8. Len(s) \in Nat /\ j \in 1..(Len(s) - 1) /\ j + 1 \in 1..Len(s)
  <2>1. j # Len(s)
    BY <1>1, <1>6, <1>7 DEF IsList
  <2> QED
    BY <1>1, <2>1 DEF IsList
<1>9. s[j + 1] = e
  BY <1>1, <1>6, <1>7, <1>8 DEF IsList
<1>10. PICK k \in 2..(Len(s) - 1) : k = j + 1 /\ s[k] = e /\ k - 1 = j
  <2>1. j + 1 # Len(s)
    BY <1>1, <1>4, <1>9 DEF IsList
  <2> QED
    BY <1>8, <1>9, <2>1
<1>11. PICK t : t = Without(s, k)
  OBVIOUS
<1>12. IsList(t, Live', nextEntry') /\ t \in Seq(Nodes)
  <2>1. Live \subseteq Nodes /\ nextEntry \in Links
    BY LiveNodes
  <2>2. IsList(t, Live', nextEntry')
    <3>1. IsList(t, Live \ {s[k]}, [nextEntry EXCEPT ![s[k - 1]] = nextEntry[s[k]]])
      BY <1>1, <1>11, <2>1, WithoutList
    <3>2. s[k] = e /\ s[k - 1] = p
      BY <1>7, <1>10
    <3> QED
      BY <1>2, <1>5, <3>1, <3>2
  <2> QED
    BY <2>2 DEF IsList
<1>13. EndsInv' /\ DuringInv'
  BY <1>2, <1>3, <1>6 DEF OrderInv, EndsInv, DuringInv, LinksInv, ChainTypeOK
<1>14. BuildInv(t)'
  BY <1>2, <1>3 DEF BuildInv, OrderInv, DuringInv
<1> QED
  BY <1>12, <1>13, <1>14 DEF OrderInv

LEMMA UnlinkBackOrder == ASSUME LinksInv, OrderInv, UnlinkBack PROVE OrderInv'
<1> DEFINE e == change.entry
           n == nextEntry[e]
<1>1. PICK s \in Seq(Nodes) : IsList(s, Live, nextEntry) /\ BuildInv(s)
  BY DEF OrderInv
<1>2. /\ change.kind \in {"unlinked", "undone"} /\ UNCHANGED nextEntry
      /\ prevEntry' = [prevEntry EXCEPT ![n] = prevEntry[e]]
      /\ name2entry' = [m \in DOMAIN name2entry \ {nameOf[e]} |-> name2entry[m]]
      /\ change' = [change EXCEPT !.kind = IF @ = "undone" THEN "free" ELSE "removed"]
  BY DEF UnlinkBack
<1>3. change'.entry = e /\ change'.during = change.during
      /\ change'.kind = IF change.kind = "undone" THEN "free" ELSE "removed"
  BY <1>2 DEF LinksInv, ChainTypeOK
<1>4. e \in InChain /\ n \in Known \ {HeadEntry}
  <2>1. e \in InChain
    BY <1>2 DEF LinksInv, EntryInv
  <2> QED
    BY <2>1, UnlinkBackLinks
<1>5. InChain' = InChain \ {e}
  <2>1. PICK m \in DOMAIN name2entry : name2entry[m] = e /\ nameOf[e] = m
    BY <1>4 DEF LinksInv, ChainTypeOK, InChain
  <2>2. \A k \in DOMAIN name2entry : name2entry[k] = e => k = m
    BY <2>1 DEF LinksInv, ChainTypeOK
  <2> QED
    BY <1>2, <2>1, <2>2 DEF InChain
<1>6. Live' = Live
  <2>1. e \notin {HeadEntry, TailEntry}
    <3>1. InChain \subseteq Nat /\ HeadEntry \notin Nat /\ TailEntry \notin Nat
      BY ChainSets DEF LinksInv
    <3> QED
      BY <1>4, <3>1
  <2> QED
    BY <1>2, <1>3, <1>5, <2>1 DEF Live
<1>7. IsList(s, Live', nextEntry')
  BY <1>1, <1>2, <1>6
<1>8. EndsInv' /\ DuringInv'
  BY <1>2, <1>3, <1>4 DEF OrderInv, EndsInv, DuringInv, LinksInv, ChainTypeOK
<1>9. BuildInv(s)'
  BY <1>2, <1>3 DEF BuildInv, OrderInv, DuringInv
<1> QED
  BY <1>7, <1>8, <1>9 DEF OrderInv

LEMMA LinkBackOrder == ASSUME LinksInv, OrderInv, LinkBack PROVE OrderInv'
<1> DEFINE e == change.entry
           n == nextEntry[e]
<1>1. PICK s \in Seq(Nodes) : IsList(s, Live, nextEntry) /\ BuildInv(s)
  BY DEF OrderInv
<1>2. /\ change.kind = "add" /\ UNCHANGED <<buildVars, nextEntry, nameOf, name2entry>>
      /\ change' = [change EXCEPT !.kind = "linked"]
      /\ prevEntry' = [prevEntry EXCEPT ![n] = e]
  BY DEF LinkBack, LinksInv, EntryInv
<1>3. change'.entry = e /\ change'.during = change.during /\ change'.kind = "linked"
  BY <1>2 DEF LinksInv, ChainTypeOK
<1>4. Live' = Live
  BY <1>2, <1>3 DEF Live, InChain
<1>5. n \in Live \ {HeadEntry} /\ e \notin Live
  <2>1. /\ e = Len(nameOf) /\ e \in ChainEntries /\ nameOf[e] \notin DOMAIN name2entry
        /\ prevEntry[e] \in Live \ {TailEntry} /\ n = nextEntry[prevEntry[e]]
    BY <1>2 DEF LinksInv, EntryInv
  <2>2. e \notin InChain
    BY <2>1 DEF LinksInv, ChainTypeOK, InChain
  <2>3. HeadEntry \notin Nat /\ TailEntry \notin Nat /\ e \in Nat
    BY <2>1, ChainAssumption DEF ChainEntries
  <2>4. n \in Live
    BY <2>1 DEF LinksInv, ListInv
  <2>5. n # HeadEntry
    BY <2>1, LiveNodes DEF LinksInv, ListInv
  <2> QED
    BY <2>2, <2>3, <2>4, <2>5 DEF Live
<1>6. prevEntry'[e] = prevEntry[e]
  BY <1>2, <1>5 DEF LinksInv, ChainTypeOK
<1>7. IsList(s, Live', nextEntry')
  BY <1>1, <1>2, <1>4
<1>8. EndsInv' /\ DuringInv'
  BY <1>2, <1>3, <1>5 DEF OrderInv, EndsInv, DuringInv, LinksInv, ChainTypeOK
<1>9. BuildInv(s)'
  <2>1. toBuild' = toBuild /\ snapshot' = snapshot /\ nameOf' = nameOf
    BY <1>2 DEF buildVars
  <2> QED
    BY <1>1, <1>2, <1>3, <1>6, <2>1 DEF BuildInv
<1> QED
  BY <1>7, <1>8, <1>9 DEF OrderInv

\* A new entry is in no list yet.
LEMMA NewEntryOrder ==
  ASSUME LinksInv, OrderInv, NEW name \in Names, NEW prev \in Live \ {TailEntry}, NewEntry(name, prev, "add"),
         change.kind \in {"none", "building"},
         change.kind = "building" =>
           prev = prevEntry[TailEntry] /\ toBuild # <<>> /\ name = Head(toBuild) /\ toBuild' = Tail(toBuild) /\ snapshot' = snapshot
  PROVE  OrderInv'
<1> DEFINE e == Len(nameOf) + 1
<1>1. PICK s \in Seq(Nodes) : IsList(s, Live, nextEntry) /\ BuildInv(s)
  BY DEF OrderInv
<1>2. /\ Len(nameOf) < MaxEntries
      /\ nameOf' = Append(nameOf, name) /\ change' = [change EXCEPT !.kind = "add", !.entry = e]
      /\ nextEntry' = [nextEntry EXCEPT ![e] = nextEntry[prev]] /\ prevEntry' = [prevEntry EXCEPT ![e] = prev]
      /\ name2entry' = name2entry
  BY DEF NewEntry
<1>3. change'.entry = e /\ change'.during = change.during /\ change'.kind = "add"
  BY <1>2 DEF LinksInv, ChainTypeOK
<1>4. Live' = Live
  BY <1>2, <1>3 DEF Live, InChain
<1>5. e \in ChainEntries /\ e \in Nodes /\ e \notin Known /\ e \notin Live /\ e \notin {HeadEntry, TailEntry}
  <2>1. Len(nameOf) \in Nat /\ MaxEntries \in Nat /\ HeadEntry \notin Nat /\ TailEntry \notin Nat
    BY ChainSets, ChainAssumption DEF LinksInv
  <2>2. e \in ChainEntries /\ e \notin Known
    BY <1>2, <2>1 DEF ChainEntries, Known
  <2>3. HeadEntry \in Known /\ TailEntry \in Known /\ Live \subseteq Known
    BY LiveNodes DEF Known
  <2> QED
    BY <2>2, <2>3 DEF Nodes
<1>6. \A x \in Live : nextEntry'[x] = nextEntry[x]
  <2>1. Live \subseteq Nodes /\ nextEntry \in Links
    BY LiveNodes
  <2> QED
    BY <1>2, <1>5, <2>1 DEF Links
<1>7. prevEntry'[e] = prev
  BY <1>2, <1>5 DEF LinksInv, ChainTypeOK
<1>8. IsList(s, Live', nextEntry')
  BY <1>1, <1>4, <1>6, KeptList
<1>9. EndsInv' /\ DuringInv'
  <2>1. EndsInv'
    <3>1. HeadEntry \in Nodes /\ TailEntry \in Nodes
      BY DEF Nodes
    <3> QED
      BY <1>2, <1>5, <3>1 DEF OrderInv, EndsInv, LinksInv, ChainTypeOK
  <2>2. DuringInv'
    BY <1>3 DEF DuringInv
  <2> QED
    BY <2>1, <2>2
<1>10. nameOf' \in Seq(Names) /\ nameOf'[e] = name /\ \A i \in 1..Len(nameOf) : nameOf'[i] = nameOf[i]
  <2>1. nameOf \in Seq(Names)
    BY DEF LinksInv, ChainTypeOK
  <2> QED
    BY <1>2, <2>1
<1>11. NamesIn(s, nameOf') = NamesIn(s, nameOf)
  <2>1. \A i \in 1..(Len(s) - 2) : s[i + 1] \in 1..Len(nameOf)
    BY <1>1, Between
  <2>2. \A i \in 1..(Len(s) - 2) : nameOf'[s[i + 1]] = nameOf[s[i + 1]]
    BY <1>10, <2>1
  <2> QED
    BY <2>2 DEF NamesIn
<1>12. BuildInv(s)'
  <2>1. CASE change.kind = "none"
    BY <1>3, <2>1 DEF BuildInv, OrderInv, DuringInv
  <2>2. CASE change.kind = "building"
    <3>1. change.during = "building" /\ ~HalfLinked
      BY <2>2 DEF OrderInv, DuringInv, HalfLinked
    <3>2. NamesIn(s, nameOf) \o toBuild = snapshot
      BY <1>1, <2>2, <3>1 DEF BuildInv
    <3>3. toBuild \in Seq(Names) /\ toBuild # <<>>
      BY <2>2 DEF LinksInv, ChainTypeOK
    <3>4. toBuild = <<Head(toBuild)>> \o Tail(toBuild)
      <4> DEFINE r == <<Head(toBuild)>> \o Tail(toBuild)
      <4>1. Head(toBuild) \in Names /\ Tail(toBuild) \in Seq(Names) /\ Len(Tail(toBuild)) = Len(toBuild) - 1
        BY <3>3
      <4>2. r \in Seq(Names) /\ Len(r) = Len(toBuild) /\ \A i \in 1..Len(toBuild) : r[i] = toBuild[i]
        BY <3>3, <4>1
      <4> HIDE DEF r
      <4>3. r = toBuild
        BY <3>3, <4>2, SeqEqual
      <4> QED
        BY <4>3 DEF r
    <3>5. NamesIn(s, nameOf') \o (<<nameOf'[e]>> \o toBuild') = snapshot'
      BY <1>10, <1>11, <2>2, <3>2, <3>4
    <3>6. prevEntry'[e] = s[Len(s) - 1]
      BY <1>1, <1>7, <2>2, <3>1, LastEntry
    <3> QED
      BY <1>3, <3>5, <3>6 DEF BuildInv
  <2> QED
    BY <2>1, <2>2
<1> QED
  BY <1>8, <1>9, <1>12 DEF OrderInv

LEMMA OtherOrder == ASSUME LinksInv, OrderInv, OtherChange PROVE OrderInv'
<1>1. PICK s \in Seq(Nodes) : IsList(s, Live, nextEntry) /\ BuildInv(s)
  BY DEF OrderInv
<1>2. /\ UNCHANGED <<nextEntry, prevEntry, nameOf, name2entry>>
      /\ Steady \/ Settles \/ TakesOut
  BY OtherEffect DEF linkVars
<1>3. Live' = Live
  BY <1>2 DEF Live, InChain, Steady, Settles, TakesOut, Settled
<1>4. change \in [kind : ChangeKinds, entry : ChainEntries \cup {NoEntry}, during : {"none", "clearing", "building"}]
  BY DEF LinksInv, ChainTypeOK
<1>5. DuringInv /\ EndsInv
  BY DEF OrderInv
<1>6. EndsInv'
  BY <1>2, <1>5 DEF EndsInv
<1>7. ASSUME UNCHANGED <<snapshot, toBuild, change>> PROVE DuringInv' /\ BuildInv(s)'
  BY <1>1, <1>2, <1>5, <1>7 DEF DuringInv, BuildInv
<1>8. ASSUME NEW n \in Names, BuilderAdd(n) \/ BuilderRemove(n) \/ ReplaceThrows(n) PROVE DuringInv' /\ BuildInv(s)'
  BY <1>7, <1>8 DEF BuilderAdd, BuilderRemove, ReplaceThrows, buildVars
<1>9. ASSUME BuilderClear PROVE DuringInv' /\ BuildInv(s)'
  BY <1>7, <1>9 DEF BuilderClear
<1>10. ASSUME NEW n \in Names, BeginRemove(n) PROVE DuringInv' /\ BuildInv(s)'
  <2>1. change.kind \in {"none", "clearing"} /\ change'.kind = "remove" /\ change'.during = change.during
    BY <1>4, <1>10 DEF BeginRemove
  <2> QED
    BY <1>5, <2>1 DEF DuringInv, BuildInv
<1>11. ASSUME BeginBuild PROVE DuringInv' /\ BuildInv(s)'
  <2>1. change.kind = "unbuilt" /\ change' = [kind |-> "building", entry |-> NoEntry, during |-> "building"] /\ snapshot' = toBuild'
        /\ snapshot' = builder
    BY <1>11 DEF BeginBuild, NoChange
  <2>2. Len(s) = 2
    BY <1>1, <2>1 DEF BuildInv
  <2>3. NamesIn(s, nameOf') = <<>>
    BY <2>2 DEF NamesIn
  <2>4. builder \in Seq(Names)
    BY DEF LinksInv, ChainTypeOK
  <2>5. <<>> \o builder = builder
    BY <2>4
  <2> QED
    BY <2>1, <2>3, <2>5 DEF DuringInv, BuildInv
<1>12. ASSUME EndBuild \/ EndClear \/ RemoveThrows PROVE DuringInv' /\ BuildInv(s)'
  <2>1. change' = [kind |-> "none", entry |-> NoEntry, during |-> "none"]
    BY <1>12 DEF EndBuild, EndClear, RemoveThrows, NoChange
  <2> QED
    BY <2>1 DEF DuringInv, BuildInv
<1>13. ASSUME BeginClear PROVE DuringInv' /\ BuildInv(s)'
  <2>1. change' = [kind |-> "clearing", entry |-> NoEntry, during |-> "clearing"]
    BY <1>13 DEF BeginClear, NoChange
  <2> QED
    BY <2>1 DEF DuringInv, BuildInv
<1>14. ASSUME AddReturns PROVE DuringInv' /\ BuildInv(s)'
  <2>1. change.kind = "added" /\ change'.kind = change.during /\ change'.during = change.during /\ UNCHANGED <<snapshot, toBuild>>
    BY <1>4, <1>14 DEF AddReturns, buildVars
  <2>2. change.during \in {"none", "clearing", "building"}
    BY <1>4
  <2> QED
    BY <1>1, <1>2, <2>1, <2>2 DEF DuringInv, BuildInv
<1>15. ASSUME AddThrows PROVE DuringInv' /\ BuildInv(s)'
  <2>1. change'.kind = "undo" /\ change'.during = "none"
    BY <1>4, <1>15 DEF AddThrows
  <2> QED
    BY <2>1 DEF DuringInv, BuildInv
<1>16. ASSUME FreeEntry PROVE DuringInv' /\ BuildInv(s)'
  <2>1. change.kind \in {"removed", "free"} /\ change'.kind = change.during /\ change'.during = change.during
    BY <1>4, <1>16 DEF FreeEntry
  <2>2. change.during \in {"none", "clearing"}
    BY <1>4, <1>5, <2>1 DEF DuringInv
  <2> QED
    BY <2>1, <2>2 DEF DuringInv, BuildInv
<1>17. DuringInv' /\ BuildInv(s)'
  BY <1>8, <1>9, <1>10, <1>11, <1>12, <1>13, <1>14, <1>15, <1>16 DEF OtherChange
<1>18. IsList(s, Live', nextEntry')
  BY <1>1, <1>2, <1>3
<1> QED
  BY <1>6, <1>17, <1>18 DEF OrderInv

LEMMA KeptOrder == ASSUME OrderInv, UNCHANGED <<buildVars, linkVars, nameOf, name2entry, change>> PROVE OrderInv'
<1>1. PICK s \in Seq(Nodes) : IsList(s, Live, nextEntry) /\ BuildInv(s)
  BY DEF OrderInv
<1>2. UNCHANGED <<snapshot, toBuild, nextEntry, prevEntry, nameOf, name2entry, change>>
  BY DEF buildVars, linkVars
<1>3. Live' = Live
  BY <1>2 DEF Live, InChain
<1>4. IsList(s, Live', nextEntry') /\ BuildInv(s)'
  BY <1>1, <1>2, <1>3 DEF BuildInv
<1>5. EndsInv' /\ DuringInv'
  BY <1>2 DEF OrderInv, EndsInv, DuringInv
<1> QED
  BY <1>4, <1>5 DEF OrderInv

LEMMA AddOrder == ASSUME LinksInv, OrderInv, BuildNext \/ \E n \in Names : Add(n) PROVE OrderInv'
<1>1. change.kind \in {"none", "building"}
  BY DEF BuildNext, Add
<1>2. Live = InChain \cup {HeadEntry, TailEntry}
  BY <1>1 DEF Live
<1>3. \A x \in Live \ {HeadEntry} : prevEntry[x] \in Live \ {TailEntry}
  <2>1. \A x : Before(x) = prevEntry[x]
    BY <1>1 DEF Before, HalfLinked
  <2>2. Live \subseteq Known
    BY LiveNodes
  <2> QED
    BY <2>1, <2>2 DEF LinksInv, ListInv
<1>4. InChain \cap {HeadEntry, TailEntry} = {} /\ HeadEntry # TailEntry
  BY ChainSets DEF LinksInv
<1>5. /\ HeadEntry \in Live \ {TailEntry} /\ prevEntry[TailEntry] \in Live \ {TailEntry}
      /\ \A b \in DOMAIN name2entry : name2entry[b] \in Live \ {TailEntry} /\ prevEntry[name2entry[b]] \in Live \ {TailEntry}
  BY <1>2, <1>3, <1>4 DEF InChain
<1>6. CASE BuildNext
  <2>1. toBuild \in Seq(Names) /\ toBuild # <<>>
    BY <1>6 DEF BuildNext, LinksInv, ChainTypeOK
  <2>2. Head(toBuild) \in Names
    BY <2>1
  <2>3. /\ NewEntry(Head(toBuild), prevEntry[TailEntry], "add") /\ toBuild' = Tail(toBuild) /\ snapshot' = snapshot
    BY <1>6 DEF BuildNext
  <2> QED
    BY <1>1, <1>5, <2>1, <2>2, <2>3, NewEntryOrder
<1>7. ASSUME NEW n \in Names, Add(n) PROVE OrderInv'
  <2>1. PICK prev \in Live \ {TailEntry} : NewEntry(n, prev, "add")
    BY <1>5, <1>7 DEF Add
  <2>2. change.kind = "none"
    BY <1>7 DEF Add
  <2> QED
    BY <2>1, <2>2, NewEntryOrder
<1> QED
  BY <1>6, <1>7

LEMMA OrderStep == ASSUME LinksInv, OrderInv, [ChainNext]_chainVars PROVE OrderInv'
<1>1. CASE UNCHANGED chainVars
  BY <1>1, KeptOrder DEF chainVars
<1>2. CASE \E w \in Walks : Fire(w) \/ CallNext(w) \/ CallPrevious(w)
  BY <1>2, KeptOrder DEF Fire, CallNext, CallPrevious, GoesTo
<1>3. CASE OtherChange
  BY <1>3, OtherOrder
<1>4. CASE BuildNext \/ \E n \in Names : Add(n)
  BY <1>4, AddOrder
<1>5. CASE LinkBack \/ LinkForward \/ UnlinkForward \/ UnlinkBack
  BY <1>5, LinkBackOrder, LinkForwardOrder, UnlinkForwardOrder, UnlinkBackOrder
<1> QED
  BY <1>1, <1>2, <1>3, <1>4, <1>5 DEF ChainNext, OtherChange

LEMMA OrderInit == ChainInit => OrderInv
<1> SUFFICES ASSUME ChainInit PROVE OrderInv
  OBVIOUS
<1>1. PICK s : s = <<HeadEntry, TailEntry>>
  OBVIOUS
<1>2. HeadEntry # TailEntry /\ HeadEntry \in Nodes /\ TailEntry \in Nodes
  BY ChainAssumption DEF Nodes
<1>3. nextEntry[HeadEntry] = TailEntry /\ EndsInv
  BY <1>2 DEF ChainInit, EndsInv
<1>4. DOMAIN name2entry = {} /\ change = [kind |-> "unbuilt", entry |-> NoEntry, during |-> "none"]
  BY DEF ChainInit, NoChange
<1>5. Live = {HeadEntry, TailEntry}
  BY <1>4 DEF Live, InChain
<1>6. s \in Seq(Nodes) /\ Len(s) = 2 /\ s[1] = HeadEntry /\ s[2] = TailEntry
  BY <1>1, <1>2
<1>7. IsList(s, Live, nextEntry)
  <2>1. 1..Len(s) = {1, 2} /\ 1..(Len(s) - 1) = {1}
    BY <1>6
  <2> QED
    BY <1>2, <1>3, <1>5, <1>6, <2>1 DEF IsList
<1>8. DuringInv /\ BuildInv(s)
  BY <1>4, <1>6 DEF DuringInv, BuildInv
<1> QED
  BY <1>3, <1>6, <1>7, <1>8 DEF OrderInv

LEMMA ListLength ==
  ASSUME NEW s \in Seq(Nodes), \A i, j \in 1..Len(s) : s[i] = s[j] => i = j
  PROVE  /\ Cardinality(ChainEntries) \in Nat
         /\ Len(s) <= Cardinality(ChainEntries) + 2
<1>1. MaxEntries \in Nat /\ IsFiniteSet(ChainEntries) /\ Cardinality(ChainEntries) = MaxEntries
  <2>1. MaxEntries \in Nat
    BY ChainAssumption
  <2>2. IsFiniteSet(1..MaxEntries) /\ Cardinality(1..MaxEntries) = IF 1 > MaxEntries THEN 0 ELSE MaxEntries - 1 + 1
    BY <2>1, FS_Interval
  <2> QED
    BY <2>1, <2>2 DEF ChainEntries
<1>2. IsFiniteSet(Nodes) /\ Cardinality(Nodes) \in Nat /\ Cardinality(Nodes) <= MaxEntries + 2
  <2> DEFINE A == ChainEntries \cup {HeadEntry}
  <2>1. IsFiniteSet(A) /\ Cardinality(A) <= MaxEntries + 1 /\ Cardinality(A) \in Nat
    BY <1>1, FS_AddElement, FS_CardinalityType
  <2>2. Nodes = A \cup {TailEntry}
    BY DEF Nodes
  <2> HIDE DEF A
  <2> QED
    <3>1. IsFiniteSet(Nodes) /\ (Cardinality(Nodes) = Cardinality(A) \/ Cardinality(Nodes) = Cardinality(A) + 1)
      BY <2>1, <2>2, FS_AddElement
    <3> QED
      BY <1>1, <2>1, <3>1
<1>3. IsFiniteSet(1..Len(s)) /\ Cardinality(1..Len(s)) = Len(s) /\ Len(s) \in Nat
  <2>1. Len(s) \in Nat
    OBVIOUS
  <2>2. Cardinality(1..Len(s)) = IF 1 > Len(s) THEN 0 ELSE Len(s) - 1 + 1
    BY SMTT(30), <2>1, FS_Interval
  <2> QED
    BY SMTT(30), <2>1, <2>2, FS_Interval
<1>4. Cardinality(1..Len(s)) <= Cardinality(Nodes)
  <2>1. s \in [1..Len(s) -> Nodes]
    OBVIOUS
  <2>2. s \in Injection(1..Len(s), Nodes)
    BY <2>1 DEF Injection, IsInjective
  <2> QED
    BY <1>2, <2>2, FS_Injection DEF ExistsInjection
<1> QED
  BY <1>1, <1>2, <1>3, <1>4

\* A list read against the links.
LEMMA BackList ==
  ASSUME LinksInv, ~HalfLinked, NEW s, IsList(s, Live, nextEntry)
  PROVE  LET r == Reverse(s)
         IN  /\ r \in Seq(Nodes) /\ Len(r) = Len(s) /\ r[1] = TailEntry /\ r[Len(r)] = HeadEntry
             /\ \A i \in 1..(Len(r) - 1) : prevEntry[r[i]] = r[i + 1]
             /\ Reverse(r) = s
<1> DEFINE r == Reverse(s)
<1>1. s \in Seq(Nodes) /\ Len(s) \in Nat /\ Len(s) >= 2 /\ s[1] = HeadEntry /\ s[Len(s)] = TailEntry
  BY DEF IsList
<1>2. r \in Seq(Nodes) /\ Len(r) = Len(s) /\ \A i \in 1..Len(s) : r[i] = s[Len(s) - i + 1]
  <2>1. \A i \in 1..Len(s) : Len(s) - i + 1 \in 1..Len(s)
    BY <1>1
  <2>2. \A i \in 1..Len(s) : s[Len(s) - i + 1] \in Nodes
    BY <1>1, <2>1
  <2>3. r \in [1..Len(s) -> Nodes]
    BY <2>2 DEF Reverse
  <2> QED
    BY <1>1, <2>3 DEF Reverse
<1> HIDE DEF r
<1>3. r[1] = TailEntry /\ r[Len(r)] = HeadEntry
  <2>1. Len(s) - 1 + 1 = Len(s) /\ Len(s) - Len(s) + 1 = 1 /\ 1 \in 1..Len(s) /\ Len(s) \in 1..Len(s)
    BY <1>1
  <2> QED
    BY <1>1, <1>2, <2>1
<1>4. ASSUME NEW i \in 1..(Len(r) - 1) PROVE prevEntry[r[i]] = r[i + 1]
  <2>1. PICK j \in 1..(Len(s) - 1) : j = Len(s) - i
    BY <1>1, <1>2
  <2>2. /\ i \in 1..Len(s) /\ i + 1 \in 1..Len(s) /\ Len(s) - i + 1 = j + 1 /\ Len(s) - (i + 1) + 1 = j
        /\ j \in 1..Len(s) /\ Len(s) \in 1..Len(s) /\ j # Len(s)
    BY <1>1, <1>2, <2>1
  <2>3. r[i] = s[j + 1] /\ r[i + 1] = s[j]
    BY <1>2, <2>2
  <2>4. s[j] \in Live \ {TailEntry} /\ nextEntry[s[j]] = s[j + 1]
    <3>1. s[j] \in Live /\ nextEntry[s[j]] = s[j + 1]
      BY <2>1, <2>2 DEF IsList
    <3>2. s[j] # TailEntry
      BY <1>1, <2>2 DEF IsList
    <3> QED
      BY <3>1, <3>2
  <2>5. Before(nextEntry[s[j]]) = s[j]
    BY <2>4 DEF LinksInv, ListInv
  <2> QED
    BY <2>3, <2>4, <2>5 DEF Before
<1>5. Reverse(r) = s
  <2> DEFINE q == Reverse(r)
  <2>1. \A i \in 1..Len(s) : Len(s) - i + 1 \in 1..Len(s) /\ Len(s) - (Len(s) - i + 1) + 1 = i
    BY <1>1
  <2>2. q = [i \in 1..Len(s) |-> r[Len(s) - i + 1]]
    BY <1>2 DEF Reverse
  <2>3. \A i \in 1..Len(s) : q[i] = s[i]
    BY <1>2, <2>1, <2>2
  <2>4. q \in Seq(Nodes) /\ Len(q) = Len(s)
    <3>1. \A i \in 1..Len(s) : r[Len(s) - i + 1] \in Nodes
      BY <1>2, <2>1
    <3>2. q \in [1..Len(s) -> Nodes]
      BY <2>2, <3>1
    <3> QED
      BY <1>1, <2>2, <3>2
  <2> HIDE DEF q
  <2>5. q = s
    BY <1>1, <2>3, <2>4, SeqEqual
  <2> QED
    BY <2>5 DEF q
<1> QED
  BY <1>2, <1>3, <1>4, <1>5 DEF r

LEMMA OrderSound == ASSUME LinksInv, OrderInv PROVE ChainSound
<1> SUFFICES ASSUME change.kind \in {"none", "clearing", "building"}
             PROVE  LET forward == Along(nextEntry, HeadEntry)
                    IN  /\ BuiltFromSnapshot
                        /\ forward = Reverse(Along(prevEntry, TailEntry))
                        /\ ToSet(forward) = InChain \cup {HeadEntry, TailEntry}
                        /\ \A n \in DOMAIN name2entry : nameOf[name2entry[n]] = n
  BY DEF ChainSound
<1>1. PICK s \in Seq(Nodes) : IsList(s, Live, nextEntry) /\ BuildInv(s)
  BY DEF OrderInv
<1>2. Live = InChain \cup {HeadEntry, TailEntry} /\ ~HalfLinked
  BY DEF Live, HalfLinked
<1>3. Len(s) \in Nat /\ Len(s) >= 2 /\ s[1] = HeadEntry /\ s[Len(s)] = TailEntry
  BY <1>1 DEF IsList
<1>4. Cardinality(ChainEntries) \in Nat /\ Len(s) <= Cardinality(ChainEntries) + 2
  BY <1>1, ListLength DEF IsList
<1>5. NoEntry \notin Nodes /\ nextEntry[TailEntry] = NoEntry /\ prevEntry[HeadEntry] = NoEntry
  <2>1. NoEntry \notin Nat /\ NoEntry # HeadEntry /\ NoEntry # TailEntry
    BY ChainSets DEF LinksInv
  <2>2. ChainEntries \subseteq Nat
    BY DEF ChainEntries
  <2> QED
    BY <2>1, <2>2 DEF OrderInv, EndsInv, Nodes
<1>6. Along(nextEntry, HeadEntry) = s
  <2>1. \A i \in 1..(Len(s) - 1) : nextEntry[s[i]] = s[i + 1]
    BY <1>1 DEF IsList
  <2>2. Along(nextEntry, s[1]) = s
    <3>1. nextEntry[s[Len(s)]] \notin Nodes /\ Len(s) >= 1
      BY <1>3, <1>5
    <3> QED
      BY <1>4, <2>1, <3>1, AlongIs
  <2> QED
    BY <1>3, <2>2
<1>7. Reverse(Along(prevEntry, TailEntry)) = s
  <2>1. PICK r : r = Reverse(s)
    OBVIOUS
  <2>2. /\ r \in Seq(Nodes) /\ Len(r) = Len(s) /\ r[1] = TailEntry /\ r[Len(r)] = HeadEntry
        /\ \A i \in 1..(Len(r) - 1) : prevEntry[r[i]] = r[i + 1]
        /\ Reverse(r) = s
    BY <1>1, <1>2, <2>1, BackList
  <2>3. Len(r) >= 1 /\ Len(r) <= Cardinality(ChainEntries) + 2
    BY <1>3, <1>4, <2>2
  <2>4. Along(prevEntry, r[1]) = r
    BY <1>4, <1>5, <2>2, <2>3, AlongIs
  <2> QED
    BY <2>2, <2>4
<1>8. ToSet(s) = Live
  <2>1. DOMAIN s = 1..Len(s)
    BY <1>1
  <2> QED
    BY <1>1, <2>1 DEF ToSet, IsList
<1>9. BuiltFromSnapshot
  <2> SUFFICES ASSUME change.kind = "building"
               PROVE  [i \in 1..(Len(s) - 2) |-> nameOf[s[i + 1]]] \o toBuild = snapshot
    BY <1>6 DEF BuiltFromSnapshot
  <2>1. change.during = "building"
    BY DEF OrderInv, DuringInv
  <2> QED
    BY <1>1, <2>1 DEF BuildInv, NamesIn
<1>10. \A n \in DOMAIN name2entry : nameOf[name2entry[n]] = n
  BY DEF LinksInv, ChainTypeOK
<1> QED
  BY <1>2, <1>6, <1>7, <1>8, <1>9, <1>10

\* After every change, one that threw included, the chain is the same read from
\* either end, its entries are the ones the names lead to, and a chain that is
\* being built is its builder's list so far, however many filters there are.
THEOREM ChainSoundCorrect == ChainSpec => []ChainSound
<1>1. ChainInit => WalkInv /\ OrderInv
  BY WalkInit, OrderInit
<1>2. WalkInv /\ OrderInv /\ [ChainNext]_chainVars => WalkInv' /\ OrderInv'
  BY WalkStep, OrderStep DEF WalkInv
<1>3. WalkInv /\ OrderInv => ChainSound
  BY OrderSound DEF WalkInv
<1> QED
  BY <1>1, <1>2, <1>3, PTL DEF ChainSpec

-----------------------------------------------------------------------------
(* The components beside each other. *)

allVars == <<part, serviceVars, recyclerVars, datagramVars, otherVars>>

LEMMA StepOfParts ==
  [Next]_allVars =>
    /\ [ServiceNext]_serviceVars /\ [RecyclerNext]_recyclerVars /\ [DatagramNext]_datagramVars
    /\ [ChainNext]_chainVars /\ [StatisticsNext]_statisticsVars
    /\ [SelectorNext]_selectorVars /\ [ExpirerNext]_expirerVars
<1>1. CASE UNCHANGED allVars
  BY <1>1 DEF allVars, otherVars
<1>2. CASE part = "service" /\ ServiceNext /\ UNCHANGED <<recyclerVars, datagramVars, otherVars>>
  BY <1>2 DEF otherVars
<1>3. CASE part = "recycler" /\ RecyclerNext /\ UNCHANGED <<serviceVars, datagramVars, otherVars>>
  BY <1>3 DEF otherVars
<1>4. CASE part = "datagram" /\ DatagramNext /\ UNCHANGED <<serviceVars, recyclerVars, otherVars>>
  BY <1>4 DEF otherVars
<1>5. CASE /\ UNCHANGED <<serviceVars, recyclerVars, datagramVars>>
           /\ \/ part = "chain" /\ ChainNext /\ UNCHANGED <<statisticsVars, selectorVars, expirerVars>>
              \/ part = "statistics" /\ StatisticsNext /\ UNCHANGED <<chainVars, selectorVars, expirerVars>>
              \/ part = "selector" /\ SelectorNext /\ UNCHANGED <<chainVars, statisticsVars, expirerVars>>
              \/ part = "expirer" /\ ExpirerNext /\ UNCHANGED <<chainVars, statisticsVars, selectorVars>>
  BY <1>5
<1> QED
  BY <1>1, <1>2, <1>3, <1>4, <1>5 DEF Next

\* Each part behaves as if it were alone.
LEMMA PartsBehave ==
  Spec => /\ ServiceSpec /\ RecyclerSpec /\ DatagramSpec /\ ChainSpec
          /\ StatisticsSpec /\ SelectorSpec /\ ExpirerSpec
<1>1. Init => /\ ServiceInit /\ RecyclerInit /\ DatagramInit /\ ChainInit
              /\ StatisticsInit /\ SelectorInit /\ ExpirerInit
  BY DEF Init
<1> QED
  BY <1>1, StepOfParts, PTL
     DEF Spec, allVars, ServiceSpec, RecyclerSpec, DatagramSpec, ChainSpec, StatisticsSpec, SelectorSpec, ExpirerSpec

\* What a service tells of its sessions and of its throughput is true, the
\* keys of its sessions follow its selectors, and the sessions of its
\* recycler are watched, whatever the components beside it do.
THEOREM ServiceSoundCorrect == Spec => []ServiceSound
  BY PartsBehave, ServiceTruthfulCorrect, StatisticsTruthfulCorrect, KeysFollowCorrect, SessionsWatchedCorrect, PTL
     DEF ServiceSound

\* The invariants of the parts hold of the service they are parts of: what
\* unbind() disconnects, the sessions of a peer, datagrams that wait, filters
\* an event passes, and the chain they are in.
THEOREM ServicePartsCorrect ==
  Spec => [](DisconnectedAll /\ OneSessionPerPeer /\ BacklogHasFlush /\ WalkSeesAll /\ ChainSound)
  BY PartsBehave, DisconnectedAllCorrect, OneSessionPerPeerCorrect, BacklogHasFlushCorrect, WalkSeesAllCorrect,
     ChainSoundCorrect, PTL
=============================================================================
