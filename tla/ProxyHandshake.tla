---------------------------- MODULE ProxyHandshake ----------------------------
(***************************************************************************)
(* EProxyFilter of one session: writes and events wait until the handshake *)
(* with the proxy, of SOCKS 4 or HTTP, is complete.  One thread of the     *)
(* processor delivers what the proxy sends; clients write.  The monitor of *)
(* the EProxyLogicHandler is held through every message and every write.   *)
(* The reconnection of HTTP is left out.                                   *)
(***************************************************************************)
EXTENDS Integers, Sequences, FiniteSets, SequencesExt

CONSTANTS
  ProxyClients,  \* threads that write
  ProxyIo,       \* the thread of the processor; event handlers write in it
  MaxProxyWrites, MaxIdle \* bounds: writes of a thread, sessionIdle events

ASSUME ProxyAssumption == ProxyIo \notin ProxyClients /\ MaxProxyWrites \in Nat /\ MaxIdle \in Nat

VARIABLES
  protocol,           \* "socks" or "http"
  proxySession,       \* "new", "created", "opened", "closing", "closed"
  io,                 \* "idle", "flush events", "flush writes", "rest"
  handshakeComplete, authenticationFailed,
  attempts,           \* requests sent to the proxy
  eventsQueue,        \* sessionEventsQueue
  writeRequestQueue,
  wire,               \* what left the filter: handshake requests, [by, n]
  application,        \* what reached the application: events, "data"
  writes,             \* of each thread the number of its writes
  connectFuture       \* of HTTP: "none", "session", "canceled"

proxyVars == <<protocol, proxySession, io, handshakeComplete, authenticationFailed, attempts, eventsQueue,
               writeRequestQueue, wire, application, writes, connectFuture>>

ProxyInit ==
  /\ protocol \in {"socks", "http"} /\ proxySession = "new" /\ io = "idle"
  /\ handshakeComplete = FALSE /\ authenticationFailed = FALSE /\ attempts = 0
  /\ eventsQueue = <<>> /\ writeRequestQueue = <<>> /\ wire = <<>> /\ application = <<>>
  /\ writes = [t \in ProxyClients \cup {ProxyIo} |-> 0]
  /\ connectFuture = "none"

Request == [by |-> "handshake", n |-> 0]
Connected == proxySession \in {"created", "opened"}

----------------------------------------------------------------------------
(* EIoSessionEventQueue *)

Passes == protocol = "socks" \/ handshakeComplete

(* deliverEvent(): EAbstractProxyIoHandler keeps sessionOpened() from the  *)
(* application while the handshake goes on.                                *)
Delivered(event) ==
  IF event = "opened" /\ ~Passes /\ ~authenticationFailed THEN application ELSE Append(application, event)

(* Fault: OPENED is delivered and not kept. *)
EnqueueOpenedLost(event) ==
  IF Passes \/ event = "opened" THEN application' = Delivered(event) /\ UNCHANGED eventsQueue
  ELSE eventsQueue' = Append(eventsQueue, event) /\ UNCHANGED application

(* enqueueEventIfNecessary() for all but CLOSED.                           *)
EnqueueEvent(event) ==
  IF Passes THEN application' = Delivered(event) /\ UNCHANGED eventsQueue
  ELSE /\ eventsQueue' = Append(eventsQueue, event)
       /\ IF event = "opened" THEN application' = Delivered(event) ELSE UNCHANGED application

----------------------------------------------------------------------------
(* The events of the session, in the processor's thread. *)

(* sessionCreated() starts the handshake.                                  *)
SessionCreated ==
  /\ proxySession = "new" /\ proxySession' = "created"
  /\ wire' = Append(wire, Request) /\ attempts' = 1
  /\ EnqueueEvent("created")
  /\ UNCHANGED <<protocol, io, handshakeComplete, authenticationFailed, writeRequestQueue, writes, connectFuture>>

SessionOpened ==
  /\ proxySession = "created" /\ io = "idle" /\ proxySession' = "opened"
  /\ EnqueueEvent("opened")
  /\ UNCHANGED <<protocol, io, handshakeComplete, authenticationFailed, attempts, writeRequestQueue, wire, writes,
                 connectFuture>>

SessionIdle ==
  /\ proxySession = "opened" /\ io = "idle"
  /\ Cardinality({i \in DOMAIN (application \o eventsQueue) : (application \o eventsQueue)[i] = "idle"}) < MaxIdle
  /\ EnqueueEvent("idle")
  /\ UNCHANGED <<protocol, proxySession, io, handshakeComplete, authenticationFailed, attempts, writeRequestQueue, wire,
                 writes, connectFuture>>

ExceptionCaught ==
  /\ Connected /\ io = "idle" /\ ~authenticationFailed /\ authenticationFailed' = TRUE
  /\ UNCHANGED <<protocol, proxySession, io, handshakeComplete, attempts, eventsQueue, writeRequestQueue, wire,
                 application, writes, connectFuture>>

(* sessionClosed(): an HTTP handshake that had not failed leaves the       *)
(* connect future as it is.                                                *)
ProxySessionClosed ==
  /\ proxySession \in {"created", "opened", "closing"} /\ io = "idle" /\ proxySession' = "closed"
  /\ IF Passes
     THEN application' = Append(application, "closed") /\ UNCHANGED <<eventsQueue, connectFuture>>
     ELSE /\ eventsQueue' = <<>>
          /\ IF authenticationFailed
             THEN application' = Append(application, "closed") /\ connectFuture' = "canceled"
             ELSE UNCHANGED <<application, connectFuture>>
  /\ UNCHANGED <<protocol, io, handshakeComplete, authenticationFailed, attempts, writeRequestQueue, wire, writes>>

----------------------------------------------------------------------------
(* messageReceived() with the answer of the proxy. *)

Answers == proxySession \in {"created", "opened"} /\ io = "idle" /\ ~handshakeComplete

(* setHandshakeComplete() *)
Granted ==
  /\ Answers
  /\ handshakeComplete' = TRUE /\ connectFuture' = "session" /\ io' = "flush events"
  /\ UNCHANGED <<protocol, proxySession, authenticationFailed, attempts, eventsQueue, writeRequestQueue, wire,
                 application, writes>>

FlushEvent ==
  /\ io = "flush events"
  /\ IF eventsQueue = <<>> THEN io' = "flush writes" /\ UNCHANGED <<eventsQueue, application>>
     ELSE eventsQueue' = Tail(eventsQueue) /\ application' = Append(application, Head(eventsQueue)) /\ UNCHANGED io
  /\ UNCHANGED <<protocol, proxySession, handshakeComplete, authenticationFailed, attempts, writeRequestQueue, wire,
                 writes, connectFuture>>

FlushWrite ==
  /\ io = "flush writes"
  /\ IF writeRequestQueue = <<>> THEN io' = "rest" /\ UNCHANGED <<writeRequestQueue, wire>>
     ELSE /\ writeRequestQueue' = Tail(writeRequestQueue) /\ wire' = Append(wire, Head(writeRequestQueue))
          /\ UNCHANGED io
  /\ UNCHANGED <<protocol, proxySession, handshakeComplete, authenticationFailed, attempts, eventsQueue, application,
                 writes, connectFuture>>

(* The rest of the message goes on, unless the position of the buffer did  *)
(* not move.  The HTTP handler sets it to 0, where it was, so that what    *)
(* came behind an HTTP answer is lost with it.                             *)
PassRest ==
  /\ io = "rest" /\ io' = "idle"
  /\ \E rest \in BOOLEAN :
       application' = IF rest /\ protocol = "socks" THEN Append(application, "data") ELSE application
  /\ UNCHANGED <<protocol, proxySession, handshakeComplete, authenticationFailed, attempts, eventsQueue,
                 writeRequestQueue, wire, writes, connectFuture>>

(* SOCKS: the session is closed.                                           *)
Rejected ==
  /\ Answers /\ protocol = "socks"
  /\ authenticationFailed' = TRUE /\ proxySession' = "closing"
  /\ UNCHANGED <<protocol, io, handshakeComplete, attempts, eventsQueue, writeRequestQueue, wire, application, writes,
                 connectFuture>>

(* HTTP: 407 is answered with the credentials once; then, and at any other *)
(* code, an exception is caught by the chain.                              *)
Challenged ==
  /\ Answers /\ protocol = "http" /\ attempts = 1
  /\ attempts' = 2 /\ wire' = Append(wire, Request)
  /\ UNCHANGED <<protocol, proxySession, io, handshakeComplete, authenticationFailed, eventsQueue, writeRequestQueue,
                 application, writes, connectFuture>>

(* messageReceived() after the handshake.                                  *)
ProxyData ==
  /\ proxySession = "opened" /\ io = "idle" /\ handshakeComplete /\ "data" \notin ToSet(application)
  /\ application' = Append(application, "data")
  /\ UNCHANGED <<protocol, proxySession, io, handshakeComplete, authenticationFailed, attempts, eventsQueue,
                 writeRequestQueue, wire, writes, connectFuture>>

----------------------------------------------------------------------------
(* filterWrite().  A client has the session when connect() is answered: a  *)
(* SOCKS session from its creation on.  A handler of the application       *)
(* writes when sessionOpened() has reached it, also while events that were *)
(* kept are flushed, as only those of HTTP are.                            *)
MayWrite(t) ==
  /\ writes[t] < MaxProxyWrites /\ proxySession # "new"
  /\ IF t = ProxyIo THEN "opened" \in ToSet(application) /\ proxySession # "closed"
                        /\ (io = "idle" \/ (io = "flush events" /\ protocol = "http"))
     ELSE protocol = "socks" \/ connectFuture = "session"

(* A write to a session that is not connected is ignored.                  *)
WriteData(t) ==
  /\ MayWrite(t) /\ (io = "idle" \/ t = ProxyIo)
  /\ LET n == writes[t] + 1
     IN  IF handshakeComplete
         THEN wire' = Append(wire, [by |-> t, n |-> n]) /\ writes' = [writes EXCEPT ![t] = n] /\ UNCHANGED writeRequestQueue
         ELSE /\ Connected /\ writeRequestQueue' = Append(writeRequestQueue, [by |-> t, n |-> n])
              /\ writes' = [writes EXCEPT ![t] = n] /\ UNCHANGED wire
  /\ UNCHANGED <<protocol, proxySession, io, handshakeComplete, authenticationFailed, attempts, eventsQueue, application,
                 connectFuture>>

ProxyNext ==
  \/ SessionCreated \/ SessionOpened \/ SessionIdle \/ ExceptionCaught \/ ProxySessionClosed
  \/ Granted \/ FlushEvent \/ FlushWrite \/ PassRest \/ Rejected \/ Challenged \/ ProxyData
  \/ \E t \in ProxyClients \cup {ProxyIo} : WriteData(t)

ProxySpec == ProxyInit /\ [][ProxyNext]_proxyVars

----------------------------------------------------------------------------
Of(seq, t) == SelectSeq(seq, LAMBDA w : w.by = t)
Reached(event) == {i \in DOMAIN application : application[i] = event}

(* No write of the application passes the handshake; the writes of each    *)
(* thread leave in their order, those that waited first, and none waits    *)
(* once the handshake is over; and the application is told of the opening  *)
(* of its session once, after its creation, and of nothing after its       *)
(* close.  (An exception in the handshake can have it told twice, and the  *)
(* writes of its handlers overtake each other.)                            *)
HandshakeSound ==
  /\ ~handshakeComplete => \A i \in DOMAIN wire : wire[i] = Request
  /\ \A t \in ProxyClients \cup (IF authenticationFailed THEN {} ELSE {ProxyIo}) :
       Of(wire \o writeRequestQueue, t) = [n \in 1..writes[t] |-> [by |-> t, n |-> n]]
  /\ handshakeComplete /\ io = "idle" => writeRequestQueue = <<>> /\ eventsQueue = <<>>
  /\ \A i \in Reached("closed") : i = Len(application)
  /\ ~authenticationFailed =>
       /\ Cardinality(Reached("opened")) <= 1
       /\ handshakeComplete /\ io = "idle" /\ proxySession = "opened" => Cardinality(Reached("opened")) = 1
       /\ \A i \in Reached("opened") : \E j \in Reached("created") : j < i
===============================================================================
