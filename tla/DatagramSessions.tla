-------------------------- MODULE DatagramSessions --------------------------
(***************************************************************************)
(* Which session a datagram belongs to: ENioDatagramAcceptor keeps one     *)
(* session per remote address in an EExpiringSessionRecycler, whose        *)
(* EExpiringMap a thread searches for sessions that were not used for      *)
(* timeToLive.  The acceptor's thread (readHandle()) and the application   *)
(* (newSession()) look up, create and close sessions beside it.            *)
(***************************************************************************)
EXTENDS Integers, Sequences, FiniteSets

CONSTANTS
  Peers,       \* remote addresses
  MaxSessions, \* bound: sessions that may be made
  Receivers,   \* the acceptor's thread and threads that call newSession()
  Closers,     \* threads that close sessions, the expirer thread among them
  Expirer,
  NoPeerSession

ASSUME RecyclerAssumption ==
  /\ Expirer \in Closers /\ Closers \cap Receivers = {}
  /\ MaxSessions \in Nat /\ NoPeerSession \notin Nat
  /\ IsFiniteSet(Peers)

(* Sessions are numbered as they are made. *)
PeerSessions == 1..MaxSessions

VARIABLES
  peerOf,      \* the remote address of each session that was made
  life,        \* "none", "made" (new, without attributes and filters), "ready"
  shut,        \* sessions whose flag `closing' is set
  gone,        \* sessions fireSessionDestroyed() was called for
  recycler,    \* the expiring map
  stale,       \* sessions that were not used for timeToLive
  at, holds,   \* each thread's place, and the session it has in hand
  outrun       \* peers the expirer has taken a session of

recyclerVars == <<peerOf, life, shut, gone, recycler, stale, at, holds, outrun>>

RecyclerInit ==
  /\ peerOf = <<>>
  /\ life = [s \in PeerSessions |-> "none"]
  /\ shut = {} /\ gone = {} /\ stale = {} /\ outrun = {}
  /\ recycler = [p \in Peers |-> NoPeerSession]
  /\ at = [t \in Receivers \cup Closers |-> "idle"]
  /\ holds = [t \in Receivers \cup Closers |-> NoPeerSession]

Advances(t, from, to) == at[t] = from /\ at' = [at EXCEPT ![t] = to]
Takes(t, s) == holds' = [holds EXCEPT ![t] = s]

----------------------------------------------------------------------------
(* newSessionWithoutLock(). Under the recycler's lock: recycle(), which    *)
(* makes the time of the last access the current one, or newSession() and  *)
(* put().  A receiver that is through starts anew.                         *)

Recycle(t, p) ==
  /\ t \in Receivers /\ Advances(t, "idle", "deliver")
  /\ recycler[p] # NoPeerSession
  /\ Takes(t, recycler[p])
  /\ stale' = stale \ {recycler[p]}
  /\ UNCHANGED <<peerOf, life, shut, gone, recycler, outrun>>

NewSession(t, p) ==
  /\ Len(peerOf) < MaxSessions
  /\ LET s == Len(peerOf) + 1
     IN  /\ life' = [life EXCEPT ![s] = "made"]
         /\ peerOf' = Append(peerOf, p)
         /\ recycler' = [recycler EXCEPT ![p] = s]
         /\ Takes(t, s)

(* Fault: nobody is kept out between recycle() and put(). *)
MakeUnlocked(t, p) ==
  /\ t \in Receivers /\ Advances(t, "idle", "init")
  /\ \/ recycler[p] = NoPeerSession
     \/ \E u \in Receivers \ {t} : at[u] = "init" /\ holds[u] = recycler[p]
  /\ NewSession(t, p)
  /\ UNCHANGED <<shut, gone, stale, outrun>>

Make(t, p) ==
  /\ t \in Receivers /\ Advances(t, "idle", "init")
  /\ recycler[p] = NoPeerSession
  /\ NewSession(t, p)
  /\ UNCHANGED <<shut, gone, stale, outrun>>

(* initSession(), the filter chain and fireSessionCreated(), outside the   *)
(* lock.                                                                   *)
Initialise(t) ==
  /\ Advances(t, "init", "deliver")
  /\ life' = [life EXCEPT ![holds[t]] = "ready"]
  /\ UNCHANGED <<peerOf, shut, gone, recycler, stale, holds, outrun>>

(* fireMessageReceived(), or the caller of newSession() gets the session.  *)
Deliver(t) ==
  /\ Advances(t, "deliver", "idle")
  /\ Takes(t, NoPeerSession)
  /\ UNCHANGED <<peerOf, life, shut, gone, recycler, stale, outrun>>

----------------------------------------------------------------------------
(* processExpires(): the time of each entry is read, the entry of its key  *)
(* removed, and the listener closes the session.                           *)

Age(s) ==
  /\ life[s] = "ready" /\ s \notin stale
  /\ stale' = stale \cup {s}
  /\ UNCHANGED <<peerOf, life, shut, gone, recycler, at, holds, outrun>>

FindStale(s) ==
  /\ Advances(Expirer, "idle", "expire")
  /\ s \in stale /\ s \in DOMAIN peerOf /\ recycler[peerOf[s]] = s
  /\ Takes(Expirer, s)
  /\ outrun' = outrun \cup {peerOf[s]}
  /\ UNCHANGED <<peerOf, life, shut, gone, recycler, stale>>

Expire ==
  /\ Advances(Expirer, "expire", "close")
  /\ recycler' = [recycler EXCEPT ![peerOf[holds[Expirer]]] = NoPeerSession]
  /\ UNCHANGED <<peerOf, life, shut, gone, stale, holds, outrun>>

(* An application closes a session it knows. *)
BeginClose(t) ==
  /\ t \in Closers \ {Expirer} /\ Advances(t, "idle", "close")
  /\ \E s \in PeerSessions : life[s] = "ready" /\ Takes(t, s)
  /\ UNCHANGED <<peerOf, life, shut, gone, recycler, stale, outrun>>

(* closeNow() of a session that is not closing yet goes on to remove(),    *)
(* which takes the session's address out of the recycler.                  *)
CloseNow(t) ==
  /\ t \in Closers
  /\ Advances(t, "close", IF holds[t] \in shut THEN "idle" ELSE "remove")
  /\ shut' = shut \cup {holds[t]}
  /\ UNCHANGED <<peerOf, life, gone, recycler, stale, holds, outrun>>

RemoveFromRecycler(t) ==
  /\ t \in Closers /\ Advances(t, "remove", "destroy")
  /\ recycler' = [recycler EXCEPT ![peerOf[holds[t]]] = NoPeerSession]
  /\ UNCHANGED <<peerOf, life, shut, gone, stale, holds, outrun>>

FireDestroyed(t) ==
  /\ t \in Closers /\ Advances(t, "destroy", "idle")
  /\ gone' = gone \cup {holds[t]}
  /\ UNCHANGED <<peerOf, life, shut, recycler, stale, holds, outrun>>

----------------------------------------------------------------------------
RecyclerNext ==
  \/ \E t \in Receivers : (\E p \in Peers : Recycle(t, p) \/ Make(t, p)) \/ Initialise(t) \/ Deliver(t)
  \/ \E s \in PeerSessions : Age(s) \/ FindStale(s)
  \/ Expire
  \/ \E t \in Closers : BeginClose(t) \/ CloseNow(t) \/ RemoveFromRecycler(t) \/ FireDestroyed(t)

RecyclerSpec == RecyclerInit /\ [][RecyclerNext]_recyclerVars

SessionsOf(p) == {s \in DOMAIN peerOf : peerOf[s] = p}

(* As long as the expirer has taken no session of a peer, the peer has at  *)
(* most one session that nobody closes, the recycler knows it, and the     *)
(* recycler shows no session that is gone.                                 *)
OneSessionPerPeer ==
  \A p \in Peers \ outrun :
    /\ \A s \in SessionsOf(p) \ shut : recycler[p] = s
    /\ recycler[p] \notin gone

(* A session nobody closes stays in the recycler, or it never times out:   *)
(* not so, since remove() of an expired session takes the address of the   *)
(* session out that has replaced it.                                       *)
NoSessionForgotten ==
  \A s \in DOMAIN peerOf \ shut :
    recycler[peerOf[s]] = s \/ (holds[Expirer] = s /\ at[Expirer] \in {"expire", "close"})
=============================================================================
