---------------------------- MODULE SelectorSwitch ----------------------------
(***************************************************************************)
(* The selector of an ENioProcessor.  When select() returns at once with   *)
(* nothing, time and again, the Processor moves all keys to a new selector *)
(* (registerNewSelector()), unless it finds that a connection is broken,   *)
(* whose key it cancels (isBrokenConnection()).  Clients in suspendRead()  *)
(* and resumeRead() change the interest of the keys meanwhile.             *)
(***************************************************************************)
EXTENDS Integers, FiniteSets

CONSTANTS
  Watched,      \* sessions, each with a client that suspends and resumes it
  MaxTries,     \* MAX_TRIES
  MaxSelectors, MaxToggles \* bounds: selectors opened, calls per session

ASSUME SelectorAssumption ==
  MaxTries \in Nat /\ MaxSelectors \in Nat \ {0} /\ MaxToggles \in Nat

Selectors == 1..MaxSelectors
NoSelector == 0

VARIABLES
  selector,     \* the one in use
  opened,       \* how many were opened; the last one is being filled in a move
  registered,   \* the sessions with a key in each selector
  reads,        \* OP_READ is in the interest set of that key
  keyOf,        \* the selector of the key a session holds
  connected,    \* sessions whose channel is connected
  suspended,    \* readSuspended
  caller, toggles, \* each client's place and key, and the calls it has made
  loop, nbTries,
  moving,       \* keys not yet moved to the new selector
  copied,       \* the session whose interest set was read, and whether it reads
  futile,       \* history: futile selects since one that was not, as far as it matters
  torn,         \* history: sessions with a call in the middle of a move
  leaked        \* history: sessions moved to a selector that was given up

selectorVars == <<selector, opened, registered, reads, keyOf, connected, suspended, caller, toggles, loop, nbTries,
                  moving, copied, futile, torn, leaked>>
keyVars == <<registered, reads, keyOf>>
clientVars == <<suspended, caller, toggles>>
moveVars == <<moving, copied>>

NoCopy == [of |-> {}, reads |-> FALSE]
Idle == [at |-> "idle", key |-> NoSelector]

SelectorInit ==
  /\ selector = 1 /\ opened = 1
  /\ registered = [n \in Selectors |-> {}]
  /\ reads = [n \in Selectors |-> [s \in Watched |-> FALSE]]
  /\ keyOf = [s \in Watched |-> NoSelector]
  /\ connected = Watched /\ suspended = [s \in Watched |-> FALSE]
  /\ caller = [s \in Watched |-> Idle] /\ toggles = [s \in Watched |-> 0]
  /\ loop = "select" /\ nbTries = MaxTries /\ moving = {} /\ copied = NoCopy
  /\ futile = 0 /\ torn = {} /\ leaked = {}

IsValid(s, n) == n # NoSelector /\ s \in registered[n]

----------------------------------------------------------------------------
(* The Processor: select() and what its end means. *)

SelectSucceeds ==
  /\ loop = "select" /\ loop' = "handle"
  /\ nbTries' = MaxTries /\ futile' = 0
  /\ UNCHANGED <<selector, opened, keyVars, connected, clientVars, moveVars, torn, leaked>>

SelectFutile ==
  /\ loop = "select" /\ loop' = "futile"
  /\ futile' = IF futile > MaxTries THEN futile ELSE futile + 1
  /\ UNCHANGED <<selector, opened, keyVars, connected, clientVars, nbTries, moveVars, torn, leaked>>

Broken == {s \in registered[selector] : s \notin connected}

(* isBrokenConnection() *)
CancelBroken ==
  /\ loop = "futile" /\ Broken # {} /\ loop' = "handle"
  /\ registered' = [registered EXCEPT ![selector] = @ \ Broken]
  /\ UNCHANGED <<selector, opened, reads, keyOf, connected, clientVars, nbTries, moveVars, futile, torn, leaked>>

TryAgain ==
  /\ loop = "futile" /\ Broken = {} /\ nbTries > 0
  /\ nbTries' = nbTries - 1 /\ loop' = "handle"
  /\ UNCHANGED <<selector, opened, keyVars, connected, clientVars, moveVars, futile, torn, leaked>>

(* ESelector::open(); when it throws, nothing has happened yet. *)
OpenSelector ==
  /\ loop = "futile" /\ Broken = {} /\ nbTries = 0
  /\ \/ opened < MaxSelectors /\ opened' = opened + 1 /\ loop' = "move" /\ moving' = registered[selector]
     \/ loop' = "select" /\ UNCHANGED <<opened, moving>>
  /\ UNCHANGED <<selector, keyVars, connected, clientVars, nbTries, copied, futile, torn, leaked>>

(* Fault: the new keys read, whatever the old ones did. *)
CopyForgotten(s) ==
  /\ loop = "move" /\ copied = NoCopy /\ s \in moving
  /\ copied' = [of |-> {s}, reads |-> TRUE]
  /\ UNCHANGED <<selector, opened, keyVars, connected, clientVars, loop, nbTries, moving, futile, torn, leaked>>

(* register_(newSelector, key->interestOps(), ...) *)
CopyInterest(s) ==
  /\ loop = "move" /\ copied = NoCopy /\ s \in moving
  /\ copied' = [of |-> {s}, reads |-> reads[selector][s]]
  /\ UNCHANGED <<selector, opened, keyVars, connected, clientVars, loop, nbTries, moving, futile, torn, leaked>>

(* Fault: the session keeps its old key. *)
MoveChannelOnly(s) ==
  /\ s \in copied.of
  /\ registered' = [registered EXCEPT ![opened] = @ \cup {s}]
  /\ reads' = [reads EXCEPT ![opened][s] = copied.reads]
  /\ moving' = moving \ {s} /\ copied' = NoCopy
  /\ UNCHANGED <<selector, opened, keyOf, connected, clientVars, loop, nbTries, futile, torn, leaked>>

MoveKey(s) ==
  /\ s \in copied.of
  /\ registered' = [registered EXCEPT ![opened] = @ \cup {s}]
  /\ reads' = [reads EXCEPT ![opened][s] = copied.reads]
  /\ keyOf' = [keyOf EXCEPT ![s] = opened]
  /\ moving' = moving \ {s} /\ copied' = NoCopy /\ leaked' = leaked \ {s}
  /\ UNCHANGED <<selector, opened, connected, clientVars, loop, nbTries, futile, torn>>

(* register_() throws: the old selector stays, the new one is lost, and    *)
(* with it the keys it was given.                                          *)
MoveFails(s) ==
  /\ s \in copied.of
  /\ leaked' = leaked \cup registered[opened] /\ torn' = torn \cup registered[opened]
  /\ moving' = {} /\ copied' = NoCopy /\ loop' = "select"
  /\ UNCHANGED <<selector, opened, keyVars, connected, clientVars, nbTries, futile>>

CloseOldSelector ==
  /\ loop = "move" /\ moving = {}
  /\ registered' = [registered EXCEPT ![selector] = {}]
  /\ selector' = opened
  /\ nbTries' = MaxTries /\ futile' = 0 /\ loop' = "handle"
  /\ torn' = torn \cup {s \in Watched : caller[s].at # "idle"}
  /\ UNCHANGED <<opened, reads, keyOf, connected, clientVars, moveVars, leaked>>

(* handleNewSessions() and removeSessions() of the same pass. *)

InitKey(s) ==
  /\ loop = "handle" /\ keyOf[s] = NoSelector
  /\ keyOf' = [keyOf EXCEPT ![s] = selector]
  /\ registered' = [registered EXCEPT ![selector] = @ \cup {s}]
  /\ reads' = [reads EXCEPT ![selector][s] = TRUE]
  /\ UNCHANGED <<selector, opened, connected, clientVars, loop, nbTries, moveVars, futile, torn, leaked>>

DestroyKey(s) ==
  /\ loop = "handle" /\ IsValid(s, keyOf[s])
  /\ registered' = [n \in Selectors |-> registered[n] \ {s}] /\ connected' = connected \ {s}
  /\ UNCHANGED <<selector, opened, reads, keyOf, clientVars, loop, nbTries, moveVars, futile, torn, leaked>>

EndPass ==
  /\ loop = "handle" /\ loop' = "select"
  /\ UNCHANGED <<selector, opened, keyVars, connected, clientVars, nbTries, moveVars, futile, torn, leaked>>

----------------------------------------------------------------------------
Disconnect(s) ==
  /\ s \in connected /\ keyOf[s] # NoSelector /\ connected' = connected \ {s}
  /\ UNCHANGED <<selector, opened, keyVars, clientVars, loop, nbTries, moveVars, futile, torn, leaked>>

(* suspendRead() and resumeRead(): the flag is set, ... *)
Toggle(s) ==
  /\ caller[s] = Idle /\ toggles[s] < MaxToggles /\ keyOf[s] # NoSelector
  /\ suspended' = [suspended EXCEPT ![s] = ~@] /\ toggles' = [toggles EXCEPT ![s] = @ + 1]
  /\ caller' = [caller EXCEPT ![s].at = "look"]
  /\ UNCHANGED <<selector, opened, keyVars, connected, loop, nbTries, moveVars, futile, torn, leaked>>

(* ... and setInterestedInRead() takes the session's key, ... *)
LookForKey(s) ==
  /\ caller[s].at = "look"
  /\ caller' = [caller EXCEPT ![s] = IF IsValid(s, keyOf[s]) THEN [at |-> "set", key |-> keyOf[s]] ELSE Idle]
  /\ UNCHANGED <<selector, opened, keyVars, connected, suspended, toggles, loop, nbTries, moveVars, futile, torn, leaked>>

(* ... whose interest it sets; a key that has become invalid throws.       *)
SetInterestedInRead(s) ==
  /\ caller[s].at = "set" /\ caller' = [caller EXCEPT ![s] = Idle]
  /\ LET n == caller[s].key
     IN  /\ reads' = IF IsValid(s, n) THEN [reads EXCEPT ![n][s] = ~suspended[s]] ELSE reads
         /\ torn' = IF loop = "move" THEN torn \cup {s} ELSE torn
  /\ UNCHANGED <<selector, opened, registered, keyOf, connected, suspended, toggles, loop, nbTries, moveVars, futile, leaked>>

----------------------------------------------------------------------------
SelectorNext ==
  \/ SelectSucceeds \/ SelectFutile \/ CancelBroken \/ TryAgain \/ OpenSelector \/ CloseOldSelector \/ EndPass
  \/ \E s \in Watched :
       \/ CopyInterest(s) \/ MoveKey(s) \/ MoveFails(s) \/ InitKey(s) \/ DestroyKey(s)
       \/ Disconnect(s) \/ Toggle(s) \/ LookForKey(s) \/ SetInterestedInRead(s)

SelectorSpec == SelectorInit /\ [][SelectorNext]_selectorVars

(* Between two moves every valid key a session holds is one of the         *)
(* selector in use, and every key there is held by its session, but for    *)
(* the sessions of a move that failed half-way.  A session is read from    *)
(* exactly when it is not suspended, unless a call met a move: what such a *)
(* call sets may be lost with the old key.  A selector is only given up    *)
(* after MaxTries + 1 futile selects, none of them successful.             *)
KeysFollow ==
  /\ loop # "move" =>
       \A s \in Watched \ leaked :
         /\ IsValid(s, keyOf[s]) => keyOf[s] = selector
         /\ s \in registered[selector] => keyOf[s] = selector
  /\ loop # "move" =>
       \A s \in Watched \ (torn \cup leaked) :
         caller[s] = Idle /\ s \in registered[selector] => reads[selector][s] = ~suspended[s]
  /\ loop = "move" => futile > MaxTries
===============================================================================
