----------------------------- MODULE AddressFilter -----------------------------
(***************************************************************************)
(* EBlacklistFilter and EWhitelistFilter: every event of a session is let  *)
(* through or closes the session, as its remote address is found in a list *)
(* of ESubnet that users change meanwhile.  The list is copied on write,   *)
(* so an event sees one state of it.                                       *)
(***************************************************************************)
EXTENDS Integers, Sequences, FiniteSets, SequencesExt

CONSTANTS
  Width,        \* bits of an address
  FilterSessions,
  Listable,     \* addresses that users put on the list
  MaxListed, MaxIdles \* bounds

ASSUME AddressAssumption == Width \in Nat \ {0} /\ Listable \subseteq 0..(2^Width - 1) /\ MaxListed \in Nat /\ MaxIdles \in Nat

VARIABLES
  color,        \* "black" or "white"
  list,         \* blacklist or whitelist
  setting,      \* what set...list() has still to add
  peer,         \* of each session its phase, address and number of idle events
  reached,      \* of each session the events that reached the next filter
  closeNow,     \* the sessions that were closed
  verdicts      \* of each session what the list has said of it since its start

addressVars == <<color, list, setting, peer, reached, closeNow, verdicts>>

Addresses == 0..(2^Width - 1)
AnyLocalAddress == 0
AnySubnets == [address : Listable, suffix : 0..Width]

----------------------------------------------------------------------------
(* ESubnet *)

(* The mask has its sign shifted in, one bit less often than the suffix    *)
(* says: for suffix 0 by -1 bits, which may leave any mask.                *)
Masks(suffix) == IF suffix = 0 THEN 1..Width ELSE {suffix}
Subnet(address, suffix, ones) == [subnetInt |-> address, suffix |-> suffix, ones |-> ones]
EqualSubnets(a, b) == a.subnetInt = b.subnetInt /\ a.suffix = b.suffix

(* Fault: the mask is shifted once more. *)
ToSubnetLess(address, ones) == address - (address % 2^(Width - ones + 1))
ToSubnet(address, ones) == address - (address % 2^(Width - ones))

InSubnet(address, subnet) ==
  address = AnyLocalAddress \/ ToSubnet(address, subnet.ones) = subnet.subnetInt

----------------------------------------------------------------------------
AddressInit ==
  /\ color \in {"black", "white"} /\ list = <<>> /\ setting = <<>>
  /\ peer \in [FilterSessions -> [phase : {"new"}, address : Addresses, idles : {0}]]
  /\ reached = [s \in FilterSessions |-> <<>>]
  /\ closeNow = {} /\ verdicts = [s \in FilterSessions |-> {}]

Listed(address) == \E i \in DOMAIN list : InSubnet(address, list[i])
IsBlocked(address) == Listed(address)
IsAllowed(address) == Listed(address)
LetsThrough(address) == IF color = "black" THEN ~IsBlocked(address) ELSE IsAllowed(address)

Watched == [s \in FilterSessions |->
              IF peer[s].phase = "new" THEN {}
              ELSE verdicts[s] \cup {IF color = "black" THEN ~(\E i \in DOMAIN list' : InSubnet(peer[s].address, list'[i]))
                                     ELSE \E i \in DOMAIN list' : InSubnet(peer[s].address, list'[i])}]
Changes == verdicts' = Watched /\ UNCHANGED <<color, peer, reached, closeNow>>

(* block() and allow(), of an address (its subnet has all bits) or a       *)
(* subnet.                                                                 *)
AddSubnet(pair) ==
  \E ones \in Masks(pair.suffix) : list' = Append(list, Subnet(pair.address, pair.suffix, ones))
BlockOrAllow(pair) ==
  /\ Len(list) + Len(setting) < MaxListed
  /\ AddSubnet(pair) /\ Changes /\ UNCHANGED setting

(* unblock() and disallow(): the first that is equal.                      *)
UnblockOrDisallow(pair) ==
  /\ \E i \in DOMAIN list :
       /\ list[i].subnetInt = pair.address /\ list[i].suffix = pair.suffix
       /\ \A j \in 1..(i - 1) : ~EqualSubnets(list[j], list[i])
       /\ list' = RemoveAt(list, i)
  /\ Changes /\ UNCHANGED setting

(* setBlacklist(), setWhitelist(): clear() and then one by one.            *)
SetList(pairs) ==
  /\ setting = <<>> /\ Len(pairs) <= MaxListed
  /\ list' = <<>> /\ setting' = pairs /\ Changes

SetListNext ==
  /\ setting # <<>>
  /\ AddSubnet(Head(setting)) /\ setting' = Tail(setting) /\ Changes

----------------------------------------------------------------------------
(* The events of a session; those of a session that is closed come to an   *)
(* end with sessionClosed().                                               *)
Event(s, name, phase, idles) ==
  /\ peer' = [peer EXCEPT ![s].phase = phase, ![s].idles = idles]
  /\ IF LetsThrough(peer[s].address)
     THEN reached' = [reached EXCEPT ![s] = Append(@, name)] /\ UNCHANGED closeNow
     ELSE closeNow' = closeNow \cup {s} /\ UNCHANGED reached
  /\ verdicts' = [verdicts EXCEPT ![s] = @ \cup {LetsThrough(peer[s].address)}]
  /\ UNCHANGED <<color, list, setting>>

CreatedEvent(s) == peer[s].phase = "new" /\ Event(s, "created", "created", 0)
OpenedEvent(s) == peer[s].phase = "created" /\ Event(s, "opened", "opened", 0)
(* sessionIdle(), messageReceived(), messageSent() *)
OtherEvent(s) ==
  /\ peer[s].phase = "opened" /\ s \notin closeNow /\ peer[s].idles < MaxIdles
  /\ Event(s, "other", "opened", peer[s].idles + 1)
ClosedEvent(s) == peer[s].phase = "opened" /\ Event(s, "closed", "closed", peer[s].idles)

AddressNext ==
  \/ \E pair \in AnySubnets : BlockOrAllow(pair) \/ UnblockOrDisallow(pair)
  \/ \E first, second \in AnySubnets : SetList(<<first>>) \/ SetList(<<first, second>>)
  \/ SetListNext
  \/ \E s \in FilterSessions : CreatedEvent(s) \/ OpenedEvent(s) \/ OtherEvent(s) \/ ClosedEvent(s)

AddressSpec == AddressInit /\ [][AddressNext]_addressVars

----------------------------------------------------------------------------
SamePrefix(a, b, n) == \A k \in (Width - n)..(Width - 1) : (a \div 2^k) % 2 = (b \div 2^k) % 2

(* A subnet given by its lowest address holds the addresses with its       *)
(* prefix, and always that without a bit; one given by another address     *)
(* holds no more than that; and a session of which the list has always     *)
(* said the same has all of its events reach the application, or none and  *)
(* is closed.  (While a list is being set, an address that is on the old   *)
(* and on the new one is on none; and a session whose address comes on the *)
(* blacklist is opened and never closed, for the application.)             *)
AddressesChecked ==
  /\ \A i \in DOMAIN list, a \in Addresses \ {AnyLocalAddress} :
       LET n == list[i].ones
       IN  InSubnet(a, list[i]) <=> SamePrefix(a, list[i].subnetInt, n) /\ list[i].subnetInt % 2^(Width - n) = 0
  /\ \A s \in FilterSessions :
       /\ verdicts[s] = {FALSE} => reached[s] = <<>> /\ s \in closeNow
       /\ verdicts[s] = {TRUE} => s \notin closeNow
       /\ verdicts[s] = {TRUE} /\ peer[s].phase = "closed" =>
            reached[s] = <<"created", "opened">> \o [i \in 1..peer[s].idles |-> "other"] \o <<"closed">>
===============================================================================
