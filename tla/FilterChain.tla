---------------------------- MODULE FilterChain ----------------------------
(***************************************************************************)
(* The filter chain of a session (EDefaultIoFilterChain.cpp): a list of    *)
(* entries linked both ways and a map from names to entries.  A service's  *)
(* EDefaultIoFilterChainBuilder fills it before the session is known to    *)
(* anybody.  Later one thread at a time changes it, under its monitor and  *)
(* through callbacks that may throw, while events and writes walk along    *)
(* the links without any lock.                                             *)
(***************************************************************************)
EXTENDS Integers, Sequences, FiniteSets, SequencesExt

CONSTANTS
  Names,        \* names of filters
  MaxEntries,   \* bound: EntryImpl objects that may be made
  Walks,        \* events: calls of fire...() and callNext...()
  HeadEntry, TailEntry, NoEntry,
  MaxBuilder    \* bound: filters in the builder

ASSUME ChainAssumption ==
  /\ {HeadEntry, TailEntry, NoEntry} \cap Nat = {}
  /\ HeadEntry # TailEntry /\ NoEntry \notin {HeadEntry, TailEntry}
  /\ IsFiniteSet(Names)
  /\ MaxEntries \in Nat /\ MaxBuilder \in Nat

(* Entries are numbered as they are made. *)
ChainEntries == 1..MaxEntries
Nodes == ChainEntries \cup {HeadEntry, TailEntry}

VARIABLES
  builder,      \* names in the builder's list of entries
  snapshot, toBuild, \* what buildFilterChain() iterates over, and what is left
  nextEntry, prevEntry, \* the links of each node
  nameOf,       \* the names of the entries made so far
  name2entry,
  change,       \* the change in progress, at most one: the monitor
  freed,        \* entries that were deleted, or whose filter was
  walker,       \* where each event is, and which way it goes
  seen,         \* the entries it has passed
  owed          \* entries that were in the chain all the time since it began

linkVars == <<nextEntry, prevEntry>>
buildVars == <<builder, snapshot, toBuild>>
walkVars == <<walker, seen, owed>>
chainVars == <<buildVars, linkVars, nameOf, name2entry, change, freed, walkVars>>

NoChange == [kind |-> "none", entry |-> NoEntry, during |-> "none"]

ChainInit ==
  /\ builder = <<>> /\ snapshot = <<>> /\ toBuild = <<>>
  /\ nextEntry = [n \in Nodes |-> IF n = HeadEntry THEN TailEntry ELSE NoEntry]
  /\ prevEntry = [n \in Nodes |-> IF n = TailEntry THEN HeadEntry ELSE NoEntry]
  /\ nameOf = <<>> /\ name2entry = [n \in {} |-> NoEntry]
  /\ change = [NoChange EXCEPT !.kind = "unbuilt"] /\ freed = {}
  /\ walker = [w \in Walks |-> [at |-> NoEntry, writes |-> FALSE]]
  /\ seen = [w \in Walks |-> {}] /\ owed = [w \in Walks |-> {}]

----------------------------------------------------------------------------
(* The builder's addFirst(), addLast(), addBefore() and addAfter() put a   *)
(* new name at some place of its list, remove() takes one out, clear() all.*)

BuilderAdd(n) ==
  /\ Len(builder) < MaxBuilder /\ n \notin ToSet(builder)
  /\ \E i \in 1..(Len(builder) + 1) : builder' = InsertAt(builder, i, n)
  /\ UNCHANGED <<snapshot, toBuild, linkVars, nameOf, name2entry, change, freed, walkVars>>

BuilderRemove(n) ==
  /\ \E i \in DOMAIN builder : builder[i] = n /\ builder' = RemoveAt(builder, i)
  /\ UNCHANGED <<snapshot, toBuild, linkVars, nameOf, name2entry, change, freed, walkVars>>

BuilderClear ==
  /\ builder # <<>> /\ builder' = <<>>
  /\ UNCHANGED <<snapshot, toBuild, linkVars, nameOf, name2entry, change, freed, walkVars>>

(* The iterator of a copy-on-write list shows the list as it is now.       *)
BeginBuild ==
  /\ change.kind = "unbuilt"
  /\ snapshot' = builder /\ toBuild' = builder
  /\ change' = [NoChange EXCEPT !.kind = "building", !.during = "building"]
  /\ UNCHANGED <<builder, linkVars, nameOf, name2entry, freed, walkVars>>

EndBuild ==
  /\ change.kind = "building" /\ toBuild = <<>>
  /\ change' = NoChange /\ snapshot' = <<>>
  /\ UNCHANGED <<builder, toBuild, linkVars, nameOf, name2entry, freed, walkVars>>

----------------------------------------------------------------------------
(* register_(): the new entry knows its neighbours; onPreAdd() succeeds or *)
(* nothing has happened.                                                   *)
NewEntry(name, prev, kind) ==
  /\ name \notin DOMAIN name2entry
  /\ Len(nameOf) < MaxEntries
  /\ LET e == Len(nameOf) + 1
     IN  /\ nameOf' = Append(nameOf, name)
         /\ nextEntry' = [nextEntry EXCEPT ![e] = nextEntry[prev]]
         /\ prevEntry' = [prevEntry EXCEPT ![e] = prev]
         /\ change' = [change EXCEPT !.kind = kind, !.entry = e]
  /\ UNCHANGED <<name2entry, freed, walkVars>>

(* buildFilterChain() adds each filter last. *)
BuildNext ==
  /\ change.kind = "building" /\ toBuild # <<>>
  /\ NewEntry(Head(toBuild), prevEntry[TailEntry], "add")
  /\ toBuild' = Tail(toBuild)
  /\ UNCHANGED <<builder, snapshot>>

(* addFirst(), addLast(), addBefore() and addAfter() of the chain differ   *)
(* in the entry the new one follows.                                       *)
Add(n) ==
  /\ change.kind = "none"
  /\ \E prev \in {HeadEntry, prevEntry[TailEntry]}
              \cup {prevEntry[name2entry[b]] : b \in DOMAIN name2entry}
              \cup {name2entry[b] : b \in DOMAIN name2entry} :
       NewEntry(n, prev, "add")
  /\ UNCHANGED buildVars

LinkBack ==
  /\ change.kind = "add"
  /\ prevEntry' = [prevEntry EXCEPT ![nextEntry[prevEntry[change.entry]]] = change.entry]
  /\ change' = [change EXCEPT !.kind = "linked"]
  /\ UNCHANGED <<buildVars, nextEntry, nameOf, name2entry, freed, walkVars>>

(* Fault: an entry follows itself. *)
LinkForwardWrongly ==
  /\ change.kind = "linked"
  /\ nextEntry' = [nextEntry EXCEPT ![prevEntry[change.entry]] = nextEntry[change.entry]]
  /\ name2entry' = [n \in DOMAIN name2entry \cup {nameOf[change.entry]} |->
                      IF n = nameOf[change.entry] THEN change.entry ELSE name2entry[n]]
  /\ change' = [change EXCEPT !.kind = "added"]
  /\ UNCHANGED <<buildVars, prevEntry, nameOf, freed, walkVars>>

LinkForward ==
  /\ change.kind = "linked"
  /\ nextEntry' = [nextEntry EXCEPT ![prevEntry[change.entry]] = change.entry]
  /\ name2entry' = [n \in DOMAIN name2entry \cup {nameOf[change.entry]} |->
                      IF n = nameOf[change.entry] THEN change.entry ELSE name2entry[n]]
  /\ change' = [change EXCEPT !.kind = "added"]
  /\ UNCHANGED <<buildVars, prevEntry, nameOf, freed, walkVars>>

(* onPostAdd() returns, or throws and the entry is taken out again.  An    *)
(* exception while the chain is built ends buildFilterChain().             *)
AddReturns ==
  /\ change.kind = "added"
  /\ change' = [change EXCEPT !.kind = change.during, !.entry = NoEntry]
  /\ UNCHANGED <<buildVars, linkVars, nameOf, name2entry, freed, walkVars>>

AddThrows ==
  /\ change.kind = "added"
  /\ change' = [change EXCEPT !.kind = "undo", !.during = "none"]
  /\ owed' = [w \in Walks |-> owed[w] \ {change.entry}]
  /\ toBuild' = <<>>
  /\ UNCHANGED <<builder, snapshot, linkVars, nameOf, name2entry, freed, walker, seen>>

----------------------------------------------------------------------------
(* remove(), and clear(), which removes entry after entry until one of     *)
(* them throws.  onPreRemove() succeeds or nothing happens.                *)

BeginRemove(n) ==
  /\ change.kind \in {"none", "clearing"}
  /\ n \in DOMAIN name2entry
  /\ change' = [change EXCEPT !.kind = "remove", !.entry = name2entry[n]]
  /\ owed' = [w \in Walks |-> owed[w] \ {name2entry[n]}]
  /\ UNCHANGED <<buildVars, linkVars, nameOf, name2entry, freed, walker, seen>>

BeginClear ==
  /\ change.kind = "none" /\ DOMAIN name2entry # {}
  /\ change' = [NoChange EXCEPT !.kind = "clearing", !.during = "clearing"]
  /\ UNCHANGED <<buildVars, linkVars, nameOf, name2entry, freed, walkVars>>

EndClear ==
  /\ change.kind = "clearing"
  /\ change' = NoChange
  /\ UNCHANGED <<buildVars, linkVars, nameOf, name2entry, freed, walkVars>>

UnlinkForward ==
  /\ change.kind \in {"remove", "undo"}
  /\ nextEntry' = [nextEntry EXCEPT ![prevEntry[change.entry]] = nextEntry[change.entry]]
  /\ change' = [change EXCEPT !.kind = IF @ = "undo" THEN "undone" ELSE "unlinked"]
  /\ UNCHANGED <<buildVars, prevEntry, nameOf, name2entry, freed, walkVars>>

(* Fault: one link and the name are forgotten. *)
UnlinkBackForgotten ==
  /\ change.kind \in {"unlinked", "undone"}
  /\ name2entry' = [n \in DOMAIN name2entry \ {nameOf[change.entry]} |-> name2entry[n]]
  /\ change' = [change EXCEPT !.kind = IF @ = "undone" THEN "free" ELSE "removed"]
  /\ UNCHANGED <<buildVars, linkVars, nameOf, freed, walkVars>>

UnlinkBack ==
  /\ change.kind \in {"unlinked", "undone"}
  /\ prevEntry' = [prevEntry EXCEPT ![nextEntry[change.entry]] = prevEntry[change.entry]]
  /\ name2entry' = [n \in DOMAIN name2entry \ {nameOf[change.entry]} |-> name2entry[n]]
  /\ change' = [change EXCEPT !.kind = IF @ = "undone" THEN "free" ELSE "removed"]
  /\ UNCHANGED <<buildVars, nextEntry, nameOf, freed, walkVars>>

(* onPostRemove() returns and the entry is deleted, or it throws: the      *)
(* entry is not deleted, and clear() leaves the rest in the chain.         *)
FreeEntry ==
  /\ change.kind \in {"removed", "free"}
  /\ freed' = freed \cup {change.entry}
  /\ change' = [change EXCEPT !.kind = change.during, !.entry = NoEntry]
  /\ UNCHANGED <<buildVars, linkVars, nameOf, name2entry, walkVars>>

RemoveThrows ==
  /\ change.kind = "removed"
  /\ change' = NoChange
  /\ UNCHANGED <<buildVars, linkVars, nameOf, name2entry, freed, walkVars>>

(* replace(): a filter takes the place of another in its entry.  The old   *)
(* one is deleted at once; when onPostAdd() throws, the entry gets it back *)
(* and leads to no filter any more.                                        *)
ReplaceThrows(n) ==
  /\ change.kind = "none" /\ n \in DOMAIN name2entry
  /\ freed' = freed \cup {name2entry[n]}
  /\ UNCHANGED <<buildVars, linkVars, nameOf, name2entry, change, walkVars>>

----------------------------------------------------------------------------
(* An event goes from the head along nextEntry, a write or a close from    *)
(* the tail along prevEntry; each filter calls the next one.               *)

InChain == {name2entry[n] : n \in DOMAIN name2entry}

Fire(w) ==
  /\ walker[w].at = NoEntry /\ change.kind # "unbuilt" /\ change.during # "building"
  /\ \E writes \in BOOLEAN :
       walker' = [walker EXCEPT ![w] = [at |-> IF writes THEN TailEntry ELSE HeadEntry, writes |-> writes]]
  /\ owed' = [owed EXCEPT ![w] = InChain \ (IF change.kind \in {"added"} THEN {} ELSE {change.entry})]
  /\ UNCHANGED <<buildVars, linkVars, nameOf, name2entry, change, freed, seen>>

(* In an entry that was deleted meanwhile the links cannot be relied on.   *)
GoesTo(w, to) ==
  /\ walker[w].at \in Nodes \ freed
  /\ walker' = [walker EXCEPT ![w].at = to]
  /\ seen' = [seen EXCEPT ![w] = @ \cup {to}]
  /\ UNCHANGED <<buildVars, linkVars, nameOf, name2entry, change, freed, owed>>

CallNext(w) ==
  ~walker[w].writes /\ walker[w].at \in Nodes \ {TailEntry} /\ GoesTo(w, nextEntry[walker[w].at])

CallPrevious(w) ==
  walker[w].writes /\ walker[w].at \in Nodes \ {HeadEntry} /\ GoesTo(w, prevEntry[walker[w].at])

----------------------------------------------------------------------------
ChainNext ==
  \/ \E n \in Names : BuilderAdd(n) \/ BuilderRemove(n) \/ Add(n) \/ BeginRemove(n) \/ ReplaceThrows(n)
  \/ BuilderClear \/ BeginBuild \/ BuildNext \/ EndBuild
  \/ LinkBack \/ LinkForward \/ AddReturns \/ AddThrows
  \/ BeginClear \/ EndClear \/ UnlinkForward \/ UnlinkBack \/ FreeEntry \/ RemoveThrows
  \/ \E w \in Walks : Fire(w) \/ CallNext(w) \/ CallPrevious(w)

ChainSpec == ChainInit /\ [][ChainNext]_chainVars

----------------------------------------------------------------------------
(* The entries from the head on, and from the tail on: a list is cut where *)
(* the links would lead nowhere or in a circle.                            *)
Along(links, from) ==
  LET walk[i \in 0..Cardinality(ChainEntries) + 1] ==
        IF i = 0 THEN <<from>>
        ELSE LET so == walk[i - 1] IN IF links[Last(so)] \in Nodes THEN Append(so, links[Last(so)]) ELSE so
  IN  walk[Cardinality(ChainEntries) + 1]

(* Before anybody knows the session, its chain is what the builder held    *)
(* when buildFilterChain() began, as far as it has been built.             *)
BuiltFromSnapshot ==
  change.kind = "building" =>
    LET forward == Along(nextEntry, HeadEntry)
    IN  [i \in 1..(Len(forward) - 2) |-> nameOf[forward[i + 1]]] \o toBuild = snapshot

(* After every change, a failed one too, the chain is the same read from   *)
(* either end, its entries are the ones the names lead to, and a chain that *)
(* is being built follows its builder.                                     *)
ChainSound ==
  change.kind \in {"none", "clearing", "building"} =>
    LET forward == Along(nextEntry, HeadEntry)
    IN  /\ BuiltFromSnapshot
        /\ forward = Reverse(Along(prevEntry, TailEntry))
        /\ ToSet(forward) = InChain \cup {HeadEntry, TailEntry}
        /\ \A n \in DOMAIN name2entry : nameOf[name2entry[n]] = n

(* An event that reaches the end has passed every filter that was in the   *)
(* chain all the time, whatever was added and removed beside it (deleted   *)
(* entries aside: an event in an entry that is deleted is lost).           *)
WalkSeesAll ==
  \A w \in Walks :
    walker[w].at = (IF walker[w].writes THEN HeadEntry ELSE TailEntry)
      => owed[w] \subseteq seen[w]
=============================================================================
