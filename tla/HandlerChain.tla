----------------------------- MODULE HandlerChain -----------------------------
(***************************************************************************)
(* EIoHandlerChain: a list of named commands which users change under its  *)
(* monitor, and which executions, one for a message of a session, walk     *)
(* without it.  An execution may be that of a chain inside of a command of *)
(* another chain: then it goes on with that chain's next command.          *)
(***************************************************************************)
EXTENDS Integers, Sequences, FiniteSets, SequencesExt

CONSTANTS
  CommandNames,
  Executions,   \* threads that execute the chain
  MaxCommands   \* bound: commands that are ever added

ASSUME HandlerAssumption == MaxCommands \in Nat

VARIABLES
  commandName,  \* the names of the entries, in order of creation
  nextCommand, prevCommand,
  name2command,   \* of each name its entry, 0: none
  deleted,      \* the entries that were freed
  unlinked,     \* what remove() has unlinked and will free
  execution,    \* where an execution is, if it has a NEXT_COMMAND, what it saw
  mustSee       \* of each execution the entries that were there all the time

handlerVars == <<commandName, nextCommand, prevCommand, name2command, deleted, unlinked, execution, mustSee>>

(* The entries are numbers; the head is 0 and the tail comes last.         *)
HeadCommand == 0
TailCommand == MaxCommands + 1
Entries == HeadCommand..TailCommand
OuterChain == MaxCommands + 2   \* the chain around this one
Outside == [at |-> -1, nested |-> FALSE, seen |-> <<>>]

HandlerInit ==
  /\ commandName = <<>>
  /\ nextCommand = [e \in Entries |-> IF e = HeadCommand THEN TailCommand ELSE HeadCommand]
  /\ prevCommand = [e \in Entries |-> HeadCommand]
  /\ name2command = [n \in CommandNames |-> 0]
  /\ deleted = {} /\ unlinked = 0
  /\ execution = [x \in Executions |-> Outside] /\ mustSee = [x \in Executions |-> {}]

(* getAll() and getAllReversed(): the entries between the ends, along the  *)
(* links from one end until the other.                                     *)
Along(links, from, to) ==
  LET walk[i \in 0..TailCommand] ==
        IF i = 0 THEN <<from>>
        ELSE LET so == walk[i - 1] IN IF Last(so) = to THEN so ELSE Append(so, links[Last(so)])
  IN  SubSeq(walk[TailCommand], 2, Len(walk[TailCommand]) - 1)
GetAll == Along(nextCommand, HeadCommand, TailCommand)
GetAllReversed == Along(prevCommand, TailCommand, HeadCommand)
CommandsInChain == {GetAll[i] : i \in DOMAIN GetAll}

----------------------------------------------------------------------------
(* The users.  Each operation holds the monitor to its end; executions     *)
(* only look at nextCommand.                                               *)

Monitor == unlinked = 0

(* Fault: the entry behind the new one keeps its old prevCommand. *)
RegisterCommandForward(e, prev) ==
  /\ nextCommand' = [nextCommand EXCEPT ![e] = nextCommand[prev], ![prev] = e]
  /\ prevCommand' = [prevCommand EXCEPT ![e] = prev]

(* register_() behind some entry. *)
RegisterCommand(e, prev) ==
  /\ nextCommand' = [nextCommand EXCEPT ![e] = nextCommand[prev], ![prev] = e]
  /\ prevCommand' = [prevCommand EXCEPT ![e] = prev, ![nextCommand[prev]] = e]

(* addFirst() .. addAfter(), if the name is free. *)
AddCommand(name) ==
  /\ Monitor /\ name2command[name] = 0 /\ Len(commandName) < MaxCommands
  /\ LET e == Len(commandName) + 1
     IN  /\ \E prev \in CommandsInChain \cup {HeadCommand} : RegisterCommand(e, prev)
         /\ name2command' = [name2command EXCEPT ![name] = e]
  /\ commandName' = Append(commandName, name)
  /\ UNCHANGED <<deleted, unlinked, execution, mustSee>>

(* remove(): deregister(), and then the entry is freed.  So does clear()   *)
(* with each entry, while it iterates over the map it takes them from: it  *)
(* may end early by an exception of the iterator.                          *)
Deregister(e) ==
  /\ nextCommand' = [nextCommand EXCEPT ![prevCommand[e]] = nextCommand[e]]
  /\ prevCommand' = [prevCommand EXCEPT ![nextCommand[e]] = prevCommand[e]]
  /\ name2command' = [name2command EXCEPT ![commandName[e]] = 0]

RemoveCommand(name) ==
  /\ Monitor /\ name2command[name] # 0
  /\ Deregister(name2command[name]) /\ unlinked' = name2command[name]
  /\ mustSee' = [x \in Executions |-> mustSee[x] \ {unlinked'}]
  /\ UNCHANGED <<commandName, deleted, execution>>

FreeCommand ==
  /\ ~Monitor
  /\ deleted' = deleted \cup {unlinked} /\ unlinked' = 0
  /\ UNCHANGED <<commandName, nextCommand, prevCommand, name2command, execution, mustSee>>

----------------------------------------------------------------------------
(* execute() *)

Execute(x) ==
  /\ execution[x] = Outside
  /\ \E nested \in BOOLEAN : execution' = [execution EXCEPT ![x] = [at |-> HeadCommand, nested |-> nested, seen |-> <<>>]]
  /\ mustSee' = [mustSee EXCEPT ![x] = CommandsInChain]
  /\ UNCHANGED <<commandName, nextCommand, prevCommand, name2command, deleted, unlinked>>

(* callNextCommand(): a command goes on to the next one. *)
Inside(x) == execution[x].at \in Entries \ {TailCommand}
CallNextCommand(x) ==
  /\ Inside(x) /\ execution[x].at \notin deleted
  /\ LET e == nextCommand[execution[x].at]
     IN  execution' = [execution EXCEPT ![x].at = e, ![x].seen = Append(@, e)]
  /\ UNCHANGED <<commandName, nextCommand, prevCommand, name2command, deleted, unlinked, mustSee>>

(* The tail command goes on with the chain around this one. *)
CallOuter(x) ==
  /\ execution[x].at = TailCommand /\ execution[x].nested
  /\ execution' = [execution EXCEPT ![x].at = OuterChain]
  /\ UNCHANGED <<commandName, nextCommand, prevCommand, name2command, deleted, unlinked, mustSee>>

(* A command returns or throws without going on, or the execution ends:    *)
(* NEXT_COMMAND is removed.                                                *)
ExecutionReturns(x) ==
  /\ execution[x] # Outside
  /\ execution[x].at = TailCommand => ~execution[x].nested
  /\ execution' = [execution EXCEPT ![x] = Outside] /\ mustSee' = [mustSee EXCEPT ![x] = {}]
  /\ UNCHANGED <<commandName, nextCommand, prevCommand, name2command, deleted, unlinked>>

HandlerNext ==
  \/ \E name \in CommandNames : AddCommand(name) \/ RemoveCommand(name)
  \/ FreeCommand
  \/ \E x \in Executions : Execute(x) \/ CallNextCommand(x) \/ CallOuter(x) \/ ExecutionReturns(x)

HandlerSpec == HandlerInit /\ [][HandlerNext]_handlerVars

----------------------------------------------------------------------------
Seen(x) == {execution[x].seen[i] : i \in DOMAIN execution[x].seen}

(* Both directions and the names agree on the commands of the chain, none  *)
(* of which is freed; and an execution that comes to the tail, whatever    *)
(* was added and removed on its way, has called every command that was in  *)
(* the chain all the time, and none twice.  (A command may be freed in     *)
(* which an execution is: what it does then is undefined.)                 *)
HandlersCalled ==
  /\ GetAllReversed = [i \in DOMAIN GetAll |-> GetAll[Len(GetAll) + 1 - i]]
  /\ CommandsInChain = {name2command[n] : n \in CommandNames} \ {0} /\ CommandsInChain \cap deleted = {}
  /\ \A x \in Executions : execution[x].at \in {TailCommand, OuterChain} =>
       mustSee[x] \subseteq Seen(x) /\ Cardinality(Seen(x)) = Len(execution[x].seen)
===============================================================================
