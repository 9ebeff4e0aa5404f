----------------------------- MODULE HookFilter -----------------------------
(***************************************************************************)
(* HookQueue with the filter of messages.  A message from the server is    *)
(* copied to the queue if g_messageFilter is empty or has its id; every    *)
(* ten seconds the filter is read again from the registry, which the user  *)
(* edits.  Of the client's own messages two ids are left out.              *)
(*                                                                         *)
(* A time of ten seconds may have passed at any message, or not.           *)
(***************************************************************************)
EXTENDS HookQueue, FiniteSets

CONSTANTS
  Ids,       \* ids of messages from the server
  Length,    \* of the name of the registry's key for an id
  MaxEdits   \* bound on the user's changes of the registry

ASSUME FilterAssumption == Length \in [Ids -> Nat] /\ MaxEdits \in Nat

VARIABLES
  filter,    \* per client: g_messageFilter
  registry,  \* the ids listed in the registry, in the order of EnumKey
  edits,     \* changes of the registry so far
  withheld   \* history: ids withheld from Item Assistant and not listed since

filterVars == <<filter, registry, edits, withheld>>
fvars == <<vars, filterVars>>

\* What the registry may hold: ids, none twice.
Registries ==
  UNION {{r \in [1..n -> Ids] : \A i, j \in 1..n : r[i] = r[j] => i = j} :
           n \in 0..Cardinality(Ids)}

Listed == {registry[i] : i \in DOMAIN registry}

-----------------------------------------------------------------------------
\* EnumKey is given the length of the name before as the size of its buffer:
\* a name that is not shorter does not fit, and the loop ends there.  These are
\* the entries the loop comes to.
Read ==
  {registry[i] : i \in {i \in DOMAIN registry :
     \A j \in 2..i : Length[registry[j]] < Length[registry[j - 1]]}}

\* Mutant: g_messageFilter.clear() where the code says empty().
LoadCleared(c) == SUBSET Read

\* LoadMessageFilter: the key may not open, and an entry whose value cannot be
\* read as a number (QueryDWORDValue) is skipped.
LoadMessageFilter(c) == {filter[c] \cup values : values \in SUBSET Read}

Hook(c, h) == detach[c] = "no" /\ h \notin pushed[c]

Passes(f, id) == f = {} \/ id \in f

\* DataBlockToMessageHook.
Incoming(c, h, id) ==
  /\ Hook(c, h)
  /\ \E f \in {filter[c]} \cup LoadMessageFilter(c) :
       /\ filter' = [filter EXCEPT ![c] = f]
       /\ IF Passes(f, id)
          THEN Push(c, h) /\ UNCHANGED withheld
          ELSE UNCHANGED vars /\ withheld' = [withheld EXCEPT ![c] = @ \cup ({id} \ Listed)]
  /\ UNCHANGED <<registry, edits>>

\* OnConnectionSend, for an id other than those of moving and keeping alive.
Outgoing(c, h) == Push(c, h) /\ UNCHANGED filterVars

\* The user lists the ids in another way; nothing in the repository does.
EditRegistry ==
  /\ edits < MaxEdits
  /\ edits' = edits + 1
  /\ registry' \in Registries
  /\ withheld' = [c \in Clients |-> withheld[c] \ Listed']
  /\ UNCHANGED <<vars, filter>>

-----------------------------------------------------------------------------
FilterInit ==
  /\ Init
  /\ filter = [c \in Clients |-> {}]
  /\ registry \in Registries /\ edits = 0
  /\ withheld = [c \in Clients |-> {}]

\* What HookQueue does apart from its hooks' pushes.
Rest ==
  \/ \E c \in Clients :
       \/ \E h \in Hooks : Signal(c, h)
       \/ WorkerStep(c) \/ EndSignals(c) \/ EndStep(c)
  \/ WindowOpens \/ WindowCloses

FilterNext ==
  \/ \E c \in Clients, h \in Hooks :
       (\E id \in Ids : Incoming(c, h, id)) \/ Outgoing(c, h)
  \/ Rest /\ UNCHANGED filterVars
  \/ EditRegistry

FilterSafeSpec == FilterInit /\ [][FilterNext]_fvars

\* The threads are scheduled as in HookQueue.
FilterSpec == FilterSafeSpec /\ Fairness

-----------------------------------------------------------------------------
(***************************************************************************)
(* Properties.                                                             *)
(***************************************************************************)

\* A message of an id that was withheld is passed on only once the id has been
\* listed: no reload, of a registry that is empty, shorter or cannot be read,
\* opens the filter again.
WithheldUntilListed ==
  [][\A c \in Clients, h \in Hooks, id \in Ids :
       Incoming(c, h, id) /\ count' # count => id \notin withheld[c]]_fvars
=============================================================================
