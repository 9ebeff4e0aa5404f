---------------------------- MODULE MessageLink ----------------------------
(***************************************************************************)
(* What the injected library promises the Item Assistant window: of every  *)
(* game client it gets the messages in the order in which the client       *)
(* handled them, each at most once, and none stays behind for ever.  A     *)
(* message is lost if there is no window to take it.                       *)
(***************************************************************************)
EXTENDS Naturals, Sequences

CONSTANTS
  Clients,   \* running game clients
  MaxMsgs    \* bound on the messages of a client

VARIABLES
  count,     \* messages handed over so far; the n-th is the number n
  pending,   \* those not yet passed on, oldest first
  received   \* those the window got, oldest first

vars == <<count, pending, received>>

Init ==
  /\ count = [c \in Clients |-> 0]
  /\ pending = [c \in Clients |-> <<>>]
  /\ received = [c \in Clients |-> <<>>]

Accept(c) ==
  /\ count[c] < MaxMsgs
  /\ count' = [count EXCEPT ![c] = @ + 1]
  /\ pending' = [pending EXCEPT ![c] = Append(@, count[c] + 1)]
  /\ UNCHANGED received

Lose(c) ==
  /\ pending[c] # <<>>
  /\ pending' = [pending EXCEPT ![c] = Tail(@)]
  /\ UNCHANGED <<count, received>>

Deliver(c) ==
  /\ pending[c] # <<>>
  /\ pending' = [pending EXCEPT ![c] = Tail(@)]
  /\ received' = [received EXCEPT ![c] = Append(@, Head(pending[c]))]
  /\ UNCHANGED count

Next == \E c \in Clients : Accept(c) \/ Lose(c) \/ Deliver(c)

SafeSpec == Init /\ [][Next]_vars

Spec == SafeSpec /\ \A c \in Clients : WF_vars(Lose(c) \/ Deliver(c))

-----------------------------------------------------------------------------
Increasing(s) == \A i, j \in 1..Len(s) : i < j => s[i] < s[j]

\* The window sees a client's messages in order and none of them twice.
InOrder == \A c \in Clients : Increasing(received[c])
=============================================================================
