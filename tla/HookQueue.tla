----------------------------- MODULE HookQueue -----------------------------
(***************************************************************************)
(* ItemAssistantHook, the library injected into each game client: its      *)
(* hooks copy messages to a queue and signal an event; a worker thread     *)
(* waits for the event and sends the queue to the Item Assistant window.   *)
(*                                                                         *)
(* Every client has a queue and a worker of its own, but the event has a   *)
(* name, "IA_Worker": the libraries of all clients share one auto-reset    *)
(* event, and a signal releases one waiting worker, any of them.           *)
(***************************************************************************)
EXTENDS Naturals, Sequences

CONSTANTS
  Clients,    \* running game clients
  Hooks,      \* the client's threads that run a hook
  MaxMsgs,    \* bound on the messages of a client
  MaxWindows  \* bound on the starts of Item Assistant

ASSUME HookAssumption == MaxMsgs \in Nat /\ MaxWindows \in Nat

VARIABLES
  queue,     \* g_dataQueue, message numbers
  pushed,    \* per client: its hook threads between push and SetEvent
  event,     \* the event "IA_Worker" is signalled
  handle,    \* g_hEvent: "open", "closed" (not yet NULL) or "null"
  detach,    \* the client's thread in EndWorkerThread: its program counter
  worker,    \* the worker thread: its program counter
  held,      \* the message the worker has popped, <<>> or <<n>>
  target,    \* g_targetWnd, 0 for NULL
  window,    \* Item Assistant's window, 0 if it does not run
  windows,   \* windows so far: a new one has a new handle
  count,     \* messages pushed so far
  received   \* the messages the window got from each client

vars == <<queue, pushed, event, handle, detach, worker, held, target, window,
          windows, count, received>>
links == <<queue, held, count, received>>

-----------------------------------------------------------------------------
\* DataBlockToMessageHook and OnConnectionSend, for a message that passes
\* their filters: push(), then SetEvent().
Push(c, h) ==
  /\ detach[c] = "no" /\ h \notin pushed[c]
  /\ count[c] < MaxMsgs
  /\ count' = [count EXCEPT ![c] = @ + 1]
  /\ queue' = [queue EXCEPT ![c] = Append(@, count[c] + 1)]
  /\ pushed' = [pushed EXCEPT ![c] = @ \cup {h}]
  /\ UNCHANGED <<event, handle, detach, worker, held, target, window, windows, received>>

\* Mutant: only a worker that is already waiting is signalled.
SignalIfWaiting(c, h) ==
  /\ h \in pushed[c]
  /\ pushed' = [pushed EXCEPT ![c] = @ \ {h}]
  /\ event' = (event \/ worker[c] = "wait")
  /\ UNCHANGED <<handle, detach, worker, target, window, windows, links>>

Signal(c, h) ==
  /\ h \in pushed[c]
  /\ pushed' = [pushed EXCEPT ![c] = @ \ {h}]
  /\ event' = (event \/ handle[c] = "open")
  /\ UNCHANGED <<handle, detach, worker, target, window, windows, links>>

-----------------------------------------------------------------------------
\* WorkerThreadMethod.

Goto(c, pc) == worker' = [worker EXCEPT ![c] = pc]

\* while ((g_hEvent != NULL) && (WaitForSingleObject(...)
Enter(c) ==
  /\ worker[c] = "loop"
  /\ Goto(c, IF handle[c] = "open" THEN "wait" ELSE "done")
  /\ UNCHANGED <<pushed, event, handle, detach, target, window, windows, links>>

\* ... == WAIT_OBJECT_0)): the event resets; the wait outlives the handle.
Wake(c) ==
  /\ worker[c] = "wait" /\ event
  /\ event' = FALSE
  /\ Goto(c, "awake")
  /\ UNCHANGED <<pushed, handle, detach, target, window, windows, links>>

\* if (g_hEvent == NULL) break; then the window is looked for if there is none
\* or ten seconds have passed.
FindTarget(c) ==
  /\ worker[c] = "awake"
  /\ IF handle[c] = "null"
     THEN Goto(c, "done") /\ UNCHANGED target
     ELSE /\ Goto(c, "check")
          /\ \/ target' = [target EXCEPT ![c] = window]
             \/ target[c] # 0 /\ UNCHANGED target
  /\ UNCHANGED <<pushed, event, handle, detach, window, windows, links>>

\* while (!g_dataQueue.empty()), without the queue's mutex.
Check(c) ==
  /\ worker[c] = "check"
  /\ Goto(c, IF queue[c] = <<>> THEN "loop" ELSE "pop")
  /\ UNCHANGED <<pushed, event, handle, detach, target, window, windows, links>>

\* Mutants: one message per signal; front() without pop(); the next message
\* without a look at empty().
PopOne(c) ==
  /\ worker[c] = "pop"
  /\ queue' = [queue EXCEPT ![c] = Tail(@)]
  /\ held' = [held EXCEPT ![c] = IF target[c] = 0 THEN <<>> ELSE <<Head(queue[c])>>]
  /\ Goto(c, IF target[c] = 0 THEN "loop" ELSE "send")
  /\ UNCHANGED <<pushed, event, handle, detach, target, window, windows, count, received>>

PopLeavesItem(c) ==
  /\ worker[c] = "pop"
  /\ held' = [held EXCEPT ![c] = IF target[c] = 0 THEN <<>> ELSE <<Head(queue[c])>>]
  /\ Goto(c, IF target[c] = 0 THEN "check" ELSE "send")
  /\ UNCHANGED <<pushed, event, handle, detach, target, window, windows, queue, count,
                 received>>

PopAgain(c) ==
  /\ worker[c] = "pop"
  /\ queue' = [queue EXCEPT ![c] = Tail(@)]
  /\ held' = [held EXCEPT ![c] = IF target[c] = 0 THEN <<>> ELSE <<Head(queue[c])>>]
  /\ Goto(c, IF target[c] = 0 THEN "pop" ELSE "send")
  /\ UNCHANGED <<pushed, event, handle, detach, target, window, windows, count, received>>

Pop(c) ==
  /\ worker[c] = "pop"
  /\ queue' = [queue EXCEPT ![c] = Tail(@)]
  /\ held' = [held EXCEPT ![c] = IF target[c] = 0 THEN <<>> ELSE <<Head(queue[c])>>]
  /\ Goto(c, IF target[c] = 0 THEN "check" ELSE "send")
  /\ UNCHANGED <<pushed, event, handle, detach, target, window, windows, count, received>>

\* SendMessage returns when the window has handled the message, or at once if
\* the handle is not (or no longer) that of a window.
Send(c) ==
  /\ worker[c] = "send"
  /\ received' = IF target[c] = window
                 THEN [received EXCEPT ![c] = @ \o held[c]] ELSE received
  /\ held' = [held EXCEPT ![c] = <<>>]
  /\ Goto(c, "check")
  /\ UNCHANGED <<pushed, event, handle, detach, target, window, windows, queue, count>>

-----------------------------------------------------------------------------
\* EndWorkerThread: SetEvent, CloseHandle, g_hEvent = NULL.  The worker may use
\* up the signal and be waiting again before the handle is NULL.
EndSignals(c) ==
  /\ detach[c] = "no"
  /\ detach' = [detach EXCEPT ![c] = "signalled"]
  /\ event' = TRUE
  /\ UNCHANGED <<pushed, handle, worker, target, window, windows, links>>

EndCloses(c) ==
  /\ detach[c] = "signalled" /\ handle[c] = "open"
  /\ handle' = [handle EXCEPT ![c] = "closed"]
  /\ UNCHANGED <<pushed, event, detach, worker, target, window, windows, links>>

EndForgets(c) ==
  /\ handle[c] = "closed"
  /\ handle' = [handle EXCEPT ![c] = "null"]
  /\ UNCHANGED <<pushed, event, detach, worker, target, window, windows, links>>

\* The user starts and ends Item Assistant.
WindowOpens ==
  /\ window = 0 /\ windows < MaxWindows
  /\ windows' = windows + 1
  /\ window' = windows + 1
  /\ UNCHANGED <<pushed, event, handle, detach, worker, target, links>>

WindowCloses ==
  /\ window # 0
  /\ window' = 0
  /\ UNCHANGED <<pushed, event, handle, detach, worker, target, windows, links>>

-----------------------------------------------------------------------------
Init ==
  /\ queue = [c \in Clients |-> <<>>]
  /\ pushed = [c \in Clients |-> {}]
  /\ event = FALSE
  /\ handle = [c \in Clients |-> "open"]
  /\ detach = [c \in Clients |-> "no"]
  /\ worker = [c \in Clients |-> "loop"]
  /\ held = [c \in Clients |-> <<>>]
  /\ target = [c \in Clients |-> 0]
  /\ window = 0
  /\ windows = 0
  /\ count = [c \in Clients |-> 0]
  /\ received = [c \in Clients |-> <<>>]

WorkerStep(c) ==
  Enter(c) \/ Wake(c) \/ FindTarget(c) \/ Check(c) \/ Pop(c) \/ Send(c)

EndStep(c) == EndCloses(c) \/ EndForgets(c)

Next ==
  \/ \E c \in Clients :
       \/ \E h \in Hooks : Push(c, h) \/ Signal(c, h)
       \/ WorkerStep(c)
       \/ EndSignals(c) \/ EndStep(c)
  \/ WindowOpens \/ WindowCloses

SafeSpec == Init /\ [][Next]_vars

\* The threads of a client are scheduled: a hook that has pushed signals, the
\* worker goes on, EndWorkerThread runs to its end.  Nobody has to send a
\* message, detach, or start Item Assistant.
Fairness ==
  \A c \in Clients :
    /\ \A h \in Hooks : WF_vars(Signal(c, h))
    /\ WF_vars(WorkerStep(c))
    /\ WF_vars(EndStep(c))

Spec == SafeSpec /\ Fairness

-----------------------------------------------------------------------------
(***************************************************************************)
(* Properties.                                                             *)
(***************************************************************************)
WorkerPCs == {"loop", "wait", "awake", "check", "pop", "send", "done"}

\* The types of the variables.
TypeOK ==
  /\ queue \in [Clients -> Seq(Nat)]
  /\ pushed \in [Clients -> SUBSET Hooks]
  /\ event \in BOOLEAN
  /\ handle \in [Clients -> {"open", "closed", "null"}]
  /\ detach \in [Clients -> {"no", "signalled"}]
  /\ worker \in [Clients -> WorkerPCs]
  /\ held \in [Clients -> Seq(Nat)]
  /\ target \in [Clients -> Nat]
  /\ window \in Nat /\ windows \in Nat
  /\ count \in [Clients -> Nat]
  /\ received \in [Clients -> Seq(Nat)]

\* The worker never takes from an empty queue, although it reads empty()
\* without the mutex (front() of an empty std::queue is undefined).
PopFindsMessage == \A c \in Clients : worker[c] = "pop" => queue[c] # <<>>

\* The worker holds a message exactly between pop() and SendMessage's return.
HeldWhileSending == \A c \in Clients : held[c] # <<>> <=> worker[c] = "send"

\* No lost wakeup: a message is in the queue only while the event is signalled,
\* its hook is about to signal, the worker is on its way to the queue, or the
\* library is being detached.
NoLostWakeup ==
  \A c \in Clients :
    queue[c] # <<>> =>
      \/ event \/ pushed[c] # {}
      \/ worker[c] \in {"awake", "check", "pop", "send"}
      \/ detach[c] # "no"

\* What the library promises (module MessageLink), of which a message between
\* pop() and SendMessage is still pending.
Link == INSTANCE MessageLink WITH pending <- [c \in Clients |-> held[c] \o queue[c]]

DeliversInOrder == Link!SafeSpec

\* Every message leaves the queue, for the window or because there is none
\* ("dispatches queued message blocks to the AOIA application").
Queued(c, n) == \E i \in 1..Len(queue[c]) : queue[c][i] = n

EveryMessageLeaves ==
  \A c \in Clients, n \in 1..MaxMsgs :
    Queued(c, n) ~> (~Queued(c, n) \/ detach[c] # "no")
=============================================================================
