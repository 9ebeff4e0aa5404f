-------------------------- MODULE HookQueue_proofs --------------------------
(***************************************************************************)
(* Proofs about HookQueue, and about HookFilter, which wraps it, for any   *)
(* registry and any number of clients, hook threads, messages and windows. *)
(*                                                                         *)
(* HookInv relates the worker's program counter to what it holds and to    *)
(* the queue: only the worker takes from the queue, so what it saw at      *)
(* "check" is still there at "pop", and it holds one message from "pop"    *)
(* until it has sent it.  From it follow that a pop finds a message and    *)
(* that every step is one of MessageLink's, or none.                       *)
(***************************************************************************)
EXTENDS HookFilter, SequenceTheorems, TLAPS

WorkerOK(c) ==
  /\ worker[c] = "pop" => queue[c] # <<>>
  /\ worker[c] = "send" => \E n \in Nat : held[c] = <<n>>
  /\ worker[c] # "send" => held[c] = <<>>
  /\ handle[c] # "open" => detach[c] # "no"

HookInv == TypeOK /\ \A c \in Clients : WorkerOK(c)

-----------------------------------------------------------------------------
\* Sequences of numbers: what the queue and a held message do when the worker
\* pops and when it sends.

LEMMA ConcatAppend ==
  ASSUME NEW h \in Seq(Nat), NEW q \in Seq(Nat), NEW n \in Nat
  PROVE  h \o Append(q, n) = Append(h \o q, n)
<1>1. Append(q, n) = q \o <<n>> /\ <<n>> \in Seq(Nat)
  BY AppendIsConcat
<1>2. h \o q \in Seq(Nat) /\ (h \o q) \o <<n>> = h \o (q \o <<n>>)
  BY <1>1, ConcatProperties, ConcatAssociative
<1> QED BY <1>1, <1>2, AppendIsConcat

LEMMA HeadConcatTail ==
  ASSUME NEW q \in Seq(Nat), q # <<>>
  PROVE  /\ Head(q) \in Nat /\ Tail(q) \in Seq(Nat)
         /\ <<Head(q)>> \o Tail(q) = q
<1> DEFINE s == <<Head(q)>> \o Tail(q)
<1>1. /\ Head(q) \in Nat /\ Head(q) = q[1] /\ Tail(q) \in Seq(Nat)
      /\ Len(q) \in Nat \ {0} /\ Len(Tail(q)) = Len(q) - 1
      /\ \A i \in 1..Len(Tail(q)) : Tail(q)[i] = q[i + 1]
  BY HeadTailProperties, EmptySeq
<1>2. <<Head(q)>> \in Seq(Nat) /\ Len(<<Head(q)>>) = 1 /\ <<Head(q)>>[1] = Head(q)
  BY <1>1
<1>3. /\ s \in Seq(Nat) /\ Len(s) = 1 + Len(Tail(q))
      /\ \A i \in 1..1 + Len(Tail(q)) :
           s[i] = IF i <= 1 THEN <<Head(q)>>[i] ELSE Tail(q)[i - 1]
  BY <1>1, <1>2, ConcatProperties
<1> HIDE DEF s
<1>4. ASSUME NEW i \in 1..Len(s) PROVE s[i] = q[i]
  BY <1>1, <1>2, <1>3
<1>5. s = q
  BY <1>1, <1>3, <1>4, SeqEqual
<1> QED BY <1>1, <1>5 DEF s

LEMMA ConcatHeadTail ==
  ASSUME NEW q \in Seq(Nat), NEW n \in Nat
  PROVE  /\ <<n>> \o q # <<>>
         /\ Head(<<n>> \o q) = n
         /\ Tail(<<n>> \o q) = q
<1> DEFINE s == <<n>> \o q
<1>1. <<n>> \in Seq(Nat) /\ Len(<<n>>) = 1 /\ <<n>>[1] = n
  OBVIOUS
<1>2. /\ s \in Seq(Nat) /\ Len(s) = 1 + Len(q)
      /\ \A i \in 1..1 + Len(q) : s[i] = IF i <= 1 THEN <<n>>[i] ELSE q[i - 1]
  BY <1>1, ConcatProperties
<1>3. Len(q) \in Nat
  BY LenProperties
<1> HIDE DEF s
<1>4. s # <<>>
  BY <1>2, <1>3, EmptySeq
<1>5. Head(s) = n
  BY <1>1, <1>2, <1>3, <1>4
<1>6. /\ Tail(s) \in Seq(Nat) /\ Len(Tail(s)) = Len(s) - 1
      /\ \A i \in 1..Len(Tail(s)) : Tail(s)[i] = s[i + 1]
  BY <1>2, <1>4, HeadTailProperties
<1>7. ASSUME NEW i \in 1..Len(Tail(s)) PROVE Tail(s)[i] = q[i]
  BY <1>2, <1>3, <1>6
<1>8. Tail(s) = q
  BY <1>2, <1>3, <1>6, <1>7, SeqEqual
<1> QED BY <1>4, <1>5, <1>8 DEF s

-----------------------------------------------------------------------------
\* Every step keeps HookInv.  A client's step changes nothing of another's.

LEMMA InitHookInv == Init => HookInv
<1>1. <<>> \in Seq(Nat)
  BY EmptySeq
<1>2. ASSUME Init PROVE TypeOK
  BY <1>1, <1>2 DEF Init, TypeOK, WorkerPCs
<1>3. ASSUME Init, NEW c \in Clients PROVE WorkerOK(c)
  BY <1>3 DEF Init, WorkerOK
<1> QED BY <1>2, <1>3 DEF HookInv

LEMMA PushHookInv ==
  ASSUME HookInv, NEW c \in Clients, NEW h \in Hooks, Push(c, h)
  PROVE  HookInv'
<1>1. queue[c] \in Seq(Nat) /\ count[c] \in Nat
  BY DEF HookInv, TypeOK
<1>2. /\ Append(queue[c], count[c] + 1) \in Seq(Nat)
      /\ Append(queue[c], count[c] + 1) # <<>>
  BY <1>1, AppendProperties
<1>3. TypeOK'
  BY <1>1, <1>2 DEF HookInv, TypeOK, Push
<1>4. ASSUME NEW d \in Clients PROVE WorkerOK(d)'
  BY <1>2 DEF HookInv, TypeOK, WorkerOK, Push
<1> QED BY <1>3, <1>4 DEF HookInv

LEMMA PopHookInv ==
  ASSUME HookInv, NEW c \in Clients, Pop(c)
  PROVE  HookInv'
<1>1. /\ queue[c] \in Seq(Nat) /\ queue[c] # <<>> /\ worker[c] = "pop"
      /\ target[c] \in Nat
  BY DEF HookInv, TypeOK, WorkerOK, Pop
<1>2. /\ Head(queue[c]) \in Nat /\ Tail(queue[c]) \in Seq(Nat)
      /\ <<Head(queue[c])>> \in Seq(Nat) /\ <<>> \in Seq(Nat)
  BY <1>1, HeadConcatTail, EmptySeq
<1>3. TypeOK'
  BY <1>1, <1>2 DEF HookInv, TypeOK, WorkerPCs, Pop, Goto
<1>4. ASSUME NEW d \in Clients PROVE WorkerOK(d)'
  BY <1>1, <1>2 DEF HookInv, TypeOK, WorkerOK, WorkerPCs, Pop, Goto
<1> QED BY <1>3, <1>4 DEF HookInv

LEMMA SendHookInv ==
  ASSUME HookInv, NEW c \in Clients, Send(c)
  PROVE  HookInv'
<1>1. received[c] \o held[c] \in Seq(Nat) /\ <<>> \in Seq(Nat)
  BY ConcatProperties, EmptySeq DEF HookInv, TypeOK
<1>2. TypeOK'
  BY <1>1 DEF HookInv, TypeOK, WorkerPCs, Send, Goto
<1>3. ASSUME NEW d \in Clients PROVE WorkerOK(d)'
  BY DEF HookInv, TypeOK, WorkerOK, WorkerPCs, Send, Goto
<1> QED BY <1>2, <1>3 DEF HookInv

\* The steps that leave queue, held, count and received alone.
QuietStep(c) ==
  \/ \E h \in Hooks : Signal(c, h)
  \/ Enter(c) \/ Wake(c) \/ FindTarget(c) \/ Check(c)
  \/ EndSignals(c) \/ EndCloses(c) \/ EndForgets(c)

LEMMA QuietHookInv ==
  ASSUME HookInv, NEW c \in Clients, QuietStep(c)
  PROVE  HookInv' /\ UNCHANGED links
<1>1. CASE \E h \in Hooks : Signal(c, h)
  BY <1>1 DEF HookInv, TypeOK, WorkerOK, Signal, links
<1>2. CASE Enter(c)
  BY <1>2 DEF HookInv, TypeOK, WorkerOK, WorkerPCs, Enter, Goto, links
<1>3. CASE Wake(c)
  BY <1>3 DEF HookInv, TypeOK, WorkerOK, WorkerPCs, Wake, Goto, links
<1>4. CASE FindTarget(c)
  BY <1>4 DEF HookInv, TypeOK, WorkerOK, WorkerPCs, FindTarget, Goto, links
<1>5. CASE Check(c)
  BY <1>5 DEF HookInv, TypeOK, WorkerOK, WorkerPCs, Check, Goto, links
<1>6. CASE EndSignals(c)
  BY <1>6 DEF HookInv, TypeOK, WorkerOK, EndSignals, links
<1>7. CASE EndCloses(c)
  BY <1>7 DEF HookInv, TypeOK, WorkerOK, EndCloses, links
<1>8. CASE EndForgets(c)
  BY <1>8 DEF HookInv, TypeOK, WorkerOK, EndForgets, links
<1> QED
  BY <1>1, <1>2, <1>3, <1>4, <1>5, <1>6, <1>7, <1>8 DEF QuietStep

LEMMA WindowHookInv ==
  ASSUME HookInv, WindowOpens \/ WindowCloses
  PROVE  HookInv' /\ UNCHANGED links
<1>1. CASE WindowOpens
  BY <1>1 DEF HookInv, TypeOK, WorkerOK, WindowOpens, links
<1>2. CASE WindowCloses
  BY <1>2 DEF HookInv, TypeOK, WorkerOK, WindowCloses, links
<1> QED BY <1>1, <1>2

LEMMA StepCases ==
  ASSUME Next
  PROVE  \/ \E c \in Clients, h \in Hooks : Push(c, h)
         \/ \E c \in Clients : Pop(c) \/ Send(c) \/ QuietStep(c)
         \/ WindowOpens \/ WindowCloses
BY DEF Next, WorkerStep, EndStep, QuietStep

LEMMA NextHookInv == HookInv /\ [Next]_vars => HookInv'
<1>1. ASSUME HookInv, Next PROVE HookInv'
  BY <1>1, StepCases, PushHookInv, PopHookInv, SendHookInv, QuietHookInv,
     WindowHookInv
<1>2. ASSUME HookInv, UNCHANGED vars PROVE HookInv'
  BY <1>2 DEF vars, links, HookInv, TypeOK, WorkerOK
<1> QED BY <1>1, <1>2

LEMMA HookInvariance == SafeSpec => []HookInv
BY InitHookInv, NextHookInv, PTL DEF SafeSpec

-----------------------------------------------------------------------------
\* The variables keep their types, whatever the threads' interleaving.
THEOREM HookTypes == SafeSpec => []TypeOK
<1>1. HookInv => TypeOK
  BY DEF HookInv
<1> QED BY <1>1, HookInvariance, PTL

\* The worker never takes from an empty queue: between empty() and pop() only
\* push() can intervene, and it only adds.
THEOREM PopsAreSafe == SafeSpec => []PopFindsMessage
<1>1. HookInv => PopFindsMessage
  BY DEF HookInv, WorkerOK, PopFindsMessage
<1> QED BY <1>1, HookInvariance, PTL

-----------------------------------------------------------------------------
\* No lost wakeup, for a single client (with two, the worker of one takes the
\* signal that was meant for the other).

WakeupInv == HookInv /\ NoLostWakeup

LEMMA NextWakeup ==
  ASSUME \A a, b \in Clients : a = b, WakeupInv, [Next]_vars
  PROVE  WakeupInv'
<1>1. HookInv'
  BY NextHookInv DEF WakeupInv
<1>2. SUFFICES ASSUME NEW c \in Clients
               PROVE  (queue[c] # <<>> =>
                         \/ event \/ pushed[c] # {}
                         \/ worker[c] \in {"awake", "check", "pop", "send"}
                         \/ detach[c] # "no")'
  BY <1>1 DEF WakeupInv, NoLostWakeup
<1>3. /\ HookInv /\ TypeOK /\ WorkerOK(c)
      /\ queue[c] # <<>> =>
           \/ event \/ pushed[c] # {}
           \/ worker[c] \in {"awake", "check", "pop", "send"}
           \/ detach[c] # "no"
  BY DEF WakeupInv, HookInv, NoLostWakeup
<1>4. CASE \E d \in Clients, h \in Hooks : Push(d, h) \/ Signal(d, h)
  <2>1. PICK d \in Clients, h \in Hooks : Push(d, h) \/ Signal(d, h)
    BY <1>4
  <2>2. d = c
    OBVIOUS
  <2>3. CASE Push(c, h)
    <3>1. pushed'[c] # {}
      BY <1>3, <2>3 DEF Push, TypeOK
    <3> QED BY <3>1
  <2>4. CASE Signal(c, h)
    <3>1. CASE handle[c] = "open"
      BY <2>4, <3>1 DEF Signal
    <3>2. CASE handle[c] # "open"
      BY <1>3, <2>4, <3>2 DEF Signal, WorkerOK
    <3> QED BY <3>1, <3>2
  <2> QED BY <2>1, <2>2, <2>3, <2>4
<1>5. CASE \E d \in Clients : Enter(d) \/ Wake(d) \/ FindTarget(d) \/ Check(d)
  <2>1. PICK d \in Clients : Enter(d) \/ Wake(d) \/ FindTarget(d) \/ Check(d)
    BY <1>5
  <2>2. d = c
    OBVIOUS
  <2>3. CASE Enter(c)
    BY <1>3, <2>3 DEF Enter, Goto, links, TypeOK, WorkerOK
  <2>4. CASE Wake(c)
    BY <1>3, <2>4 DEF Wake, Goto, links, TypeOK, WorkerOK
  <2>5. CASE FindTarget(c)
    BY <1>3, <2>5 DEF FindTarget, Goto, links, TypeOK, WorkerOK
  <2>6. CASE Check(c)
    BY <1>3, <2>6 DEF Check, Goto, links, TypeOK, WorkerOK
  <2> QED BY <2>1, <2>2, <2>3, <2>4, <2>5, <2>6
<1>6. CASE \E d \in Clients : Pop(d) \/ Send(d)
  <2>1. PICK d \in Clients : Pop(d) \/ Send(d)
    BY <1>6
  <2>2. d = c
    OBVIOUS
  <2> QED BY <1>3, <2>1, <2>2 DEF Pop, Send, Goto, TypeOK, WorkerOK
<1>7. CASE \E d \in Clients : EndSignals(d) \/ EndCloses(d) \/ EndForgets(d)
  BY <1>3, <1>7 DEF EndSignals, EndCloses, EndForgets, links, TypeOK, WorkerOK
<1>8. CASE WindowOpens \/ WindowCloses
  BY <1>3, <1>8 DEF WindowOpens, WindowCloses, links
<1>9. CASE UNCHANGED vars
  BY <1>3, <1>9 DEF vars, links
<1> QED
  BY <1>4, <1>5, <1>6, <1>7, <1>8, <1>9 DEF Next, WorkerStep, EndStep

\* A message is never left in the queue with nobody on the way to it: signal
\* and wait cannot miss each other, however the hooks and the worker interleave.
THEOREM WakeupsAreKept ==
  ASSUME \A a, b \in Clients : a = b
  PROVE  SafeSpec => []NoLostWakeup
<1>1. Init => WakeupInv
  BY InitHookInv DEF Init, WakeupInv, NoLostWakeup
<1>2. WakeupInv /\ [Next]_vars => WakeupInv'
  BY NextWakeup
<1>3. WakeupInv => NoLostWakeup
  BY DEF WakeupInv
<1> QED BY <1>1, <1>2, <1>3, PTL DEF SafeSpec

-----------------------------------------------------------------------------
\* Refinement of MessageLink: push accepts a message, a pop without a target
\* loses one, and a send delivers or loses the one that was popped.

LEMMA InitLink == Init => Link!Init
<1>1. <<>> \o <<>> = <<>>
  BY EmptySeq, ConcatEmptySeq
<1> QED BY <1>1 DEF Init, Link!Init

LEMMA PushLink ==
  ASSUME HookInv, NEW c \in Clients, NEW h \in Hooks, Push(c, h)
  PROVE  Link!Accept(c)
<1> DEFINE p == [d \in Clients |-> held[d] \o queue[d]]
<1>1. /\ held[c] \in Seq(Nat) /\ queue[c] \in Seq(Nat) /\ count[c] + 1 \in Nat
      /\ held' = held
      /\ queue' = [queue EXCEPT ![c] = Append(queue[c], count[c] + 1)]
      /\ \A d \in Clients :
           queue'[d] = IF d = c THEN Append(queue[c], count[c] + 1) ELSE queue[d]
  BY DEF HookInv, TypeOK, Push
<1>2. held[c] \o Append(queue[c], count[c] + 1)
        = Append(held[c] \o queue[c], count[c] + 1)
  BY <1>1, ConcatAppend
<1>3. p[c] = held[c] \o queue[c] /\ p = [d \in Clients |-> p[d]]
  OBVIOUS
<1>4. ASSUME NEW d \in Clients
      PROVE  (held[d] \o queue[d])' =
               IF d = c THEN Append(p[c], count[c] + 1) ELSE p[d]
  BY <1>1, <1>2, <1>3
<1>5. p' = [p EXCEPT ![c] = Append(p[c], count[c] + 1)]
  BY <1>4
<1> QED BY <1>5 DEF Push, Link!Accept

LEMMA PopLink ==
  ASSUME HookInv, NEW c \in Clients, Pop(c)
  PROVE  Link!Lose(c) \/ UNCHANGED Link!vars
<1> DEFINE p == [d \in Clients |-> held[d] \o queue[d]]
<1>1. /\ queue[c] \in Seq(Nat) /\ queue[c] # <<>> /\ held[c] = <<>>
      /\ UNCHANGED <<count, received>>
      /\ \A d \in Clients :
           /\ queue'[d] = IF d = c THEN Tail(queue[c]) ELSE queue[d]
           /\ held'[d] = IF d = c
                         THEN IF target[c] = 0 THEN <<>> ELSE <<Head(queue[c])>>
                         ELSE held[d]
  BY DEF HookInv, TypeOK, WorkerOK, Pop
<1>2. /\ Tail(queue[c]) \in Seq(Nat)
      /\ <<>> \o queue[c] = queue[c] /\ <<>> \o Tail(queue[c]) = Tail(queue[c])
      /\ <<Head(queue[c])>> \o Tail(queue[c]) = queue[c]
  BY <1>1, HeadConcatTail, ConcatEmptySeq
<1>3. CASE target[c] = 0
  <2>1. p[c] = queue[c] /\ p' = [p EXCEPT ![c] = Tail(p[c])]
    BY <1>1, <1>2, <1>3
  <2> QED BY <1>1, <2>1 DEF Link!Lose
<1>4. CASE target[c] # 0
  <2>1. p' = p
    BY <1>1, <1>2, <1>4
  <2> QED BY <1>1, <2>1 DEF Link!vars
<1> QED BY <1>3, <1>4

LEMMA SendLink ==
  ASSUME HookInv, NEW c \in Clients, Send(c)
  PROVE  Link!Deliver(c) \/ Link!Lose(c)
<1> DEFINE p == [d \in Clients |-> held[d] \o queue[d]]
<1>1. PICK n \in Nat : held[c] = <<n>>
  BY DEF HookInv, WorkerOK, Send
<1>2. /\ queue[c] \in Seq(Nat) /\ received[c] \in Seq(Nat)
      /\ queue' = queue /\ count' = count
      /\ \A d \in Clients : held'[d] = IF d = c THEN <<>> ELSE held[d]
  BY DEF HookInv, TypeOK, Send
<1>3. p[c] = <<n>> \o queue[c]
  BY <1>1
<1>4. /\ p[c] # <<>> /\ Head(p[c]) = n /\ Tail(p[c]) = queue[c]
      /\ <<>> \o queue[c] = queue[c]
      /\ received[c] \o <<n>> = Append(received[c], n)
  <2>1. <<>> \o queue[c] = queue[c]
    BY <1>2, ConcatEmptySeq
  <2>2. received[c] \o <<n>> = Append(received[c], n)
    BY <1>2, AppendIsConcat
  <2>3. /\ <<n>> \o queue[c] # <<>>
        /\ Head(<<n>> \o queue[c]) = n /\ Tail(<<n>> \o queue[c]) = queue[c]
    BY <1>2, ConcatHeadTail
  <2> HIDE DEF p
  <2> QED BY <1>3, <2>1, <2>2, <2>3
<1>5. p' = [p EXCEPT ![c] = Tail(p[c])]
  BY <1>2, <1>4
<1>6. CASE target[c] = window
  <2>1. received' = [received EXCEPT ![c] = Append(received[c], Head(p[c]))]
    BY <1>1, <1>4, <1>6 DEF Send
  <2> QED BY <1>2, <1>4, <1>5, <2>1 DEF Link!Deliver
<1>7. CASE target[c] # window
  <2>1. received' = received
    BY <1>7 DEF Send
  <2> QED BY <1>2, <1>4, <1>5, <2>1 DEF Link!Lose
<1> QED BY <1>6, <1>7

LEMMA NextLink == HookInv /\ [Next]_vars => [Link!Next]_Link!vars
<1>1. ASSUME UNCHANGED links PROVE UNCHANGED Link!vars
  BY <1>1 DEF links, Link!vars
<1>2. ASSUME HookInv, NEW c \in Clients, Pop(c) \/ Send(c) \/ QuietStep(c)
      PROVE  [Link!Next]_Link!vars
  BY <1>1, <1>2, PopLink, SendLink, QuietHookInv DEF Link!Next
<1>3. ASSUME HookInv, NEW c \in Clients, NEW h \in Hooks, Push(c, h)
      PROVE  [Link!Next]_Link!vars
  BY <1>3, PushLink DEF Link!Next
<1>4. ASSUME HookInv, WindowOpens \/ WindowCloses PROVE [Link!Next]_Link!vars
  BY <1>1, <1>4, WindowHookInv
<1>5. ASSUME UNCHANGED vars PROVE UNCHANGED Link!vars
  BY <1>5 DEF vars, Link!vars
<1> QED BY <1>2, <1>3, <1>4, <1>5, StepCases

\* The library implements the link: the window gets each client's messages in
\* the order they were handled, each at most once.
THEOREM HookImplementsLink == SafeSpec => DeliversInOrder
BY InitLink, NextLink, HookInvariance, PTL DEF SafeSpec, DeliversInOrder, Link!SafeSpec

LinkProof ==
  INSTANCE MessageLink_proofs WITH pending <- [c \in Clients |-> held[c] \o queue[c]]

\* Hence the order itself, by what MessageLink_proofs shows of the link: the
\* window has every client's messages in the order they were handled, none twice.
THEOREM WindowSeesOrder == SafeSpec => []Link!InOrder
<1>1. LinkProof!SafeSpec => []LinkProof!InOrder
  BY LinkProof!LinkKeepsOrder
<1>2. Link!Init => LinkProof!Init
  BY DEF LinkProof!Init, Link!Init
<1>3. [Link!Next]_Link!vars => [LinkProof!Next]_LinkProof!vars
  BY DEF LinkProof!Next, Link!Next, LinkProof!vars, Link!vars, LinkProof!Accept,
         Link!Accept, LinkProof!Lose, Link!Lose, LinkProof!Deliver, Link!Deliver
<1>4. LinkProof!InOrder => Link!InOrder
  BY DEF LinkProof!InOrder, Link!InOrder, LinkProof!Increasing, Link!Increasing
<1> QED
  BY <1>1, <1>2, <1>3, <1>4, HookImplementsLink, PTL
     DEF DeliversInOrder, Link!SafeSpec, LinkProof!SafeSpec

-----------------------------------------------------------------------------
(***************************************************************************)
(* HookFilter.  The filter is no more than a choice of the messages that   *)
(* HookQueue pushes, so what is proved of HookQueue holds with it.         *)
(* FilterInv relates what was withheld to the filter and to the registry:  *)
(* the filter that withheld something has an id and keeps it.              *)
(***************************************************************************)
FilterOK(c) ==
  /\ withheld[c] \cap (filter[c] \cup Listed) = {}
  /\ withheld[c] # {} => filter[c] # {}

FilterTypes ==
  /\ filter \in [Clients -> SUBSET Ids]
  /\ withheld \in [Clients -> SUBSET Ids]
  /\ registry \in Registries

FilterInv == FilterTypes /\ \A c \in Clients : FilterOK(c)

-----------------------------------------------------------------------------
\* Every step is one of HookQueue's, or changes the filter only.
LEMMA StepRefines == [FilterNext]_fvars => [Next]_vars
<1>1. ASSUME NEW c \in Clients, NEW h \in Hooks, NEW id \in Ids, Incoming(c, h, id)
      PROVE  Push(c, h) \/ UNCHANGED vars
  BY <1>1 DEF Incoming
<1>2. ASSUME NEW c \in Clients, NEW h \in Hooks, Outgoing(c, h)
      PROVE  Push(c, h)
  BY <1>2 DEF Outgoing
<1>3. ASSUME Rest PROVE Next
  BY <1>3 DEF Rest, Next
<1>4. ASSUME NEW c \in Clients, NEW h \in Hooks, Push(c, h) PROVE Next
  BY <1>4 DEF Next
<1>5. ASSUME EditRegistry PROVE UNCHANGED vars
  BY <1>5 DEF EditRegistry
<1>6. ASSUME UNCHANGED fvars PROVE UNCHANGED vars
  BY <1>6 DEF fvars
<1> QED BY <1>1, <1>2, <1>3, <1>4, <1>5, <1>6 DEF FilterNext

\* The library with its filter is HookQueue: what is proved of the queue, the
\* worker and the order of the messages does not depend on which are withheld.
THEOREM FilterImplementsHook == FilterSafeSpec => SafeSpec
<1>1. FilterInit => Init
  BY DEF FilterInit
<1> QED BY <1>1, StepRefines, PTL DEF FilterSafeSpec, SafeSpec

\* So the messages that pass arrive in order, none twice.
THEOREM FilteredInOrder == FilterSafeSpec => DeliversInOrder
BY FilterImplementsHook, HookImplementsLink

-----------------------------------------------------------------------------
LEMMA ReadIsListed == Read \subseteq Listed
BY DEF Read, Listed

\* What a load leaves in the filter: all that was there and ids that are listed.
LEMMA LoadAdds ==
  ASSUME NEW c, NEW f \in {filter[c]} \cup LoadMessageFilter(c)
  PROVE  filter[c] \subseteq f /\ f \subseteq filter[c] \cup Listed
BY ReadIsListed DEF LoadMessageFilter

LEMMA RegistryTypes ==
  ASSUME registry \in Registries
  PROVE  Listed \subseteq Ids
<1>1. PICK n \in 0..Cardinality(Ids) : registry \in [1..n -> Ids]
  BY DEF Registries
<1> QED BY <1>1 DEF Listed

LEMMA IncomingFilterInv ==
  ASSUME FilterInv, NEW c \in Clients, NEW h \in Hooks, NEW id \in Ids,
         Incoming(c, h, id)
  PROVE  FilterInv'
<1>1. /\ Listed' = Listed /\ registry' = registry
      /\ \A d \in Clients : d # c => filter'[d] = filter[d] /\ withheld'[d] = withheld[d]
  BY DEF Incoming, FilterInv, FilterTypes, Listed
<1>2. PICK f \in {filter[c]} \cup LoadMessageFilter(c) :
        /\ filter' = [filter EXCEPT ![c] = f]
        /\ \/ Passes(f, id) /\ UNCHANGED withheld
           \/ ~Passes(f, id) /\ withheld' = [withheld EXCEPT ![c] = @ \cup ({id} \ Listed)]
  BY DEF Incoming
<1>3. /\ f \subseteq Ids /\ filter[c] \subseteq f /\ f \subseteq filter[c] \cup Listed
  BY LoadAdds, RegistryTypes DEF FilterInv, FilterTypes
<1>4. FilterTypes'
  BY <1>1, <1>2, <1>3 DEF FilterInv, FilterTypes
<1>5. filter'[c] = f
  BY <1>2 DEF FilterInv, FilterTypes
<1>6. \/ withheld'[c] = withheld[c]
      \/ f # {} /\ id \notin f /\ withheld'[c] = withheld[c] \cup ({id} \ Listed)
  BY <1>2 DEF FilterInv, FilterTypes, Passes
<1>7. FilterOK(c)'
  BY <1>1, <1>3, <1>5, <1>6 DEF FilterInv, FilterOK
<1>8. ASSUME NEW d \in Clients, d # c PROVE FilterOK(d)'
  BY <1>1, <1>8 DEF FilterInv, FilterOK
<1> QED BY <1>4, <1>7, <1>8 DEF FilterInv

LEMMA EditFilterInv ==
  ASSUME FilterInv, EditRegistry
  PROVE  FilterInv'
<1>1. /\ filter' = filter /\ registry' \in Registries
      /\ withheld' = [c \in Clients |-> withheld[c] \ Listed']
  BY DEF EditRegistry
<1>2. FilterTypes'
  BY <1>1 DEF FilterInv, FilterTypes
<1>3. ASSUME NEW c \in Clients PROVE FilterOK(c)'
  BY <1>1 DEF FilterInv, FilterOK
<1> QED BY <1>2, <1>3 DEF FilterInv

LEMMA QuietFilterInv == FilterInv /\ UNCHANGED filterVars => FilterInv'
BY DEF FilterInv, FilterTypes, FilterOK, filterVars, Listed

LEMMA NextFilterInv == FilterInv /\ [FilterNext]_fvars => FilterInv'
<1>1. ASSUME FilterInv, NEW c \in Clients, NEW h \in Hooks, NEW id \in Ids,
             Incoming(c, h, id)
      PROVE  FilterInv'
  BY <1>1, IncomingFilterInv
<1>2. ASSUME NEW c \in Clients, NEW h \in Hooks, Outgoing(c, h)
      PROVE  UNCHANGED filterVars
  BY <1>2 DEF Outgoing
<1>3. ASSUME FilterInv, EditRegistry PROVE FilterInv'
  BY <1>3, EditFilterInv
<1>4. ASSUME UNCHANGED fvars PROVE UNCHANGED filterVars
  BY <1>4 DEF fvars
<1> QED BY <1>1, <1>2, <1>3, <1>4, QuietFilterInv DEF FilterNext

LEMMA InitFilterInv == FilterInit => FilterInv
BY DEF FilterInit, FilterInv, FilterTypes, FilterOK

LEMMA FilterInvariance == FilterSafeSpec => []FilterInv
BY InitFilterInv, NextFilterInv, PTL DEF FilterSafeSpec

\* A filter that withheld an id has another one for ever, so it is never taken
\* for the empty filter that lets everything pass.
THEOREM WithheldUntilListedHolds == FilterSafeSpec => WithheldUntilListed
<1> DEFINE Kept == \A c \in Clients, h \in Hooks, id \in Ids :
                     Incoming(c, h, id) /\ count' # count => id \notin withheld[c]
<1>1. ASSUME FilterInv, NEW c \in Clients, NEW h \in Hooks, NEW id \in Ids,
             Incoming(c, h, id), count' # count
      PROVE  id \notin withheld[c]
  <2>1. PICK f \in {filter[c]} \cup LoadMessageFilter(c) :
          IF Passes(f, id) THEN Push(c, h) /\ UNCHANGED withheld ELSE UNCHANGED vars
    BY <1>1 DEF Incoming
  <2>2. f = {} \/ id \in f
    BY <1>1, <2>1 DEF Passes, vars
  <2>3. filter[c] \subseteq f /\ f \subseteq filter[c] \cup Listed
    BY LoadAdds
  <2> QED BY <1>1, <2>2, <2>3 DEF FilterInv, FilterOK
<1>2. FilterInv /\ [FilterNext]_fvars => [Kept]_fvars
  BY <1>1
<1> QED BY <1>2, FilterInvariance, PTL DEF FilterSafeSpec, WithheldUntilListed
=============================================================================
