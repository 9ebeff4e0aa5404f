------------------------- MODULE MessageLink_proofs -------------------------
(***************************************************************************)
(* The link delivers in order: whatever is lost, the numbers a window has  *)
(* received increase and lie below all that are still pending, which are   *)
(* consecutive and end at the last number handed over.                     *)
(***************************************************************************)
EXTENDS MessageLink, SequenceTheorems, TLAPS

LinkTypes ==
  /\ count \in [Clients -> Nat]
  /\ pending \in [Clients -> Seq(Nat)]
  /\ received \in [Clients -> Seq(Nat)]

\* A client's n messages so far, those pending (p) and those received (r).
First(n, p) == n + 1 - Len(p)

Numbered(n, p, r) ==
  /\ First(n, p) \in Nat
  /\ \A i \in 1..Len(p) : p[i] = First(n, p) + i - 1
  /\ \A i \in 1..Len(r) : r[i] < First(n, p)
  /\ Increasing(r)

LinkInv ==
  /\ LinkTypes
  /\ \A c \in Clients : Numbered(count[c], pending[c], received[c])

-----------------------------------------------------------------------------
LEMMA AppendFacts ==
  ASSUME NEW s \in Seq(Nat), NEW n \in Nat
  PROVE  /\ Append(s, n) \in Seq(Nat)
         /\ Len(Append(s, n)) = Len(s) + 1
         /\ \A i \in 1..Len(s) + 1 : Append(s, n)[i] = IF i <= Len(s) THEN s[i] ELSE n
OBVIOUS

LEMMA TailFacts ==
  ASSUME NEW s \in Seq(Nat), s # <<>>
  PROVE  /\ Head(s) \in Nat /\ Head(s) = s[1]
         /\ Tail(s) \in Seq(Nat)
         /\ Len(s) \in Nat \ {0}
         /\ Len(Tail(s)) = Len(s) - 1
         /\ \A i \in 1..Len(s) - 1 : Tail(s)[i] = s[i + 1]
BY HeadTailProperties, EmptySeq

\* Appending a number above all others keeps a sequence increasing.
LEMMA AppendIncreasing ==
  ASSUME NEW s \in Seq(Nat), NEW n \in Nat, Increasing(s),
         \A i \in 1..Len(s) : s[i] < n
  PROVE  Increasing(Append(s, n))
<1>1. SUFFICES ASSUME NEW i \in 1..Len(s) + 1, NEW j \in 1..Len(s) + 1, i < j
               PROVE  Append(s, n)[i] < Append(s, n)[j]
  BY AppendFacts DEF Increasing
<1>2. i \in 1..Len(s) /\ Append(s, n)[i] = s[i]
  BY <1>1, AppendFacts, LenProperties
<1>3. CASE j = Len(s) + 1
  BY <1>2, <1>3, AppendFacts, LenProperties
<1>4. CASE j # Len(s) + 1
  BY <1>1, <1>2, <1>4, AppendFacts, LenProperties DEF Increasing
<1> QED BY <1>3, <1>4

\* The three ways a client's messages change keep them numbered.
LEMMA NumberedAccept ==
  ASSUME NEW n \in Nat, NEW p \in Seq(Nat), NEW r \in Seq(Nat), Numbered(n, p, r)
  PROVE  Numbered(n + 1, Append(p, n + 1), r)
<1> DEFINE q == Append(p, n + 1)
<1>1. /\ Len(p) \in Nat /\ Len(q) = Len(p) + 1
      /\ \A i \in 1..Len(p) + 1 : q[i] = IF i <= Len(p) THEN p[i] ELSE n + 1
  BY AppendFacts, LenProperties
<1>2. First(n + 1, q) = First(n, p)
  BY <1>1 DEF First
<1>3. /\ First(n, p) \in Nat /\ Increasing(r)
      /\ \A i \in 1..Len(p) : p[i] = First(n, p) + i - 1
      /\ \A i \in 1..Len(r) : r[i] < First(n, p)
  BY DEF Numbered
<1> HIDE DEF q
<1>4. ASSUME NEW i \in 1..Len(q) PROVE q[i] = First(n, p) + i - 1
  <2>1. CASE i = Len(p) + 1
    BY <1>1, <2>1 DEF First
  <2>2. CASE i \in 1..Len(p)
    <3>1. q[i] = p[i]
      BY <1>1, <2>2
    <3>2. p[i] = First(n, p) + i - 1
      BY <1>3, <2>2
    <3> QED BY <3>1, <3>2
  <2> QED BY <1>1, <2>1, <2>2
<1>5. Numbered(n + 1, q, r)
  BY <1>3, <1>2, <1>4 DEF Numbered
<1> QED BY <1>5 DEF q

LEMMA NumberedTail ==
  ASSUME NEW n \in Nat, NEW p \in Seq(Nat), NEW r \in Seq(Nat), Numbered(n, p, r),
         p # <<>>
  PROVE  /\ First(n, Tail(p)) = First(n, p) + 1
         /\ Head(p) = First(n, p)
         /\ \A i \in 1..Len(Tail(p)) : Tail(p)[i] = First(n, Tail(p)) + i - 1
         /\ \A i \in 1..Len(r) : r[i] \in Nat /\ r[i] < First(n, p)
<1>1. /\ Head(p) = p[1] /\ Len(p) \in Nat \ {0} /\ Len(Tail(p)) = Len(p) - 1
      /\ \A i \in 1..Len(p) - 1 : Tail(p)[i] = p[i + 1]
  BY TailFacts
<1>2. First(n, p) \in Nat /\ \A i \in 1..Len(p) : p[i] = First(n, p) + i - 1
  BY DEF Numbered
<1>3. First(n, Tail(p)) = First(n, p) + 1
  BY <1>1 DEF First
<1>4. Head(p) = First(n, p)
  BY <1>1, <1>2
<1>5. \A i \in 1..Len(Tail(p)) : Tail(p)[i] = First(n, Tail(p)) + i - 1
  BY <1>1, <1>2, <1>3
<1>6. \A i \in 1..Len(r) : r[i] \in Nat /\ r[i] < First(n, p)
  BY ElementOfSeq DEF Numbered
<1> QED BY <1>3, <1>4, <1>5, <1>6

LEMMA NumberedLose ==
  ASSUME NEW n \in Nat, NEW p \in Seq(Nat), NEW r \in Seq(Nat), Numbered(n, p, r),
         p # <<>>
  PROVE  Numbered(n, Tail(p), r)
<1>1. First(n, p) \in Nat /\ Increasing(r)
  BY DEF Numbered
<1>2. First(n, Tail(p)) \in Nat
  BY <1>1, NumberedTail
<1>3. ASSUME NEW i \in 1..Len(r) PROVE r[i] < First(n, Tail(p))
  <2>1. r[i] \in Nat /\ r[i] < First(n, p) /\ First(n, Tail(p)) = First(n, p) + 1
    BY NumberedTail
  <2> QED BY <1>1, <2>1
<1> QED BY <1>1, <1>2, <1>3, NumberedTail DEF Numbered

LEMMA NumberedDeliver ==
  ASSUME NEW n \in Nat, NEW p \in Seq(Nat), NEW r \in Seq(Nat), Numbered(n, p, r),
         p # <<>>
  PROVE  Numbered(n, Tail(p), Append(r, Head(p)))
<1> DEFINE q == Append(r, Head(p))
<1>1. First(n, p) \in Nat /\ Increasing(r)
  BY DEF Numbered
<1>2. /\ First(n, Tail(p)) = First(n, p) + 1 /\ Head(p) = First(n, p)
      /\ \A i \in 1..Len(Tail(p)) : Tail(p)[i] = First(n, Tail(p)) + i - 1
      /\ \A i \in 1..Len(r) : r[i] \in Nat /\ r[i] < First(n, p)
  BY NumberedTail
<1>3. /\ Len(r) \in Nat /\ Len(q) = Len(r) + 1
      /\ \A i \in 1..Len(r) + 1 : q[i] = IF i <= Len(r) THEN r[i] ELSE Head(p)
  BY <1>1, <1>2, AppendFacts, LenProperties
<1>4. Increasing(q)
  BY <1>1, <1>2, AppendIncreasing
<1> HIDE DEF q
<1>5. ASSUME NEW i \in 1..Len(q) PROVE q[i] < First(n, Tail(p))
  <2>1. CASE i = Len(r) + 1
    BY <1>1, <1>2, <1>3, <2>1
  <2>2. CASE i \in 1..Len(r)
    BY <1>1, <1>2, <1>3, <2>2
  <2> QED BY <1>3, <2>1, <2>2
<1>6. First(n, Tail(p)) \in Nat
  BY <1>1, <1>2
<1>7. Numbered(n, Tail(p), q)
  BY <1>2, <1>4, <1>5, <1>6 DEF Numbered
<1> QED BY <1>7 DEF q

-----------------------------------------------------------------------------
LEMMA InitLinkInv == Init => LinkInv
BY EmptySeq DEF Init, LinkInv, LinkTypes, Numbered, First, Increasing

LEMMA NextLinkInv ==
  ASSUME LinkInv, NEW c \in Clients, Accept(c) \/ Lose(c) \/ Deliver(c)
  PROVE  LinkInv'
<1> DEFINE n == count[c]  p == pending[c]  r == received[c]
<1>1. /\ LinkTypes /\ n \in Nat /\ p \in Seq(Nat) /\ r \in Seq(Nat)
      /\ Numbered(n, p, r)
      /\ \A d \in Clients : Numbered(count[d], pending[d], received[d])
  BY DEF LinkInv, LinkTypes
<1> HIDE DEF n, p, r
<1>2. \E m \in Nat, q \in Seq(Nat), s \in Seq(Nat) :
        /\ Numbered(m, q, s)
        /\ count' = [count EXCEPT ![c] = m]
        /\ pending' = [pending EXCEPT ![c] = q]
        /\ received' = [received EXCEPT ![c] = s]
  <2>1. CASE Accept(c)
    <3>1. /\ count' = [count EXCEPT ![c] = n + 1]
          /\ pending' = [pending EXCEPT ![c] = Append(p, n + 1)]
          /\ received' = [received EXCEPT ![c] = r]
      BY <1>1, <2>1 DEF Accept, LinkTypes, n, p, r
    <3>2. Append(p, n + 1) \in Seq(Nat) /\ n + 1 \in Nat
      BY <1>1, AppendFacts
    <3> QED BY <1>1, <3>1, <3>2, NumberedAccept
  <2>2. CASE Lose(c)
    <3>1. /\ p # <<>>
          /\ count' = [count EXCEPT ![c] = n]
          /\ pending' = [pending EXCEPT ![c] = Tail(p)]
          /\ received' = [received EXCEPT ![c] = r]
      BY <1>1, <2>2 DEF Lose, LinkTypes, n, p, r
    <3> QED BY <1>1, <3>1, TailFacts, NumberedLose
  <2>3. CASE Deliver(c)
    <3>1. /\ p # <<>>
          /\ count' = [count EXCEPT ![c] = n]
          /\ pending' = [pending EXCEPT ![c] = Tail(p)]
          /\ received' = [received EXCEPT ![c] = Append(r, Head(p))]
      BY <1>1, <2>3 DEF Deliver, LinkTypes, n, p, r
    <3>2. Append(r, Head(p)) \in Seq(Nat) /\ Tail(p) \in Seq(Nat)
      BY <1>1, <3>1, TailFacts, AppendFacts
    <3> QED BY <1>1, <3>1, <3>2, NumberedDeliver
  <2> QED BY <2>1, <2>2, <2>3
<1>3. LinkTypes'
  BY <1>1, <1>2 DEF LinkTypes
<1>4. ASSUME NEW d \in Clients
      PROVE  Numbered(count[d], pending[d], received[d])'
  BY <1>1, <1>2 DEF LinkTypes
<1> QED BY <1>3, <1>4 DEF LinkInv

\* The window sees a client's messages in order and none of them twice, for
\* any number of clients and messages and whichever are lost.
THEOREM LinkKeepsOrder == SafeSpec => []InOrder
<1>1. LinkInv /\ [Next]_vars => LinkInv'
  <2>1. ASSUME LinkInv, Next PROVE LinkInv'
    BY <2>1, NextLinkInv DEF Next
  <2>2. ASSUME LinkInv, UNCHANGED vars PROVE LinkInv'
    BY <2>2 DEF vars, LinkInv, LinkTypes
  <2> QED BY <2>1, <2>2
<1>2. LinkInv => InOrder
  BY DEF LinkInv, Numbered, InOrder
<1> QED BY InitLinkInv, <1>1, <1>2, PTL DEF SafeSpec
=============================================================================
