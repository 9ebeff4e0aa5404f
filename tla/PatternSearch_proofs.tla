------------------------ MODULE PatternSearch_proofs ------------------------
(***************************************************************************)
(* Proofs about PatternSearch, for any number of bosses, settings and      *)
(* searches.                                                               *)
(*                                                                         *)
(* SearchInv adds to the types which thread may run: only the one whose    *)
(* handle the view holds, and none between Wait and Begin.  From the same  *)
(* fact follow that the one running calculator owns m_index, so that it    *)
(* stays within the list, and that only the view's own handlers take an    *)
(* availability back, each of which then shows the list anew.  RowsOK also *)
(* follows that loop: the rows before the boss it is at are honest, and    *)
(* the number it has read is still the list's, or was not there yet: a     *)
(* calculator writes to bosses without an availability only.               *)
(*                                                                         *)
(* SweepOK, at the end, is about the search that is not stopped.           *)
(***************************************************************************)
EXTENDS PatternSearch, SequenceTheorems, TLAPS

ThreadsOK ==
  /\ OneSearch
  /\ thread <= threads
  /\ \A t \in Threads : t > threads => worker[t] = "none"

HandlerOK ==
  /\ UiAt("return") \/ UiAt("gone") => thread = 0
  /\ UiAt("wait") => thread # 0
  /\ UiAt("reset") => ui.op = "filter"
  /\ ui.pc \in {"show", "row"} => ui.op \in {"filter", "recalc", "view"}
  /\ ui.op \in Begun /\ ui.pc \in {"reset", "stop", "end", "wait", "return"} =>
       threads < MaxThreads

IndexOK ==
  \A t \in Threads :
    /\ worker[t] \in {"calc", "post"} => index < Bosses
    /\ worker[t] = "calc" => avail[index + 1] = Unknown

RowsOK ==
  /\ \A b \in Boss :
       \/ ui.op \notin {"filter", "recalc"}
       \/ ui.pc \in {"show", "row"} /\ b < ui.boss
       => Honest(b)
  /\ ui.pc = "row" => ui.seen \in {avail[ui.boss], Unknown}

SearchInv == TypeOK /\ ThreadsOK /\ HandlerOK /\ IndexOK /\ RowsOK

-----------------------------------------------------------------------------
\* While the view holds no handle, or one of a thread that has ended, nothing runs.
LEMMA NothingRuns ==
  ASSUME SearchInv, thread = 0 \/ worker[thread] = "done"
  PROVE  \A t \in Threads : ~Runs(t)
<1>1. thread \in Nat /\ MaxThreads \in Nat
  BY PatternAssumption DEF SearchInv, TypeOK
<1> QED BY <1>1 DEF SearchInv, ThreadsOK, OneSearch, Runs, Threads

LEMMA InitSearchInv == Init => SearchInv
<1>1. SUFFICES ASSUME Init PROVE SearchInv
  OBVIOUS
<1>2. Bosses \in Nat /\ 1 \in Boss /\ <<>> \in Seq(Boss) /\ MaxThreads \in Nat
  BY PatternAssumption, EmptySeq DEF Boss
<1>3. TypeOK
  <2>1. ui \in [op : Ops, pc : UiPCs, new : Settings, boss : Boss, seen : Known]
    BY <1>1, <1>2, PatternAssumption DEF Init, Idle, Ops, UiPCs, Known
  <2>2. /\ avail \in [Boss -> Known] /\ rows \in [Boss -> Known \cup {MinusOne}]
        /\ worker \in [Threads -> CalcPCs]
    BY <1>1 DEF Init, Known, CalcPCs
  <2>3. /\ thread \in 0..MaxThreads /\ threads \in 0..MaxThreads
        /\ index \in 0..Bosses /\ progress \in 0..Bosses
    BY <1>1, <1>2 DEF Init
  <2> QED BY <1>1, <1>2, <2>1, <2>2, <2>3, PatternAssumption DEF Init, TypeOK
<1>4. ThreadsOK /\ IndexOK
  BY <1>1 DEF Init, ThreadsOK, OneSearch, Runs, IndexOK
<1>5. HandlerOK /\ RowsOK
  BY <1>1 DEF Init, HandlerOK, RowsOK, Honest, Idle, UiAt, Begun
<1> QED BY <1>3, <1>4, <1>5 DEF SearchInv

-----------------------------------------------------------------------------
\* The calculator's steps.

LEMMA SearchStep ==
  ASSUME SearchInv, NEW t \in Threads, Search(t)
  PROVE  SearchInv'
<1> USE DEF SearchInv
<1>1. /\ Bosses \in Nat \ {0} /\ MaxThreads \in Nat /\ Boss = 1..Bosses
      /\ index \in 0..Bosses /\ settings \in Settings
  BY PatternAssumption DEF TypeOK, Boss
<1>2. Runs(t) /\ t = thread /\ \A u \in Threads : u # t => ~Runs(u)
  BY DEF ThreadsOK, OneSearch, Runs, Search, Start, Look, Calc, Post, Test, Exit, At
<1>3. /\ \A u \in Threads : u # t => worker'[u] = worker[u]
      /\ worker' \in [Threads -> CalcPCs] /\ worker'[t] # "none"
      /\ UNCHANGED <<settings, running, thread, threads, rows, progress, active, ui,
                     dbHeld>>
  BY DEF TypeOK, CalcPCs, Search, Start, Look, Calc, Post, Test, Exit, Goto, control, view
<1>4. term' \in BOOLEAN
  BY DEF TypeOK, Search, Start, Look, Calc, Post, Test, Exit
<1>5. index' \in 0..Bosses
  <2>1. CASE Look(t)
    BY <1>1, <2>1 DEF Look
  <2>2. CASE Post(t)
    BY <1>1, <2>2 DEF Post, IndexOK, At
  <2>3. CASE Start(t) \/ Calc(t) \/ Test(t) \/ Exit(t)
    BY <1>1, <2>3 DEF Start, Calc, Test, Exit
  <2> QED BY <2>1, <2>2, <2>3 DEF Search
<1>6. posted' \in Seq(Boss)
  <2>1. CASE Post(t)
    <3>1. index + 1 \in Boss
      BY <1>1, <2>1 DEF Post, IndexOK, At
    <3> QED BY <2>1, <3>1, AppendProperties DEF Post, TypeOK
  <2>2. CASE ~Post(t)
    BY <2>2 DEF Search, Start, Look, Calc, Test, Exit, TypeOK
  <2> QED BY <2>1, <2>2
<1>7. CASE Calc(t)
  <2>1. index + 1 \in Boss /\ avail[index + 1] = Unknown
    BY <1>1, <1>7 DEF Calc, IndexOK, At
  <2>2. /\ avail' = [avail EXCEPT ![index + 1] = settings] /\ index' = index
        /\ worker'[t] = "post"
    BY <1>7 DEF Calc, Goto, TypeOK
  <2>3. avail' \in [Boss -> Known]
    BY <1>1, <2>1, <2>2 DEF TypeOK, Known
  <2>4. IndexOK'
    BY <1>1, <1>2, <1>3, <2>1, <2>2 DEF IndexOK, Runs, Boss
  <2>5. RowsOK'
    BY <1>3, <2>1, <2>2 DEF RowsOK, Honest, TypeOK
  <2> QED
    BY <1>2, <1>3, <1>4, <1>5, <1>6, <2>3, <2>4, <2>5
       DEF TypeOK, ThreadsOK, OneSearch, Runs, HandlerOK, UiAt
<1>8. CASE ~Calc(t)
  <2>1. avail' = avail
    BY <1>8 DEF Search, Start, Look, Post, Test, Exit
  <2>2. /\ worker'[t] # "post"
        /\ worker'[t] = "calc" => index' < Bosses /\ avail[index' + 1] = Unknown
    BY <1>1, <1>8 DEF Search, Start, Look, Post, Test, Exit, Goto, TypeOK
  <2>3. IndexOK'
    BY <1>2, <1>3, <2>1, <2>2 DEF IndexOK, Runs
  <2>4. RowsOK'
    BY <1>3, <2>1 DEF RowsOK, Honest
  <2> QED
    BY <1>2, <1>3, <1>4, <1>5, <1>6, <2>1, <2>3, <2>4
       DEF TypeOK, ThreadsOK, OneSearch, Runs, HandlerOK, UiAt
<1> QED BY <1>7, <1>8

-----------------------------------------------------------------------------
\* The view's steps.

CalcSame == UNCHANGED <<worker, index, avail, thread, threads>>

LEMMA UiRecord ==
  ASSUME SearchInv
  PROVE  /\ ui \in [op : Ops, pc : UiPCs, new : Settings, boss : Boss, seen : Known]
         /\ settings \in Settings /\ 1 \in Boss
         /\ Idle \in [op : Ops, pc : UiPCs, new : Settings, boss : Boss, seen : Known]
<1>1. 1 \in Boss
  BY PatternAssumption DEF Boss
<1> QED BY <1>1, PatternAssumption DEF SearchInv, TypeOK, Idle, Ops, UiPCs, Known

LEMMA UserStep ==
  ASSUME SearchInv, User \/ KeepLock
  PROVE  SearchInv'
<1> USE DEF SearchInv
<1>1. CASE KeepLock
  BY <1>1 DEF KeepLock, view, control, calcVars, TypeOK, ThreadsOK, OneSearch, Runs,
     HandlerOK, UiAt, IndexOK, RowsOK, Honest
<1>2. CASE \/ \E new \in Settings : FilterChanges(new)
           \/ ViewChanges \/ Recalculate \/ Activate \/ Deactivate \/ Destroy
  <2>1. PICK op \in Ops \ {"none"}, pc \in {"reset", "stop", "end", "show"},
             new \in Settings :
          /\ Begins(op, pc, new)
          /\ pc = "reset" <=> op = "filter"
          /\ pc = "show" <=> op = "view"
    BY <1>2, UiRecord
       DEF FilterChanges, ViewChanges, Recalculate, Activate, Deactivate, Destroy, Ops
  <2>2. /\ CalcSame /\ active' \in BOOLEAN
        /\ UNCHANGED <<settings, term, running, posted, rows, progress, dbHeld>>
    BY <1>2 DEF FilterChanges, ViewChanges, Recalculate, Activate, Deactivate, Destroy,
       CalcSame, control, calcVars, view, TypeOK
  <2>3. /\ ui.op = "none"
        /\ ui' = [op |-> op, pc |-> pc, new |-> new, boss |-> 1, seen |-> Unknown]
        /\ op \in Begun => threads < MaxThreads
    BY <2>1 DEF Begins, UiIdle, Idle
  <2>4. ui' \in [op : Ops, pc : UiPCs, new : Settings, boss : Boss, seen : Known]
    BY <2>1, <2>3, UiRecord DEF UiPCs, Known
  <2>5. TypeOK'
    BY <2>2, <2>4 DEF TypeOK, CalcSame
  <2>6. ThreadsOK' /\ IndexOK'
    BY <2>2 DEF CalcSame, ThreadsOK, OneSearch, Runs, IndexOK
  <2>7. HandlerOK'
    BY <2>1, <2>2, <2>3 DEF HandlerOK, UiAt, CalcSame
  <2>8. RowsOK'
    BY <2>1, <2>2, <2>3, UiRecord DEF RowsOK, Honest, CalcSame
  <2> QED BY <2>5, <2>6, <2>7, <2>8
<1> QED BY <1>1, <1>2 DEF User

LEMMA ResetStep == ASSUME SearchInv, Reset PROVE SearchInv'
<1> USE DEF SearchInv
<1>1. /\ ui.pc = "reset" /\ ui.op = "filter"
      /\ avail' = [avail EXCEPT ![ui.boss] = Unknown]
      /\ UNCHANGED <<settings, term, running, thread, threads, worker, index, posted,
                     rows, progress, active, dbHeld>>
  BY DEF Reset, UiAt, HandlerOK, control, calcVars, view
<1>2. Bosses \in Nat \ {0} /\ ui.boss \in Boss /\ Boss = 1..Bosses
  BY UiRecord, PatternAssumption DEF Boss
<1>3. /\ ui' \in [op : Ops, pc : UiPCs, new : Settings, boss : Boss, seen : Known]
      /\ ui'.op = ui.op /\ ui'.pc \in {"reset", "stop"}
  <2>1. CASE ui.boss = Bosses
    BY <1>1, <2>1, UiRecord DEF Reset, UiGoto, UiPCs
  <2>2. CASE ui.boss # Bosses
    <3>1. ui.boss + 1 \in Boss
      BY <1>2, <2>2
    <3> QED BY <1>1, <2>2, <3>1, UiRecord DEF Reset
  <2> QED BY <2>1, <2>2
<1>4. avail' \in [Boss -> Known]
  BY <1>1, <1>2 DEF TypeOK, Known
<1>5. TypeOK' /\ ThreadsOK'
  BY <1>1, <1>3, <1>4 DEF TypeOK, ThreadsOK, OneSearch, Runs
<1>6. HandlerOK' /\ RowsOK'
  BY <1>1, <1>3 DEF HandlerOK, UiAt, RowsOK, Honest, Begun
<1>7. IndexOK'
  BY <1>1, <1>2 DEF IndexOK, TypeOK
<1> QED BY <1>5, <1>6, <1>7

\* StopPlease, End, and the handlers that end without Begin.
LEMMA StopStep ==
  ASSUME SearchInv, StopPlease \/ End \/ ReturnInactive \/ ReturnDestroyed
  PROVE  SearchInv'
<1> USE DEF SearchInv
<1>1. /\ CalcSame /\ term' \in BOOLEAN /\ running' \in BOOLEAN
      /\ UNCHANGED <<settings, rows, progress, active, dbHeld>>
      /\ posted' \in Seq(Boss)
  BY EmptySeq DEF StopPlease, End, ReturnInactive, ReturnDestroyed, CalcSame, control,
     calcVars, view, TypeOK
<1>2. /\ ui' \in [op : Ops, pc : UiPCs, new : Settings, boss : Boss, seen : Known]
      /\ ui'.op \in {"filter", "recalc"} <=> ui.op \in {"filter", "recalc"}
      /\ ui'.pc = "return" \/ ui'.pc = "gone" => thread = 0
      /\ ui'.pc = "wait" => thread # 0
      /\ ui'.pc \notin {"reset", "show", "row"}
      /\ ui.pc \notin {"show", "row"}
      /\ ui'.op \in Begun => ui'.op = ui.op /\ ui.pc \in {"stop", "end"}
  BY UiRecord DEF StopPlease, End, ReturnInactive, ReturnDestroyed, UiGoto, UiAt, UiPCs,
     Idle, HandlerOK, Begun
<1>3. TypeOK' /\ ThreadsOK' /\ IndexOK'
  BY <1>1, <1>2 DEF CalcSame, TypeOK, ThreadsOK, OneSearch, Runs, IndexOK
<1>4. HandlerOK'
  BY <1>1, <1>2 DEF CalcSame, HandlerOK, UiAt
<1>5. RowsOK'
  BY <1>1, <1>2 DEF CalcSame, RowsOK, Honest
<1> QED BY <1>3, <1>4, <1>5

LEMMA WaitStep == ASSUME SearchInv, Wait PROVE SearchInv'
<1> USE DEF SearchInv
<1>1. /\ worker[thread] = "done" /\ thread' = 0
      /\ ui.pc = "wait" /\ ui' = [ui EXCEPT !.pc = "return"]
      /\ UNCHANGED <<avail, settings, term, running, threads, worker, index, posted,
                     rows, progress, active, dbHeld>>
  BY DEF Wait, At, UiAt, UiGoto, calcVars, view
<1>2. \A t \in Threads : ~Runs(t)
  BY <1>1, NothingRuns
<1>3. /\ ui' \in [op : Ops, pc : UiPCs, new : Settings, boss : Boss, seen : Known]
      /\ ui'.op = ui.op /\ ui'.pc = "return"
  BY <1>1, UiRecord DEF UiPCs
<1>4. 0 \in 0..MaxThreads /\ 0 <= threads
  BY PatternAssumption DEF TypeOK
<1>5. TypeOK' /\ ThreadsOK' /\ IndexOK'
  BY <1>1, <1>2, <1>3, <1>4 DEF TypeOK, ThreadsOK, OneSearch, Runs, IndexOK
<1>6. HandlerOK' /\ RowsOK'
  BY <1>1, <1>3 DEF HandlerOK, UiAt, RowsOK, Honest
<1> QED BY <1>5, <1>6

LEMMA BeginStep ==
  ASSUME SearchInv, Restart \/ ReturnActive
  PROVE  SearchInv'
<1> USE DEF SearchInv
<1>1. /\ ui.pc = "return" /\ ui.op \in Begun /\ Begin
      /\ UNCHANGED <<term, index, rows, progress, active, dbHeld>>
      /\ settings' \in Settings /\ posted' \in Seq(Boss)
  <2>1. UNCHANGED <<term, index, rows, progress, active, dbHeld>>
    BY DEF Restart, ReturnActive, view
  <2>2. ui.pc = "return" /\ ui.op \in Begun /\ Begin
    BY DEF Restart, ReturnActive, UiAt, Begun
  <2>3. settings' = settings \/ settings' = ui.new
    BY DEF Restart, ReturnActive
  <2>4. posted' = posted \/ posted' = <<>>
    BY DEF Restart, ReturnActive
  <2>5. settings \in Settings /\ posted \in Seq(Boss) /\ ui.new \in Settings
    BY UiRecord DEF TypeOK
  <2> QED BY <2>1, <2>2, <2>3, <2>4, <2>5, EmptySeq
<1>2. thread = 0 /\ threads < MaxThreads
  BY <1>1 DEF HandlerOK, UiAt
<1>3. \A t \in Threads : ~Runs(t)
  BY <1>2, NothingRuns
<1>4. /\ threads + 1 \in Threads /\ threads \in Nat /\ MaxThreads \in Nat
      /\ Threads = 1..MaxThreads
  BY <1>2, PatternAssumption DEF TypeOK, Threads
<1>5. /\ thread' = threads + 1 /\ threads' = threads + 1 /\ running' = TRUE
      /\ worker' = [worker EXCEPT ![threads + 1] = "start"]
  BY <1>1 DEF Begin
<1>6. /\ ui' \in [op : Ops, pc : UiPCs, new : Settings, boss : Boss, seen : Known]
      /\ \/ ui' = Idle
         \/ ui'.pc = "show" /\ ui'.op \in {"filter", "recalc"} /\ ui'.boss = 1
  BY UiRecord DEF Restart, ReturnActive, UiPCs
<1>7. avail' \in [Boss -> Known]
  BY DEF Restart, ReturnActive, TypeOK, Known
<1>8. worker' \in [Threads -> CalcPCs]
  BY <1>4, <1>5 DEF TypeOK, CalcPCs
<1>9. TypeOK'
  BY <1>1, <1>2, <1>4, <1>5, <1>6, <1>7, <1>8 DEF TypeOK
<1>10. \A t \in Threads : worker'[t] = IF t = threads + 1 THEN "start" ELSE worker[t]
  BY <1>4, <1>5 DEF TypeOK
<1>11. ThreadsOK'
  BY <1>3, <1>4, <1>5, <1>10 DEF ThreadsOK, OneSearch, Runs
<1>12. IndexOK'
  BY <1>3, <1>10 DEF IndexOK, Runs
<1>13. HandlerOK'
  BY <1>6 DEF HandlerOK, UiAt, Idle, Begun
<1>14. RowsOK'
  <2>1. CASE Restart
    <3>1. ui'.pc = "show" /\ ui'.op \in {"filter", "recalc"} /\ ui'.boss = 1
      BY <2>1, UiRecord DEF Restart
    <3> QED BY <3>1 DEF RowsOK, Boss
  <2>2. CASE ReturnActive
    <3>1. ui' = Idle /\ ui.op \notin {"filter", "recalc"} /\ avail' = avail
      BY <2>2 DEF ReturnActive
    <3> QED BY <1>1, <3>1 DEF RowsOK, Honest, Idle
  <2> QED BY <2>1, <2>2
<1> QED BY <1>9, <1>11, <1>12, <1>13, <1>14

\* One row of the list: the boss it is at, then the next or none.
LEMMA ShowRowStep == ASSUME SearchInv, ReadNumber \/ ShowRow PROVE SearchInv'
<1> USE DEF SearchInv
<1>1. /\ CalcSame
      /\ UNCHANGED <<settings, term, running, posted, progress, active, dbHeld>>
  BY DEF ReadNumber, ShowRow, CalcSame, control, calcVars, view
<1>2. ThreadsOK' /\ IndexOK'
  BY <1>1 DEF CalcSame, ThreadsOK, OneSearch, Runs, IndexOK
<1>3. /\ ui.pc \in {"show", "row"} /\ ui.op \in {"filter", "recalc", "view"}
      /\ ui.boss \in Boss /\ Bosses \in Nat /\ Boss = 1..Bosses
      /\ avail \in [Boss -> Known] /\ rows \in [Boss -> Known \cup {MinusOne}]
  BY UiRecord, PatternAssumption DEF ReadNumber, ShowRow, UiAt, HandlerOK, TypeOK, Boss
<1>4. CASE ReadNumber
  <2>1. /\ rows' = rows /\ avail[ui.boss] \in Known
        /\ ui' = [ui EXCEPT !.pc = "row", !.seen = avail[ui.boss]]
    BY <1>3, <1>4 DEF ReadNumber, view
  <2>2. /\ ui' \in [op : Ops, pc : UiPCs, new : Settings, boss : Boss, seen : Known]
        /\ ui'.op = ui.op /\ ui'.pc = "row" /\ ui'.boss = ui.boss
        /\ ui'.seen = avail[ui.boss]
    BY <2>1, UiRecord DEF UiPCs
  <2>3. TypeOK' /\ HandlerOK'
    BY <1>1, <1>3, <2>1, <2>2 DEF CalcSame, TypeOK, HandlerOK, UiAt
  <2>4. RowsOK'
    BY <1>1, <1>3, <2>1, <2>2 DEF CalcSame, RowsOK, Honest
  <2> QED BY <1>2, <2>3, <2>4
<1>5. CASE ShowRow
  <2>1. /\ ui.pc = "row" /\ ui.seen \in {avail[ui.boss], Unknown}
        /\ rows' = [rows EXCEPT ![ui.boss] =
                      IF avail[ui.boss] = Unknown THEN Unknown ELSE Number]
    BY <1>5 DEF ShowRow, UiAt, RowsOK
  <2>2. \/ ui.boss = Bosses /\ ui' = Idle
        \/ /\ ui.boss # Bosses
           /\ ui' = [ui EXCEPT !.pc = "show", !.boss = @ + 1, !.seen = Unknown]
    BY <1>5 DEF ShowRow, NextRow
  <2>3. ui.boss # Bosses => ui.boss + 1 \in Boss
    BY <1>3
  <2>4. /\ ui' \in [op : Ops, pc : UiPCs, new : Settings, boss : Boss, seen : Known]
        /\ \/ ui.boss = Bosses /\ ui' = Idle
           \/ ui'.op = ui.op /\ ui'.pc = "show" /\ ui'.boss = ui.boss + 1
    BY <2>2, <2>3, UiRecord DEF UiPCs, Known
  <2>5. rows' \in [Boss -> Known \cup {MinusOne}]
    BY <1>3, <2>1 DEF Number, Known
  <2>6. \A b \in Boss : b = ui.boss \/ Honest(b) => Honest(b)'
    BY <1>1, <1>3, <2>1 DEF CalcSame, Honest, Number
  <2>7. TypeOK' /\ HandlerOK'
    BY <1>1, <1>3, <2>4, <2>5 DEF CalcSame, TypeOK, HandlerOK, UiAt, Idle, Begun
  <2>8. \A b \in Boss : b < ui.boss => Honest(b)
    BY <1>3 DEF RowsOK
  <2>9. \A b \in Boss : b <= ui.boss => Honest(b)'
    BY <1>3, <2>6, <2>8
  <2>10. \A b \in Boss : ui.op = "view" => Honest(b)'
    BY <2>6 DEF RowsOK
  <2>11. RowsOK'
    <3>1. CASE ui.boss = Bosses /\ ui' = Idle
      BY <1>3, <2>9, <3>1 DEF RowsOK, Idle
    <3>2. CASE ui'.op = ui.op /\ ui'.pc = "show" /\ ui'.boss = ui.boss + 1
      BY <1>3, <2>9, <2>10, <3>2 DEF RowsOK
    <3> QED BY <2>4, <3>1, <3>2
  <2> QED BY <1>2, <2>7, <2>11
<1> QED BY <1>4, <1>5

LEMMA UpdateRowStep == ASSUME SearchInv, UpdateRow PROVE SearchInv'
<1> USE DEF SearchInv
<1>1. /\ CalcSame
      /\ UNCHANGED <<settings, term, running, active, dbHeld, ui>>
  BY DEF UpdateRow, CalcSame, control, calcVars
<1>2. ThreadsOK' /\ IndexOK'
  BY <1>1 DEF CalcSame, ThreadsOK, OneSearch, Runs, IndexOK
<1>3. /\ posted \in Seq(Boss) /\ posted # <<>>
      /\ posted' = Tail(posted) /\ progress' = Head(posted)
      /\ rows' = [rows EXCEPT ![Head(posted)] = avail[Head(posted)]]
  BY DEF UpdateRow, TypeOK
<1>4. Head(posted) \in Boss /\ Tail(posted) \in Seq(Boss)
  BY <1>3, HeadTailProperties
<1>5. Head(posted) \in 0..Bosses
  BY <1>4, PatternAssumption DEF Boss
<1>6. TypeOK'
  BY <1>1, <1>3, <1>4, <1>5 DEF CalcSame, TypeOK
<1>7. HandlerOK' /\ RowsOK'
  BY <1>1, <1>3, <1>4 DEF CalcSame, HandlerOK, UiAt, RowsOK, Honest, TypeOK
<1> QED BY <1>2, <1>6, <1>7

LEMMA NextSearchInv == SearchInv /\ [Next]_vars => SearchInv'
<1>1. ASSUME SearchInv, Next PROVE SearchInv'
  BY <1>1, SearchStep, UserStep, ResetStep, StopStep, WaitStep, BeginStep, ShowRowStep,
     UpdateRowStep
     DEF Next, Handler
<1>2. ASSUME SearchInv, UNCHANGED vars PROVE SearchInv'
  BY <1>2 DEF vars, SearchInv, TypeOK, ThreadsOK, OneSearch, Runs, HandlerOK, UiAt,
     IndexOK, RowsOK, Honest
<1> QED BY <1>1, <1>2

\* The variables keep their types and the four relations between them.
THEOREM SearchInvariance == Spec => []SearchInv
BY InitSearchInv, NextSearchInv, PTL DEF Spec

-----------------------------------------------------------------------------
\* No calculator outlives its handle, whenever it is stopped and started.
THEOREM OneSearchAtATime == Spec => []OneSearch
<1>1. SearchInv => OneSearch
  BY DEF SearchInv, ThreadsOK
<1> QED BY <1>1, SearchInvariance, PTL

\* A destroyed view is not used by a calculator.
THEOREM DestroyIsQuiet == Spec => []QuietAfterDestroy
<1>1. ASSUME SearchInv PROVE QuietAfterDestroy
  BY <1>1, NothingRuns DEF QuietAfterDestroy, SearchInv, HandlerOK
<1> QED BY <1>1, SearchInvariance, PTL

\* The list never shows a number that is not the boss's availability, but for
\* the -1 of a boss whose availability came while its row was written.
THEOREM RowsAreHonest == Spec => []RowsHonest
<1>1. ASSUME SearchInv PROVE RowsHonest
  BY <1>1 DEF RowsHonest, SearchInv, RowsOK, UiIdle, Idle
<1> QED BY <1>1, SearchInvariance, PTL

-----------------------------------------------------------------------------
(***************************************************************************)
(* A search that ends by itself is complete.  SweepOK follows the search   *)
(* the active view has begun and not stopped: behind m_index every boss    *)
(* has an availability, and m_term is set only at the end of the list.     *)
(* The search of before says nothing: it may have been stopped anywhere,   *)
(* and a filter change takes its availabilities back.                      *)
(***************************************************************************)
Quiet == active /\ ui.pc \in {"idle", "show", "row"}

SweepOK ==
  /\ ui.op = "deactivate" => ~active
  /\ Quiet =>
      /\ thread # 0
      /\ worker[thread] \in {"look", "calc", "post", "test"} =>
           \A b \in Boss : b <= index => avail[b] # Unknown
      /\ worker[thread] = "post" => avail[index + 1] # Unknown
      /\ worker[thread] \in {"look", "calc", "post"} => ~term
      /\ worker[thread] = "test" /\ term => index = Bosses
      /\ worker[thread] \in {"exit", "done"} => AllCalculated

\* The search itself.
LEMMA SearchSweep ==
  ASSUME SearchInv, SweepOK, NEW t \in Threads, Search(t)
  PROVE  SweepOK'
<1>1. t = thread /\ UNCHANGED <<thread, ui, active>>
  BY DEF SearchInv, ThreadsOK, OneSearch, Runs, Search, Start, Look, Calc, Post, Test,
         Exit, At, control, view
<1>2. /\ Bosses \in Nat \ {0} /\ Boss = 1..Bosses /\ index \in 0..Bosses
      /\ settings # Unknown /\ term \in BOOLEAN
      /\ avail \in [Boss -> Known] /\ worker \in [Threads -> CalcPCs]
  BY PatternAssumption DEF SearchInv, TypeOK, Boss
<1> SUFFICES ASSUME Quiet
             PROVE  /\ worker'[t] \in {"look", "calc", "post", "test"} =>
                         \A b \in Boss : b <= index' => avail'[b] # Unknown
                    /\ worker'[t] = "post" => avail'[index' + 1] # Unknown
                    /\ worker'[t] \in {"look", "calc", "post"} => ~term'
                    /\ worker'[t] = "test" /\ term' => index' = Bosses
                    /\ worker'[t] \in {"exit", "done"} => AllCalculated'
  BY <1>1 DEF SweepOK, Quiet
<1>3. CASE Start(t)
  <2>1. worker'[t] = "look" /\ index' = 0 /\ ~term'
    BY <1>2, <1>3 DEF Start, Goto
  <2> QED BY <1>2, <2>1
<1>4. CASE Look(t)
  <2>1. worker[t] = "look" /\ avail' = avail /\ ~term
    BY <1>1, <1>4 DEF Look, At, SweepOK
  <2>2. \A b \in Boss : b <= index => avail[b] # Unknown
    BY <1>1, <2>1 DEF SweepOK
  <2>3. CASE index = Bosses
    <3>1. worker'[t] = "test" /\ index' = index
      BY <1>2, <1>4, <2>3 DEF Look, Goto
    <3> QED BY <2>1, <2>2, <2>3, <3>1
  <2>4. CASE index # Bosses /\ avail[index + 1] = Unknown
    <3>1. worker'[t] = "calc" /\ index' = index /\ term' = term
      BY <1>2, <1>4, <2>4 DEF Look, Goto
    <3> QED BY <2>1, <2>2, <3>1
  <2>5. CASE index # Bosses /\ avail[index + 1] # Unknown
    <3>1. worker'[t] = "test" /\ index' = index + 1 /\ term' = term
      BY <1>2, <1>4, <2>5 DEF Look, Goto
    <3>2. \A b \in Boss : b <= index + 1 => b <= index \/ b = index + 1
      BY <1>2
    <3> QED BY <2>1, <2>2, <2>5, <3>1, <3>2
  <2> QED BY <2>3, <2>4, <2>5
<1>5. CASE Calc(t)
  <2>1. /\ worker[t] = "calc" /\ worker'[t] = "post" /\ index' = index /\ term' = term
        /\ avail' = [avail EXCEPT ![index + 1] = settings]
    BY <1>2, <1>5 DEF Calc, At, Goto
  <2>2. index + 1 \in Boss
    BY <1>1, <1>2, <2>1 DEF SearchInv, IndexOK
  <2>3. avail'[index + 1] # Unknown
    BY <1>2, <2>1, <2>2
  <2>4. ~term /\ \A b \in Boss : b <= index => avail[b] # Unknown
    BY <1>1, <2>1 DEF SweepOK
  <2>5. \A b \in Boss : b <= index => avail'[b] # Unknown
    BY <1>2, <2>1, <2>2, <2>4
  <2> QED BY <2>1, <2>3, <2>4, <2>5
<1>6. CASE Post(t)
  <2>1. /\ worker[t] = "post" /\ worker'[t] = "test" /\ index' = index + 1
        /\ term' = term /\ avail' = avail
    BY <1>2, <1>6 DEF Post, At, Goto
  <2>2. /\ ~term /\ avail[index + 1] # Unknown
        /\ \A b \in Boss : b <= index => avail[b] # Unknown
    BY <1>1, <2>1 DEF SweepOK
  <2>3. \A b \in Boss : b <= index + 1 => b <= index \/ b = index + 1
    BY <1>2
  <2> QED BY <2>1, <2>2, <2>3
<1>7. CASE Test(t)
  <2>1. /\ worker[t] = "test" /\ worker'[t] = IF term THEN "exit" ELSE "look"
        /\ index' = index /\ term' = term /\ avail' = avail
    BY <1>2, <1>7 DEF Test, At, Goto
  <2>2. /\ term => index = Bosses
        /\ \A b \in Boss : b <= index => avail[b] # Unknown
    BY <1>1, <2>1 DEF SweepOK
  <2>3. term => \A b \in Boss : avail[b] # Unknown
    BY <1>2, <2>2
  <2> QED BY <2>1, <2>2, <2>3 DEF AllCalculated
<1>8. CASE Exit(t)
  <2>1. worker[t] = "exit" /\ worker'[t] = "done" /\ avail' = avail
    BY <1>2, <1>8 DEF Exit, At, Goto
  <2> QED BY <1>1, <2>1 DEF SweepOK, AllCalculated
<1> QED BY <1>3, <1>4, <1>5, <1>6, <1>7, <1>8 DEF Search

\* A handler that begins ends the quiet, and one that returns has begun a new
\* search or left the view inactive or destroyed.
LEMMA HandlerSweep ==
  ASSUME SearchInv, SweepOK, Handler \/ UpdateRow \/ User \/ KeepLock
  PROVE  SweepOK'
<1>0. /\ ui.op \in Ops
      /\ ui = [op |-> ui.op, pc |-> ui.pc, new |-> ui.new, boss |-> ui.boss,
               seen |-> ui.seen]
  BY DEF SearchInv, TypeOK
<1>1. CASE Restart \/ ReturnActive
  <2>1. ui.pc = "return" /\ ui.op \in Begun /\ Begin /\ active' = active
    BY <1>1 DEF Restart, ReturnActive, UiAt, Begun, view
  <2>2. ui'.op # "deactivate"
    <3>1. CASE Restart
      BY <3>1, UiRecord DEF Restart
    <3>2. CASE ReturnActive
      BY <3>2 DEF ReturnActive, Idle
    <3> QED BY <1>1, <3>1, <3>2
  <2>3. threads \in Nat /\ threads + 1 \in Threads
    BY <2>1, PatternAssumption DEF SearchInv, TypeOK, HandlerOK, UiAt, Threads
  <2>4. thread' = threads + 1 /\ worker'[thread'] = "start"
    BY <2>1, <2>3 DEF Begin, SearchInv, TypeOK
  <2>5. thread' # 0
    BY <2>3, <2>4
  <2> QED BY <2>2, <2>4, <2>5 DEF SweepOK, Quiet
<1>2. CASE ReadNumber \/ ShowRow \/ UpdateRow \/ ViewChanges \/ KeepLock
  <2>1. UNCHANGED <<active, thread, worker, index, avail, term>>
    BY <1>2 DEF ReadNumber, ShowRow, UpdateRow, ViewChanges, KeepLock, control, calcVars,
       view
  <2>2. ui.pc \in {"idle", "show", "row"} /\ ui'.op # "deactivate"
    <3>1. ui.pc \in {"show", "row"} => ui.op # "deactivate"
      BY DEF SearchInv, HandlerOK
    <3>2. CASE ReadNumber \/ ShowRow
      <4>1. ui.pc \in {"show", "row"} /\ (ui'.op = ui.op \/ ui'.op = "none")
        <5>1. CASE ReadNumber
          BY UiRecord, <5>1 DEF ReadNumber, UiAt
        <5>2. CASE ShowRow
          BY UiRecord, <5>2 DEF ShowRow, NextRow, UiAt, Idle
        <5> QED BY <3>2, <5>1, <5>2
      <4> QED BY <3>1, <4>1
    <3>3. CASE UpdateRow \/ ViewChanges \/ KeepLock
      BY <3>3 DEF UpdateRow, ViewChanges, KeepLock, Begins, UiIdle, Idle
    <3> QED BY <1>2, <3>2, <3>3
  <2> QED BY <2>1, <2>2 DEF SweepOK, Quiet, AllCalculated
<1>3. CASE Reset \/ StopPlease \/ End \/ Wait \/ ReturnDestroyed
  <2>1. ui'.op = ui.op /\ active' = active /\ ui'.pc \notin {"idle", "show", "row"}
    BY <1>0, <1>3 DEF Reset, StopPlease, End, Wait, ReturnDestroyed, UiGoto, UiAt, view
  <2> QED BY <2>1 DEF SweepOK, Quiet
<1>4. CASE ReturnInactive
  <2>1. ~active' /\ ui' = Idle
    BY <1>4 DEF ReturnInactive, SweepOK, view
  <2> QED BY <2>1 DEF SweepOK, Quiet
<1>5. CASE \/ \E new \in Settings : FilterChanges(new)
           \/ Recalculate \/ Activate \/ Deactivate \/ Destroy
  <2>1. PICK op \in Ops \ {"none"}, pc \in {"reset", "stop", "end"}, new \in Settings :
          Begins(op, pc, new) /\ (op = "deactivate" => ~active')
    BY <1>5, UiRecord DEF FilterChanges, Recalculate, Activate, Deactivate, Destroy, Ops
  <2>2. ui'.op = op /\ ui'.pc = pc
    BY <2>1 DEF Begins
  <2> QED BY <2>1, <2>2 DEF SweepOK, Quiet
<1> QED BY <1>1, <1>2, <1>3, <1>4, <1>5 DEF Handler, User

LEMMA NextSweep == SearchInv /\ SweepOK /\ [Next]_vars => SweepOK'
<1>1. ASSUME UNCHANGED vars, SweepOK PROVE SweepOK'
  BY <1>1 DEF vars, SweepOK, Quiet, AllCalculated
<1> QED BY <1>1, SearchSweep, HandlerSweep DEF Next

\* The safety of EverythingIsCalculated: a calculator that has ended, without
\* having been stopped, has left no boss without an availability.
THEOREM SearchesAreComplete == Spec => []SearchIsComplete
<1>1. Init => SweepOK
  BY DEF Init, SweepOK, Quiet, Idle
<1>2. SearchInv /\ SweepOK => SearchIsComplete
  BY DEF SweepOK, Quiet, SearchIsComplete, UiIdle, Idle, At
<1> QED BY <1>1, <1>2, NextSweep, SearchInvariance, PTL DEF Spec
=============================================================================
