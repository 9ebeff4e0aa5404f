--------------------------- MODULE PatternSearch ---------------------------
(***************************************************************************)
(* The pattern matcher: PatternMatchView, on the window's thread, starts   *)
(* and stops PatternAvailabilityCalculator, a thread that computes the     *)
(* availability of every pocket boss that has none and posts an update of  *)
(* its row to the view.                                                    *)
(*                                                                         *)
(* The two share the list of bosses, the flag m_term and g_DBManager's     *)
(* mutex.  PbListMutex is taken by the calculator only, so it excludes     *)
(* nothing and is left out: the view reads an availability while the       *)
(* calculator may write it.  An availability is represented by the         *)
(* settings (toon, exclude assembled) it was computed under.  Of the       *)
(* filter only these settings are modelled, not the least availability a   *)
(* row must have to be listed (m_availfilter), nor the modes with fewer    *)
(* bosses, in which a posted update lists all of them anew: they leave     *)
(* rows out, and a row says what ReadNumber and ShowRow make of it.        *)
(***************************************************************************)
EXTENDS Naturals, Sequences

CONSTANTS
  Bosses,      \* number of pocket bosses, the length of m_pblist
  Settings,    \* combinations of toon and "exclude assembled"
  Default,     \* the settings at the start
  Unknown,     \* an availability of -1, shown as "calculating..."
  MinusOne,    \* the text of a row that shows -1 as if it were a number
  MaxThreads,  \* bound on the calls of Begin
  LockLeaks    \* whether a message handler may keep the data base lock

ASSUME PatternAssumption ==
  /\ Bosses \in Nat \ {0} /\ MaxThreads \in Nat
  /\ Default \in Settings /\ Unknown \notin Settings
  /\ MinusOne \notin Settings \cup {Unknown}
  /\ LockLeaks \in BOOLEAN

VARIABLES
  avail,     \* m_pblist[i]->pbavailability
  settings,  \* the calculator's m_toon and m_excludeAssembled
  term,      \* m_term
  running,   \* d_bIsRunning
  thread,    \* d_threadHandle: the number of the thread, 0 for NULL
  threads,   \* threads created so far
  worker,    \* their program counters
  index,     \* m_index
  posted,    \* WM_UPDATE_PBLIST messages of the view, as boss numbers
  rows,      \* what the list view shows of each boss
  progress,  \* the boss the progress bar stands at
  ui,        \* what the window's thread does: [op, pc, new, boss, seen]
  active,    \* the view's tab is the active one
  dbHeld     \* the window's thread kept g_DBManager's mutex

vars == <<avail, settings, term, running, thread, threads, worker, index, posted,
          rows, progress, ui, active, dbHeld>>
view     == <<rows, progress, active>>
control  == <<running, thread, threads>>
calcVars == <<worker, index>>

Boss == 1..Bosses
Threads == 1..MaxThreads
Ops == {"none", "filter", "recalc", "activate", "deactivate", "destroy", "view"}
Begun == {"filter", "recalc", "activate"}   \* the handlers that call Begin
UiPCs == {"idle", "reset", "stop", "end", "wait", "return", "show", "row", "gone"}
CalcPCs == {"none", "start", "look", "calc", "post", "test", "exit", "done"}

Idle == [op |-> "none", pc |-> "idle", new |-> Default, boss |-> 1, seen |-> Unknown]

-----------------------------------------------------------------------------
\* PatternAvailabilityCalculator::ThreadProc.

At(t, pc) == worker[t] = pc
Goto(t, pc) == worker' = [worker EXCEPT ![t] = pc]

\* Mutant: m_term keeps what the last StopPlease left there.
StartKeepsTerm(t) ==
  /\ At(t, "start") /\ Goto(t, "look")
  /\ index' = 0
  /\ UNCHANGED <<avail, settings, term, control, posted, view, ui, dbHeld>>

Start(t) ==
  /\ At(t, "start") /\ Goto(t, "look")
  /\ index' = 0 /\ term' = FALSE
  /\ UNCHANGED <<avail, settings, control, posted, view, ui, dbHeld>>

\* Mutant: the end of the list starts the loop again.
LookAgain(t) ==
  /\ At(t, "look")
  /\ IF index = Bosses
     THEN Goto(t, "test") /\ index' = 0
     ELSE IF avail[index + 1] = Unknown
     THEN Goto(t, "calc") /\ UNCHANGED index
     ELSE Goto(t, "test") /\ index' = index + 1
  /\ UNCHANGED <<avail, settings, term, control, posted, view, ui, dbHeld>>

Look(t) ==
  /\ At(t, "look")
  /\ IF index = Bosses
     THEN Goto(t, "test") /\ term' = TRUE /\ UNCHANGED index
     ELSE /\ UNCHANGED term
          /\ IF avail[index + 1] = Unknown
             THEN Goto(t, "calc") /\ UNCHANGED index
             ELSE Goto(t, "test") /\ index' = index + 1
  /\ UNCHANGED <<avail, settings, control, posted, view, ui, dbHeld>>

\* CalcPbAvailability, under g_DBManager's lock, and SetBossAvail.
Calc(t) ==
  /\ At(t, "calc") /\ Goto(t, "post")
  /\ ~dbHeld
  /\ avail' = [avail EXCEPT ![index + 1] = settings]
  /\ UNCHANGED <<settings, term, control, index, posted, view, ui, dbHeld>>

Post(t) ==
  /\ At(t, "post") /\ Goto(t, "test")
  /\ posted' = Append(posted, index + 1)
  /\ index' = index + 1
  /\ UNCHANGED <<avail, settings, term, control, view, ui, dbHeld>>

Test(t) ==   \* while (!m_term)
  /\ At(t, "test") /\ Goto(t, IF term THEN "exit" ELSE "look")
  /\ UNCHANGED <<avail, settings, term, control, index, posted, view, ui, dbHeld>>

Exit(t) ==
  /\ At(t, "exit") /\ Goto(t, "done")
  /\ index' = 0 /\ term' = FALSE
  /\ UNCHANGED <<avail, settings, control, posted, view, ui, dbHeld>>

-----------------------------------------------------------------------------
\* PatternMatchView.  A handler that stops or starts the calculator sets ui and
\* goes on from there; the other messages wait until it has returned.

UiIdle == ui = Idle
UiAt(pc) == ui.pc = pc
UiGoto(pc) == ui' = [ui EXCEPT !.pc = pc]

Begins(op, pc, new) ==
  /\ UiIdle
  /\ op \in Begun => threads < MaxThreads
  /\ ui' = [op |-> op, pc |-> pc, new |-> new, boss |-> 1, seen |-> Unknown]

FilterChanges(new) ==   \* onFilterSettingsChanged
  /\ active
  /\ new # settings
  /\ Begins("filter", "reset", new)
  /\ UNCHANGED <<avail, settings, term, control, calcVars, posted, view, dbHeld>>

\* ... with the same settings: what to show changes, not what to compute.
ViewChanges ==
  /\ active
  /\ Begins("view", "show", settings)
  /\ UNCHANGED <<avail, settings, term, control, calcVars, posted, view, dbHeld>>

Recalculate ==   \* OnRecalculate
  /\ active
  /\ Begins("recalc", "stop", settings)
  /\ UNCHANGED <<avail, settings, term, control, calcVars, posted, view, dbHeld>>

Activate ==   \* OnActive(true): Begin, which calls End if there is a thread
  /\ ~active /\ active' = TRUE
  /\ Begins("activate", "end", settings)
  /\ UNCHANGED <<avail, settings, term, control, calcVars, posted, rows, progress,
                 dbHeld>>

Deactivate ==   \* OnActive(false)
  /\ active /\ active' = FALSE
  /\ Begins("deactivate", "stop", settings)
  /\ UNCHANGED <<avail, settings, term, control, calcVars, posted, rows, progress,
                 dbHeld>>

Destroy ==   \* OnDestroy
  /\ Begins("destroy", "stop", settings)
  /\ UNCHANGED <<avail, settings, term, control, calcVars, posted, view, dbHeld>>

\* SetBossAvail(0, -1) of a filter change, while the calculator still runs.
Reset ==
  /\ UiAt("reset")
  /\ avail' = [avail EXCEPT ![ui.boss] = Unknown]
  /\ IF ui.boss = Bosses THEN UiGoto("stop") ELSE ui' = [ui EXCEPT !.boss = @ + 1]
  /\ UNCHANGED <<settings, term, control, calcVars, posted, view, dbHeld>>

\* Mutant: the view is destroyed without End().
StopWithoutEnd ==
  /\ UiAt("stop") /\ UiGoto(IF ui.op = "destroy" THEN "return" ELSE "end")
  /\ term' = (term \/ running)
  /\ UNCHANGED <<avail, settings, control, calcVars, posted, view, dbHeld>>

StopPlease ==
  /\ UiAt("stop") /\ UiGoto("end")
  /\ term' = (term \/ running)
  /\ UNCHANGED <<avail, settings, control, calcVars, posted, view, dbHeld>>

\* Thread::End.
End ==
  /\ UiAt("end") /\ UiGoto(IF thread = 0 THEN "return" ELSE "wait")
  /\ running' = (running /\ thread = 0)
  /\ UNCHANGED <<avail, settings, term, thread, threads, calcVars, posted, view,
                 dbHeld>>

\* Mutant: the wait gives up.
WaitTimesOut ==
  /\ UiAt("wait") /\ UiGoto("return")
  /\ thread' = 0
  /\ UNCHANGED <<avail, settings, term, running, threads, calcVars, posted, view,
                 dbHeld>>

Wait ==
  /\ UiAt("wait") /\ UiGoto("return")
  /\ At(thread, "done")
  /\ thread' = 0
  /\ UNCHANGED <<avail, settings, term, running, threads, calcVars, posted, view,
                 dbHeld>>

\* Thread::Begin.
Begin ==
  /\ thread' = threads + 1 /\ threads' = threads + 1
  /\ running' = TRUE
  /\ worker' = [worker EXCEPT ![threads + 1] = "start"]

Restart ==   \* after End: drop the pending updates and begin anew
  /\ UiAt("return") /\ ui.op \in {"filter", "recalc"}
  /\ ui' = [ui EXCEPT !.pc = "show", !.boss = 1]
  /\ posted' = <<>>
  /\ settings' = ui.new
  /\ avail' = IF ui.op = "recalc" THEN [b \in Boss |-> Unknown] ELSE avail
  /\ Begin
  /\ UNCHANGED <<term, index, view, dbHeld>>

\* UpdatePbListView() lists every boss anew.  It reads an availability twice,
\* without a lock: the first time for the number to print, the second time to
\* decide between a number and "calculating...".
ReadNumber ==
  /\ UiAt("show")
  /\ ui' = [ui EXCEPT !.pc = "row", !.seen = avail[ui.boss]]
  /\ UNCHANGED <<avail, settings, term, control, calcVars, posted, view, dbHeld>>

Number == IF ui.seen = Unknown THEN MinusOne ELSE ui.seen

NextRow ==
  ui' = IF ui.boss = Bosses THEN Idle
        ELSE [ui EXCEPT !.pc = "show", !.boss = @ + 1, !.seen = Unknown]

\* Mutant: the number is printed whatever it is.
ShowRowUntested ==
  /\ UiAt("row") /\ NextRow
  /\ rows' = [rows EXCEPT ![ui.boss] = Number]
  /\ UNCHANGED <<avail, settings, term, control, calcVars, posted, progress, active,
                 dbHeld>>

ShowRow ==
  /\ UiAt("row") /\ NextRow
  /\ rows' = [rows EXCEPT ![ui.boss] =
                IF avail[ui.boss] = Unknown THEN Unknown ELSE Number]
  /\ UNCHANGED <<avail, settings, term, control, calcVars, posted, progress, active,
                 dbHeld>>

ReturnActive ==
  /\ UiAt("return") /\ ui.op = "activate" /\ ui' = Idle
  /\ Begin
  /\ UNCHANGED <<avail, settings, term, index, posted, view, dbHeld>>

ReturnInactive ==
  /\ UiAt("return") /\ ui.op = "deactivate" /\ ui' = Idle
  /\ posted' = <<>>
  /\ UNCHANGED <<avail, settings, term, control, calcVars, view, dbHeld>>

ReturnDestroyed ==
  /\ UiAt("return") /\ ui.op = "destroy" /\ UiGoto("gone")
  /\ UNCHANGED <<avail, settings, term, control, calcVars, posted, view, dbHeld>>

\* OnUpdatePbListView, which prints the very number it has tested.
UpdateRow ==
  /\ UiIdle /\ posted # <<>>
  /\ posted' = Tail(posted)
  /\ rows' = [rows EXCEPT ![Head(posted)] = avail[Head(posted)]]
  /\ progress' = Head(posted)
  /\ UNCHANGED <<avail, settings, term, control, calcVars, ui, active, dbHeld>>

\* A handler of another view returns without UnLock, and the mutex is the
\* window's thread's from then on: the recipes tab while no recipe is chosen,
\* at every focus more than three seconds after the last (RecipesView), a split
\* or a delete in a container that is not known (ReturnHoldingLock in
\* InventoryView).
KeepLock ==
  /\ LockLeaks /\ UiIdle /\ ~dbHeld
  /\ dbHeld' = TRUE
  /\ UNCHANGED <<avail, settings, term, control, calcVars, posted, view, ui>>

-----------------------------------------------------------------------------
Init ==
  /\ avail = [b \in Boss |-> Unknown]
  /\ settings = Default
  /\ term = FALSE
  /\ running = FALSE /\ thread = 0 /\ threads = 0
  /\ worker = [t \in Threads |-> "none"] /\ index = 0
  /\ posted = <<>>
  /\ rows = avail /\ progress = 0 /\ active = FALSE
  /\ ui = Idle
  /\ dbHeld = FALSE

Search(t) ==
  Start(t) \/ Look(t) \/ Calc(t) \/ Post(t) \/ Test(t) \/ Exit(t)

Handler ==
  \/ Reset \/ StopPlease \/ End \/ Wait \/ Restart \/ ReadNumber \/ ShowRow
  \/ ReturnActive \/ ReturnInactive \/ ReturnDestroyed

User ==
  \/ (\E new \in Settings : FilterChanges(new)) \/ ViewChanges \/ Recalculate
  \/ Activate \/ Deactivate \/ Destroy

Next == (\E t \in Threads : Search(t)) \/ Handler \/ UpdateRow \/ User \/ KeepLock

\* The scheduler runs the calculator and a handler that has begun; the message
\* loop gets to the posted messages.  The user need not do anything.
Spec ==
  /\ Init /\ [][Next]_vars
  /\ \A t \in Threads : WF_vars(Search(t))
  /\ WF_vars(Handler) /\ WF_vars(UpdateRow)

-----------------------------------------------------------------------------
(***************************************************************************)
(* Properties.                                                             *)
(***************************************************************************)
Known == Settings \cup {Unknown}

\* The types of the variables.
TypeOK ==
  /\ avail \in [Boss -> Known] /\ rows \in [Boss -> Known \cup {MinusOne}]
  /\ settings \in Settings
  /\ term \in BOOLEAN /\ running \in BOOLEAN
  /\ thread \in 0..MaxThreads /\ threads \in 0..MaxThreads
  /\ worker \in [Threads -> CalcPCs]
  /\ index \in 0..Bosses
  /\ posted \in Seq(Boss) /\ progress \in 0..Bosses
  /\ ui \in [op : Ops, pc : UiPCs, new : Settings, boss : Boss, seen : Known]
  /\ active \in BOOLEAN /\ dbHeld \in BOOLEAN

Runs(t) == worker[t] \notin {"none", "done"}

\* No calculator outlives its handle, and so no two run at a time, share
\* m_index and write to the list ("just to be safe" in Thread::Begin).
OneSearch == \A t \in Threads : Runs(t) => t = thread

\* Once the view is destroyed no calculator runs that would use it ("Stop the
\* bloddy worker thread while we still can count ourselves as a window").
QuietAfterDestroy == UiAt("gone") => \A t \in Threads : ~Runs(t)

\* Between messages a row shows what the list holds, or "calculating...":
\* never a number of other settings than the list's, although the calculator
\* writes while UpdatePbListView() reads, and the updates that were pending
\* when a search is stopped are thrown away.  The one false number is -1, for a
\* boss whose availability came between the two reads of its row; it stays if
\* the posted update is among those thrown away, and is never shown of a boss
\* that has no availability.
Honest(b) ==
  \/ rows[b] \in {avail[b], Unknown}
  \/ rows[b] = MinusOne /\ avail[b] # Unknown

RowsHonest == UiIdle => \A b \in Boss : Honest(b)

AllCalculated == \A b \in Boss : avail[b] # Unknown

\* A search that ends by itself has left no boss out: whatever searches were
\* stopped before, and wherever StopPlease left m_term and m_index, the view
\* that is active and left alone has an availability for every boss once the
\* calculator is done (the loop of ThreadProc, Thread::Begin after Thread::End).
SearchIsComplete ==
  active /\ UiIdle /\ thread # 0 /\ At(thread, "done") => AllCalculated

\* While the view is active and left alone every boss gets an availability,
\* whatever searches were stopped before, unless the data base stays locked.
EverythingIsCalculated ==
  active /\ UiIdle ~> AllCalculated \/ ~UiIdle \/ dbHeld

\* A handler that waits for the calculator to end goes on, also if its
\* StopPlease came before the new thread had reset m_term.
StopReturns == UiAt("wait") ~> ~UiAt("wait") \/ dbHeld

\* The same without the exception ("To cancel a search call StopPlease()
\* followed by End()").
StopAlwaysReturns == UiAt("wait") ~> ~UiAt("wait")

\* When the progress bar is filled up and the search over, every availability
\* is that of the settings ("When this is all filled up, all your search
\* settings have been applied to the database").
SearchAppliesSettings ==
  UiIdle /\ active /\ At(thread, "done") /\ posted = <<>> /\ progress = Bosses =>
    \A b \in Boss : avail[b] = settings
=============================================================================
