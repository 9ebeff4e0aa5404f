# Item Assistant for Anarchy Online: specification and proofs

Item Assistant (`src/aoia`) keeps a data base of what a player's characters own
in the game Anarchy Online.  A library injected into the game client copies the
client's messages to a window of Item Assistant, which applies them to a SQLite
data base and shows it.  This directory models the parts of it that keep state,
checks them with TLC on small instances, and proves the most important results
with TLAPS for every instance.

All source paths below are relative to `src/aoia` unless they say otherwise.

## The system

```
 game client                                 Item Assistant
+---------------------------+              +----------------------------------------+
| hooks -> queue -> worker  | SendMessage  | MainFrm -> InventoryView -> DBManager  |
| (ItemAssistantHook)       |------------->|               |      \        |        |
+---------------------------+              |        TempContainer  \   SQLite file  |
                                           |        Cache       PatternMatchView    |
                                           |                        |  ^ posted     |
                                           |              PatternAvailability-      |
                                           |              Calculator (thread)       |
                                           +----------------------------------------+
```

| component | state | operations | what makes it correct |
|---|---|---|---|
| Inventory view (`ItemAssistant/InventoryView.cpp`) | the tables `tItems` and `tToons`, the trade in progress | one handler per message of client and server, the user's deletions | items follow the game: a trade is applied whole or not at all, a crash between messages loses no change but a deletion, no handler touches another character |
| Data base manager (`DBManager.cpp`) | rows, slots, the lock | slot search, search by type, insert, delete, names and shops | the slot it returns is free |
| Start (`DBManager::init`) | schema version, tables, `aoitems.db` | create, update from any version, extract the game's data base | an update reaches the current scheme from any version, interrupted or not, and keeps names and items, and the other columns while the version is on disk (the exceptions are below); `aoitems.db` is always a complete extraction |
| Temporary ids (`TempContainerCache.cpp`) | two maps per character | update, look up, clear | an id that is not known is not mistaken for another |
| Hook library (`ItemAssistantHook/dllmain.cpp`, `DataQueue.cpp`) | message filter, queue, event, worker thread, target window | filter, reload, push, signal, pop, send, detach | messages arrive in order, at most once, none stays in the queue; a reload never opens the filter |
| Game data reader (`Shared/AODatabaseIndex.cpp`, `AODatabaseParser.cpp`) | index of offsets, the open file and its stream | walk the index, find the file, read a record | what is not read is known: no record beyond the three kinds below |
| List of items (`ItemListDataModel.cpp`, `datagrid`, `InvTreeItems.cpp`) | snapshot of a query, its predicate, the highlighted lines | new query, sort, delete what is highlighted | nothing is deleted that the user was not asked about, however old the snapshot |
| Find panel (`FindPanel.cpp`) | text, character, timer, the query run last | type, choose, timer | what is typed is searched for |
| Pattern matcher (`PatternMatchView.cpp`, `PatternAvailabilityCalculator.cpp`, `Shared/Thread.cpp`) | list of bosses, a thread, posted updates | filter, recalculate, change of tab, search | one search at a time, a stop that returns, a list that shows the truth |
| Main frame (`MainFrm.cpp`, `TabFrame.cpp`, `InjectionSupport.cpp`) | injected clients, tabs | receives messages, injects the library | passes each message to every view |
| Container names, player shop watcher | a cache, a thread | refresh | not stale when used |
| Message parsers (`Parsers`, `AOMessageParsers.h`) | none | decode | |
| Reports, recipes, identify, info panel, settings, plugins, CSV | presentation | queries | |

How they interact:

* `InventoryView`, `MainFrm` and the other views run on one thread, the
  window's.  A message is handled to its end before the next, so handlers
  exclude each other, and a handler may be one step.
* `g_DBManager` is a recursive mutex.  The window's thread takes it in every
  handler; the only other thread that takes it is the pattern calculator.
* The list of items is a snapshot that messages never refresh.  The message box
  of a deletion runs a message loop of its own, in which messages and the find
  panel's timer are handled while the user's question is open.
* The hooks run on threads of the game; the worker of the library sends with
  `SendMessage`, which returns when the window has handled the message.
* The libraries of several clients share an event by its name.

What is hard about it, and why tests would hardly reach it: the handlers of one
trade are spread over many messages and commit only at the end; a process may
end between any two statements; handlers return early between `Begin` and
`Commit`; the worker reads the queue without its mutex; a search is stopped
before it has begun; the view that holds the schema version is replaced by
two statements without a transaction; an update copies rows into a table with a new
unique key; the view reads an availability twice while a thread writes it; the files of the game overlap where they
meet; and a deletion reads its ids after the user has answered.  `PROJECT.json` lists these hazards, each
at its line, with the properties that cover it, or the reason why none does.

## The modules

| module | models | composes |
|---|---|---|
| `ItemTable` | `tItems` and the SQL statements used on it, the slot search | |
| `InventoryView` | all handlers, the trade loops, transactions, lock, caches, restart | `ItemTable` |
| `MCInventory` | symmetry, bounds, sub-specifications | `InventoryView` |
| `MessageLink` | what the hook library promises (abstract) | |
| `HookQueue` | hooks, queue, event, worker, detach, window | implements `MessageLink` |
| `HookFilter` | the two hooks with the message filter and its reload | `HookQueue`, which it implements |
| `MCHook` | names of registry keys for TLC | `HookFilter` |
| `PatternSearch` | view, calculator thread, posted updates | |
| `DbScheme` | tables by column, the statements of an update | |
| `ItemsDb` | `syncLocalItemsDB`, the game's patcher | |
| `Startup` | `DBManager::init` | `DbScheme`, `ItemsDb` |
| `Extraction` | the reading of the game's index and records | `Startup`, which it implements |
| `MCExtraction` | two files and three indexes for TLC | `Extraction` |
| `ItemList` | list, tree and find panel over the table | `ItemTable` |
| `MCViews` | items, texts and new rows for TLC | `ItemList` |
| `*_proofs` | theorems about the module of that name; `HookQueue_proofs` also about `HookFilter` | |

### ItemTable and InventoryView

A table is a function from row ids to rows, so that an `UPDATE` keeps the
identity of a row.  `keylow`, `keyhigh` and `ql` always travel together and are
one `key`; flags are never read back by a handler.  A stack is an integer or
`NULL`, which absorbs in sums as in SQL.

`FindNextAvailableContainerSlot` walks the sorted rows beside a counter.
`ItemTable` defines the result as a minimum, which can be proved about; `Walk` is
the loop over the rows in an order `ORDER BY slot` allows (`SlotOrders`: rows that share a
slot come in any order), and `SlotSearchIsTheWalk` says that they agree.

In `InventoryView`, one action stands for one handler.  `Transaction`,
`Statement`, `StartTask`, `TaskStatement`, `EndTask` and `ReturnHoldingLock` are
the ways in which a handler uses lock and transaction; `disk` is what a restart
would find.  `TaskStatement`, a statement of a loop, reaches `disk` unless a
transaction is open, so that a loop without `Begin` shows (`TradeIsAtomic`).  The handlers that loop over the 36 slots of a trade window are a
`task`, whose steps are the iterations.  No message is handled in between,
which is what the code does: the loop is on the window's thread.  `Restart` may
come between any two steps.

`GiveToNpc` with direction 1 requires the source to be the trade window, which
the code asserts (`InventoryView.cpp:801`).  The data a bulk message carries is
an arbitrary set of rows of its container, at most `MaxBatch`.

A handler that returns between `Begin` and `Commit` (`ReturnHoldingLock`) keeps the
lock, and leaves a transaction open that the next `Commit` of any handler ends.  What is
executed until then and has no `Begin` of its own are deletions:
`CrashLosesOnlyDeletions` says that a crash undoes no more than those, and
`CommittedUnlessLocked` that without a kept lock it undoes nothing.
`UnknownShopDelivers` names where each row of a sale goes: what the partner put in
the window to the inventory, what the character put there to the shop's container.

### HookQueue and MessageLink

The program counters of the worker follow the loop of `WorkerThreadMethod`.
`empty()` is read without the queue's mutex; the model reads it in one step,
since only the worker removes elements.  `SendMessage` delivers if the window
still has the handle.  `FindTarget` may keep an old handle for up to ten
seconds, so for any number of steps.  `MessageLink` allows to accept, lose and deliver; with
`pending` mapped to the held message followed by the queue, `HookQueue` implements it.

### HookFilter

`HookFilter` refines the hooks of `HookQueue`: `Incoming` reads the registry or
not (ten seconds may have passed or not), then passes the message on or keeps it
back; `Outgoing` is the client's own message.  `LoadMessageFilter` only adds ids:
the code calls `empty()`, which does nothing, where `clear()` was meant.  That
is also what keeps the filter shut: a filter that is empty passes every
message, and a reload that cleared it would open it whenever the registry is
empty or cannot be read.  `Read` is the loop over `EnumKey`, whose buffer is as
long as the name read before, so that it ends at the first name that is not
shorter; a `QueryDWORDValue` that fails skips its entry, so `LoadMessageFilter` adds any
part of the entries read.  `withheld` is a history variable.

### PatternSearch

`ui` is where the handler of the window's thread stands, `worker` where each
thread created stands.  `PbListMutex` is locked by the calculator only, so it
excludes nothing; the list of bosses is shared without a lock, and each access
is one step.  An availability is represented by the settings it was computed
under.  `UpdatePbListView()` reads each availability twice, without a lock (`PatternMatchView.cpp:188`
and `:192`, `:264` and `:267`): once for the number to print and once to decide whether to print
it.  `ReadNumber` and `ShowRow` are the two reads, and the calculator may write between them; the
row then shows -1 as a number (`MinusOne`).  `RowsHonest` says that this is the only false number, and
that such a boss has an availability.  `OnUpdatePbListView` prints the number it has tested, in the
regular mode.  The least availability a row must have (`m_availfilter`) and the modes
with fewer bosses leave rows out and are not modelled.  `KeepLock` is a handler that returns with the data base locked, seen
from here: `RecipesView::onFilterSettingsChanged` while no recipe is chosen, or
`InventoryView!ReturnHoldingLock`.

### DbScheme, ItemsDb and Startup

A table of `DbScheme` has columns, rows by key, whether a key is unique, and the keys that occur
more than once (`twice`).  `Db::Exec` logs an error and goes
on, so a statement that cannot succeed is the identity (`MayCopy`,
`CreateTable`).  Version 0 has no key on `tToons`: `OldTables` has version-0 tables with a
charid that occurs twice.  Case 0 copies the names to a second table, creates `tToons` with a
unique index (`DBManager.cpp:712`) and copies them back (`:713`); with a charid in two rows that
statement fails as a whole, and `:714` drops the second table: every name is lost.  Each case of `updateDBVersion` is one transaction and one step;
its default, two statements without one, is two.  `Init` has a data base of
every version, the next one included, or none.

`ItemsDb` represents the contents of the game's data base by a revision and
times by a clock that its patcher advances.  That data base is `ResourceDatabase.dat`, `.001`, ...
and `.idx`, and the code compares the time of the `.dat` only (`DBManager.cpp:123`): `Patch` assumes
that every patch writes that file, which nothing in the repository says.  `Startup` puts both together with
the user's answers and an end of the process at any point (`Exit`).

### Extraction

`Extraction` puts the reading of the records between the steps of `ItemsDb`:
`ReadIndexBlock` follows the list of blocks in `ResourceDatabase.idx`,
`ReadRecord` is one turn of the loops over items and nanos (`GetItem`,
`EnsureFileOpen`, `GetFileFromOffset`), `EndPass` the commit between and after them.
Records are named by their offsets; `Start` is the map of offsets the parser adds
up from the sizes of the files.  The parser is one object for both loops, so a
stream that failed at the end of a file stays so for the nanos of that file.
`Lost` says which records the code does not read, and nothing in the repository says
that it should not read them:

* the first record of each file but the first: `offset > start + size`
  (`Shared/AODatabaseParser.cpp:128`) keeps the file before open, whose last
  byte is one before;
* records in the last 0x1000 bytes of a file but the last, if that file is not
  open: `GetFileFromOffset` (`:142-156`) gives the next file, whose range begins there;
* the nanos of a file whose stream the last item made fail; which item is the last
  depends on what is indexed, so `AfterSeam` is about `Indexed`, not about all records;
* a block of the index that ends with it, and those behind (`Shared/AODatabaseIndex.cpp:52`).

`LocalHasAllButLost` says that these are all: however often an extraction was cancelled or
interrupted, what `aoitems.db` lacks is a record where two files meet (`Seam`), a nano behind a stream that
such a record broke (`AfterSeam`), or a record of a block that is not read (`NotIndexed`).  It does not
excuse the code for these, it bounds the damage: the open file and its failure, kept from record to
record and from items to nanos, cost no other record.  The comment at `Shared/AODatabaseParser.cpp:72`
says of the missing cookie "Should only happen if our offsets are wrong."; at a seam it happens with offsets that
are right.

### ItemList

`table` and `toons` are those of `ItemTable`; the game's messages are reduced to what they do
to one row (`ItemInserted`, `ItemMoved`, `ItemRemoved`).  `list` is the result the model of the
grid holds, `where` its predicate, `selected` the highlighted positions, which the grid keeps
when the query is run again.  `OnDelete` is two steps, `AskDelete` and the answer, because its
message box handles messages and timers; `asked` remembers what was
highlighted at the question.  `UpdateFindQuery` is reached from the timer, from the character's combo box
and from nothing else.

## The runs

| run | bounds | question |
|---|---|---|
| `inv_items` | one character, two rows, a stackable and a container type, a backpack, two inventory slots, stacks up to two | does the slot search find a free slot and agree with the loop; is the swap container empty; does a split or join keep every unit |
| `inv_trade` | one character, three rows, trade window of two slots, a backpack, a crash anywhere, one kept lock | is a trade atomic; what may a crash undo, also while a transaction is left open; does a decline return and a commit deliver every item |
| `inv_shop` | two characters, one of which may own the shop, two rows; trades, moves, new items, bulks and stacks | does a purchase from a stranger put every item where it belongs; does a handler touch the other character's rows |
| `hook` | one client, two hook threads, two messages, two windows, two ids, one edit of the registry | order, no lost wakeup, every message leaves, the filter stays shut |
| `pattern` | two bosses, two settings, three searches, a kept lock | one search, a stop that returns, honest rows, an ended search left no boss out, all bosses get calculated |
| `startup` | one toon, one item, every version, with and without a charid that occurs twice in version 0, two parts, two patches, two files, three indexes | what does an update or a crash lose; is `aoitems.db` complete and current; which records are missed |
| `itemlist` | one character, two row ids, a backpack, two kinds of items, two texts | does a deletion hit what was asked; is what is typed searched for |
| `inv_known_shop` | as `inv_shop` | finding |
| `inv_self_join` | as `inv_items`, one more slot in messages | finding |
| `hook_dual` | two clients, one message each | finding |
| `pattern_filter`, `pattern_lock` | as `pattern` | findings |

Why the bounds are enough.  Handlers compare slots for equality and order and
owners for equality; two occupied slots and a third row reach a full inventory
(`InvLimit`), a gap, two rows in one slot, a container in a container, and a
trade in which both sides have an item.  Row ids are interchangeable
(`SYMMETRY`); no property names one, and no run with symmetry checks liveness.  `BoundedStacks` cuts off
stacks outside of `-1..MaxStack`, which repeat the same sums.  Lock leaks are
bounded by one, since the second does what the first did; `inv_items` has none, which leaves room for stacks
of two units, and `inv_trade` has the messages that keep the lock.  Two messages and two
windows let one message be in the worker's hands or lost to a closed window
while the next is in the queue; two ids and one edit let an id be listed, withheld, and
taken off the list.  The three indexes of `MCExtraction` have a record on every kind of
seam, a last item that breaks the stream, nanos in the file before the last item's, and a block
that is not read; the proofs are about any files.  Two row ids, given in order,
let a row be replaced by another behind an open message box.  Three searches are one that ends, one that is stopped
and the one that follows.  One toon and one item suffice for the update, whose
statements treat rows alike; the proof does not depend on any of these bounds.

`inv_trade`, `inv_shop` and `inv_items` use sub-specifications of `Next`
(`TradeSpec`, `ShopSpec`, `ItemSpec`): since no message is handled while a trade
loop runs, what the loop does depends only on the tables it starts from, and
each keeps the messages that reach those tables; together they have every
message.  The properties proved are proved of `Next`.

Deadlock is checked in every run but those of `HookQueue` and `PatternSearch`,
where a detached client without messages and a destroyed view really stop.

### Findings

* `inv_known_shop`: a purchase in the shop of another character of the same
  user.  The items are duplicated with the buyer as owner
  (`InventoryView.cpp:1922-1928`), the commit looks for them with the shop's
  owner (`:1766-1771`), and moves none.
* `inv_self_join`: a stack that is dropped within its container on "any slot" may
  be joined with itself, and is deleted (`InventoryView.cpp:2304`).
* `hook_dual`: two clients share the auto-reset event `IA_Worker`; the signal of
  one may wake the worker of the other, and the message stays in the queue.
* `pattern_filter`: the availabilities are reset before the running search is
  stopped, which may still write one of the old settings; the next search skips it.
* `pattern_lock`: the recipes tab, whenever it gets the focus while no recipe is
  chosen (`RecipesView.cpp:30-34`), and a split or delete in an unknown container
  (`InventoryView.cpp:908-916`) return with the data base locked; the calculator
  then waits for the lock and the window for the calculator.

The runs that pass say under which condition the rest holds: `CommittedUnlessLocked`
excepts the kept lock by name (what may happen under it is `CrashLosesOnlyDeletions`), as do
`StopReturns` and `EverythingIsCalculated`,
`UnknownShopDelivers` is about strangers, `hook` has one client,
`LocalHasAllButLost` names what it leaves out, and `DeletesWhatWasAsked` allows a search
that replaces the list behind the message box, after which the answer deletes nothing.
`StacksKeepUnits` is about stacks that are single rows in their slots, of which no more is split off
than there is, about joins of two different slots, and leaves out a split on an equipment page: the slot
search begins at `FirstInvSlot` and does not see the slots of a page, so it may
return the slot of the stack itself.
`SearchIsComplete` is about a search that nobody stopped.  A row may then still show "calculating...":
a stop throws the pending updates away, also those of bosses that the next search skips,
which `RowsHonest` allows.
With a registry of several ids the filter may hold only some of them (`Read`), in the order in
which the registry lists them: `HookFilter` models this, and no property judges it.
`ColumnsKept` holds while the version is on disk: if the process ends between
`DROP VIEW` and `CREATE VIEW` (`DBManager.cpp:809-810`) the next start updates from
version 0, and loses the shop and dimension of every toon.
`RowsKept` excepts the one step in which case 0 meets a charid in two rows (`TwiceInVersion0`), which
loses the names of all toons.  `UpToDateUnlessRaced` excepts a patch during the extraction, which
nothing in the code notices, and `TrueMeansUsable` a game that is gone, without which any local file
will do.  `TypedIsSearched` is about the query the panel ran last: when the tree has replaced its list,
the same text is not searched for again.

### Fairness

Three specifications state it.  `HookQueue` (and `HookFilter`, whose threads are the same): weak fairness of a hook's
`SetEvent` after its `push`, of the worker's steps and of `EndWorkerThread`: a
thread that can go on is scheduled.  `PatternSearch`: of the calculator's steps,
of a handler that has begun and of the message loop that takes posted messages.
`ItemList`: of `OnTimer`, since both the application's message loop and that of a
message box deliver `WM_TIMER`.
Nothing obliges the game to send a message, the user to do anything, or the
calculator to get a lock that is kept.

## The proofs

`tlapm` checks all of them; the constants are arbitrary up to the named
assumptions (`TableAssumption`, `ViewAssumption`, `HookAssumption`,
`PatternAssumption`, `PartsAssumption`, `FilterAssumption`, `FilesAssumption`, `IndexesAssumption`,
`ListAssumption`), which TLC evaluates in the runs.

* `ItemTable_proofs`.  `NextSlotIsFree`: if the search returned a slot `p` that a
  row occupies, one more row would lie at or below `p` than below, so `p - 1`, or the end of the
  rows, would have stopped the walk earlier.  `NextSlotIsLowestFree`: where no
  two rows share a slot the candidates are counted by their slots.
  `WalkFindsSlot`: the loop stops at the first row `k` beyond the counter, the rows before it
  are the ones up to the counter (`RowsOfPrefix`), so it stops at the least candidate; an order
  of the rows exists (`SlotOrderExists`), so this is said of at least one walk.
* `InventoryView_proofs`.  The invariant is `IInv`: both the tables in memory and
  on disk are typed and have no row in the swap container (`TablesOK`), the
  caches and the task are typed, and `TxnOK`: while a trade loop runs the lock
  is held, and an unlocked data base has no open transaction and equals the
  disk.  `CommittedUnlessLocked` alone is not inductive, since it says nothing of
  the lock during a loop.  There is one lemma per action, and the lemmas on the
  ways to end a handler (`TransactionStep`, `TaskStatementStep`, ...) carry most of
  it.  `TradesAreAtomic` is an action property from the same invariant.
  `CrashesLoseOnlyDeletions` needs no more than `IInv` where no transaction is open, and is by message where
  one is: a handler ends with a `Commit`, only deletes (`OnlyDeletes`), or changes nothing.
  The loops need `LoopOK` on top of it (`LoopInvariant`): before iteration `i` every
  row of the side that is being emptied is at slot `i` or beyond, a committed
  trade's own side is empty, and in a shop that no monitored character owns the buyer
  trades with itself, so that a hand over is a move (`HandOverToSelf`).  `DeclineLosesNothing`,
  `CommitDeliversAll` and `UnknownShopDeliversAll` follow from it and from what one move
  does to one row.  `OwnersAreRespected` is by message: `KeepsOthers(t, u, c)` says that a
  handler for `c` neither changes nor makes a row of another character in the bank,
  on the body or in a trade.  It composes along the statements of a handler (`KeepsAlong`), and each
  statement has it because its WHERE names `c` or a container that is none of those.
  `StacksAreKept` counts the units of an item as pairs of a row and a number up to its
  stack, so that nothing has to be summed: `UnitsMoved` says that units that change from one row to another
  keep their number (a bijection of the pairs).  A split relies on `NextSlotIsFree`, the join of a
  move on the row it finds being of the same kind (`SameTypeFound`).
* `MessageLink_proofs` and `HookQueue_proofs`.  `LinkKeepsOrder` is proved of the
  abstract link; `HookImplementsLink` maps each step of the library to a step or
  a stutter, for any number of clients; `WindowSeesOrder` combines them.  The
  invariant `HookInv` says that the worker holds a message exactly while it sends
  and finds one when it pops.  `WakeupsAreKept` is proved for one client; for two
  it is false (`hook_dual`).
  The last part is about `HookFilter`.  `FilterImplementsHook` says that a filtered
  library is one that gets fewer messages, so that `FilteredInOrder` follows; for
  `WithheldUntilListedHolds` the invariant `FilterInv` says that a client that has withheld an id
  has a filter that is not empty and does not have it.
* `ItemList_proofs`.  `ListInv` adds to the types that ids are given once: an id in the list
  or in the question is of a row with the same item or of none (`GivenOnce`), and that what is highlighted
  behind a message box is what was asked, or nothing (`AskedOrNothing`).  The staleness of the list is no part of it.
* `Extraction_proofs`.  `ExtractionImplementsStartup` carries the theorems about `Startup`
  over.  That `Start`, a recursive function, satisfies its own equation is proved from its
  definition by CHOOSE: a least number of files for which no such function exists
  would have a predecessor for which one does (`StartsExist`, `StartDef`), and the
  same argument gives that the files follow each other (`StartsAreNat`, `FilesFollow`).  `NotAtSeamIsRead`
  is about one read and any files.  The invariant `ReaderInv` (checked by TLC
  before it was proved) is about the progress: while the blocks are walked
  `found` is what a set of blocks holds that the current one closes
  (`FoundInBlocks`); in a loop every offset passed is below those to come and is in
  `tmp_aoitems.db` or lost (`PassInv`); and a stream that has failed is that of the last item's
  file if the loop is the second (`FailedAtEnd`), which is why the nanos it loses are those of `AfterSeam`.
  `LocalHasAllButLostHolds` is the last part of it.
* `PatternSearch_proofs`.  `SearchInv` relates the handle, the number of threads,
  the program counters of both sides and the index: between `End` and `Begin`
  nothing runs, which is why no search outlives the view.  `SweepOK` adds where a search stands: while the view is
  active and nobody stops it every boss up to `m_index` has an availability, and `m_term` is set only
  at the end of the list.  With it `SearchesAreComplete` gives the safety half of
  `EverythingIsCalculated`: what is left to TLC is that the search ends.
  `RowsAreHonest` goes along the list: while it is being made the rows before the current one are
  honest, and the number read is that of the list or the -1 of a boss that has one since.
* `Startup_proofs`.  `RebuildLemma` says what the six statements that give a
  table new columns do: the names come over if no key occurs twice, and from then on the key is
  unique (`Keyed`: only before case 1 may a charid occur twice).  `Reached(s, t)` is what case `s` expects of the tables;
  `UpdateReaches` that a case brings it to `s + 1`, also if the tables are those of a
  later version; `UpdateKeeps` that a column survives that is copied or has its
  default.  The invariant `DbInv` says that the version on disk and the running
  step have been reached, and that the columns the version does not have hold
  defaults: without that last part a case that does not copy a column would
  have to be assumed harmless.  `ItemsInv` says that what may become `aoitems.db` is
  complete and, if it is as late as the game's data base, of its revision or raced.

Every safety property of a run that passes is proved.  Only model-checked are the
liveness properties (`EveryMessageLeaves`, `EverythingIsCalculated`, `StopReturns`,
`TypedIsSearched`), which with ENABLED are out of the prover's reach.  Induction over
data is too; the two places that need it (`Start` and the orders of rows) argue by a
least counterexample instead.

## Not modelled

* Decoding of messages and of records byte by byte, and damaged records: the
  models start from what is decoded.
* Indexes, wording and layout; the labels of the tree, reports and tabs that only read
  (`PatternReport`, `SummaryView`, `IdentifyView`, `InfoPanel`); the recipes, whose only effect on others,
  the lock they keep, is in `PatternSearch`; container names, a cache that is read for labels.
* The player shop watcher, whose tab is commented out in `TabFrame.cpp`.
* Settings, plugins, the log, the injection of the library, CSV export.
* Statements that fail because the disk is full.
* The order of the columns of a message and the validity of the game's ids are the game's.
* Third party code: `src/ThirdParty` (Boost, SQLite, WTL) and `TabbingFramework`, which are
  more than 95 % of the lines under `src` and no part of the program's own logic.  SQLite, Windows and the
  C++ streams are modelled by what the program relies on: a transaction is on disk as
  a whole, an AUTOINCREMENT id is given once, an auto-reset event wakes one thread.

## Plan

1. (done) `ItemTable`, `InventoryView`, then `HookQueue` with `MessageLink`,
   `PatternSearch`, and `Startup`: the components with loops, threads, crashes.
2. (done) `HookFilter`, `Extraction` and `ItemList`: the filter and its reload, the reading of the
   game's files, and the views that change the data base on a stale snapshot.
3. Extend: an abstract mirror of the game's inventory that `InventoryView`
   implements for the messages of one character; `HookQueue` composed with the
   handlers, so that a lost message is a lost change; dimensions and stats of
   characters; the injection of the library.
4. (done) Prove every safety property the runs check.
5. (done) Prove further: that splitting and joining keeps every unit, and that a search
   that ends has left no boss out.
6. The hazards no property covers yet: the order of `break` and delete when an NPC gives back more
   than fits (`InventoryView.cpp:1201`), the overflow that is cleared for every owner (`:2596`), a mission
   item deleted by a slot remembered earlier (`:1291`), and counts read in several locked
   sections (`PatternAvailabilityCalculator.cpp:57`).
