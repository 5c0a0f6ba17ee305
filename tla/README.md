# migration-tools in TLA+

`mongodb-labs/migration-tools` is a Go library of small independent packages.
This directory holds TLA+ models of the ones whose correctness depends on
interleavings, limits and in-place updates, the TLC runs that check them on small
instances, and TLAPS proofs that hold for every instance. `PROJECT.json` lists the
components, the runs, the source lines behind every definition, the hazards and the
theorems.

## 1. The system

No package runs on its own: each is called by the goroutines of a program, most are
shared between goroutines, and one (`NewBoundedQueue`) starts a goroutine.

| Component | State | Operations | Interaction |
|---|---|---|---|
| `ringbuf.RingBuf` | array, head, tail, atomic count | New, Push, Peek, Pop, Len | owned by the queue's worker; Len is read by others |
| `synctools.NewBoundedQueue` | the ring, atomic `curMem`, channels `in` and `out` | the worker's loop, push, pop, stats | senders, receivers, the context, the caller's size function, callers of stats |
| `synctools.AtomicMax` | an atomic pointer | Update, Get | any number of goroutines, no lock |
| `contextplus.C` | a standard context | With…Cause, ErrGroup, Err | Err reads the wrapped context twice while others cancel it |
| `future.Future` | value, `ready` channel, RWMutex | set, Ready, Get | one writer, many readers |
| `synctools.DataGuard` | value, RWMutex | Load, CopyValue, Store | callbacks run with the lock held |
| `synctools.Buffer` | `bytes.Buffer`, RWMutex | Bytes, Write, Reset | writers and readers share an array |
| `history.History` | sorted logs, TTL, RWMutex | Add, Get; SumLogs, RatePer | clock, lock |
| `bsontools` edit, sort | the caller's bytes | ReplaceInRaw, RemoveFromRaw, SortFields | edits in place, recursive |
| `bsontools` values | none | marshal, unmarshal, compare, lookup | pure |
| `mongotools/index` | none | ModernizeSpec, DescribeSpecDifferences | uses bsontools' edits on a clone |
| `mongotools` rest | none | CompareRecordIDs, MaybeAddDirectConnection, … | pure, or I/O |
| `timetools`, `humantools`, `mathtools`, `option` | none | conversions | pure |
| `sysinfo`, `git`, `cmd/…` | none | | I/O |

What is hard in it, and what makes each part correct:

- **The bounded queue.** One worker, four `select` statements that choose at random,
  two limits, two ways to stop and one way to crash. Correct: one FIFO channel; nothing
  lost, repeated or reordered; the ring's assertions never fail (a panic in the worker
  ends the process); the byte count is exact between any two steps, even after an int64
  overflow; the soft limit is passed by less than one item; every way to stop closes
  `out`; nobody waits for ever while receivers come back.
- **The ring.** Two indexes wrap independently. Correct: FIFO, nothing clobbered,
  nothing retained.
- **The statistics.** Two loads with nothing between them to hold the worker.
- **The atomic maximum.** Compare-and-swap compares addresses, and addresses are reused.
  Correct: linearizable, and the retry loop ends.
- **The contexts.** A cancellation can come between the two reads of one Err().
  Correct: errors.Is finds both errors.
- **The history.** Reaping cuts off a prefix, which is right only if the log is in the order
  of its times; the clock moves between its reading and the cut. Correct: each call is right
  for the instant at which it read the clock, and neither readers nor writers starve.
- **The guarded values.** Reentrant callbacks, panicking callbacks, clones that alias.
  Correct: a store is whole or did not happen, a Future has one value and whoever found it
  ready gets it, a slice from Bytes never changes, and every call returns unless a callback
  waits for its own caller.
- **Editing BSON in place.** The length of every document around an edit must follow, from
  what each level of a recursion reports; elements are sorted while those within them are.
  Correct: whatever sequence of calls, the bytes are a readable document, and each call does
  to it what it means for the tree and nothing else.
- **Index specifications.** Elements parsed before an edit are used after it; numbers arrive
  in three types, as fractions, out of range or not as numbers. Correct: no difference of what
  a server makes of two specifications goes untold, and none is made up.

The full list, with lines, is under "hazards" in `PROJECT.json`.

## 2. Modules

Each component has a module with its state as variables and one action per step that
another goroutine can tell apart. Where the component promises something simpler than it
does, an abstract specification states the promise and the component is shown to implement
it (`INSTANCE … WITH`). `MC…` modules give constants the values that a `.cfg` cannot
spell. Operators marked *Mutant* are faulty versions of the definition after them; each
property is checked to fail when one of them takes the definition's place.

| Module | What it is | Source |
|---|---|---|
| `BoundedFifo` | promise of the ring: a FIFO queue of at most `Capacity` items | |
| `RingBuf` | array, head, tail, count | `ringbuf/ringbuf.go` |
| `RingBufProofs` | theorems | |
| `BoundedChannel` | promise of the queue: a FIFO channel that closes | |
| `BoundedQueue`, `MCBoundedQueue` | worker and users; holds an instance of `RingBuf` | `synctools/bounded_queue.go` |
| `BoundedQueueStats` | `BoundedQueue` and a caller of the stats function | `bounded_queue.go:96` |
| `BoundedQueueProofs` | theorems about the queue and its stats; use those of `RingBufProofs` | |
| `MaxRegister` | promise of AtomicMax: an atomic maximum | |
| `AtomicMax`, `MCAtomicMax` | the compare-and-swap loop | `synctools/max.go` |
| `AtomicMaxProofs` | theorems | |
| `ContextPlus`, `MCContextPlus` | contexts that end, and calls of Err() | `contextplus/*.go` |
| `ContextPlusProofs` | theorems | |
| `RWMutex` | Go's readers-writer lock, as its users rely on it | (external) |
| `Subsequences` | the elements at some indices of a sequence | |
| `ExpiringLog` | promise of the history: every entry, seen while it lives | |
| `History`, `MCHistory` | the log, its lock, the clock, the calls | `history/history.go` |
| `HistoryProofs` | theorems | |
| `GuardedState`, `MCGuardedState` | the three types with one value behind one `RWMutex` | `future/future.go`, `synctools/dataguard.go`, `synctools/buffer.go` |
| `GuardedStateProofs` | theorems | |
| `BsonWords` | a document as words: sizes of values, one edit of one document and of the one around it | `bsontools/edit.go` |
| `BsonReplace` | the search for an element, and replacing or removing it at any depth; what a readable document is | `bsontools/edit.go` |
| `BsonBuffer` | a caller's buffer through any sequence of replacements and removals | |
| `BsonProofs` | theorems about a chain of such edits, about whole edits and about the buffer | |
| `Bson` | documents as words: written, read, looked up | `bsontools/marshal.go`, `unmarshal.go`, `raw.go`, `raw_value.go` |
| `BsonOps` | sorting within the buffer | `bsontools/canonical.go` |
| `DocTree` | promise of the edits: what they mean for a tree | |
| `BsonEdit`, `MCBsonEdit` | `BsonBuffer` whose caller sorts too, and what its buffer means | |
| `IndexPrepare` | two specifications prepared in place; uses `BsonReplace` | `mongotools/index/compare.go`, `legacy.go` |
| `IndexPrepareProofs` | theorem | |
| `IndexSpec`, `MCIndexSpec` | `IndexPrepare`, and the comparison of what it has prepared | `mongotools/index/*.go` |

### RingBuf

`buf`, `head`, `tail`, `count` are the fields of the struct. One goroutine owns all but
`count`, and an operation writes `count` last, so an operation is one step. A failing
`lo.Assert` panics and changes nothing: the action is then not enabled, and
`RingAssertionsHold` of the queue says that it is never asked for. `QueuedStay`, an action property, is
about every step between the push of an item and its pop: the slot of the item holds the same before
and after. That it is the pushed item that is put there, and that it is what Pop takes, is `FifoSpec`.

### BoundedQueue

`pc` is the worker's place: `processItems` (the loop of `run` with the choice that
`processItems` and `receiveOrSend` make), one place per `select` (`receiveItem`,
`drainOne`, `receiveOrSendNormal`, `flushRemaining`), two for `push` and two for `pop`
(the ring's count and `curMem` are two atomics, and the stats function looks at both),
`closeOut` for the deferred close. A branch of a `select` is an action
(`SelectDone`, `SelectReceive`, `SelectInClosed`, `SelectSend`), shared by the selects that
have it. Channels are unbuffered, so a send and the receive that meets it are one step;
a sender that nobody has met yet is in `sending`, a receiver in `rx`. `hand` is the item
between its receipt and its accounting.

The size function is the caller's, and nothing makes it repeat its answers: `push(s)`
takes any `s` of `ItemSizes`. The item itself stores the size, so that a pop subtracts
what the push added; the model of the ring holds the same pairs. `curMem` wraps as an
`int64` does, with `MaxInt64` a constant that is small in the runs. Negative sizes panic:
`shutdown = "panic"`, the deferred close, then the crash of the process, after which
nothing happens.

The users follow Go's rules (nobody sends on `in` once somebody closes it) and are
otherwise free: they may stop, come back, close, or cancel at any time.

### BoundedQueueStats

Adds one caller of the stats function, a load per step, and a history variable `window`
with what the ring really held at each instant of the call.

### AtomicMax

Every shared access of `Update` and `Get` is an action: the load of the pointer, the
comparison (which reads the cell the pointer leads to, and allocates the new one), the
compare-and-swap. Cells are never changed once published. `Free(a)` is the garbage
collector's promise: an address is given out again only if no goroutine and not the
shared pointer holds it. It is what makes a compare-and-swap of addresses safe, and with the
mutant `NotPublished` a goroutine fills a cell that another one is about to publish. A zero `AtomicMax`, without comparer, is an
initial state too; its second `Update` ends at `panic`.

### ContextPlus

A node per context, with what the standard library keeps: parent, whether a deadline is
set, the armed timer, error and cause. `End`, `Derive`, `Propagate` and `Expire` are the
library's (external); they are written from what this package relies on. Err() is
three steps: `readCause`, where `context.Cause` finds no cause `readErrAsCause` (it then
returns the context's own error), and `readErr` with the wrapping. An error is the set of
the errors that errors.Is can find in it, which is all the code asks of errors; texts are
left out. Causes include errors that Err() returned before, as an ErrGroup's function
that stops because of its context may return them.

### History

`ttl` and `logs` are the fields of the struct, `writer`, `readers` and `blocked` its RWMutex
(a writer that has announced itself keeps new readers out; its unlock lets in those it kept
out), `clock` is what `time.Now` reads, in ticks, and moves on between any two steps. An Add
announces itself (`addLock`), reads the clock once it has the lock (`addNow`), cuts the
expired prefix, appends and counts (`addReap`), and unlocks (`addUnlock`); a Get reads the clock
under the read lock (`getNow`) and copies the rest (`getClone`). `all` is a history variable,
the entries whose Add has read the clock; that reading is the instant at which the
abstract log of `ExpiringLog` grows. Lifetimes may be negative, as `New` allows it. The copy
that Get returns is a value of the model, so that it cannot be changed afterwards;
SumLogs and RatePer are floating-point arithmetic over that copy and left out.

### GuardedState

`kind` says which of the three types the object is. A call goes from `lock` (a writer waits for
other writers) to `locked` (it has announced itself to the `RWMutex`, and goes on once it has the
lock) to the method's work and to `unlock`, the deferred unlock, which a panic reaches too. The setter
of a Future works in two steps, `set` and `closeReady`. A callback has a place of its own,
`callback`, where it ends by returning or panicking, or makes a second call on the same
object: a goroutine has two calls, `<<t, 1>>` and, within its callback, `<<t, 2>>`. A value is the
sequence of what was stored in it, so that a lost store shows; `log` is the same
sequence as history has it. `array` is what lies under a `bytes.Buffer`, past its end too; a slice that is
not a clone shows what the array holds now.

### BsonWords, BsonReplace, Bson, BsonOps, BsonBuffer and BsonEdit

A buffer is a sequence of words. A word stands for bytes that the code never takes apart: a
key with its NUL, four bytes of a number, a character. Lengths count words as the code's count
bytes, are stored where the code stores them, and reading relies on them as the code's does.
`MaxInt32` is small in the runs, so that the two widths of an int both occur.

`BsonReplace` has the code's loop over the elements of a document (`Loop`, which `Match` asks for the first
element with a key) and its recursion: `Down` is the buffers that `recurseIntoSubDoc` goes down with, `Up`
what the calls of `editMatchingElement` return. The buffer of an embedded document has no end, the
rest of the documents around it moves along, and each level adds to its
length what the level below reports. What each level does to its own words (`removeElement`,
`replaceElement`, `aroundSubDoc`, `resized`) is in `BsonWords`. Loop and recursion are functions on a range of numbers,
without an operator that calls itself, so that theorems can speak of them. `Readable` says that a
document can be read to its end at every level: some set of documents has it, and every document
of the set has the length it says, is a chain of whole elements up to its closing zero, and has
the documents embedded in it in the set (`Reads`).

`BsonBuffer` has one variable, the buffer of one caller, who goes on with what each call returns. `BsonEdit` is
the same with a caller that sorts too. `sortInPlaceInternal` recurses before it sorts, through elements that
are slices of the buffer, and copies them in order from a scratch buffer.

The promise is `DocTree`, which knows nothing of words: first elements, paths, replacement
and stable sorting of a tree. Buffers begin as documents that can be read, such as `MarshalD` writes; the branch
for an element that cannot be read (`Invalid`) is there, and `UnfoundSaysWhere` shows that no edit comes to it.
`LengthsChecked` is about the buffers that a forgotten length would give. Pointers are
not empty (with an empty one the code panics). Array elements keep their
keys in the buffer when one before them is removed, and lose them when they are read into a
`bson.A`: `RoundTrip` says so.

### IndexPrepare and IndexSpec

The steps of `DescribeSpecDifferences`. `IndexPrepare` has those that prepare one specification after the
other: `Modernize`, `NormalizeTypes` for the TTL, `bits` and `sparse`, `RemoveIgnored` for the three options in any order (the code iterates over a set),
`ParseKey`, which records where the elements of the key are (`keyEls`, a set of places in the buffer), and `NormalizeKeyEl` for each,
last one first. `IndexSpec` adds `Compare`. An error at any step ends it, and so does an assertion
that fails: `Replaced` and `OptionReplaced` panic when the edit does not find again what was looked up.
Edits are those of `BsonReplace`, on the copies that the code clones at its start; names of options and fields are words like all others.
A `float64` is counted in halves, with marks for -0.0 and NaN; `safecast` cuts off fractions and refuses what does not fit.
`StoredAssumption` is what the code takes for granted of a specification: that it is a readable document, and that no field
occurs twice in its key (`KeyNamesDiffer`). Servers refuse such a key; with one, the edit that is given the name of the second
field would replace the first.
Of the words of a Decimal128 the last is its exponent, or marks a NaN or an infinity: 0.00 is a zero too.

Two properties say what a verdict means. Their reference speaks of options and their values in effect, never of words or
of steps, and follows the comments of the package. `DifferencesTold`: a specification that cannot be used is
an error, and two that are said to be the same but for the order of fields are. `VerdictJustified`: the converse.
Comments and code disagree in four places, and each is named where a property lets it pass:

- Both comments on limits, a TTL "within 0 and math.MaxInt32" and an error for any other (`compare.go:336-339`), and `bits` of
  "1 to 32 inclusive" (`compare.go:349`). The code checks the upper bound alone, and not of an `int32`: a TTL of -1 and 33 bits pass.
  This is `LetThrough` in `DifferencesTold`. (With `Acceptable` in its place TLC violates it at once.)
- Legacy keys. All non-negative numbers are ascending for the server (`legacy.go:18-22`), but only a zero, an empty
  string and what is neither number nor string is made 1 (`legacy.go:26-27`, and the code). `DifferencesTold` asks that directions that differ
  are told, by the first comment; `VerdictJustified` that values differ where a difference is told, by the second. Whether 1.5 and 1
  are to be told apart lies between the two.
- A NaN "will never match" (`bson.go:11-13`), hence a specification with a NaN in its filter differs from itself: an exception of
  `VerdictJustified`.
- A zero and a negative zero in a filter: the other exception, and the run `index_order` (see Findings).

## 3. Runs

| Run | Bounds | Distinct states | Shows |
|---|---|---|---|
| `ring_buffer` | 4 slots, 2 items | 124 | FIFO; indexes in step through every wrap; a queued item stays as it was pushed; no retention |
| `bounded_queue` | 2 senders, 1 receiver, 2 items, 3 slots, limit 3, sizes -1, 0, 1, 4, `MaxInt64` 4 | 279 350 | one FIFO channel, ring never panics, books exact, drained queue empty |
| `bounded_queue_live` | 2 senders, 2 receivers, 1 item, 2 slots, limit 2, sizes 0, 1, 3 | 11 044 | soft limit, and the three liveness properties |
| `queue_stats_accurate` | 1 sender, 1 receiver, 2 slots, limit 3, sizes 1, 3 | violated | items and bytes never held together |
| `atomic_max` | 2 goroutines, 4 values (2 equal), 5 addresses | 695 379 | linearizable, calls return |
| `context_err` | 2 contexts, 2 callers, 2 causes (one wraps Canceled) | 268 374 | errors.Is works; late calls tell all |
| `history` | 3 goroutines, 3 adds, 3 times, lifetimes -1, 0, 1 | 201 372 | atomic at the reading of the clock; only expired entries reaped; no starvation |
| `guarded_state` | 2 goroutines of 2 nested calls, 2 items, 2 stores, each type | 82 629 | stores atomic, set once, clones kept; calls return unless a callback waits for its caller, which is then for good |
| `bson_edit` | documents of 3 levels, 26 of them, 4 new values, all 39 pointers of up to 3 keys, 22 words | 6 786 | always readable; round trip; edits, sorting and lookups as on the tree |
| `index_spec` | all pairs of 90 specifications, `MaxInt32` 34 | 192 858 | no stale element is used; no difference goes untold or is made up |
| `index_order` | as above | violated | a field order that differs where it does not |
| `context_cause` | 1 context, 1 caller | violated | an Err() without the cause |

Why the bounds are enough. Ring: 4 slots are more than any index expression reaches
across, and both indexes wrap at every fill level. Queue: 3 slots give an empty, a
partial and a full ring, both limits are met separately (three free items fill the ring;
one item of size 4 exceeds the limit alone, and 1 + 1 + 1 meets it), 1 + 4 overflows;
two senders compete, two different items make a reordering visible, and a second receiver,
which only adds another partner for the rendezvous, is in the liveness run. Stats: the
caller can be overtaken by whole pushes and pops. AtomicMax: two goroutines hold at most
four addresses and the pointer one more. Contexts: a parent with a child is where causes are inherited;
deeper trees repeat the step.
History: three goroutines let two readers take turns while a writer waits, and two writers
while a reader waits; three entries at three times let a prefix of any length expire, and an
entry be exactly as old as its lifetime.

Guarded values: two goroutines are a writer between two nested reads, or two setters; two
stores are a lost one, or a write over what a Reset left. BSON: three levels are a
document with one around it and one within; keys occur twice, at every level, before and behind
the edited one. Index specifications: each differs from a plain one in one option or two, keys
have two fields so that one is parsed before the other is replaced, and 34 is just above the
limit of `bits`, so that a value can be over one limit and under the other. Numbers between
one and the next integer outside the 32 bits do not occur, and no Decimal128 is negative. NaN, -0.0 and 0.0 occur as
values of keys, options and filters.

`CHECK_DEADLOCK FALSE` is set where the system may stop: a closed queue or a crashed
process, a panicked goroutine, contexts that all have ended, a callback that waits for
its own caller, a comparison that is over.

### Fairness

- `BoundedQueue!LiveSpec`: weak fairness of the worker's own steps (the Go scheduler runs a
  goroutine that can run), strong fairness of each branch of a `select` with each partner
  (select chooses at random among the ready branches, and a channel serves its
  waiters in order). No user is assumed to do anything; that receivers come back
  (`ConsumersKeepReading`) is a premise of the two properties that need it. Nobody has to
  close or cancel.
- `AtomicMax!LiveSpec`: weak fairness of each goroutine's steps. `CallsReturn` is not
  a consequence of fairness alone: it needs that a swap raises the maximum, which the
  mutant with `> 0` for `>= 0` breaks by swapping equal values for ever. With an
  unbounded order a goroutine could lose for ever; the run's four values bound it.

- `History!LiveSpec`: weak fairness of every step after a lock has been granted, strong fairness
  of `addLock`, since the mutex among writers goes to the one that has waited
  longest when that one starves. Readers need no more: an unlocking writer lets them in.

- `GuardedState!LiveSpec`: weak fairness of a goroutine's steps, strong fairness of the lock among
  writers as above, and of a callback's return (a callback may call back, but not for ever).
  `CallsReturn` excepts the states in which a callback waits for the lock of the
  call around it, and `ReentryIsForGood` shows that these are deadlocks of that goroutine.

### Findings

- `queue_stats_accurate`: the stats function loads two atomics one after the other. The
  result need not be a snapshot (`bounded_queue.go:18`), and the test that waits for the
  item count and then compares the bytes (`bounded_queue_test.go:445`) can fail.
  `BytesOffByOneEntry` says what does hold. No run checks it: it is proved (`StatsBehindByOne`), and what it rests on,
  `Accounting`, is what the run `bounded_queue` checks, in a larger instance and with overflows.
- `context_cause`: `c.go:76` reads the cause before the error. A cancellation in between
  gives an Err() without the cause, against `c.go:52` and `contextplus.go:6`. What does
  hold: errors.Is finds Canceled or DeadlineExceeded in every case, and calls that
  begin after the end are complete.

- `index_order`: `equalIgnoringOrder` takes 0.0 and -0.0 for equal, `getOrderDifferOpts` compares their bytes. Two filters
  that differ in the sign of a zero are reported to differ "by field order alone" (`compare.go:49-50`), which they do not.

## 4. Proofs

All proofs are for every value of the constants that satisfies the ASSUMEs of the
modules; the theorems that need more (`SizesFit`) say so.

- `RingBufProofs`. `RingSafety`: the invariant `RingInv` (types, `tail` is `count` slots
  ahead of `head` modulo the capacity, slots in the queue hold items, the others the zero
  value) is inductive as it stands. The work is arithmetic: different positions below
  the capacity are different slots (`ModLap`, `SlotsDiffer`), and the positions cover the
  slots (`SlotsCovered`); `RingTypes`, `IndexesAgree` and `PoppedAreReleased` are parts of it. `QueuedAreHeld`, an action property: the
  slot that a push writes is in the queue only after it, and the one that a pop clears only before it (`SlotsAfterPop`).
  `RingImplementsFifo`: a push appends to, and a pop takes the head of, the sequence of queued items.
- `BoundedQueueProofs`. `Safe` strengthens the type invariant with the ring's
  invariant, with why the worker is where it is (below the limit when it receives, not
  empty when it sends) and with what the users' states imply; it is inductive and gives
  `TypeCorrect`, `NoRingPanic` and `QueueImplementsChannel`. The ring's steps are
  taken from the lemmas of `RingBufProofs` through an instance. `BooksBalance`: with `Safe`,
  `Accounting` is inductive, overflows included. `Total`, the sum that wraps as an int64 does, is a
  recursive function over the lengths of a sequence; that it grows by what is appended and shrinks by
  what is taken off (`TotalLaws`) is proved by the least length at which it would not.
  `DrainedQueueIsEmpty` follows, whatever the sizes. `SoftLimit` needs that sums of sizes fit an
  int64 (`SizesFit`; an overflow makes it false). Its invariant `Books` says that some function is
  the partial sums of the ring's sizes, without wrapping, and ends at what `curMem` should be.
  The stats: `StatsBehindByOne`, if `SizesFit`: the bytes a caller is told are those
  of an instant of its call, less at most the one entry that the worker had in hand at the second load.
  `Accounting` gives the difference modulo an int64; `Lag` (the ring's sizes are sizes, and what a pop has
  subtracted could be added back) makes it a true difference, and `Call` says that the instants the
  call has seen are in its window.
- `AtomicMaxProofs`. `Inv` adds to the types and `NewIsPrivate` that a goroutine about to
  swap has seen its value win against the cell it holds (`Beaten`), and a cell that
  somebody holds never changes. `MaxLinearizable` maps each step: an Update that is
  turned down happens at its load, one that wins at its swap, a Get at its load.
- `ContextPlusProofs`. The cases of `wrapCtxErrWithCause` all come to the union of both
  errors (`WrapIsUnion`); the invariant follows a call from its first read to its return.

- `HistoryProofs`. `Inv` says who holds the lock where (`Excl`), what an Add knows between its
  steps (`Args`) and that no entry is from the future (`Past`), which is why an entry whose
  time was read under the lock belongs at the end. That
  the search for the first living entry ends is the well-foundedness of the naturals
  (`LeastNat`, `FirstValid`). `NothingAliveReaped` counts: what `addReap` cuts off are the
  entries that follow those already reaped, and each was older than the lifetime when
  the clock was read, hence still is. `CallsAreAtomic` maps each step to the log that keeps everything:
  a call takes effect when it reads the clock, before it has looked at the logs. `Window`
  (what has been reaped had expired at every time a pending call goes by) makes up for the time in
  between, and `AliveIsUnexpired` shows that what the promise picks out of its whole log, entry by entry,
  is the suffix that the code cuts off by its search.

- `GuardedStateProofs`. `Excl` says who holds the lock where; with `Args` (which method a call can be
  in at each of its places) it follows that whoever stores is alone behind the lock (`Alone`), which gives
  `StoresAreAtomic`. `FutureIsSetOnce` needs `SetterLog`: the value is there before `ready`, except
  that a setter between its two steps has written the one and not closed the other. It
  also needs that a Future has no callbacks, so that its goroutines are in one call at a time
  (`NotNested`). `ClonesAreKept` follows from every kept slice being a clone (`Owned`).
  `ReentryHasNoEnd`, an action property, needs `Nesting`: a call within a callback has a call around it that
  is in that callback, keeps its lock there, and cannot go on before the call within has ended.

- `BsonProofs`, one edit and a chain of them. An edit of one element is a splice (`Spliced`): other words for those of the element, the
  length at the front changed by the difference, all else where it was or moved by it
  (`RemoveSplices`, `ReplaceSplices`). A splice of an embedded document makes a splice of the one around it
  by the same difference (`AroundSplices`, `LevelAbove`), and `EveryLengthFollows` carries that up any
  number of levels: the first level from below at which it failed would have one below it at which it held.
  `NothingElseChanges`: at each level every other element is read as before, at its new place; it
  rests on the size of a value depending on the value's own words and on nothing behind it (`SameSize`, which for
  regular expressions is about where the next two zeros are). `ValuesReadBack` and `ReplacementReadsBack`
  add that the words of each type are measured and read as what was written. The theorems assume a
  chain of levels (`Path`, `EditedAlong`), elements that lie within their documents (`Element`, `Within`) and a
  value that consists of what its type asks for (`Value`, `Consists`): the state of a well-formed document.
  That every edit is such a chain, in such documents, comes next.

- `BsonProofs`, whole edits and the buffer. That there are functions with the recursive definitions of `Loop`, `Down` and `Up` comes first
  (`LoopLaws`, `DownLaws`, `UpLaws`: TLA+ defines a recursive function by CHOOSE), then that the loop ends at
  the first element with the key or at the closing zero, passing whole elements only (`MatchIs`, `MatchIsFirst`,
  `PlacesInOrder`). A set of documents is `Sound` if each `Reads` with the set; the buffer that a
  call of the recursion gets begins with a document of the set (`Level`, `LevelBelow`), so an edit that finds
  its element is a chain of levels as above (`FoundEditsAlong`). With `EveryLengthFollows` each level
  is then a splice: `SpliceReads` shows that the places of the elements before it are places still, that those behind
  it have moved by the difference, and that the chain ends at the closing zero again. The
  documents that the levels return make a Sound set with the old ones and those of the new value (`EditReads`):
  `EditsStayReadable`, and by it `BufferStaysReadable`, the invariant `TypeOK` of any sequence of edits. It is
  inductive as it stands because `Readable` speaks of all levels at once; that the outermost document
  can be read would not be. `FoundEditsTheElement` says what was edited: at every level the first element with the
  pointer's key and no other, which keeps type and key and has the document of the level below, and at the last one the
  key of old and the new value. `UnfoundSaysWhere` says that an edit which does not find its element returns the
  words it got, and that `Absent` or `TooDeep(n)` tell the level at which there was no such key, or no
  document under it; `Invalid` is never the outcome. The theorems ask of a new value that it consists of what its
  type asks for, and is `Readable` itself if it is a document (`Replacement`): the code copies it without a look at it.

- `IndexPrepareProofs`. `KeyElementsStay` says that `KeyElsInPlace` holds for specifications of any size, with any options and
  values. Its invariant is `PrepareInv`: both specifications stay readable and keep the names of their key different
  (`Good`), and while elements are normalized there is a key, which has all that are still to come. The first part is what makes it
  inductive: an edit finds the element of a given name, and it is by the names being different that this is the element that
  was parsed (`KeyElEdited`, `KeyElIsSafe`). That a specification stays `Good` rests on `EditsStayReadable` and on where the key is after each edit:
  an edit of another option leaves its words alone (`OtherKeyStays`), one within the key leaves it in its place (`OwnKeyStays`),
  and a modernized key has the names of the one that it is made from (`ModernizedKey`). `KeyPlacesAfter` is the reason for the
  reversed order: a replacement moves the places behind it and none before it. That no assertion fails comes from
  the same lemmas: what was looked up is found by the edit. `PrepareSpec` is `Spec` of `IndexSpec` without `Compare`, which
  comes last, changes no specification and does not panic.

Model-checked only:

- The liveness properties (`CancelShutsDown`, `CloseDrains`, `SendersProceed`, and `CallsReturn` of
  `AtomicMax`, `History` and `GuardedState`): fairness and ENABLED are beyond the
  prover. The three violated properties are TLC's by nature.
- Of `BsonEdit`: `RoundTrip`, `LengthsChecked`, `EditsMatchTree`, `SortMatchesTree` and `LookupsMatchTree`, and that the buffer
  stays readable when it is sorted. They compare the words with trees (`Tree`, `UnmarshalToD`, `DocTree`), and
  sorting recurses through a tree; these are recursive operators, with which the SMT backend is lost, and what
  they compute is an induction over trees. `FoundEditsTheElement` and `UnfoundSaysWhere` are what `EditsMatchTree` says of edits
  in the terms of words, for any document.
- Of `IndexSpec`: `DifferencesTold` and `VerdictJustified`. They compare maps of trees, and both the code's map and the reference are
  made by recursive operators.

Where a theorem does rest on an induction, it is one over a number (the length of a
sequence, the depth of a path), made as "the least number at which it fails" from
the well-foundedness of the naturals (`LeastNat`); the library's induction theorems take an operator,
which the provers cannot instantiate.

## 5. Not modelled

- `sysinfo`, `git`, `cmd` and the index commands of `mongotools/indexes.go`: I/O.
- The JSON patch of an index difference (`jsondiff.go`), error texts: wording.
- `bsontools/compare.go` and the single-type `RawValueTo…` functions: each decodes one value.
- In the edits: lengths that cannot be read, and the caller's array under the slices. What a
  slice that a caller kept shows after an edit is therefore not said here.
- In the edits: sizes that do not fit the integers they are converted to. `removeElement` (`edit.go:154`) and `replaceElement`
  (`edit.go:164-167`) convert the difference to an `int32`, and `editMatchingElement` (`edit.go:139-142`) converts the new length, an
  `int32` sum, to a `uint32`. The first cannot fail within a document, whose length is an `int32` itself; the second needs a new value of
  2 GiB, and the third a document that grows beyond that. The third error would return the buffer as edited, with the length of its document as it was, so that it can
  no longer be read. In the model sizes have no width, and no run or theorem speaks of such documents.
- In marshalling: the errors of `bson.MarshalValue`, to which `marshalEl` leaves Go types without a case of their own
  (`marshal.go:152-162`), and of the scope of a CodeWithScope. Of those types the model has `int`, which the driver always takes.
- In `rawElementsLoop`: `el.Validate()` (`raw.go:130`) is not a step of its own. The driver measures the element that `ReadElement`
  has cut out again, by the rule it was cut by; a failure of either is the same end of the loop.
- `RatePer`, `timetools`, `humantools`, `mathtools`: floating point, for the most part, and functions
  without state.
- `option`: accessors and encoders of one value.
- Record IDs and `MaybeAddDirectConnection`: functions of one string or two.

What could follow: what the queue's worker may still accept after a cancellation and more
than one caller of its stats function; aliased slices under `BsonOps`; the integer half of
the conversions, each against a reference definition.
