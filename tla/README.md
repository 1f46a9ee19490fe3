# Verification of mylibrary

TLA+ models, model-checking runs and machine-checked proofs for the C library in
`src/mylibrary`: a collection of small components for event-driven programs. The
library is single-threaded. What makes it hard is not threads but *re-entrance*:
the timer engine and the I/O event driver call back into the program in the middle
of walking their own lists, and the program may call any function of the component
from there. The other components have the ordinary hazards of C: wrap-around,
failing allocations, order of calls; the configuration file is shared between programs,
which may be killed or lose their power while they write it.

Contents: [inventory](#inventory), [plan](#plan), then one section per component
([timer](#timer-engine), [I/O events](#io-event-driver),
[circular buffer](#circular-buffer), [hash](#hash), [memory tracker](#memory-tracker),
[linked lists](#linked-lists), [configuration](#configuration),
[configuration updates](#configuration-updates), [red-black tree](#red-black-tree)),
[bounds](#bounds), [fairness](#fairness), [proofs](#proofs),
[what is not modelled](#what-is-not-modelled).

## Inventory

| component | source | state | operations | hard behaviour | what makes it correct |
|---|---|---|---|---|---|
| timer engine | `timer.c`, `timer.h` | a wheel of lists, the tick counter, the accumulated milliseconds, the time of the last call; in every element its absolute tick | `init_timer`, `add_timer`, `del_timer`, `drive_timer`, `deinit_timer` | callbacks that start and stop timers while expired ones are waiting; the tick counter wraps; the clock jumps; several ticks to catch up with | every timer fires once, in the tick it was started for, unless stopped; none early or overdue; `drive_timer` returns |
| I/O event driver | `io_event_driver.c` | for each I/O type `io_set` and `working_set` | `listen_io_event`, `unlisten_io_event`, `drive_io_event`, `deinit_io_event_driver` | callbacks that register and remove descriptors between `select` and the dispatch of what it reported | no event lost or served twice, one element per descriptor, `drive_io_event` returns in its interval |
| circular buffer | `circ_buffer.c`, `.h` | an array, `begin`, `end`, `data_size`, `size` | `init`, `put`, `get`, `get_no_copy`, `peek`, `reset`, `deinit` | copies across the end of the array; full and empty have `begin == end`; a failed `malloc` | it is a bounded queue of bytes |
| hash | `hash.c`, `.h` | buckets of elements that carry their key | `initHash`, `addHash`, `lookupHash`, `delHash`, `deinitHash` | collisions, duplicate keys | it is a map |
| memory tracker | `mem_tracker.c`, `.h` | a hash of `AllocInfo`, a tag before each block | `debug_malloc`, `_calloc`, `_realloc`, `_free`, `_strdup`, `printMemStat` | its own allocations fail; `realloc` moves a block from one site to another | the report is what is allocated |
| lists | `list.h` | the pointers of `struct list_head` | adding, removing, moving, replacing, rotating, cutting and splicing; the loop macros | entries that are never initialised or already removed; removal in the middle of a loop | they are sequences, and a loop comes to every entry |
| configuration | `cfg_loader.c`, `cfg_parser.y`, `cfg_scanner.l` | a list of typed parameters; the file | add, delete, look up, set, `parseConfig`, `writeConfig` | what was written does not always read back; half-written files | a file written reads back the same |
| configuration updates | `cfg_util.c` | none but the file | `update_bim_cfg`, `read_bim_cfg`, `open_bim_system_cfg` | the lock is empty and dropped between reading and writing; crashes | a file that can be read is one update's, and no parameter disappears from it |
| red-black tree | `rbtree.c`, `.h` | colours and pointers, augmented data | insertion, erasure, walks, replacement | rebalancing, a step at a time; the paths on which the augmented data is renewed | an ordered, balanced set with the right data in every node |
| logger | `log.c` | level, flags, two files | `logMessage`, setters | fatal messages below the level | |
| hex conversion | `hex_util.c` | none | to and from ASCII | odd lengths | round trip |
| demo, shell samples, Makefiles | `demo/`, `src/shell/` | | | | |

The components hardly interact. The timer engine, the event driver, the hash and the
configuration loader are built on `list.h`; the memory tracker is built on the hash;
`cfg_loader.c`, the scanner and the parser include its header, but the macros that would
send their allocations to it are under `#if 0` (`mem_tracker.h`). A program is expected to call
`drive_timer` and `drive_io_event` in turn from its main loop, and the callbacks of
each are free to call the functions of all.

## Plan

In order of importance; all but step 8 is done.

1. **Timer** - `Timer`, refining `CountdownTimers`; `TimerHistory` for the properties
   in milliseconds; `TimerProofs`.
2. **I/O events** - `IoEventDriver`, `IoEventHistory`, `IoEventProofs`.
3. **Circular buffer** - `CircBuffer`, refining `ByteQueue`; `CircBufferProofs`.
4. **Hash and memory tracker** - `HashBuckets`, `HashTable`, refining `KeyedMap`;
   `MemTracker`; `HashProofs`.
5. **Configuration** - `ConfigText` for the file and what its values read back as, `Config`
   for the control block, `ConfigUpdate` for programs that update one file; `ConfigProofs`.
6. **Red-black tree** - `TreeNodes`, `RedBlackTree`, refining `OrderedSet`; `RedBlackTreeProofs`.
7. **Lists** - `ListPointers`, the pointers of `list.h` against the sequences of `Lists`, so
   that the assumption under steps 1, 2, 4 and 5 is itself checked, and the loops over a list
   while it changes; `ListLemmas` and `ListProofs`.
8. **Logger and hex conversion** - small modules, not written yet.
9. **More proofs** - done: the accounts of the memory tracker, that no event of the I/O driver is
   lost, the updates of the configuration file, the order, the pointers and the colours of the
   tree, that it implements `OrderedSet`, and its augmented data, and the configuration loader.

## Timer engine

`Timer` follows `timer.c` one critical point at a time. Everything between two
points where the program's own code can run is one action, so that each interleaving
of callbacks with the engine is a behaviour of the model:

| code | action |
|---|---|
| `add_timer` on a stopped element | `add_timer(e, ms)` |
| `add_timer` on a running one, which writes through `NULL` on purpose | `add_running_timer(e)`, and `pc = "crashed"` |
| `del_timer` (on a stopped element: nothing) | `del_timer(e)` |
| `drive_timer` up to its loop: clock, guards, `accumulated` | `drive_timer(gap)` |
| head of the loop of `drive_timer` | `DriveTick`, `DriveDone` |
| bucket loop of `timer_tick` | `ScanElem`, `ScanDone` (with `tick++`) |
| timeout loop of `timer_tick`, around the callback | `Fire`, `CallbackReturns`, `TickDone` |
| `deinit_timer` | `deinit_timer`, and `pc = "freed"` |

A `struct list_head` is the sequence of the elements linked on it. `timer->tick` and
`elem->tick` are counted modulo `TickMod`, the number of values of an
`unsigned int`; negative timeouts wrap as they do in C. The time between two calls of
`drive_timer` is a pair of differences in seconds and microseconds, from which the
model computes what the code computes, the truncation of a negative quotient included.

`CountdownTimers` is what the engine promises, with neither wheel nor counter: each
timer counts its own ticks down; a tick moves the exhausted ones to a set of due
timers, and their callbacks run one after the other. `Timer` implements it
(`ImplementsCountdown`) under the mapping *left[e] = elem->tick - timer->tick* modulo
`TickMod`. `ScanElem` is a stuttering step: a timer only becomes due when the scan of
its bucket is complete and the counter has moved.

`TimerHistory` adds what a client knows: the timeout each timer was started for and
the milliseconds credited since. Run `timer_history` checks that no timer of at least
one tick expires before its time (`NotEarly`); started inside a callback it may be early
by what `drive_timer` has still to catch up with, at most `2 * TickRate - 1` milliseconds. After `drive_timer`
has returned no timer is overdue (`NoOverdue`): the default build catches up with
every tick, the `NO_TICK_LOSS_COMPENSATION` build, which is the mutant, does not.
Timers of one tick fire in the order they were started (`ExpiryOrder`).

The comment of `get_tick_from_milsec` promises the closest tick count; the code rounds up,
except below one tick, where it rounds down to zero. The model does what the code does.

## I/O event driver

`IoEventDriver` cuts `drive_io_event` and `check_select` the same way: `drive_io_event`,
then `SelectReady`, `SelectNothing` (timeout or `EINTR`) or `SelectFails` (the
deliberate crash); for each type `ScanElem` and `ScanDone` move the elements whose bit
is set to `working_set`, `Dispatch` moves the first one back and calls its callback,
`CallbackReturns` and `TypeDone` close the loops, and `Measure` is the clock
arithmetic after the last type. In a callback the client may call
`listen_io_event`, `unlisten_io_event` and `deinit_io_event_driver` for any descriptor
and type. `select` reports an arbitrary non-empty part of what was registered.

The element is the descriptor it is registered for. That a list never holds two
elements of one descriptor is therefore something to check, and
`OneElementPerFd` does. The callback pointer and its argument are not modelled.

`IoEventHistory` records what select reported in the current round, which callbacks
ran, and which registrations were made and removed meanwhile, and checks that no event
is lost (`NoEventLost`) or served twice (`ServedOnce`), and that `drive_io_event`
returns (`DriveReturns`). `start` is read once, while `remain` is reduced by the time
since `start` in every round: select sleeps less than it could, and never longer than
what is left of the interval (`SelectWithinInterval`).

*Finding.* `io_stale`: the sets of the later types are those select filled before the
callbacks of the earlier types ran. A callback that removes a registration and makes a
new one of the same descriptor number gets the new one called for the old event.

## Circular buffer

`CircBuffer` has one action per function, the array with its bytes included; `Junk` is
a byte that malloc left. `ByteQueue` is the bounded queue it implements:
`Contents`, the bytes from `begin` on, is the queue. A buffer of no bytes (a failed
`malloc`, after which the structure is still usable, or a size of 0) divides by zero in
`put`, `get` and `get_no_copy` of zero bytes; that is the phase `"crashed"`.

## Hash

`HashBuckets` holds the buckets, the keys in the elements, and what the functions
compute (`Found`, `Linking`, `Unlinking`); `HashTable` adds the calls, and the client
that writes a new key into an element that is not linked. It implements `KeyedMap`, call by
call: `result` holds the call, its argument and what it returned.
The hash function is a constant, any function into the naturals.

## Memory tracker

`MemTracker` extends `HashBuckets`: its elements are the `AllocInfo` blocks, linked
exactly while they are allocated, and its keys are call sites (file pointer and line,
the first bytes of `MemDebugTag`). Every allocation may fail, those of the tracker
itself included. `debug_realloc` is two actions, because it forgets the old block
first and allocates then.

`ExactReport` says that what `printMemStat` prints is what is allocated, for every
site for which the tracker itself never ran out of memory; `NoFalseLeak` that it never
reports too much, not even then.

Two observations, which the model keeps and the properties make room for (`missed`, the phase
`"crashed"`). A block whose `AllocInfo` could not be allocated stays uncounted, and freeing
it takes another block of the site off the report. `debug_realloc` and `debug_strdup` write
through the `NULL` they are documented to return.

## Linked lists

`ListPointers` has the pointers, one action per function of `list.h`, and beside them the
history `lists`: the sequence of entries that the comments say is on each list. A node is
*stray* while its pointers mean nothing: it was never initialised, `list_del` has poisoned
it, or `list_replace` or `list_splice` has left it with its old pointers. What a caller must not
do is in the guards: add an entry that is on a list, remove a stray one, use a stray head, cut
or splice a list under a loop. `Represents` says that the next pointers lead through every
list in the order of its entries and back to the head, the prev pointers the other way round,
and that no entry is on two lists.

A loop is a `walk`: `list_for_each` begins one (forward or backward, from the head or, as
`_continue` does, from an entry, safe or not), `WalkOn` is the step from one turn to the next
and `WalkEnds` the end. Between two turns the body may call every function of the module
except that it leaves alone the entry the loop goes on from (`Pinned`): the current one, or in
a loop that is safe against removal the next one. `due` are the entries that were ahead of the
loop from its beginning and never left the list; `WalkSeesAll` says that the loop comes to
each of them just once. Three entries on two lists give every case: an entry before, at and
behind the cursor, moved to the front, to the back and to another list.

The other modules take a list to be a sequence. This module shows that they may.

## Configuration

`ConfigText` holds the format: a text is the sequence of tokens the scanner returns for
it, `Written` is what `writeConfig` prints for a list of parameters, `Parsing` runs the
grammar of `cfg_parser.y` over a text, one token a step, and `Torn` is what an interrupted
write may leave. The conversions that lose something are modelled by what they lose: the
sign of a number, the digits `%f` does not print (`Printed`), a boolean that is neither 0
nor 1, a string with a quote (`Fragment`), a list with no elements, which the grammar does
not accept. Of the characters a cut leaves, only those of a number and of the leading
comments are modelled: a cut name, boolean or string is taken to be an error, which strings
such as `5 y = 6` would not be, and a cut float to be absent. `Tokens` and `ParamValues` say what
the scanner returns and what a program can give; floats are finite.

`Config` has one action per function of `cfg_loader.c` that changes the control block or the
file. `parseConfig` is five cases: the file is missing, in error, read, ends in a comment
without a newline (the scanner waits forever, phase `"hung"`), or has a list for which memory
runs out. A `ParamValue` that could not be allocated is linked as `NULL` and crashes the
function that meets it next. The typed setters write into a union whatever its type, which
is a crash when the types do not share a member. `writeCrashes` empties the file first: the
`fsync` of `writeConfig` comes before the stream is flushed, and protects nothing.

Run `config` checks that what is written reads back as far as the format allows
(`ReadsBack`), that what was read from a file, even from one written by hand, can be written and
read again with the same parameters and elements, and then written as the same text
(`RereadsTheSame`: a float keeps the digits `%f` prints, and a hexadecimal number of `0x80000000`
or more, which `strtoul` makes a negative `int`, loses its sign), that an interrupted write leaves the beginning of the
configuration and never something else (`ReadsABeginning`; it may be empty, and an empty
file is read without an error), that a walk with `lookupConfig` and `lookupNextConfig` meets
every parameter of a name (`WalkVisitsAll`), and that `numParams`, which `freeConfig` and
an error in `parseConfig` do not reset, never falls behind the list (`TypeOK`).

*Finding.* `config_back`: `-12` is written and `12` is read back.

## Configuration updates

`ConfigUpdate` has several programs that call `update_bim_cfg`, `read_bim_cfg` and
`open_bim_system_cfg` on one file. The macros of the lock are empty, and would
be released between `parseConfig` and `writeConfig` if they were not, so that an update is three
actions: `update_bim_cfg` reads and changes its copy, `OpenWrite` is the `fopen` that
empties the file, `CloseWrite` the `fclose` that writes all of it (it is shorter than the
buffer of the stream). A second program that has the file open as well writes over the first
one's text: what is then in the file is the shorter text followed by the rest of the
longer one (`Overwriting`). `WriteBack` carries the file to the disk, since `fsync` is called before the
buffer is flushed and waits for nothing; `Kill` ends a program between two of its
actions, `PowerLoss` all of them, with some beginning of the file left on the disk. What a file
holds is the value of each parameter: the format is `ConfigText`'s business.

`UpdatesAloneHold`: an update nobody writes in the middle of leaves what it read and was given.
`NoMixture`: whatever is interleaved, killed or cut off, a file that can be read is a beginning of
one program's configuration or of the file as it was, never a mixture of two.
`ParametersSurvive`: without kills, power losses and simultaneous writes, no number of updates
costs a parameter, although each rewrites the whole file from what it read.

What the code does not promise is in the model too: of two overlapping updates one may be lost,
and `open_bim_system_cfg` returns 0 with no parameters at all, and without a look at the
backup, when it comes between another program's `fopen` and `fclose`, because an empty
file is read without an error.

## Red-black tree

`TreeNodes` has the nodes and what the functions do to them without a loop: rotations,
recolouring, the two ways out of the tree, replacement. `RedBlackTree` has the loops, one turn a
step: the search for a place, rebalancing after an insertion and after an erasure, the path
along which the augmented data is renewed, the walks `rb_first`, `rb_last`, `rb_next` and
`rb_prev`. Left and right are the two values of a `side`, and mirrored code is written once. The
client is that of `demo/rbtree_demo.c`, with the size of each subtree as its augmented data, and
erases, replaces and walks from any element in any order.

`SearchTree` (in order at every step), `Linked` (children and parents agree), `RedRule` and
`BlackBalanced` (the colour rules, but for the one node a loop is about to mend) hold between
any two rotations; `NoNullAccess` says that what the loops read through without a test is
there; `Augmented` that after every call the data is right in every node, those that only a
rotation moved included; `CallsReturn` that every call returns. `OrderedSet` is what the tree
promises, call by call, and `ImplementsOrderedSet` that it keeps it.

## Bounds

| run | bounds | why they are enough |
|---|---|---|
| `timer` | 3 timers, 3 buckets, 4 ticks, 2 ms a tick, timeouts from -2 to 6 ms | 3 does not divide 4, so that the wheel and the counter wrap at different times; three timers are one that fires, one that waits on the timeout list and one on the wheel; the gaps include every branch of the guards |
| `timer_history` | 2 timers, 2 buckets, 2 ms a tick, timeouts of 1 to 4 ms, gaps of 0, 1 and 5 ms | order needs two timers; 5 ms makes `drive_timer` catch up with two ticks and leave a remainder; the timeouts are below one tick, one, one and a half and two: the third is rounded up, and a timer of 4 ms, two ticks, can expire within the call of `drive_timer` whose callback started it, which is when it is earliest |
| `io`, `io_stale` | 2 descriptors, 2 types, an interval of 4 | the types are treated alike, and two show the order; two descriptors are one served and one waiting |
| `circ` | sizes 0, 1, 3 and 4, calls of up to 5 bytes, 2 values of a byte | every begin, end and length, too long ones included |
| `hash` | 4 elements, 3 keys, 2 buckets | two elements of one key, two keys of one bucket, a bucket of three |
| `config` | 2 names; files by hand of up to 3 parameters of every type; one of the files has a negative number, as from hexadecimal, and a float with digits that `%f` does not print; clients add a negative number, a string with a quote, a list and an empty list to lists shorter than 2 | two names are needed for order and repetition; three parameters put one behind and one before another; every type is read, written and cut |
| `config_back` | 1 name, one negative number | the smallest instance that has a sign |
| `mem` | 2 sites in one bucket, 3 blocks, 2 `AllocInfo` | two blocks of one site beside one of the other |
| `list` | 2 heads, 3 entries, both interchangeable | three entries are one before, one at and one behind a cursor; two heads are a list to move, cut and splice from and to |
| `config_update` | 2 programs, 2 parameters, 2 values, the programs and the values interchangeable | two programs are enough to overlap in every phase; two parameters for one to be updated beside one that is not, and to be first and last in the file |
| `rbtree` | every order of calls on up to 6 keys; 10 keys inserted in ascending order, one of which may be missing; an eleventh node with the key of the second | six keys reach every case of the insertion and of the erasure; ten in ascending order give a tree of height 5, in which both loops go up by more than one level |

No state constraint is used; the symmetric runs check safety only. Counters are bounded by the models themselves: ticks are
modular, `accumulated` by the guards, histories are cleared when a timer stops or a
round ends. `MaxStep`, `MaxBytes`, `MaxParams` and `MaxCount` are the only bounds on inputs beside the constants
named after the code. Deadlock is not checked: the programs may stop (crashed, freed,
closed), and between calls nothing forces a client to go on.

## Fairness

`timer_history` assumes that the engine's own steps are taken and that callbacks return
(weak fairness), and that the program calls `drive_timer` again and again with some time
elapsed (strong fairness: the call is disabled while the engine runs). The comment on
`drive_timer` asks for just that: "this routine should be called every tick rate".
Nothing is assumed of the client's starts and stops. `io` assumes that `check_select` runs to completion, that select
returns (it is given a timeout), that callbacks return, and that time passes between two
readings of the clock infinitely often; not that it passes in every round. `rbtree` assumes that
a function that has begun runs on (weak fairness of the library's steps): it waits for nothing.

## Proofs

`tlapm` proves, for every value of the constants that satisfies the named assumptions:

- `TimerProofs`: `Invariance` of `IInv`, and from it `TypeCorrect`, `NeverLinkedTwice`,
  `ExpiryOnlyShrinks`, and `Refinement`, that the wheel implements `CountdownTimers`.
  `IInv` adds to the invariants of the runs that every element is in the bucket of its
  tick (`Placed`), what the bucket loop has established so far (`Scanned`), and in which
  phases the timeout list may be non-empty (`PhaseOK`). Without `Scanned` the end of
  the scan could leave a due timer behind; without `Placed` the scan would look in the
  wrong bucket. `DriftBound` bounds what one call of `drive_timer` loses to rounding.
  And of `TimerHistory`, `HistoryInvariance` of `HInv`, and from it `NeverEarly`, `NeverOverdue`
  and `ExpiresInOrder`, under the assumption that no timeout is longer than the tick counter
  can tell (`TimeoutAssumption`). The argument is an account (`Account`): what was credited
  to a running timer is the ticks it has been through, with what has accumulated since, less
  what had when it was started; `Backlog` bounds the two amounts that accumulated. For the order,
  each bucket and the timeout list are in the order of the starts, and so is the timeout list
  with what the bucket loop has still to come to (`Ordered`).
- `IoEventProofs`: `Invariance`, `NeverTwoElements`, `NothingMissed`,
  `SleepsWithinInterval`, `DispatchOnlyShrinks`; and of `IoEventHistory`, `HistoryInvariance` of
  `HInv`, and from it `NothingLost` and `NeverServedTwice`. `HInv` follows one round: an event
  that `select` reported, and that was neither served nor removed by a callback, is awaited on
  the lists until its turn comes (`Awaited`): on `io_set` while its type is to come or the
  first loop has not reached its element, then on `working_set`; what has been served is not.
- `CircBufferProofs`: `Invariance`, `IndicesAlwaysAgree`, `NeverJunk`, `Refinement`. The
  argument is that the array position of the i-th byte is `(begin + i) % size`, and that
  the two pieces of a copy are the two ranges this splits into.
- `HashProofs`: `Invariance`, `AlwaysHashed`, `NeverTwice`, `Refinement`. The argument is
  that `lookupHash(k)` finds `e` just when `e` is linked with key `k` (`FoundLemma`).
  Of `MemTracker`, which uses the same buckets, `MemInvariance` of `MInv`, and from it
  `ReportsExactly`, `ReportsNoFalseLeak` and `ClosesEmptyInfo`: an `AllocInfo` that is linked holds
  the number and the bytes of the tagged blocks of its site, less what could not be recorded. A
  sum over a set of blocks does not depend on the order in which they are counted; since the
  library's induction theorems cannot be used, that is proved by the least set on which it
  would fail. The assumption `BlockAssumption` says that sizes are naturals and that the mark
  of a block without a tag is not a site.
- `ConfigProofs`: of `ConfigUpdate`, `Invariance` of `IInv`, and from it `AloneHolds`, `NeverMixed`
  and `NothingForgotten`, for any number of programs. A program that emptied the file and was alone
  since still finds it empty when it writes (`AloneEmpties`); programs that update the file at
  one time have all read as many parameters as it holds, or it is empty (`SameLines`); and what
  could be read at first is in the file, or in what every program that has it open is
  about to write (`Kept`).
  Of `Config`, `LoaderTypes` of `LoaderInv`, and from it `LoaderTypeOK`, `WalkVisits`,
  `WriteReadsBack`, `RereadSame` and `WriteLeavesABeginning`, for any file, any values and lists
  of any length. `LoaderInv` adds to the types that the file is a text that the scanner can
  return: before an equals sign stands the name of a parameter, never what is left of a string
  with a quote, so that what the parser takes from a file is a parameter of the program. The
  parser is a fold over the tokens; that one token more is one `Shift` more (`ParsingAppend`) is
  proved from the definition of the fold. What is said of texts and lists of any length is then an
  induction over a number, which needs no theorem with an operator as a parameter: the numbers for
  which a statement holds are a set, and a set that holds 0, and k when it holds k - 1, holds them
  all (`UpTo`). Element by element (`ReadElement`) and parameter by parameter (`ReadOneMore`) the
  parser comes to the list the text was printed from or, when a value cannot be stored, to an
  error that it does not leave (`DeadStays`). For a write that ends early, `Sound` says that
  wherever the text is cut between two tokens, the parser has a beginning of what was to be
  written, and two sound parts together are sound (`SoundConcat`); `CutBegins` is the cut within a
  number. The theorems assume of `%f` that the value it prints is printed as itself, and that the
  part of a string before its first quote has no quote (`TextAssumption`).
- `ListLemmas`: what appending, unlinking and taking the first element do to the range,
  the injectivity and the order of a list, shared by the others.
- `ListProofs`: `PointersRepresentLists`, that `Represents` holds for any number of lists and
  entries. The invariant `IInv` is stated with a relation: `y` *follows* `x` when it comes
  next on a list, the head being before the first and after the last entry, or when both
  are one initialised entry that is on no list; next and prev are the two directions of that
  relation. Each function is then a fact about rings, which `ListLemmas` proves: a list is the ring of
  its head and its entries, every node of which has one follower and is the follower of one,
  and cutting a ring at a node and closing both halves gives two rings, and the other way
  round (`RingConcat`). Every function of `list.h` is one or two such cuts.
  `LoopsMissNothing` is `WalkSeesAll`: between two turns of a loop the entries that are due and
  not seen are those at the cursor and behind it (`Course`), and a call in the body that keeps
  these in their order, wherever else it adds, removes or moves entries, keeps that so.
- `RedBlackTreeProofs`: `Invariance` of `Inv`, for any elements and keys, and from it `TypeCorrect`,
  `PointersAgree`, `InOrderOfTheKeys`, `RedNodesApart`, `SameBlackHeights` and
  `NothingReadThroughNull`; with `AnswerInv`, `Refinement`, that the tree implements `OrderedSet`; and
  with `AugInv`, `AugmentsAll`. The invariants of the runs say what a recursion over the tree finds;
  `Inv` says the same without one. There is a function `D` that gives for every node the set of
  those at and below it, all of the tree at the root, on either side of a node by their keys
  (`Ordered`); and a function `h` that gives for every node the black ones on each path
  down, and which may be one less on the side where `__rb_erase_color` is looking for one
  (`Balanced`). That `D` is a function on the nodes of a finite tree is what excludes cycles, and
  `TreeInduction`, the least `D[n]` among the nodes of a set, takes the place of induction.
  A rotation, a link, a removal and a replacement say what becomes of `D` and `h`; the
  erasure of a node with two children is a removal of its successor and a renaming of the
  node. `CursorInv` says where the loops stand: that the place for a new node is the right one
  of the search order, and that the node in hand is the leftmost one on the right of
  the one to be erased. Without it a node linked below `par` could be out of order. `RedInv` names
  the nodes that may break the colour rule while a loop is under way. `InOrder` and the heights of
  `BlackBalanced` are recursive functions: that they exist is proved from the leaves up.
  `AnswerInv` says what each search has established: that an element with the key, if there is
  one, is at or below the cursor, and for a walk to a neighbour that all that is still wanted is
  below the cursor on the way down, and none of it on the way up. A call changes the set or
  settles its result in one step, and a search down the tree stays with its answer in between.
  `AugInv` says where the augmented data may be stale during a call. The walk at the
  end of a call starts at a node that the call has found before it rebalanced, and looks at the
  two children of each node on its way; the rotations in between move nodes off that way and
  compute nothing. The invariant is that all that is stale is on that way or next to it
  (`Covers`), and before the last rotation above the node where the walk will start
  (`StaleAbove`); the last rotation is the only one that can leave a stale node beside the way,
  and the sibling that the walk computes is that node.

These theorems state some properties that no run checks, because the theorem says more than a
run could: `TypeOK` and `IInv` of the timer, `TypeOK` of the I/O driver, `TypeOK` and `NoJunk` of
the circular buffer, `HashTypeOK` and `Hashed` of the hash, `TypeOK` and `Inv` of the red-black tree, `LoaderInv` of
the configuration loader.

Only model-checked: the liveness properties (`CallsReturn`, `DriveReturns`, `RunningTimerSettles`),
since the prover does not reason about fairness. Every invariant and every other property of the
passing runs is the subject of a theorem.

## What is not modelled

- The logger, which keeps a level, two flags and two streams and whose one decision is a
  comparison of levels, and the hex conversion, whose functions are loops over characters
  without any state. A fatal message below the level neither is printed nor ends the program.
- In the configuration loader: `load_parameter`, the iterators, and `strdup` without memory; an
  infinite float, whose text is a name; a string that ends in a backslash; the integer
  `INT_MIN`, whose digits are more than an `int` holds.
- An operation on an element that is on another list, which would corrupt both: the components
  never make one (`LinkedOnce`, `KeyOnce`, `OneElementPerFd`).
- `drive_timer` called from a callback, and the use of a timer after `deinit_timer`.
- Overflow of `int` in sizes (a put of nearly `INT_MAX` bytes), and of the difference of two times
  of the I/O driver; a descriptor of `FD_SETSIZE` or more; `initHash` without memory.
- The high-resolution build of the timer, whose arithmetic is the same in other units.
- `main` of the demo program and its traversal, the shell samples and the Makefiles.
