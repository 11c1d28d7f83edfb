# A verification development for mipt-alexeyqu

The repository is a student's collection of programs from three terms at MIPT. There
is no single product in it; what it has is a set of small systems: the primitives of
a concurrency course (C++11 threads, atomics and condition variables), Linux programs
that talk through System V IPC, FIFOs, pipes, signals and sockets, WinAPI programs
with dialogs and worker processes, graph and string algorithms, a game player, and a
machine with its assemblers and a translator. This directory holds TLA+ models of
them, the TLC runs that check the models, and theorems that TLAPS proves.

Paths below are relative to `src/`. `CC` stands for `3 term/mipt-concurrency-course`,
`L` for `2 term/Lunev`, `W` for `3 term/WinAPI`, `A` for `3 term/algos`, `D` for
`1 term/Ded-C`.

## 1. Inventory

`PROJECT.json` lists every component with its files and every hazard at its line.

### The concurrency course (`CC`)

| Part | State | Operations | What is hard | What makes it correct |
|---|---|---|---|---|
| Barrier, `task3/barrier` | mutex, epoch, number of waiting threads, condition variable | `enter` | threads of round k wake when round k+1 has begun; spurious wake-ups; the epoch wraps | nobody returns before all have called; everybody returns |
| Tournament mutex, `task1/tree_mutex` | `want[2]`, `victim` per node | `lock`, `unlock` | every load and store interleaves; `unlock` computes the path of `lock` a second time, another way | mutual exclusion, no starvation, the two paths agree |
| Peterson mutex with orders, `task5/mutex-memory-model` | the same, with release/acquire/relaxed accesses | `lock`, `unlock` | a load may return an old value | mutual exclusion (it fails) |
| SPSC ring buffer, `task6` | slots, `head`, `tail` | `enqueue`, `dequeue` | stale indices, plain slots published by atomics, wrap-around | it is a bounded FIFO; slot accesses never race |
| Lock-free queue, `task7-8` | slots, `head`, `tail` | `enqueue`, `dequeue` | the test for a full buffer guards nothing | a FIFO as long as it has not been full |
| Bounded queue, `task2/producer_consumer` | container, `is_alive`, two condition variables | `enqueue`, `pop`, `shutdown` | single notifications on two condition variables, shutdown without a lock | order, no loss, no lost notification |
| Thread pool, `task2/thread_pool` | queue of tasks, `is_alive`, workers, shutdown mutex | `submit`, `shutdown`, `run_worker` | shutdown against sleeping and busy workers, two shutdowns, tasks that submit | every accepted task is run once, every call returns |
| Blocking flag, `task3/flag` | atomic flag, mutex, condition variable | `wait`, `set` | `set` takes no mutex | who waits is released (one window excepted) |
| Striped hash set, `task4` | buckets, one reader/writer mutex per stripe, counter | `add`, `remove`, `contains`, resize | resize against all the others, buckets move between stripes | linearizable set, no race, no deadlock |

Threads of one part share its state only; the parts do not call each other, but for
the thread pool, whose queue is its own variant of the bounded queue.

### Programs on Linux (`L`)

| Program | Processes | They interact by | What is hard | What makes it correct |
|---|---|---|---|---|
| `shmem` | receiver, sender | a segment, System V semaphores with `SEM_UNDO`, `SETVAL` | either is killed at any step; semaphores and segment outlive the run | the file arrives; the survivor notices (both unless a killed run is still counted as alive) |
| `fifo` | receivers, senders | `my_fifo` and two FIFOs used as locks | who may start when; FIFOs forget their contents | files do not mix; whoever copies ends |
| `signal` | parent, child | one signal per bit, a reply per bit | pending signals merge; death of either | the bytes are rebuilt; the parent ends with the child |
| `select` | parent, N children | 2N pipes, one `select()` loop | partial writes, end of file along the chain, dead children | the copy is the file; everyone ends |
| `msg` | parent, N children, other runs | one System V queue with message types | runs share the key of the queue | the children print in order |
| `newton` | parent, N children, other runs | the same queue, any type | intervals dealt out by a stride, runs take each other's sums | a run that meets no other adds its own intervals, each once; between runs none is lost or doubled |
| `newton.net` | client with threads, servers, a heartbeat process on each side | UDP broadcast, TCP connections, process groups that are killed | lost answers, silent machines, late heartbeats, a server that fails between task and result, heartbeat processes that inherit connections | a printed sum has every part once; the other side's death is noticed |
| `hashtable` | one | lists with a sentinel, an iterator | search begins at the sentinel, deletion during an iteration, failing allocations | keys are single but for the oldest; an iteration is complete |

### WinAPI programs (`W`)

| Program | State | Operations | What is hard | What makes it correct |
|---|---|---|---|---|
| Heap manager, `Task8-9` | three ordered sets of free blocks, blocks in use, committed pages | `Create`, `Alloc`, `Free` with `Merge`, `Destroy` | neighbours in three sets, `lower_bound` at either end, pages shared by blocks | blocks handed out are disjoint; nothing is lost; used pages are committed |
| Notepad with workers, `Task11` | text and its mark, events, two mappings, four worker processes | type, open, save, close, "clear"; the workers' loop | workers that start late or are closed; the dealing out of words; shared memory of one size; a save that fails half way | known words stay, in their order; nothing typed is lost unasked (Ctrl+Q and a failed save excepted) |
| Editor with settings, `Task6-7` | text and its mark, settings kept, being made and previewed | type, save, close, any number of settings dialogs | dialogs share the settings and the preview | only an OK changes what is kept |

### Sequential programs (`A`, `D`)

| Program | State | What is hard | What makes it correct |
|---|---|---|---|
| Maximum flow, `A/graph` | residual network; layers and capacities of vertices (MKM); heights, excess, counts per height (push-relabel) | capacities kept up by subtraction; 32-bit flows; the gap rule on stale counts, some of them kept beyond the end of their vector | the printed flow is a maximum flow; both end |
| Substrings, `A/suffix` | suffix tree under construction; induced sorting with its recursion | suffix links that are set a turn late; the boundaries of buckets | the number of different substrings |
| Othello player, `A/othello` | board, hints, whose turn | each player keeps its own board | players and referee agree |
| CPU and assembler, `D/CPU` | code, two stacks, registers, labels | addresses counted in one pass and used in another, two END words, checks that fall through, operators that may not pop | the code does what the text says (AND and OR may leave an operand) |
| First assembler and disassembler, `D/asm` | words of a text | | the one reverses the other |
| Translator to machine code, `D/BT` | addresses of commands, bytes | the same addresses once more; x86 instructions by hand | the x86 code leaves the same stack |
| Word table, `D/Hash` | an array of lists, six hash functions in turn | the table is cleared between functions; the search misses the oldest word | printed lengths count the words |

### Not modelled

* The robot (`CC/task3/robot`) does not compile (`robot.h:26`); the texts of tasks 1
  and 5 are answers in words.
* The windows of `W` Tasks 1-5 and 10 draw and answer messages with little state of
  their own; where they edit, they save and close as the editor of Tasks 6-7 does.
* The stack, tree, parser, substring and equation exercises of `D` keep no state
  between their operations, or are formatting and floating point.
* The DOS and NASM exercises (`1 term/Ded-asm`), the SQL scripts (`2 term/KBT`) and
  the notebooks (`3 term/ML`) have no program state to model.
* Of the translator (`D/BT`), the search for the room in the ELF file and the making
  of that file by `nasm` and `ld` are left out; it is "partly" modelled.

## 2. Modules

| Module | Models | State and actions against the code |
|---|---|---|
| `Barrier` | `CC/task3/barrier` | `epoch`, `curWaiting`, `curEpoch[t]` are the fields and the local of `enter()`. The mutex is held from the entry of `enter()` to the wait and from the wake-up to the return, so `ArriveAndSleep`, `ArriveLast` and `Recheck` are one step each; `WakeSpuriously` is any return of the wait without a notification. |
| `PhaseBarrier` | | What a cyclic barrier promises, with calls and returns only. |
| `TournamentTree` | the index arithmetic of `tree_mutex` | `LockPath` is the loop of `lock()`, `UnlockPath` that of `unlock()`, as recursive functions on the points `(i, index)` and `(i, left, right)`. |
| `TreeMutex` | `tree_mutex` with `peterson_mutex` | Each load and store of `want` and `victim` is a step; `pos` is where a thread is on its path. |
| `PetersonOrders` | `CC/task5/mutex-memory-model/test.cpp` | A location is the list of values stored to it; a thread's view says how old a value it may still load; release publishes the view, acquire takes it over. |
| `SpscRingBuffer` | `CC/task6/ring_buffer` | Each atomic access and each slot access is a step; `head` and `tail` are the modification orders of the atomics, and a load may return any value not older than the last one seen. |
| `BoundedFifo` | | What a bounded FIFO queue promises. |
| `LockFreeQueue` | `CC/task7-8` | The accesses of `enqueue` and `dequeue` by one producer and one consumer; `overrun` notes that the buffer was full once. |
| `ThreadSafeQueue` | `CC/task2/producer_consumer` | A stretch under the mutex is a step; `again` is the location of a thread that has left the wait. |
| `ThreadPool` | `CC/task2/thread_pool` | Stretches under the queue's mutex are steps; `my_shutdown_mutex` is a variable because `shutdown()` keeps it while it joins. |
| `BlockingFlag` | `CC/task3/flag` | The lock, the load and the sleep of `wait()` are steps, and so are the store and the notification of `set()`. |
| `StripedHashSet` | `CC/task4` | Steps are the accesses to a bucket, the counter and the table; lockers are acquired one stripe at a time. The hash of a value is the value. |
| `ConcurrentSet` | | What a shared set promises: every call takes effect at one moment. |
| `ShmemTransfer`, `FifoTransfer`, `SignalTransfer`, `SelectRelay`, `MsgRing`, `Newton`, `NewtonNet` | the programs of `L` | A system call, with the tests of its outcome up to the next one, is a step. What the kernel and the network do (semaphores and their undo, FIFOs, pending signals, pipes, the queue, datagrams, connections that close) is modelled from how the programs use it and marked external in the map. Three variables are history only: `ghosts` of `ShmemTransfer` (a count that killed runs have left in the fifth semaphore), `senders` of `Newton` (whose messages a run has received), and the senders that the messages of its queue are named by. `heirs` of `NewtonNet` are the connections that a forked heartbeat process keeps open. |
| `ListHashTable` | `L/hashtable` | A call is a step; a bucket is the sequence of its elements from the sentinel on; any allocation may fail, with the error paths that follow. |
| `HeapManager` | `W/Task8-9` | `Alloc`, `Create` and `Destroy` are steps; `Free` is one for the block and one for each merge. Free and used blocks are pairs of an address and a size in four sets; the page table counts blocks per page. |
| `Allocator` | | What an allocator promises: live blocks are disjoint and inside the heap. |
| `Notepad` | `W/Task11` (`MyNotepad.cpp`, `WordsDict`) | Steps of the editor and of each worker are those between two waits; events are automatic and `ready`, `cleared` their states; a handle may be null. `Narrow` is what a word becomes when it is read as bytes, `SmallChunks` what fits into the 2048 bytes of a mapping; where the code writes past its memory the editor is "astray" and nothing is said of it. |
| `EditControl` | `W/Task6-7` | A message of a window is a step; `boxes` is the stack of modal boxes, `dialogs` the settings dialogs that are open. |
| `FlowNetwork`, `Mkm`, `PushRelabel` | `A/graph` | A turn of an outer loop is a step (a phase, a reference vertex, a push; a discharge, a relabelling). A step of push-relabel that counts a height beyond the end of `usedHeight_` may go on or leave the program "astray". |
| `Ukkonen`, `Sais` | `A/suffix` | A branch of a turn of `appendChar`; a slot of an induced sorting. The reference, the set of all substrings, is in `SequentialPrograms`. |
| `Othello` | `A/othello` | A command of the referee is a step; `board` has the board of each player and of the referee. Scores are arbitrary, so the search is the choice of any move. |
| `CpuCommands`, `Cpu` | `D/CPU`, `D/asm`, `D/BT` | The table of commands, both directions of the first assembler, both passes of `BT_Translate` and what the x86 instructions do; both passes of the assembler and the loader as functions of a listing, the machine command by command, with every check behind the command that was executed. |
| `TextMachine` | | What a listing says, statement by statement, without addresses. What commands take and mean is stated there from the summary of commands (`CPU_main.cpp:17-57`) and not shared with `Cpu`. |
| `WordTable` | `D/Hash` | Reading, hashing and adding a word, printing, clearing and destructing. |
| `CoursePrograms` | | Runs one of queue, pool, set, flag, lock-free queue. |
| `LunevPrograms` | | Runs one of the eight programs of `L`. What their runs are called with (`ChildrenOf`, `IntervalsOf`, `ProcessesOf`, `ServerProcs`, `Hash`) are constants; `TwoAndThree` and the like are the values for TLC. |
| `WinapiPrograms` | | Runs one of heap, notepad, editor. |
| `SequentialPrograms` | | Runs one of the two flow algorithms, the two substring counts, Othello, the tree paths, the CPU, the word table. |
| `TreeMutexProofs`, `SpscProofs`, `CourseProofs`, `LunevProofs`, `LunevCopyProofs`, `WinapiProofs` | | The theorems of section 6. |
| `DataLemmas` | | What the proofs need to know of data: remainders, the elements of sequences, induction and recursion over natural numbers and sequences. |

The four `...Programs` modules are harnesses: their programs do not interact, a behaviour
starts one of them and leaves the variables of the others alone. A property of a
harness speaks of each of its programs in turn; its parts are defined in the
programs' modules.

Operators commented as mutants are variants of an action or helper with one
plausible mistake in it. They are not part of the specifications; each property
was seen to fail when its mutant takes the place of the original.

## 3. Runs

| Run | Instance | Shows |
|---|---|---|
| `barrier` | 3 threads, 4 calls, an epoch of 2 values | no round overtakes another, all joins return, and the barrier implements `PhaseBarrier`. With two epoch values the word wraps twice; three threads are the least with a first, a middle and a last arrival. |
| `tree_mutex` | 4 threads for ever, 3 nodes | one at a time, nobody is overtaken twice at a node, nobody starves. Four threads are the least with two levels, where the order of release matters. |
| `peterson_orders` | 2 threads, 2 rounds | fails: section 7. |
| `spsc_ring_buffer` | 2 usable slots, 7 items | no race on a slot, order, all items arrive, and the buffer implements `BoundedFifo`. The indices wrap twice. |
| `blocking_flag_lost` | 3 waiters | fails: section 7. |
| `course_programs` | five programs, below | nothing is lost or doubled, the set is linearizable, every call returns unless the source gives it a reason not to. |
| `lunev_programs` | eight programs, at most one kill or fault at any point | the data that comes out is the data that went in, what is sent adds up, the survivors notice and end. |
| `select_partial` | 3 children, pipes of 2 units | fails: section 7. |
| `winapi_programs` | three programs | memory is given out once and nothing is lost; known words and typed text are kept; only an OK settles settings. |
| `heap_overlap` | a heap of 24 with large blocks | fails: section 7. |
| `sequential_programs` | eight programs | their results are those of a reference definition, and every loop ends. |
| `ukkonen_counts` | the strings of that run | fails: section 7. |

`course_programs`: the queue has two producers of two items, two consumers, one place
and a shutdown at any moment - two on each side are the least for a notification to
reach the wrong one. The pool has two workers and two clients of two tasks, the first
task of each submits another, both clients shut down. The set has two threads of two
calls, three values, two stripes and growth at a density over 1/2, so that the second
element makes the table grow and calls meet a resize at every step. The flag has two
waiters; the lock-free queue two usable places and five items, so that it runs over.

`lunev_programs`: `shmem` has two blocks, a file that may be missing, and anything that
killed runs can have left in the segment and in three of its semaphores, the count of the
living among them, up to `ShmemLeft` = 1 in each; `fifo` two receivers, two
senders and room for one block; `signal` two bytes out of seven that have none, one or
all bits set and lie on both sides of the sign; `select` two children, buffers of four
and two units and pipes of three that may take part of a write; `msg` two runs, of two
and three children, on one queue; `newton` two runs, one with more children than
intervals, so that both meet their own messages, the other's, or both; `newton.net` two servers with one and two processes, lost answers, and one
of: a program killed, a machine that falls silent, a late heartbeat; `hashtable` three
keys in two buckets and four additions, any of whose allocations may fail.

`winapi_programs`: a heap of 14 bytes in pages of 4 with requests of 1, 4 and 6, three
blocks in use at most, without large blocks (see `heap_overlap`); the notepad with four
workers, one of which may be closed, and three texts: one without words; one with a
foreign word in every chunk, words that are read as another one, as two or as none, which
leaves fewer words than workers need when it is cleared a second time; and one whose last
chunk does not fit; the editor with two settings
dialogs at a time, two font sizes and two colours.

`sequential_programs`: 729 networks of four vertices with capacities 0 to 2, a circle,
a parallel tube and a loop, for push-relabel with pushes that wrap at 4, so that in 81 of
them a push between the inner vertices can be cut to nothing; all strings of up to four letters out of three and of six
out of two, and some that repeat themselves, one of which takes the induced sorting
three levels deep; all games on a board of four by four up to ten discs; all trees of
`tree_mutex` up to 17 threads, which is past a power of two on both sides of 8 and 16;
some four thousand listings of the CPU with inputs 0 and 1, with AND and OR that are decided
by the last number and others; texts of up to four words,
short and too long ones. For the six hash functions, the counting rule of `WordTable`
gives the numbers recorded in the repository (`D/Hash`, `output-1.csv` to
`output-6.csv`) for its own `text.txt`, all thousand buckets of each.

TLC checks for deadlock where nothing may stop (`barrier`, `tree_mutex`,
`spsc_ring_buffer`). The other programs end, or may really hang: the queue when
producers or consumers run out of partners, the pool when a shutdown joins a worker
that waits for its mutex, a "clear" whose events were not there. There the liveness
properties, and `NoLostNotification`, say who gets to an end.

**Bounds.** `Calls`, `N` of the ring buffer, `Items`, `PerProducer`, `Quota`, `Rounds`,
`Blocks`, `FileLength` and `Length` bound how much a thread does; they are loops of
the programs' own tests and main functions. `MaxKills`, `ShmemLeft`,
`MaxThreads`, `MaxAdds`,
`MaxUsers`, `MaxText`, `MaxBoxes`, `MaxDialogs`, `MaxDiscs`, `Room` and `MaxCapacity`
bound the exploration only. `EpochModulus` is 2^64 in the code, `DeltaRange` 2^32,
`MaxLen` of the word table the length of the program's buffer.

## 4. Fairness

Weak fairness of a thread's next step stands for a scheduler that runs every thread
that can run. Strong fairness is asked for where a thread contends for a mutex
(`Lock` of the flag, `Acquire` in `course_programs`: the locks of queue, pool, set and
flag): the C++ standard does not promise it, but every mutex the programs run on gives
it to a thread that asks again and again; without it one thread could keep all others
out for ever. The loads of the ring buffer see the newest value in the end, as the
standard asks ("in a finite period of time"). No spurious wake-up, kill, fault,
shutdown or further call is owed to anyone. The programs of `L` need only that some
process goes on as long as one can: none of them can go on for ever without the
others. In `winapi_programs` a call of `Free` and the editor with its workers go on;
nobody is bound to type or to answer a box. The sequential programs just go on
(but those of the CPU, which may loop and of which `ProgramsEnd` asks nothing). The
tree mutex needs weak fairness only: its waiting threads spin on atomics.

## 5. Abstract specifications

`Barrier` implements `PhaseBarrier` with the number of calls a thread has made as
mapping; `SpscRingBuffer` implements `BoundedFifo` with the slots from head to tail
as its contents; `StripedHashSet` implements `ConcurrentSet` with the values in old
and new buckets as members, which is linearizability: `Apply` is the moment at which
a call takes effect. `HeapManager` without large blocks implements `Allocator` with
the blocks in use as those that live. The machine of `Cpu` does what `TextMachine` says
of a listing, word by word, for listings that keep to the rules in `Proper`, but for the
operand that AND and OR may leave (`LeavesOperand`; `CodeDoesWhatTextSays`). The refinements of `PhaseBarrier`, `BoundedFifo`,
`ConcurrentSet` and `Allocator` are proved for all parameters, the last one is checked.

## 6. Theorems

All theorems hold for every value of the constants that satisfies the assumptions
named in the modules. TLC checked the inductive invariants on a small instance before
they were proved; of those of `L` it checked the parts that are not plain from the code.

*Barrier* (in `Barrier`; from `ThreadAssumption`, `CallsAssumption`,
`EpochAssumption`: finitely many threads, at least one, and at least two epoch
values). `TypeCorrect`, `RendezvousHolds`, `NoSleeperLeftBehindHolds`,
`BarrierImplementsPhases`. "Nobody returns early" is not inductive: it says nothing
of the counter or the epoch. The invariant adds that the counter is the number of
threads that wait in the open epoch (`CountIsExact`), that a sleeper's epoch is the
open one, and that all threads have been released from the same number of rounds
(`LockStep`). The thread that finds the counter full then knows that all others
wait, and closing the round moves all of them one round on at once. That two epoch
values are enough falls out of the proof.

*Tournament mutex* (`TreeMutexProofs`, `DataLemmas`; from `NumThreadsAssumption`: at
least one thread). `PathsOfTheTree`, `TypeCorrect`, `MutualExclusionHolds`,
`NoOvertakingHolds`. Two
threads inside would both hold the root, so the invariant speaks of all nodes: no
two threads use the same side of a node (`UniqueUse`), no two hold the same node
(`NodeExclusion`), and a thread that waits at a held node is its victim
(`VictimWaits`, Peterson's argument). `UniqueUse` needs that who uses a node holds
the child below, hence that nodes are given back from the root down.
That the child is well defined, and that what `unlock()` gives back is what `lock()` took,
is `PathsOfTheTree`, about the two recursive path functions. A recursion over points that
come nearer to an end defines a function (`PathRecursion`), whose value is what the points
on the way are used for (`PathOf`). The points of `lock()`, found by halving an index, and
those of `unlock()`, found by bisecting an interval, turn out to be the same: `j` levels
above its leaf, thread `t` is at place `t` divided by `2^j` of a level that begins at
`2^(d-j) - 1` (`LockPathIs`, `UnlockPathIs`, with `d` the depth, for powers of two and
others). Levels do not overlap (`LevelsApart`), and the node and the side on it determine
the child. `PathsAgree` in `sequential_programs` checks the same for up to 17 threads.

*Ring buffer* (`SpscProofs`, `DataLemmas`; from `SizeAssumption`,
`ItemsAssumption`). `TypeCorrect`, `NoDataRaceHolds`, `InOrderHolds`,
`RingImplementsFifo`. The tests for full and empty are equations between remainders.
They say something only because the counters behind the indices, as each thread has
seen them, are never more than `Size` apart (`Views`); then remainders of different
items in the buffer differ (`ModDistinct`) and each slot holds its item (`Slotted`).
Stale views are harmless because they only make this distance look larger to the
producer and smaller to the consumer.

*Queue, pool and lock-free queue* (`CourseProofs`; from `ProgramsAssumption`: finitely
many threads, none of them the value `None`; at least one item for each producer; and at
least one worker, for a pool without workers never runs a task). `QueueInvariance`,
`PoolInvariance`, `RingInvariance`, `TypesHold`, `NothingIsLost`, `OrderIsKept`,
`NotificationsArrive`, `ShutdownHolds`. That nothing is lost is a statement about where
an item is: handed in, in the queue, or with one consumer. The invariant gives every
item one such place and says what each thread holds at each point of its call. Lost
notifications need more: whoever sleeps has been counted by nobody since the last
notification, so that with a sleeper and work for it there is always a thread of its
kind that is awake and on its way to look again. For the pool the invariant says what is
over at which step of `shutdown()`, so that an unfinished future cannot outlive it.
`RingInvariance` holds as long as the buffer of `task7-8` has not run over (`overrun`);
after that the program itself gives no order.

*Hash set* (`CourseProofs`; from the same assumption). `SetInvariance`, `NoDataRaceHolds`,
`GrowsOnce`, `SetIsLinearizable`. `LockInv` says which stripes a thread holds at which
point, that a thread inside its stripe knows the table that is in use (it looks again
after locking), and that a thread that resizes holds all of them. From it follow that
no bucket is accessed by two at once, and then that the values in old and new buckets
are at each step the members of the abstract set (`TableInv`); the answer of a call was
right at a moment between its start and its end (`Answers`), which is linearizability.
The counter is behind the elements by the calls that have changed a bucket and not
counted yet (`Counted`), which is why two threads that find the table dense do not make
it grow twice.

*Heap* (`WinapiProofs`; from `SizeAssumption` and `HeapSize <= MediumBorder`, that is
without large blocks, for which the statements are false: section 7). `HeapInvariance`,
`MemoryIsPartitioned`, `PagesStayCommitted`, `HeapIsAnAllocator`, for every size of heap,
pages, borders and requests. That each byte is in one block does not last by itself:
blocks are looked for in the set for their size, so each must be in the right one, and
while `Free` merges, the block that it grows is a free one that contains the address
that was freed, whose old entry has left the blocks in use. Merging joins two blocks
that touch (`JoinTiles`), allocating cuts one (`CutTiles`). The page table is the number
of blocks in use per page (`Paged`), so a page whose count falls to zero has no user.
`main.cpp:13` runs a test with large blocks as well: of that one these theorems say
nothing, and `heap_overlap` shows that it would be wrong.

*Settings* (`WinapiProofs`; from `PropsAssumption`). `SettingsAgree`, for any number of
dialogs. With no dialog open everything agrees; what makes it last is `OneDialog`: with
one dialog open, the size shown and the size being made are those accepted or those on
that dialog's slider, because whatever a second dialog has changed it has put back, or
accepted, when it closed.

*Notepad* (`WinapiProofs`; from `Notepad!SizeAssumption`). `EditorInvariance`,
`WordsStay`, for any number of workers, dictionary and texts, any reading of words as
bytes, any memory and any failing save, with workers started late and killed at any moment.
They speak of a "clear" whose parts fit into the mappings, and of an editor that closes
unasked by its cross or its menu; `Ctrl+Q` and a file that a failed save has emptied are
exceptions that the statements name. The protocol part says with whom each part of the text is
(`InOnePlace`): its event is set, or its worker has it, or it is done and waits for the
editor, or it was counted; so a worker never reads what the editor still writes, and all
parts are cleared when the editor joins them. That the cleared parts, joined, are the
known words of the whole text is an induction over the parts (`PartsJoined`) on top of
one over words (`KnownConcat`): it holds for texts with fewer words than workers too,
where `onClear` cuts parts of no words. Reading changes nothing in words that were read
(`ReadPlain`), so the second reading, by the workers, is harmless. `KnownTwice` is needed for the mark of a changed
text: "clear" does not set it, and a text that was cleared twice is the one that was
cleared once. `ProgramsTypesHold` puts the types of heap and notepad together.

*The programs of `L`* (`LunevCopyProofs` for `shmem`, `select` and the theorems about all,
`LunevProofs` for the others; from `ProgramsAssumption`: finite sets of processes that are
apart, positive sizes of buffers and pipes, at least one child or server, runs that are
numbered). Each program has an inductive invariant of its own; `StepsOfOne` says
that a step of the harness is one of a program or leaves its variables, so the theorems
are about `FairSpec` of the harness. All hold whoever is killed at which step, `MaxKills`
being any number.

| Theorem | Program, and what its invariant says |
|---|---|
| `FifoMixesNoFiles` | `fifo`: between two blocks of a sender, in what a receiver has printed followed by what is in `my_fifo`, there are the blocks between them in its file and no others (`Streams`, `Sound`), because whoever has one of the two FIFOs that serve as locks keeps its own kind out (`KeptOut`) and `my_fifo` has the ends it should have (`EndsRight`). |
| `SignalCarriesTheFile` | `signal`: at most one signal is under way, so none merges with another (`Handshake`: waiting, arrived, taken, stored), and the bytes printed and the bits collected are the file up to `pos` (`Rebuilt`, from `Code` and `Shifted`, the conversions of both sides). |
| `ShmemPrintsTheFile` | `shmem`: the undo counters of each process (`Undoes`), the fifth semaphore as the number of processes that live (`Counted`), and whose turn the segment is (`InStep`: nobody's, the sender's, in the segment, the receiver's), which survives the death of either because the other one's `semop` on the fifth semaphore then fails. The leftovers of killed runs are in `Init`; all of this (`CleanInv`) is claimed if no count of the living is among them, and only the types (`Loose`) if one is (section 8). |
| `FilesCopiedUnlessHalf`, `FilesCopied` | `select`: every pipe, buffer and child holds the stretch of the file between two marks (`Carried`), and these marks join along the chain (`Flow`); who is dead leaves nothing behind (`Orderly`). Then the output is the beginning of the file, and, with every piper dead and nobody killed, induction along the chain makes all marks equal to the file's length. |
| `SharesAlwaysAddUp` | `msg`: every run brings one message, which is in the queue, with a child, or lost (`OneMessageEach`), and what children of a place have received was sent by children of the place before, of whichever run (`SentBefore`). `newton`: a child adds up the intervals of its stride, each once (`Summed`); when it has ended an interval is in one place, in one message or in one sum (`OnePlace`), and messages are counted (`MessagesCount`); a run takes as many messages as it has children, so one that has received from its own only has received all of theirs (`OwnIntegral`). A run that meets another's messages ends with a wrong sum, which the statement says. `newton.net`: a server that computes or has answered has the part between its two bounds (`HasPart`), and the bounds join. |
| `TableStaysConsistent` | `hashtable`: the elements of a bucket are ordered by age (`InBuckets`), a second copy is of the oldest (`CopiesAreOldest`), and what was there all the time has been given by the iterator or lies ahead of it, and not both (`Iterating`). |
| `TypesHold` | all eight, with the bounds of pipes, buffers, queues and semaphores. |

`FilesAreCopied` is not true of `select` for all constants: `select_partial` (section 7)
is a chain in which the parent writes exactly half of a buffer. `FilesCopiedUnlessHalf`
proves that this is the only way to go wrong: its hypothesis is that the parent never is
about to do so (`WritesHalf`), and nothing else is assumed. `FilesCopied` has constants in
its place: a write that does not take everything takes `PipeBuf` units at least, because
`select()` found room for as many, so half of a buffer is never written if a buffer holds
less than twice `PipeBuf`. With the values of the source (`MIN_BUF_SIZE` 1111, 4096 for
`PIPE_BUF`) the largest buffer, 1111 times the number of children, is that small for up
to seven children. The instance of `lunev_programs` satisfies the hypothesis (pipes of
three, `PipeBuf` two), that of `select_partial` does not.

*Induction.* The library's induction theorems have an operator as a parameter. Where
data has to be followed step by step, `DataLemmas` uses a set in its place: `NatLeast`
comes from the library's theorem on minimal elements of well-founded relations,
`Induction` and `SeqInduction` from it, and `Recursion` says that a recursive definition
has a function that follows it, so that it can be unfolded.

Only model-checked: all liveness, `CallsReturn`, `DeathIsNoticed`, `EveryoneEnds` and the
ends of loops among it (the prover has no support for it under fairness); and the
sequential programs, where nearly all of the statement
is what an algorithm computes from its input (and `CpuCommands` uses the bitwise operators,
which the prover does not have).

## 7. Disagreements with a run

* `peterson_orders`: `test.cpp:21-26` stores `want` (relaxed) and `victim` (release)
  and then loads the rival's `want` (acquire). Release and acquire do not keep the
  load behind the stores; both threads see the rival's flag still down and enter.
  `mutex-memory-model.txt:10` asks for orders that guarantee correct work.
* `blocking_flag_lost`: `set()` (`flag.h:18-21`) takes no mutex. Store and
  notification may both fall between a waiter's load (`flag.h:13`) and its sleep
  (`flag.h:14`); the waiter then sleeps for ever. `flag.txt:7` says that threads can
  wait for the flag to be set.
* `select_partial`: after a partial write `select/main.c:242-247` compares the number
  of units written with a size that has been reduced by it. A write of exactly half
  the buffer therefore skips the `memmove`, and the first half is written again in
  place of the second. `L/README:6`: the programs copy a file.
* `heap_overlap`: `CHeapManagerMemSet.cpp:43` looks for a large block in
  `mediumMemSet`. A large block that was merged with a neighbour therefore stays in
  `largeMemSet` beside the merged one, and is given out twice: `Create`, `Alloc` of a
  large block, `Free`, two `Alloc`s. `CTesters.h:41` makes objects of such blocks, and
  `TimingMyHeap` (`CTesters.cpp:100`) creates and deletes them.
* `ukkonen_counts`: `esko.cpp:83` leaves the loop of a phase that only steps along
  before the suffix link of the node made last is set (`:85-90`), and the next phase
  forgets that node. A later phase follows the missing link: "abaac" gives 12, and has
  13 different substrings, which `MergedSAIS.cpp` counts. `main.cpp:30`: it was
  designed to solve that problem.

## 8. Disagreements seen while modelling, without a run of their own

The models keep all of these as they are; the properties go around them, at the place
named in their comments.

Course and `L`:

* `shmem/main.c:217` with `:31`: a sender whose file does not open sets all
  semaphores to 0, that of the receivers included, and a second receiver gets in
  although line 134 says that only the first one will.
* `shmem/main.c:188` and `:266`: at its end a side counts itself a second time as alive,
  without `SEM_UNDO`. If a receiver is killed behind that and before its `SETVAL`s (282),
  and its sender in the wait for -4 (270), the count stays. The next receiver passes lines
  150-152 alone; if the segment holds the 0 of an end of file it prints nothing and ends
  well, if it holds a block it prints that one, and if it holds -1 the size given to
  `memmove` ends it. Nor does anyone notice a death then, since the count stands for the
  dead one. `FilesAreCopied` and `DeathIsNoticed` leave such starts out (`ghosts`).
* `shmem/main.c:188`: the receiver's last `semop` waits for nothing although the
  comment says it is waiting for the sender to finish; it may reset the semaphores
  while the sender is still to use them, and the sender then fails or hangs.
* `fifo/main.c:158` and `:105`: a sender lets the next one in before it has closed
  `my_fifo`, and a receiver closes it some time after end of file. A second sender
  that opens in between reports `SENT`; its data goes with the FIFO's last close.
* `signal/main.c:150`: if the parent dies between the fork and the child's `prctl`,
  the child is never told and waits for ever ("catch death of parent").
* `newton/newton.c:143`: the parent takes any message of the queue, whose key all runs
  share. Two runs at once print sums of each other's intervals, so neither prints the
  integral it was asked for (`newton.c:51`).
* `newton.net/newton.client.c:108-116`: the heartbeat process inherits every connection
  that is open at the fork, and survives when a thread ends the client by `ERROR`, say
  because its server cannot be reached. Another thread's server, whose task was not sent,
  then waits for ever in `recv` (`newton.server.c:368`): the connection is not closed, and
  the heartbeats go on. `DeathIsNoticed` excepts it (`Orphaned`).
* `newton/newton.c:46`: `h` is a third of the interval already, but the inner nodes
  are taken at `a + h/3` and `a + 2h/3`, so that not even a linear function is
  integrated exactly, as the formula named in line 42 does.
* `hashtable.c:350` and `D/Hash`: the search in a list begins at the sentinel and stops
  before the oldest element; a key that only it has is added again, once. An iterator
  that stands on an element which is deleted keeps a pointer to freed memory; the
  model leaves that call out.
* `lock_free_queue.h:32`: the body of the test for a full buffer is an empty
  statement; `enqueue` overwrites a slot that `dequeue` has not finished with.
* `thread_safe_queue.h:63`: `shutdown()` wakes nobody; a thread asleep stays asleep,
  and one that is woken later does not look at `is_alive` again.
* `task5/mutex-memory-model/test.cpp:53` captures the loop variable by reference: a
  thread may lock with the index of another one.

`W`:

* `MyNotepad.cpp:440`: the editor opens the workers' events by name. One that is not
  there yet, or no longer, gives a null handle; `SetEvent` on it does nothing, the wait
  on all handles fails at once, and the "clear" it belongs to never ends.
* Both editors: "Yes" to the question whether to save, followed by a cancelled file
  dialog, destroys the window, and the text with it. A save that fails after
  `CREATE_ALWAYS` has emptied the file; `textChanged` stays as it was, so after a "clear",
  which does not set it, a later close does not ask.
* `MyNotepad.cpp:416-418`: `Ctrl+Q` closes the notepad without the question.
* `MyNotepad.cpp:4` and `:506-519`, `WordsDict.cpp:89-92`: a part of the text is written
  into a mapping of 2048 bytes whatever its length; `:456-457`: the copy of the text has no
  room for the end of the string, so one character is written past it on every "clear".
  `:459` and `WordsDict.cpp:55` keep the low byte of each character: letters outside Latin-1
  come back as others, and some of them split a word.
* `Dialog.cpp:114`: a second settings dialog takes its font size from the screen, that
  is from the preview of the first, and keeps it when that one is cancelled.

`A` and `D`:

* `MergedPushRelabel.cpp:365`: `usedHeight_` has N elements; `:375` writes element N on every
  run, and `:411` and `:424` count heights up to 2N. Whether that hits anything depends on
  what the heap has behind the vector (for four vertices the allocator's rounding, for six
  the next block). Nothing is claimed of runs that it hurts (`Counted`). What is read there
  is harmless: a gap above N moves nobody.
* `MergedPushRelabel.cpp:456` keeps a push in 32 bits. Edges have 32 bits, but parallel ones
  add up: a push of 2^32 is cut to one of nothing, and the loop goes on for ever. The claims
  are about networks in which two opposite tubes hold less together (`TubesFit`); the labels
  stay valid in the others too, which is checked.
* `A/othello/othello.cpp` does not compile (line 124: the member `negascout` is not
  declared); the model follows the copy in `for_test`.
* `CPU_functions.cpp:248`: the loader stores END twice, the assembler counts it once.
  `CALL` adds one for it and jumps leave labels in front of END right; a label behind END
  is a word early. `CALL` takes the address of the last `PROC`, whichever name it gives.
  The word behind `POP` is taken for a register, be it the next command.
* `CPU_functions.cpp:212-213`: `and` and `or` pop the second number only if the first does
  not decide: PUSH 0, PUSH 1, OR leaves two numbers on the stack, and the x86 code one.
  `CPU_main.cpp:28-29` calls them "logical and" and "logical or", among commands that take
  two popped elements. `LeavesOperand` is what `CodeDoesWhatTextSays` allows for it, and
  `TranslationsAgree` compares the two machines up to there.
* `CPU_main.cpp:35-42` does not say which of two popped numbers is on the left. The code has
  the first pushed there in SUB, DIV, POW and the conditional jumps and the first popped in
  LT and GT, so PUSH 1, PUSH 2, LT gives 0 where JB would jump. `TextMachine` says so for
  each command; read in the order of popping, JA, JAE, JB and JBE do the opposite of
  lines 39-42.
* `D/CPU`: a command that has moved `ip` leaves the checks behind it to be met by
  its argument; a number that is the code of a later command is then executed as one.
* `D/Hash/Misc.cpp:48`: `ROL` by one shifts the other way by 15 where a rotation of 32
  bits takes 31. The lists are never freed: clearing makes new ones, and
  `List_Destruct` goes by the length from the sentinel on.
* `BT_Translate.cpp`: SUB and DIV have their operands the other way round than the
  CPU, MUL loses `DX`, two instructions (`04 C4 83` for POP, `D6 F7` for NOT) have
  their bytes in the wrong order; jumps take an absolute operand, and the table of
  addresses falls short by 5 bytes per JMP and 6 per JAE. `fread` never returns `EOF`,
  so a file without the marked room is searched for ever.

## 9. What the models leave out

The memory model is sequential consistency except in `SpscRingBuffer` and
`PetersonOrders`; the other programs use default atomics or mutexes, apart from
races named above (the plain `is_alive` of the bounded queue: a test reads the old
or the new value). Exceptions other than those the code throws, failing allocations
(but for `hashtable`, which handles them), and failures of system calls that no other
process can cause are left out. A file is a sequence of numbered blocks or units.
`LunevPrograms` starts every program from the state in which its IPC objects exist and
are empty, but for the semaphores and the segment of `shmem`; a run of `msg` or `newton` on a queue that
an earlier, killed run has left full, and a restart of one side of `shmem` between two
steps of the other, are not modelled. Zero children (`select`, `msg`, `newton`) are
excluded by the assumptions.

`NewtonNet` has the task and the result of a server, not the processes among which a
server shares its task: that is `Newton`. The passing run of the heap has no large
blocks, because the first large block that is merged breaks it (`heap_overlap`).
In `Notepad` texts are sequences of words, without the spaces between them. What reading
as bytes makes of a word is given by `Narrow`: any words that stay as they are when read
again; a character whose low byte is 0, which ends a part early, is not modelled. Which
chunks fit into a mapping is given by `SmallChunks`. After a write past the end of memory
("astray", in `Notepad` and `PushRelabel`) nothing is modelled.
Numbers of the CPU are integers where the code has floating point; IN reads 0 or 1, and
the model stops where stacks and screen together hold `Room` numbers. Letters have no
sign in `WordTable`; a word that does not fit the buffer ends the program, as it does in
the code. Othello's scores, timing, logs, and the drawing and layout of windows are not
modelled.

## 10. What is left

1. Theorems about the sequential programs (conservation of flow, `BoardsAgree`), in
   modules that do not reach the bitwise operators of the CPU.
2. `ShmemTransfer` with a restart of one side; `MsgRing` and `Newton` on a queue that
   is not empty.
3. The stack and the tree of `D`, which have little that a run would find.
