# TLA+ models of the concurrent and memory-management code in `aoi`

`aoi` is a study repository: small self-contained programs kept beside notes on
C++, Linux, networking and SONiC/VPP. There is no single application. What
carries logic of its own are the concurrency components (rings, queues, pools,
an asynchronous logger), the asynchronous network programs, the heap allocators,
the objects shared between threads, and the two ways of `VPP/` to talk to VPP. Each of these is a component here; each
modelled one has a module of its own, and components that promise the same
thing share an abstract specification.

Paths below are relative to the repository's root.

## 1. Inventory

### Components that are modelled

| Component | Source | State it keeps | Operations | Who interacts | What is hard |
|---|---|---|---|---|---|
| SPSC ring | `cpp/cpp_coding/ring_buffer/ring_buffer.cpp` | `_head`, `_tail`, raw storage | `push`, `pop`, `size`, destructor | one producer, one consumer, no lock | slot reuse between check and release, element life time |
| rte-style ring | `cpp/cpp_coding/ring_buffer/rte_ring_buffer.cpp` | head and tail per side | `push`, `pop` in ST and MT mode | several producers and consumers, CAS only | index wrap, publication order |
| Blocking queue and its workers | `books/ldxcfwqbc/02_thread_synchronization/blocking_queue.cpp` | `_items`, mutex, condition, `running` | `put`, `pop`, `size`, the stop protocol of `main()` | main thread and workers | stop while workers sleep or hold tasks |
| Two-queue pool | `cpp/cpp_coding/thread_pool/thread_pool.cpp` | producer and consumer queue, two mutexes, `_nonblock` | `submit`, `push`, `pop`, `cancel`, swap | client and workers | predicate evaluated under one mutex, notified under another |
| Bounded pool | `books/ldxcfwqbc/04_cpp_multi_threading_programming/thread_pool.cpp` | `_tasks`, `_max_size`, `_running`, two conditions | `start`, `run`, `get_task`, `stop` | owner, clients, workers | `_running` cleared outside the mutex, full queue at stop |
| Asynchronous logger | `books/ldxcfwqbc/05_logger/logging/AsyncLogging.h`, `LogStream.h` | current, next and full buffers; two spare buffers of the thread | `append`, `start`, `stop`, `thread_func` | any thread appends, one thread writes | buffer recycling, overrun, start/stop races |
| Rotating log file | `books/ldxcfwqbc/05_logger/logging/LogFile.h`, `LogFile.cpp` | file name, size, times, counter | `append`, `flush`, `rotate_file` | the logger's thread, the system clock | clock set back, names with a resolution of a second, failing writes |
| Asynchronous TCP client | `boost/boost_asio/socket/dummy_application/async_tcp_client_threaded.cpp`, `async_tcp_client.cpp` | sessions, map of active sessions, two kinds of mutex | request chain, `cancelRequest`, `close` | main, cancelling threads, handler threads | cancellation racing completion, lock order |
| Allocator with boundary tags | `books/a_heavily_commented_linux_kernel_source_code/chapter05_linux_kernel_architecture/malloc_implicit_list_biredirectional.c` | headers and footers in the heap | `mmalloc`, `mfree`, `mrealloc`, `walk_heap` | one caller | splitting, coalescing at the edges, long call sequences |
| Allocator with headers | same directory, `malloc_singly_linked_list.c` | headers in the heap | `mmalloc`, `mfree`, `walk_heap` | one caller | deferred coalescing |
| TCP servers | `boost/boost_asio/socket/dummy_application/iter_tcp_server.cpp`, `sync_tcp_server_threaded.cpp`, `async_tcp_server.cpp` | `m_stop`, acceptor, `Service` objects | `start`, accept loop, request handling, `stop` | clients, the server's threads, the stopping thread | `stop()` against a blocked `accept()`, objects that delete themselves |
| Latches and turns | `books/ldxcfwqbc/02_thread_synchronization/count_down_latch.cpp`, `onetwothree.cpp`, `condition_variable.cpp` | counts, flags | `count_down`, `wait`, the threads of `main()` | the threads of each program | notification before the wait, or to the wrong thread |
| Copy-on-write list | `books/ldxcfwqbc/02_thread_synchronization/cow.cpp` | `g_foos` | `post`, `traverse`, `doit` | threads, and the elements visited | change of a list that is being walked |
| Stock factories | `books/ldxcfwqbc/01_thread_safe_object_management/stock_factory.cpp`, `stock_factory_weak_ref.cpp` | `_stocks` of weak pointers | `get`, the deleters, `remove_stock` | threads that hold Stocks, the factory's owner | deleter racing `get()` and the factory's end |
| Lock-free singleton | `books/cpp_concurrency_in_action/05_synchronizing_concurrent_operations/lockfree_singleton.cpp` | `cached_object` | `get_object` | threads | lost race against spurious failure |
| SAI layer for VPP | `VPP/sai_vpp.cpp` | `stub`, 71 method tables | 808 functions, `sai_api_query`, the global entry points | a SAI client, the library behind `stub` | a type or a table member that does not match |
| VPP API clients | `VPP/examples/vpp_client_connect.c`, `vpp_list_interfaces.c`, `vpp_ipip_tunnel.c` | interface list, `result_ready`, `retval` | connect, dump, four configuration requests, handlers | VPP, the library's receiving thread | end of a dump, late replies, byte order |

### Not modelled

| Component | Why |
|---|---|
| Thread wrapper (`04_*/thread.cpp`) | a fixed sequence of pthread calls; the new thread shares only the cell of its id, written once |
| Thread-safe counter | every operation is one critical section; the vector its test appends to from two threads without a lock is undefined behaviour |
| `inventory.cpp` | the copy-on-write of `cow.cpp` again; its requests are never owned by a `shared_ptr`, so `weak_from_this()` is empty and the set holds no request |
| `signal_slot.cpp`, `counter.cpp`, `singleton.cpp`, `spinlock.cpp` | one thread, never instantiated, or one atomic operation |
| asio examples | one connection each; their chains are those of the servers and the client |
| select, epoll and selectable echo servers | single-threaded loops. The epoll loop overwrites its own bound with the result of `recv()`, so what it visits is undefined; the selectable one runs on a library that is not in the repository |
| ARP and ICMP responders, order service | each packet or call is answered from its contents and a table; their concurrency is that of Python's libraries |
| Heartbeat inspector, BGP checks | parsers that report what they read |
| Two-task kernel `head.s` | the state is the processor's descriptor tables |
| kernel `list.h`, `hlist.h`, `*_pb2*.py` | third-party or generated |
| language demonstrations (`cpp/`, `books/effective_modern_cpp`), operational scripts | no state of their own, or pure I/O |

`BoundedBlockingQueue` in `blocking_queue.cpp` is left out: it is a template that is never
instantiated and would not compile if it were. `LogStream.cpp` only formats
numbers into a fixed buffer. `RingBuffer::size()` of the SPSC ring loads `_head`
twice and is called by nobody while the ring is in use; it changes no state.

### Properties that make the components correct

* rings, queues and pools: an element goes in once and comes out once, in order;
  nobody touches a slot that belongs to the other side; nobody sleeps while
  there is work; stopping loses nothing it should not lose and terminates;
* logger and log file: order of lines, no loss other than the two rules of the
  code, asserts of the recycling scheme, eventual write, prefix on disk;
* client: a cancelled request is not continued and not reported as a success,
  each request gets its callback, `close()` returns;
* servers: a request is answered unless the server stops, `stop()` ends, a `Service`
  lives as long as its connection is handled;
* shared objects: a walk sees the list as it was, what is held is not deleted, what
  is not held is deleted once (section 5 names the leaks of the code);
* SAI: what a client creates through one entry is found by all others, and a
  shutdown gives everything back; VPP clients: a list is complete when it is used
  and a tunnel is configured as a whole or reported as failed;
* allocators: tags consistent, payload untouched, blocks disjoint, the heap
  grows only when it must.

The hazards behind these properties are listed, with their lines, in `PROJECT.json`.

## 2. Modules

| Module | Models | Abstract specification it implements |
|---|---|---|
| `BoundedFifo` | what a queue promises: what was received is a prefix of what was sent, at most `Bound` in between | - |
| `SpscRing` | `ring_buffer.cpp` | `BoundedFifo`, bound `Capacity - 1` |
| `RteRing` | `rte_ring_buffer.cpp` | `BoundedFifo`, bound `Capacity` (ST mode) |
| `WorkQueue` | `blocking_queue.cpp` | - |
| `MpmcPool` | `cpp_coding/thread_pool.cpp` | `BoundedFifo` (order in which tasks are taken) |
| `BoundedPool`, `BoundedPoolProofs` | `04_*/thread_pool.cpp` | - |
| `SequenceLemmas` | lemmas on sequences, induction and recursive functions that the proofs share | - |
| `Rings`, `RingProofs` | either ring, under the threads of its tests | `BoundedFifo` |
| `Handshake` | `count_down_latch.cpp`, `onetwothree.cpp`, `condition_variable.cpp` | - |
| `Queues`, `WorkQueueProofs` | one of `WorkQueue`, `MpmcPool` (either queue) and the programs of `Handshake` | - |
| `AsyncLogging` | `AsyncLogging.h`, `FixedBuffer` | - |
| `LogFile` | `LogFile.h`, `LogFile.cpp` | - |
| `Logger`, `LoggerProofs` | the two composed: the thread's rounds call `append` and `flush` of the file; also either of them alone | - |
| `AsyncTcpClient` | the two asio clients | - |
| `TcpServers` | the three asio servers and their clients | - |
| `TcpProofs` | proofs about the last two | - |
| `Allocator` | what an allocator promises: disjoint blocks, no needless growth | - |
| `ImplicitHeap`, `LinkedHeap` | the two allocators | `Allocator` |
| `Heaps` | either allocator | `Allocator` |
| `SharedList`, `StockFactory`, `Singleton` | `cow.cpp`, the two factories, `lockfree_singleton.cpp` | - |
| `Sharing` | one of `SharedList`, `StockFactory`, `Singleton` | - |
| `Objects`, `ObjectsProofs` | one of `Heaps` and `Sharing` | - |
| `SaiEntries`, `SaiTables`, `SaiExtensions`, `SaiApi` | the functions, tables and exports of `sai_vpp.cpp` | - |
| `SaiVpp` | a client of the tables over the store of objects behind them | - |
| `VppClient` | the three programs of `VPP/examples` against VPP | - |
| `Vpp`, `VppProofs` | one of `SaiVpp` and `VppClient` | - |

Where a run covers several programs (`Rings`, `Queues`, `Sharing`, `Objects`, `Vpp`) a variable
set in `Init` says which one an execution is of; the others stay as they are.
Every parameter is a CONSTANT with a value in a `.cfg`.
`PROJECT.json` maps each definition to its lines.

### How state and steps correspond to the code

* **Granularity.** A critical section of one mutex is one step, ending with the
  mutex released or the thread asleep. Where a thread takes a second mutex
  inside the first, or reads an atomic between two locks, the section is split
  there (`MpmcPool`, `AsyncTcpClient`). Loads, stores and exchanges of atomics
  that another thread can observe in between are separate steps (`SpscRing`,
  `RteRing`). Notifications sent after unlocking are steps of their own.
* **Condition variables** are sets of waiting threads. `notify_one` wakes one
  member, `notify_all` all; spurious wakeups are actions. `AsyncLogging`'s
  `wait_for` has no predicate, so that notification, timeout and spurious wakeup
  lead to the same step and are not told apart.
* **Memory order.** The atomics of the rings are modelled as sequentially
  consistent. Both rings pair a release store with an acquire load on the only
  edge that carries data, which is what the step order of the models relies on.
* **Data.** Tasks, elements and lines are numbers or pairs that identify them;
  a line has a length because buffers fill up; an allocator's word is a tag, a
  word of the caller or a dead word.
* **Integers.** `RteRing` computes its indices modulo `2^Width`; the runs use three
  bits so that the indices wrap.

Module by module:

* `SpscRing`: producer `check -> construct -> publish`, consumer `check -> take ->
  release`, then the destructor's walk. `data` holds `Raw` where no element is
  constructed, so that use of a dead or live slot is visible.
* `RteRing`: `push()` and `pop()` are the same three phases on opposite sides
  (claim the head, move the element, publish the tail); one set of actions serves
  both sides and both values of `sync_type`. A failed publishing
  `compare_exchange` overwrites the expected value, as in the code.
* `WorkQueue`: `main()` puts tasks, polls `size()` until it is 0, clears `running`,
  puts one more task per worker and joins.
* `MpmcPool`: `pop()` keeps the consumers' mutex through its predicate; `locks`
  selects the queue with two mutexes or the one with one.
* `BoundedPool`: `start` with any number of threads (0 included, where `run()`
  calls the task itself), `run`, `get_task`, `stop`.
* `AsyncLogging`: what the background thread does outside the mutex touches only
  its own buffers and is one step. A failed assertion leads to `aborted`.
* `LogFile`: every step may move the clock, also between the two readings one
  `append` makes. `StdioWrites` is stdio emptying its own buffer.
* `Logger`: under "both" each buffer of a round is one `append` of the file, which may
  rotate it or fail, and other threads log in between; the round ends with `flush`.
* `AsyncTcpClient`: one state per session for its pending operation and one for
  its handler; the pool is the bound on running handlers. `m_sock.cancel()`
  may miss a composed operation, and throws on a closed socket.
* `TcpServers`: the backlog, the accept loop, a thread or a chain of callbacks per
  connection, and `stop()` with its dummy connection; `kind` says which of the three
  programs runs. `discarded` are the connections whose pending operation went with
  `m_ios.stop()`. `stop()` is called once the port is open: `main()` sleeps before it. The
  socket layer and `io_service` are external.
* `Handshake`: a thread is a sequence of critical sections, each with the events it
  waits for and the ones it makes happen; the notification follows the unlock
  except in `Latch`.
* `SharedList`: addresses of lists and the pointers to them; a use count is the
  number of equal pointers. `StockFactory`: the deleter is three steps (lock the
  factory, remove the entry, delete); that of `stock_factory.cpp` ends after the first when the
  factory is gone. `Singleton`: load, `new`, exchange.
* `SaiEntries` and the tables: a function is its operation, the object its name
  speaks of and the type it passes on; the last two are written separately because
  they are in the source. `SaiVpp`: the library stores objects by type and
  identifier and may refuse any creation, in a bulk call one by one.
* `VppClient`: requests and replies in order; a wait may time out while the reply
  is still to come or has just been read; numbers carry their byte order.
* `ImplicitHeap`, `LinkedHeap`: memory as an array of words; `find_fit` returns the
  memory after its merges. The inner words of a free block become dead words,
  so that any later use of them as a tag or as data is noticed. The caller fills every
  word it was granted, by `mmalloc()` and by `mrealloc()`. `mrealloc()` may grant more than the
  block has or give `memcpy()` a negative length (section 5): `undefined` marks the first such step,
  after which the program has no meaning, and the properties speak of the time before it. The loops of
  `find_fit()` and `walk_heap()` are recursive functions over the number of turns (`Turn`,
  `Walk`), as many as there are words; a loop that is left stays where it is.

## 3. Runs

| Run | Bounds | Shows |
|---|---|---|
| `rings` | SPSC: 4 slots, 10 pushes, 8 pops; rte: 2 slots, 3-bit indices, ST with 10 elements, MT with 2 producers and 2 consumers of 2 elements each | slots owned by one thread, no leak after the destructor, FIFO (SPSC, and ST across the wrap of the index with all slots usable), an index claimed by one thread (MT), the SPSC and ST tests end |
| `rte_ring_mt_aligned` | MT as above | **violation**: tail ends behind head |
| `queues` | 3 workers; 3 tasks of `blocking_queue.cpp`; 4 tasks of the pool over either queue; 3 workers of the latch program | no task lost at stop, no lost wakeup and always a thread that can go on, order of tasks, all tasks run and all threads end |
| `bounded_pool` | 2 workers, 2 clients, 2 calls each, queue of 1 | bound, accounting, service, `stop()` and `run()` return |
| `logger` | buffers: 5 lines of 1 to 3, buffers of 3, overrun above 3 buffers; file: 4 chunks, a clock of 4 ticks with two to a second and two seconds to a period, failing writes, a clock set freely or an advancing one; both: 3 lines | order, accounting of losses, recycling asserts, prefix on disk, size counter, due rotation or flush after at most `CheckTime + 1` appends, every round on disk when it ends, liveness |
| `async_logging_start` | 1 line | **violation**: assertion of the new thread |
| `async_client` | 2 requests, 2 threads, each cancelled once | cancellation effective and reported, callbacks, `close()` |
| `async_client_cancel_twice` | 1 request, 1 thread, cancelled twice | **violation**: deadlock, `close()` never returns |
| `tcp_servers` | each server, 2 clients that may go away or stay silent, 2 threads | life of `Service`; requests answered and `stop()` ends, unless a silent client holds the iterating server |
| `tcp_server_dummy_error` | 1 client, 1 thread | **violation**: the error of the dummy connection leaves `stop()` |
| `objects` | payloads of 0, 1 and 3 words, boundary tags in 13 words with `mrealloc`, headers in 10 words; list: 3 threads, 6 posts; stocks: 3 threads, 2 names, 4 Stocks; singleton: 4 threads | walk and coalescing, payload, `Allocator`, each until `mrealloc()` makes the program undefined; stable snapshots; no use after deletion, no second deletion, nothing left over but what `stock_factory.cpp` leaks |
| `vpp` | every object type of every table, 2 identifiers, 2 objects at a time, singly and in bulk; the three API programs with 2 interfaces | store and client agree, a shutdown empties the store; dump complete, tunnel configured |

Where one program text has several configurations (the ring's sync types, the
pool's queues, the kind of clock, the two allocators) a variable holds the
choice, is set in `Init` and never changes; one run covers all of them. The
type invariant is a conjunct of one of the checked invariants, except in `SpscRing`,
`WorkQueue` and `BoundedPool`, where it is the theorem `TypeCorrect`.

(The names are those of `PROJECT.json`.) Each passing property has a mutant: a
plausible slip in the code under which TLC finds the property violated.

**Why the bounds are enough.** Rings: the number of elements exceeds twice the
capacity and, in ST mode, the values of an index, so every slot is reused and every
index wraps. Queues and pools: two
workers (three where wakeups are counted) show every pairwise race,
the queue bound of one is met at once, and each client calls again after it was
blocked. Logger: lines that fit, fill and exceed a buffer; enough of them for the
overrun rule. Log file: the clock has readings in the same second, in the same
period and in another one. Client: one handler, one canceller and one other
session at the same time; the pool is smaller than the number of handlers in the
violating run. Servers: one connection is handled while another waits and the
server stops. Shared objects: two threads in the critical window and a third that
acts in it; a Stock's name is used again after its deletion. SAI: objects of two
types at a time show a type that is mixed up. Allocators: a block can have no, one or two free neighbours, with
remainders of 0 to 3 words. No safety
property rests on these bounds alone: all of them are proved (section 4).

**Deadlock** is checked except in `bounded_pool`, `logger`, `tcp_servers`, `objects` and
the violating runs of those: there callers may simply stop calling, the bounds on
objects may be used up, and an aborted process stops.

**Fairness.** Weak fairness of each thread: the operating system schedules a
thread that can run. Strong fairness where a thread competes for a mutex that
others take and release again and again (`MpmcPool`, `BoundedPool`): a mutex
that is free infinitely often is obtained. `AsyncLogging`: the timeout ends every
wait, so the background thread's step is weakly fair. `Rings`: each
thread of the SPSC and ST tests runs again and again; nothing is assumed of MT,
whose threads may spin for ever. `Handshake`: weak fairness of each thread.
`TcpServers`: the loop, the threads and `stop()` run; strong fairness of the callbacks,
which compete for the threads of the `io_service`. Nothing is assumed of the clients, which may
connect and never send: `read_until()` has no timeout, so such a client holds the iterating
server and its `stop()`. `RequestsAnswered` and `ServersStop` name this case as their only
exception (`HeldUp`); the other two servers are not held up. `SaiVpp`: a client that has begun
to shut down goes on. `AsyncTcpClient`: every
operation completes, by an answer or by an error of the connection; a peer that
neither answers nor closes is excluded by this assumption. Never assumed: that
somebody appends, cancels, stops or closes, that a spurious wakeup happens, or
that time passes.

## 4. Proofs

Every safety property that a passing run checks, refinements and action properties
included, is also a theorem that TLAPS checks, for all values of the constants that satisfy the named
assumptions. TLC evaluates the assumptions on the runs' instances. Those that say more than
that sets are finite, that numbers are numbers and that `Nobody`, `Raw` or `Null` is none of
the others:

* `CapacityAssumption`, `RteAssumption`: the capacities are powers of two, as the
  `static_assert` of both classes says. For the second ring also that an index has at least
  two values per slot, in whole turns (`uint32_t`, and a power of two below it), and that the
  test with `RING_SYNC_MT` makes fewer calls per side than an index has values: its
  compare_exchange tells two claims apart by the index only (the code: 2 * 10^7 calls, 2^32
  values);
* `ClientAssumption`: the test pops no more than it pushes, or its consumer would not end;
* `PoolAssumption` of `Queues`: two workers or more, as in `main()`. A pool of one can lose a
  wakeup (section 5); `JobsAssumption`: the latch program's workers are told apart from `main()`;
* `BufferAssumption`: `MaxBuffers >= 2`, so that the overrun rule keeps both buffers it wants to
  keep (25 in the code); `FileAssumption`: when the two run together, a chunk can be as
  long as a buffer's content;
* `VppAssumption`: VPP gives a new tunnel an index that no interface has.

An invariant is seldom inductive. What each proof adds:

* **`RingProofs`**, first ring: `TypeCorrect`, `SlotsAreOwned`, `DestructorLeaksNothing` and
  `RingIsFifo`, the refinement of `BoundedFifo`. Neither `SlotOwnership` nor the
  refinement is inductive: both follow from what every slot holds. `IInv` says
  that the occupied arc from `head` to `tail` is as long as the number of published
  elements less the finished pops (`Occupancy`), that the content of each slot is
  determined by its distance from `head` (`SlotContent`), that a thread past its
  check still has the right to its slot (`Committed`), and that the values popped
  are 0, 1, 2, ... (`InOrder`). The arithmetic of `next_pos` and `Distance` modulo the
  capacity is in lemmas.
* **`RingProofs`**, second ring: `RteSlotsAreOwned` and the refinement `RteRingIsFifo`. `RteInv` ties the
  wrapping indices to counters that do not wrap, the calls a thread has completed
  (`Counters`); keeps the two counters within the capacity of each other (`Spaced`), which is
  where the unsigned difference computed by `push()` and `pop()` is shown to be the true one
  (`EntriesCount`); and says what the slots in between hold (`Stored`). With `RING_SYNC_MT` the
  head is the number of claims made (`Several`), so a thread that claims is past all others.
  That the tail is right in this mode is false (finding 1).
* **`WorkQueueProofs`**: `TypeCorrect` and `StopLosesNothing`: `NoTaskLost` speaks only of the
  final state; `IInv` follows each task (`Located`), records what `main()` learnt when
  `size()` was 0 (`Phases`), and ties the wait set to the workers' positions (`Asleep`).
  `NoWakeupIsLost`, for `blocking_queue.cpp` by counting: while a worker sleeps there are no more tasks
  than workers about to take one and notifications about to be sent (`Wakeups`); for the
  pool, a task that arrives between a worker's predicate and its sleep finds another
  worker awake (`Missed`); for the programs of `Handshake`, whoever sleeps through what it waits
  for is about to be notified (`Wanting`), and since what a thread has been through has happened
  (`Passed`) one thread can always go on until all have ended, the safety half of their
  termination. `PoolKeepsOrder`: the tasks taken, then those of the consumers' queue,
  then those of the producers', are 1, 2, ... (`Numbered`), whatever the swaps; this refines
  `BoundedFifo`.
* **`BoundedPoolProofs`**: `TypeCorrect`, `NeverOverfull`, `NoTaskVanishes`. `IInv` adds that members
  of the wait sets are waiting (`Sleepers`), that only the pool's own threads move
  (`OwnThreads`), that a worker about to call has a task (`Hands`) and that nothing exists
  before `start()` (`Fresh`).
* **`LoggerProofs`**: `SparesAlwaysSuffice`, `LinesInOrder`, `NothingLostSilently`; `FilesHoldPrefix`,
  `CounterCoversFile`, `RotationInTime`; and `RoundsAreOnDisk` for the two together. `BuffersInv` reads
  the lines from the file to the buffer being filled as one increasing sequence
  (`Pipeline`), and knows where the used-up spare pointers come back (`Spares`). `FileInv` says that
  the files in the order of their names, then stdio's buffer, hold what was not refused
  (`Held`), because no file ahead of the current one was written to (`Named`). `Handed` joins
  the two. What `FlattenSeq`, `Accepted` and `Size` return is shown first, by induction.
* **`TcpProofs`**: `CancelIsReported` and the action property `CancelStopsTheChain`. The
  completion reads `m_was_cancelled` after it has given up `m_active_sessions_guard`; this is sound
  because `cancelRequest()` keeps that mutex while its request is in the map (`Sought`), so that no
  request is reported before it is marked (`Unreported`). `ServicesLiveLongEnough`: each
  connection is in one place, the backlog, an accept, a pending operation or a callback
  (`OneStation`), so the callback that deletes the `Service` is the last one. The theorem does not say
  that every `Service` is deleted: those of the operations that `m_ios.stop()` discards are not, and
  it says that these are the only ones.
* **`ObjectsProofs`**, the heaps: `HeapsAreWalkable`, `PayloadsStayIntact` and the refinement
  `HeapsKeepTheirPromise`, for all payload sizes and all sizes of the heap (`SizesAssumption` says only
  that these are naturals). What `walk_heap()` finds is computed from the words, and says too little to be
  inductive; the invariants `HdrInv` and `TagInv` say instead that there is a set of
  addresses, those of the headers, whose blocks fill the heap without gaps (`Tiles`), that
  the allocated ones are exactly the caller's, and that each is longer than what was
  filled into it (`HdrHeld`, `TagHeld`). With boundary tags also that header and footer agree
  (`TagEnds`), without which `PREV_BLOCK` would lead `mfree()` astray, and that no free block
  follows a free block (`TagMerged`). `Joined`, `SplitOff` and `Extended` are what a merge, a split and
  `sbrk()` do to the tiling; `HdrKept` and `TagKept` carry all that lies outside the words written.
  The loop of `find_fit()` keeps a second invariant: the blocks behind it are too short or
  allocated, and no merge is left to do there (`HdrSearch`, `TagSearch`); each turn takes
  one more block into account, so that the loop has ended after as many turns as there are words
  (`HdrFindFit`, `TagFindFit`). `Walked` is the same for `walk_heap()`. That the heap grows only when it must
  follows from `NoStretch`: where no two neighbours are free, a stretch of free words lies
  within one free block. With boundary tags all three hold until `mrealloc()` makes the program
  undefined: `TagSafe` is the invariant of the time before, `TagReturns` the block that is returned and is
  large enough, `TagOverruns` the one that is not.
* **`ObjectsProofs`**, the shared objects: `TraversalsAreStable`: a list that is changed in place
  has no view, and a copy is made where no list is. `SharedObjectsOwned`: a Stock is held, or in
  exactly one deleter, or deleted (`Deleters`), or left over by `stock_factory.cpp` (`LeftOver`), whose
  factory is then no longer alive and stays so; the thread whose singleton stays has returned
  (`Winner`).
* **`VppProofs`**: `StoreAndClientAgree`: `SaiInv` maps the client's handles one to one to the stored
  objects (`StoreOf`); this needs that all functions of an object in a table pass on one
  type (`Agrees`), which is proved for each of the 71 tables. `DumpsAreComplete` and `TunnelIsConfigured`:
  `VppInv` says for each step of the programs which replies may be on their way and what
  VPP has done so far.
* **`SequenceLemmas`**: what `Append` and `Tail` do to membership, type and length; that a nonempty set
  of naturals has a least element, and from it induction over sets of naturals and the
  value of recursive functions. The library's induction theorems take an operator as a
  parameter, which no prover here can instantiate; these speak of sets and functions only.

Only model-checked: all liveness properties (fairness and ENABLED are out of the prover's
reach), and the four violations, which are counterexamples.

## 5. Findings

1. `rte_ring_buffer.cpp:75`: with `RING_SYNC_MT`, a failed `compare_exchange` on the tail
   overwrites the expected value, so the retry publishes out of turn and "align
   producer head && tail" (line 66) does not hold.
2. `AsyncLogging.h:76`: `stop()` right after `start()` may make the new thread fail its
   `assert(_running == true)` (line 87).
3. `async_tcp_client_threaded.cpp:86` (and `async_tcp_client.cpp:77`): a second
   `cancelRequest()` for the same request can deadlock with the handler that completes
   it; `close()` then never returns, against the comment at 142.
4. `iter_tcp_server.cpp:88` (and `sync_tcp_server_threaded.cpp`): `send_dummy_request()` means to
   ignore errors ("do nothing", line 90) but catches `error_code` where `system_error` is
   thrown. If the accept loop leaves before the dummy connection is made, the refused
   connection's exception leaves `stop()` before `join()`.

Met while modelling, with no statement in the repository that it contradicts: a
`MpmcPool` with a single worker can lose a wakeup (`push()` between the predicate and
the sleep); its `join_all()` never returns, since `cancel()` ends no worker; lines
appended after the last round of the logger's thread are never written by
`stop()`; `BoundedPool` drops the tasks its workers hold when `_running` is cleared;
`cancelRequest()` can throw while a request is completing; a
request id of the TCP client used again while its first request is active loses the
entry of the second; the first two TCP servers have no timeout on a silent client,
which holds the iterating one and its `stop()`, and an `accept()` that throws ends them;
the `Service` objects whose operation `m_ios.stop()` discards (`async_tcp_server.cpp:138-139`)
are never deleted; `stock_factory.cpp` never enters a Stock into `_stocks`, and leaks a Stock
whose last reference ends after the factory (lines 89-96), as in its own `main()`; in
`stock_factory_weak_ref.cpp` the deleter of an expired Stock may erase the entry of its
successor, so that two Stocks of one name can be alive; the program of `vpp_ipip_tunnel.c` looks
up the index of `bvi1000` once and would use a reused one, and `vpp_client_connect.c` ignores that connecting failed.

Two more disagree with a line of the source; they have no run of their own, the passing
runs meet them:

* `mrealloc()` (`malloc_implicit_list_biredirectional.c:192`) reads the old size from the payload
  instead of the header. If the caller's first word is large it returns the block as it is for any
  size (lines 195-198): `mmalloc()` of one word and `mrealloc()` to three, and the caller's words
  lie over the block's footer and the next header, so that the assertion of `walk_heap()` (line 77)
  fails. If that word is small the length of `memcpy()` is negative. `objects` reaches both
  (`undefined` in `ImplicitHeap`) and claims nothing beyond them. `mrealloc()` also copies after the
  old block was freed.
* `iter_tcp_server.cpp:99-100` says that `stop()` "will never make the server thread exit" when it is
  blocked in `accept()`. It does: `send_dummy_request()` (line 69) ends the `accept()` and the loop
  then sees `m_stop`; `ServersStop` covers this case. The comment is true of a `stop()` that only
  sets the flag, which is the mutant of that property.

Assumed of the libraries: `fflush()` succeeds (`LogFile.h:77-80` ignores its result), so
`RoundsReachDisk` and the log file's other properties hold as long as the disk takes what stdio gives it; a
failing `fwrite()` is modelled.

## 6. State and plan

Modelled: everything in the inventory's first table, with the logger and its
file composed. Proved: every safety property of the passing runs.

What could be added is an abstract specification of the logger (lines in, a prefix of
them on disk) that `Logger` would implement.
