# Verification of libcoio

libcoio is a header-only C++20 library: coroutines over io_uring, with a small
HTTP client on top. This directory models its concurrent and stateful parts in
TLA+, model-checks them with TLC on small instances, and proves the safety
properties of the event loop, the future, `sync_wait`, `when_all`, the resolver,
the stream buffer, the descriptor owners and three small parts with TLAPS for
instances of every size.

`PROJECT.json` lists the components, the runs, the source lines every definition
stands for, the mutants that show each property can fail, the findings, the
hazards and the theorems. Line numbers refer to `src/include/` unless a path
says otherwise.

## 1. The system

| part | state | operations | what is hard about it |
|---|---|---|---|
| `io_context` (`io_context.hpp`, `details/oneway_task.hpp`) | submission and completion ring, `m_remote_tasks`, `m_remote_spawn`, `m_local_tasks`, the batch being run, `m_is_stopped` | `post`, `dispatch`, `schedule`, `co_spawn` from the loop thread or another; `run`, `run(token)`, `poll`; `submit_io_task`; `request_stop` | hand-over between threads through double-buffered queues read without the lock, user code nested in every step, a ring of fixed size, sleeping with nothing but a timer |
| `future` (`future.hpp`) | `m_state`, `m_continuation`, the result | `co_await`, `co_return`, an exception, destruction | awaiter and awaited coroutine on different threads agree, with one exchange each, on who resumes whom |
| `when_all`, `awaitable_counter`, `task_with_callback` | the counter, its continuation, one result per task | start, end of a task, await, collect | callbacks from other threads, lifetimes of locals of the awaiting coroutine |
| `sync_wait` | the flag, the task | start, callback, wait, get | the end of the task races the wait; the result is a reference |
| resolver (`http/resolver.hpp`) | query list, pending counter, c-ares channel, thread, stop token | `async_query`, the thread's loop, `query_callback`, the destructor | three threads, a counter that is incremented late, sleeping and shutting down |
| `stream_buffer` | vector and five pointers | `prepare`, `commit`, `consume`, `data`, `try_get_data`, streambuf `overflow`/`underflow` | pointer arithmetic across growth |
| HTTP client (`http/httpclient.hpp`, `http_parser.hpp`, `ioutils/tcp.hpp`) | socket, stream buffer, parser | `request` | delimiters and bodies cut anywhere, connections that end anywhere, a client used again |
| descriptor owners (`ioutils/file_descriptor_base.hpp`, `socket_base.hpp`, `file.hpp`, `udp.hpp`) | `fd` of each object, the process's descriptor table | construct, `init`, move, destroy, `close`, `async_close`, `openat`, transfers | a number the kernel has released and given to another object |
| tcp and the pingpong example (`ioutils/tcp.hpp`, `example/pingpong/`) | acceptor, sessions, clients, the bytes on the way | accept, connect, send, recv, end | short counts, failures anywhere, who closes what |
| `atomic_wait` (`common/atomic_wait.hpp`) | the atomic, the contention table | wait, notify | a change between the last look and the sleep, in five implementations |
| binding of threads (`io_context.hpp:72-76`, `:237-248`) | a thread-local pointer, `m_thid` | `bind_this_thread`, its guard, `assert_bind` | several threads and contexts, in any order |
| head parser and chunk decoder (`http/picohttpparser.h`) | the decoder's state | parse again on more bytes, decode the next piece | input cut anywhere |
| `generator`, `result` | a handle and a flag; a union and a flag | begin, `++`, move; construct, move, map, set | flags that moves and setters do not carry |
| url, `time_delay`, byte order | none | conversions | borders |

The parts interact in these ways. Every operation of a socket or file is an
`io_awaiter`: the coroutine fills a ring entry and leaves the thread, and the
loop resumes it from the completion. Every coroutine that is awaited is a
`future` or a task with a callback, and it is the loop, another loop, or the
resolver thread's `post` that resumes the innermost one. The HTTP client awaits
the resolver and the ring, and keeps its bytes in a stream buffer.

What makes each part correct:

- loop: what is handed over is run once, in order, and is never lost; the loop
  does not sleep on work, does not starve one source of work for another, and
  ends when it is stopped;
- future: `co_await` is a call. The awaiter is resumed once, when it is
  suspended, with the outcome that was stored, and nothing is used after it was
  destroyed;
- `when_all`: it returns when all tasks have ended, with all their results;
- `sync_wait`: it returns the outcome of the coroutine it waited for;
- resolver: each query is answered once; the thread sleeps only when there is
  nothing to do and can always be shut down;
- stream buffer: a queue of bytes;
- HTTP client: head and body are cut out of the bytes the peer sent where they
  end, a failure is reported, and an exchange begins with nothing left from before;
- descriptor owners: an object closes its own number and no other, and every
  open number has an owner;
- pingpong: every byte comes back, and every coroutine ends and releases its
  socket;
- `atomic_wait`: nobody sleeps through a change;
- parser and decoder: the answer does not depend on how the input was cut.

## 2. Modules

| module | models | kind |
|---|---|---|
| `IoContext` | `io_context.hpp` | the event loop, its user code, other threads, the kernel |
| `TaskFifo` | what a task queue promises | abstract specification |
| `IoContextInvariant`, `IoContextProofs` | | proofs about `IoContext`, and that its queues implement `TaskFifo` |
| `Future` | `future.hpp` | a chain of awaiting coroutines |
| `AsyncCall` | what `co_await` of a future promises | abstract specification |
| `FutureProofs` | | proofs about `Future`, that it implements `AsyncCall`, and about `SyncWait` |
| `WhenAll` | `when_all.hpp`, `details/await_counter.hpp`, `details/task_with_callback.hpp` | |
| `WhenAllProofs` | | proofs about `WhenAll` |
| `SyncWait` | `sync_wait.hpp` | composed with `Future`, which it extends |
| `Resolver` | `http/resolver.hpp` | |
| `ResolverProofs` | | proofs about `Resolver` |
| `StreamBuf` | the operations of `stream_buffer.hpp` | operators on a buffer |
| `StreamBuffer` | a stream buffer and its users | state machine over `StreamBuf` |
| `ByteQueue` | what a stream buffer promises | abstract specification |
| `StreamProofs` | | that `StreamBuffer` implements `ByteQueue` |
| `HttpClient` | `http/httpclient.hpp` and what it uses of the parser and the socket | composed with `StreamBuf` |
| `Descriptors` | the four headers of the descriptor owners | objects against the kernel's table |
| `DescriptorsProofs` | | proofs about `Descriptors` |
| `Echo` | `example/pingpong/server.cpp`, `client.cpp`, `ioutils/tcp.hpp` | composed with `Descriptors`, which it extends |
| `AtomicWait` | `common/atomic_wait.hpp` | |
| `Binding` | `bind_this_thread`, `assert_bind`, `run` | |
| `HttpHead`, `Chunked` | `http/picohttpparser.h` | recursive operators, driven by arriving bytes |
| `Generator`, `Result` | `generator.hpp`, `common/result_type.hpp` | |
| `Conversions` | `http/url.hpp`, `time_delay.hpp`, `ioutils/endian.hpp` | operators against a reference |
| `PartsProofs` | | proofs about `Generator`, `Result` and `Binding` |
| `MC*` | | constants and symmetry for TLC; `MCBlocking`, `MCPingpong`, `MCHttp` and `MCParts` put parts side by side, of which each behaviour exercises one |

Operators whose comment begins with "mutant:" are deliberate mistakes of the
definition that follows them. They are used by no specification; they document
which mistake in the code each property would notice.

### IoContext

`pc` is the position of the loop thread in `loop()`/`run_once()`, one value per
point at which another thread, the kernel or user code can act: the `while`
condition, the completion handler, the three `resolve_*` functions split at
their unlocked `empty()`, their swap and their loop, and the submit step. `stack`
is the user code on the thread, innermost last: a coroutine or task can be
resumed by the loop, dispatch others (`RunNow`), post (`Post`), await an
operation (`AwaitIo`) and end (`Return`), in any order, at every place where the
code calls user code. Coroutines and tasks that end become `fresh` and can be
handed over again, so the traffic is endless.

A remote thread is in `post`/`dispatch`/`schedule` (`RemotePost`,
`RemoteConstruct`, `RemoteAdvance`) or in `co_spawn` (`RemoteCoSpawn`,
`RemotePush`). `co_spawn` holds the mutex over its `push_back`. `post` does not:
its `std::lock_guard` is an unnamed temporary. The model therefore splits
`emplace_back` into writing the cell and advancing the end, and lets an overlap
with another post or with the swap have any outcome that these two steps can
give: the task is there, a cell without a task is there, or nothing is.

`sq`, `inflight`, `timers` and `cq` are the ring. The kernel completes
operations in any order, or never; the 1ms timeouts fire. A full ring ends the
process in `assert(sqe)` or in the use of a null entry, depending on who asks;
`abort` records it. `MaxTimers` bounds the timeouts that are pending at once.

A task that throws (`TaskThrows`) leaves `run()` with the rest of its batch
destroyed, and the program may call `run()` again. `Start` clears
`m_is_stopped`, as the code does.

### Future

Coroutine `k` awaits the future of `k + 1`. Every step is one access of the
shared promise: `m_handle.resume()`, the store of the continuation, the exchange
of the awaiter, the store of the result, the exchange of the awaited coroutine,
the resumption, the destruction. No assumption is made on which thread takes a
step; a coroutine that is suspended on some other operation can be resumed by
anyone. `first` records that `resume()` has still to return to `await_suspend`:
this is what lets the awaiting coroutine lag behind an awaited coroutine that
has already moved to another thread.

### WhenAll

`W` is the coroutine inside `when_all`. Its tasks may end inside `start()` or
later. `threading`, chosen once, says whether suspended tasks are resumed by the
thread of `W`, as on one context, or by any thread, as after `schedule()` on
another context. The thread of `W` resumes a suspended task when `W` is suspended
itself, or from inside a task that `W` is starting, which may end another one
(`test/future_test.cpp:192-204` does so); while a task is in its callback that
thread does nothing else.

### SyncWait

Coroutine 0 of `Future` becomes the coroutine of `make_sync_wait`: it awaits the
future it was given and nothing else, and ends with what that gave or threw
(`sync_wait.hpp:24`). With `Depth` 0 it awaits something that is no future, and
ends with any outcome. The calling
thread is in `start()`, in the wait, asleep, or has returned. `home`, chosen
once, says where the value lives that the returned reference refers to: in the
promise of a future that outlives the call, or in the frame of the task. A sleep
ends by the notification or by itself (`SleepEnds`), which covers all the
implementations of `AtomicWait`.

### Resolver

The coroutines that query, the resolver thread, and the thread that destroys
the static instance. `await_suspend` takes the lock, inserts, releases and only
then counts; the thread reads `empty()` without the lock. c-ares is external: it
answers a query at once or later, reports no descriptors when it has no query,
and `ares_destroy` answers what is left. `m_pending_cnt` is unsigned; the models
count modulo `Modulus` instead of 2^64, which is sound as long as `Modulus`
exceeds the number of queries by more than 2, an assumption of the module. After the destructor
has destroyed the members the thread still uses, the thread either goes on as if
nothing had happened or the process ends (`UseDestroyed`).

### StreamBuf, StreamBuffer, HttpClient

A buffer is a record of the vector and four offsets (`eback` never moves).
`StreamBuffer` lets every operation come in every order with arguments up to
`MaxAsk`, also larger than what there is. `HttpClient` has one action for the
code between two `co_await`s. The peer chooses a response, how much of it gets
through, and whether the connection then closes or is reset; `recv` delivers any
chunk that fits. Bytes are abstract; the delimiter is two equal bytes, so that
it overlaps itself as CRLF CRLF does. What the parser makes of a head is in
fields of the response: whether it parses, and the content-length, a number, none,
or one `std::stoi` throws on. No action looks at the first, because the code
loses it (section 6).
Negative content-lengths, which become huge unsigned ones, are not modelled.

### Descriptors, Echo

`table` is the kernel's side: the object a number was opened for, the lowest free
number being given out first. `fd` is the objects' side. An asynchronous
operation is three steps, the entry, the kernel's execution and `await_resume`,
and the other objects act in between. Three slips of the code are recorded in
`faults` instead of being excluded, so that the properties can say exactly what
they cost: a self-move clears `fd` (`ioutils/file_descriptor_base.hpp:30`),
`init()` takes number 0 for none (`ioutils/socket_base.hpp:34`), and an
`async_close` that reports an error keeps the number
(`ioutils/file_descriptor_base.hpp:57`).

`Echo` adds the connections. Bytes are counted; a connection takes `Capacity`
bytes in each direction, which is the kernel's choice and any positive number.
`send` takes what fits and waits when nothing does, `recv` gives any part of what
is there. A send of the session that was cut short fails the assertion of
`example/pingpong/server.cpp:24`, which ends the process (`aborted`). Every
constructor and every operation may fail, accept may find no free number, and
closing a socket with unread bytes resets the connection.

### AtomicWait

`strategy` is the branch of the header that a build selects, and each access of
the atomic, the contention table, the mutex or the futex is one step. The value
0 is the one waited on. `VersionMod` is the width of the proxy's `version`,
small enough to come round.

### HttpHead, Chunked

A parsing step takes a text and a position and gives the next position or one of
the two error codes. A symbol stands for a class of bytes that the parser tells
apart; the magic and the status are shorter than the real ones. In `HttpHead` a
byte arrives at a time, and the parser is called on every prefix, with and
without `last_len`. `Chunked` feeds pieces of any cut, and compares with
`Grammar`, which reads the whole input at once and computes sizes without a
width. The library itself does not call the decoder.

### Generator, Result, Binding, Conversions

`Generator` has one coroutine and the objects that own it in turn; values are
numbered. `late` records a move after `begin()`, which loses `m_init_begin`.
`Result` keeps, besides the flag, the member of the union that was really
constructed; `crossed` are results whose kind a setter changed, which leaves the
flag stale (`common/result_type.hpp:118-126`). `Binding` lets every thread bind
and run every context in any order, also from a task of a loop; `rebound`
records the one case the code does not notice. `Conversions` are operators,
checked on every argument up to the bounds; a second has 4 ticks, a byte 4 values.

## 3. Runs

| run | instance | states | what it shows |
|---|---|---|---|
| `loop_handover` | 2 coroutines, 2 local tasks, 2 other threads, `run` and `poll`, a ring of 3 | 107,226 | nothing handed over is lost, held twice or reordered; the ring suffices |
| `loop_live` | 1 coroutine that other threads spawn, 2 local tasks of which one is also posted by the other thread and may throw, all three entry points | 92,170 | no source of work starves another; a stop ends the loop; the inductive invariant that is proved holds with everything that goes wrong |
| `loop_lost_post` | 1 task, 1 other thread | | finding: a posted task is lost |
| `blocking` | a chain of 4 awaits below `sync_wait`; or 2 waiters, 2 notifiers, 3 changes and a version that comes round after 2 for `atomic_wait` | 95,070 | wake-ups, results, lifetimes, refinement of `AsyncCall`; the caller is woken and gets the outcome of the future; no missed notification and every waiter returns, in all five implementations |
| `pingpong` | 4 tasks of `when_all`, one of them without a value, one or many threads; or 2 clients of 2 rounds of 2 bytes, room for 2 bytes on the way, 4 numbers for 5 sockets | 752,095 | exact counter, complete results, on one thread also wake-up, lifetime and return; no byte lost or invented, every socket released |
| `when_all_lost` | 2 tasks, many threads | | finding: the wake-up is lost |
| `echo_short` | 1 client, room for 2 bytes on the way | | finding: the server's assertion fails |
| `http` | 3 coroutines that query the resolver for ever, shutdown at any point; or 3 requests, 2 addresses, 5 responses cut and ended anywhere | 60,426 | hand-over, counter, sleep, answers, shutdown; head and body cut where they end, spans inside the buffer, a clean start, every request ends |
| `resolver_exit` | 2 coroutines | | finding: the thread ends when idle |
| `http_unparsed` | 1 request | | finding: a head that does not parse becomes a response |
| `http_short` | 1 request | | finding: a body cut short becomes a response |
| `parts_alone` | each of eight parts alone: stream buffer (5 bytes written, arguments up to 3), generator, result, head parser (texts up to 10), chunk decoder (inputs up to 7 in pieces up to 3), conversions (urls up to 6), 3 descriptor owners, 3 threads and 2 contexts | 752,555 | refinement of `ByteQueue` and the parts' invariants |

**Why the bounds are enough.** Queues and batches are without bound in the
models; what is bounded is how many items circulate, and they circulate for
ever. Two other threads are the least that can race each other and the loop;
two coroutines let one be nested in the other, and the order of two be
exchanged; the ring is tried below, at and above the number of entries that are
needed. The full ring, which `loop_handover` never meets, and the throwing task
together with several coroutines are covered by the theorem about `IInv`, which
holds for every `RingSize`. `loop_live` has one remote coroutine because its
liveness takes a quarter of an hour with two, where it holds as well. The
theorems of section 4 remove the bounds for the loop, the future, `sync_wait`,
`when_all` (whose case of no tasks no run has), the resolver, the stream buffer,
the descriptors and the parts named there. A third query in the resolver lets the
counter pass zero downwards while another query is active. Three requests let one
fail before it is connected, one have its exchange, and one come after that; there
is no second exchange, as the socket the first one closes is not opened again. The
buffer sizes of the HTTP client keep the order of the real ones (64, 256, 512
become 2, 2, 3) and are smaller than the responses, so that heads and bodies take
several chunks. In `pingpong` both clients and both sessions cannot have a number
at once, so that accept fails for want of one, and a session's send is cut short
when its client has not read the answer before: with room for 2 bytes the second
round's can be. A head of 10 symbols has a version, a status and
CR LF CR LF cut in every place, one of 6 has a header, a line that continues it
and a third line for which there is no room; 7 bytes of chunks hold a chunk, its line ends
and the last chunk or the beginning of a trailer, with sizes up to the width of
the counter.

**Deadlock** is checked in every passing run but `parts_alone`, where a part
stops when its bounded input is used up, or when there is nothing to do but to
look at a conversion's result. Where a program is over, the
specification says so with a stuttering step (`Over`, `Idle` and the like), and
where the code really stops for good (the parked `W` of `when_all` on many
threads) it is such a step too, guarded by exactly that state.

**Fairness.** Weak fairness on the steps of a thread that is inside the code: the
loop, a remote thread inside a call, the resolver thread and its destructor, the
handshakes of the future, the caller of `sync_wait`. It is what a preemptive
scheduler gives a thread that can run. The 1ms timeouts of the loop fire. User
code on the loop thread returns or awaits after finitely many steps; it may post
and dispatch on the way, and the fairness is strong because a coroutine that
dispatches others is the top of the stack only now and then. Nothing makes an
operation of the loop complete, and nobody has to post, stop or query anything:
`NothingStarves` is about operations that do complete.
`CallReturns`, `TasksAwaited` and `RequestEnds` assume in addition that
the bodies of coroutines end and that what they wait for happens, and
`QueryAnswered` that c-ares answers, or times out, each query it is given time
for. `SocketsReleased` assumes only that kernel and loop do not both stop while
something can be done, as no coroutine of the example can go on for ever. In the
runs with several parts the fairness is that of the part a behaviour exercises.
`WaitReturns` assumes strong fairness of the mutex: a thread that asks for it
again and again gets it; nobody has to change the atomic, and spurious wake-ups
are not counted on.

## 4. What is proved

All proofs are checked by TLAPS without bounds on any constant, and every
invariant that is proved by induction was model-checked before.

**The loop** (`IoContextInvariant`, `IoContextProofs`):
`Spec => []IInv` (`LoopInvariant`), and from it `NeverTwice`,
`CoroutineNeverLost`, `RingSuffices` and `WakeSource` (`SleepsWithWakeup`: the
loop never sleeps without a pending timer or a completion), for all finite sets of coroutines, every set of
tasks and threads, and every ring size, with racing posts, throwing tasks and
stops. The assumptions are that coroutines and tasks are different things, that
the markers for "no item" are neither, that there are finitely many coroutines,
and that `RingSize` and `MaxTimers` are positive numbers.

`NeverTwice` is not inductive by itself, because it does not say what can be
where: it would allow a coroutine to be spawned while the program counter says
that its batch holds tasks. `Control` adds that (which places are empty at which
position of the loop, what a remote thread holds at which step, what user code
can be on the stack). `Holders` then says that each item is in exactly one place
or in none, and never twice in a sequence; every action moves one item from one
place to another, or swaps two places, and a few lemmas on such moves carry the
proof through all actions. `RingSuffices` follows with a pigeonhole argument: the
entries of the ring are different coroutines. `WakeSource` needs only `Control`.

Tasks can be lost, and the proofs say where. In every step each item that had a
holder has one afterwards, unless the step is a task that throws out of its batch
or the end of an `emplace_back` that another access overlapped
(`DroppedOnlyThere`). It follows that without throwing tasks a task which only the
loop's own thread posts is never lost, whatever other threads post meanwhile
(`LocalTasksKept`), and `TaskNeverLost` itself when there are no remote tasks
(`TasksKept`). The queue of spawned coroutines implements `TaskFifo` always
(`SpawnQueueIsFifo`), and `QueuesAreFifo` holds when no task throws
(`QueuesImplementFifo`); both follow from what `Control` says of the batch, as a
swap and the loop over the batch leave the batch joined with the queue as it was,
less its head.

**The future** (`FutureProofs`): `Spec => []IInv` for chains of any depth, from
it `HandshakeSafe` (the awaiter is resumed only when suspended, its wake-up is
not lost, and the result is there), the action property `NoUseAfterDestroy`, and the refinement `Spec => AwaitIsACall`: each
`co_await` implements `AsyncCall` under the refinement mapping given there.
The only assumption is `Depth \in Nat`. The invariant ties, per promise, the
value of `m_state` to which of the two exchanges have been made, and with that to
the states of the two coroutines: whoever exchanges second resumes the awaiter,
and neither touches the promise after the other may have destroyed it.

**`sync_wait`** (`FutureProofs`): `SyncSpec => Spec`, every behaviour of
`sync_wait` is one of the chain it starts, so that all theorems on the future
hold under it; and `ReturnsOutcome` and `SleeperNotified` for chains of any
depth. The invariant says how far the task has ended by where its callback is:
the flag is set exactly when the callback is past its exchange, and then the
outcome is stored, which is that of the future. It rests on a lemma that the root
of a chain ends in one action only, which needs the invariant of the future.

**`when_all`** (`WhenAllProofs`): `CounterExact`, `CollectsAll`, `WokenOnOneThread`
and `CounterOutlivesCalls` for any number of tasks, none included. The invariant
adds how far the loop that starts the tasks is, that whoever is let through has
seen the counter at zero, and, for one thread, that at most one task is in its
callback, while `W` is in `start()` or suspended.

**The resolver** (`ResolverProofs`): `QueriesAccounted` and `SleepsOnlyWhenIdle`
for any finite set of queries and any `Modulus` larger by more than 2 than their
number. `HeldOnce` counts; the invariant says the same without cardinalities (no
list has a query twice, no two places share one), and follows the counter through
the integer it would be if it did not wrap.

**The stream buffer** (`StreamProofs`): `IsByteQueue` for a vector of any size and
arguments of any size. The invariant is the order of the pointers and the room
given out; the work is in lemmas on what `Reserve`, `Commit`, `Consume` and the
single bytes do to the data between the pointers. The queue keeps what is put into
it; that a commit puts in the bytes that were received is part of `MessageExact`.

**Descriptors** (`DescriptorsProofs`): `NoForeignClose` and `NoLeak` for any set
of objects and any size of the table, the one assumption on the objects being that
none of them is the marker of a free number. The two are not inductive alone:
`Lifetimes` adds which objects can own anything, when a result is there, and that
a number the kernel has closed for an object is not its own any more, although
its `fd` still says so.

**Generator, result, binding** (`PartsProofs`): `YieldsInOrder`, `TagExact` and
`OneLoopPerContext` for any number of objects, values, threads and contexts. The
generator needs that the owner's flag tells whether the coroutine was begun; the
binding, that a thread in a loop is the one that bound its context last.

## 5. What only TLC checks

Liveness and fairness (and everything else with `ENABLED`), what a recursive
definition computes for every input (which would take induction over data), and
modules with `RECURSIVE` operators (`HttpHead`, `Chunked`) are out of the
prover's reach; they are checked on the instances of section 3 only. So are the
properties of `HttpClient`, `Echo` and `AtomicWait` and the conversions, which are
not proved here.

## 6. Findings and known limits

Findings, each with a run in which TLC shows it:

- `post` and `dispatch` from another thread do not hold the mutex
  (`io_context.hpp:112`, `:122`): a task is lost (`loop_lost_post`). With the
  guard named, as in `co_spawn`, `TaskNeverLost` would be that of
  `loop_handover`.
- `awaitable_counter` reads the continuation without a handshake
  (`details/await_counter.hpp:19-38`): when tasks end on other threads the wake-up
  can be lost (`when_all_lost`). On one thread it cannot (`pingpong`).
- The resolver thread ends when c-ares has nothing to do (`http/resolver.hpp:172`)
  instead of sleeping until the next query (`resolver_exit`). `QueryAnswered` is
  therefore about queries that reach a running thread.
- A head that does not parse becomes a response (`http_unparsed`): `read_headers`
  returns the negative result as a `bool` (`http/httpclient.hpp:139`), against the
  comment at `:138`. `HeadExact` allows a parse error for such a head, so that it
  stays true when this is repaired.
- A response whose connection ends inside the body is returned without an error,
  shorter than its `body_length` (`http_short`; `http/httpclient.hpp:164-172`),
  which `test/http_test.cpp:134` expects to be equal. `BodyExact` says what holds:
  the bytes are the right ones, and all of them when they came.
- The pingpong server asserts that `send` takes everything
  (`example/pingpong/server.cpp:24`), but the kernel takes what fits
  (`echo_short`). `BytesConserved` and `SocketsReleased` say nothing of a process
  that ended this way.

Known limits that the models show, and that the code or its comments mostly know of:

- a ring that is too small for the coroutines awaiting in one round ends in
  `assert(sqe)` (`io_context.hpp:192`, "TODO:process full sqe uring") or in the
  use of a null entry (`:293`); `RingSuffices` says what is large enough;
- a task that throws takes the rest of its batch with it (`io_context.hpp:334`);
- `sync_wait` of a temporary returns a reference into a destroyed frame
  (`sync_wait.hpp:47`; `test/future_test.cpp:65` warns of it);
- the destructor of the resolver destroys the channel, the list and the mutex
  before it joins the thread that uses them (`http/resolver.hpp:88`, members
  199-205);
- a `request_stop()` that comes before `run()` is forgotten, as `loop()` clears
  `m_is_stopped` when it starts (`io_context.hpp:275`); it does so before
  `assert_bind`, so that a `run()` refused on another thread forgets one too;
- a context bound by a second thread while a first is in its loop can be run by
  both (`rebound` in `Binding`);
- `sync_wait` on the thread of the loop that has to resume the coroutine waits
  for itself;
- the three slips of the descriptor owners named under `Descriptors`;
- a generator moved after `begin()` is resumed by the next `begin()` and skips a
  value (`generator.hpp:120`);
- `set_value` and `set_error` that change the kind of a result leave the flag,
  and the destructor then destroys the other member;
- `result`'s copy constructor (`common/result_type.hpp:60-66`) does not compile
  when it is used;
- `phr_parse_request` with a `last_len` parses from there on instead of from the
  beginning, so the shortcut is checked for responses only; `phr_parse_headers`
  with one stays partial on an empty block of headers. The client passes none;
- `server()` of the example ends without `co_return` after an exception; the
  model ends it there;
- `flat_map` keeps its function by reference (`flat_map.hpp`), which dangles when
  the adaptor is stored and the function was a temporary.

## 7. What is not modelled

`PROJECT.json` lists each part with the reason. In short:

- adaptors such as `fmap`, `flat_map` and `just`, which are made of `co_await`s of
  what is modelled and keep no state of their own;
- stateless wrappers of addresses, buffers and socket options, and the small
  utilities;
- the text of HTTP requests and the table of headers, so that the views of
  `httpclient.hpp:103` into a string that is gone have no property;
- a future that is moved from, awaited twice or destroyed unfinished, copies of
  a stream buffer, `shutdown` and message transfers of a tcp socket;
- memory orders weaker than sequential consistency. The exchanges of the future
  and of `sync_wait` are acquire-release and `atomic_wait` has fences where the
  models need them; the unlocked reads of `empty()` and of the counter's
  continuation are modelled as nondeterministic or interleaved reads;
- the kernel and c-ares beyond what the code uses of them, Windows, and the flags
  that the constructor of `io_context` passes on.
