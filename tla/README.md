# A TLA+ development of libgs

libgs is a C++20 / asio library: coroutine synchronisation primitives, lock-free
and spin primitives, an event-loop wrapper, a module initialiser, INI / argument
parsing helpers, and an HTTP server and client written as coroutines. This
directory holds TLA+ modules translated from that code, the TLC configurations
that check them on small instances, and TLAPS proofs of the facts that matter
most for instances of every size. `PROJECT.json` ties every definition to the
source lines it stands for, lists what each run checks, and lists the hazards of
the code that the properties are aimed at.

## 1. Inventory of the system

Paths are relative to `src/libgs/`.

| component | state it keeps | operations | interacts with |
|---|---|---|---|
| `core/coro` wake-up (`coro/detail/wake_up.h`) | stored handler, `m_finished`, a steady timer | complete(success), start_timer | held by the wait queues of the coroutine primitives, completed by `unlock`/`release` or by its timer |
| `co_mutex` (`coro/detail/mutex.h`) | atomic flag, FIFO of wake-ups | `try_lock`, `lock`, `try_lock_for/until`, `unlock`, destructor check | wake-up, `lock_free_queue`, executor |
| `co_basic_semaphore` (`coro/detail/semaphore.h`) | atomic counter, FIFO of wake-ups | `try_acquire`, `acquire`, `try_acquire_for/until`, `release(n)`, destructor check | same |
| `co_shared_mutex` (`coro/detail/shared_mutex.h`) | reader counter, a `co_mutex` | exclusive operations (forwarded), `lock_shared`, `try_lock_shared`, `unlock_shared`, destructor check | `co_mutex` |
| `spin_mutex` (`core/detail/spin_mutex.h`) | atomic flag | `lock`, `try_lock`, `unlock`, destructor check | threads |
| `spin_shared_mutex` (`core/detail/shared_mutex.h`) | reader counter, a `spin_mutex` | exclusive operations, `lock_shared`, `try_lock_shared`, `unlock_shared` | threads, HTTP session set |
| `lock_free_queue` (`core/detail/lock_free_queue.h`) | linked nodes, head, tail | `emplace`, `dequeue` | wait queues of the coroutine primitives |
| execution (`core/execution.cpp`, `core/detail/execution.h`) | global io_context, run flag, exit code | `exec`, `exit`, `dispatch`, `post`, `local_dispatch`, `sleep`, `async_work`, `delete_later` | everything asynchronous |
| modules (`core/modules.cpp`) | ordered map level -> init functions | `reg_init`, `run_init`, `co_run_init` | futures and awaitables of the init functions |
| values, INI, arguments, algorithms (`core/ini.h`, `value.h`, `args_parser.cpp`, `algorithm/`) | parsed data | pure conversions, load / sync of an INI file | file system |
| HTTP parser (`http/detail/parser_base.h`, `server/detail/request_parser.h`, `client/detail/reply_parser.h`) | parse state, source buffer, partial body, headers | `append`, `take_partial_body`, `reset` | server connection, client |
| HTTP message helper (`http/detail/helper_base.h`, `server/detail/response_helper.h`) | write state, remaining content length | `header_data`, `body_data`, `chunk_end_data`, `reset` | response, client request |
| HTTP response (`server/detail/response.h`) | helper | `write`, `send_file`, `chunk_end` with ranges | socket |
| HTTP request (`server/detail/request.h`) | parser, socket | `read`, `save_file` | socket |
| HTTP server (`server/detail/server.h`) | acceptor, started flag, rule table, error handlers | `start`, `stop`, `on_request`, `unbound_request`, accept loop, one service coroutine per connection | parser, context, session set |
| session, session set (`server/detail/session.h`, `session_set.h`) | attributes, validity, lifecycle timer; map id -> session | create, find, expand, invalidate, time-out | context, `spin_shared_mutex` |
| client session pool (`client/detail/session_pool.h`, `http/cxx/detail/socket_session.h`) | one idle socket per endpoint | `get`, return on destruction | client |
| client (`client/detail/client.h`, `client/detail/request.h`, ...) | pool, request helper | build and send requests | pool, helper, parser |
| URL, cookies, types, MIME tables, formatting | tables | pure conversions | parser, helper |

What makes this code hard:

* coroutines of one executor interleave wherever they suspend, and everywhere if
  the executor runs on several threads; a waiter can be completed by an unlock
  and by its timer at the same time;
* most atomics are used as load-then-act or with a single weak
  compare-exchange, so a lost race or a spurious failure takes an unusual path;
* queues and wake-ups own memory that late handlers still refer to;
* an HTTP message arrives cut at arbitrary places, and a connection is reused for
  the next request;
* a session is used, expanded and expired by different actors.

## 2. Plan

In the order of importance: the synchronisation primitives first, because everything
else rests on them and their errors are races; then the path of a request.

| step | modules | status |
|---|---|---|
| 1 | `CoWakeUp`, `CoMutex`, `MutexSpec` (abstract mutex, refined by `CoMutex`), `CoMutexProofs` | done |
| 2 | `CoSemaphore` on the same `CoWakeUp` | done, with proofs |
| 3 | `LockFreeQueue`, `QueueSpec` (abstract queue, refined) | done, with proofs |
| 4 | `HttpParser` | done |
| 5 | `HttpResponse`, `HttpService`: one connection, with the parser at the granularity of whole lines | done, with proofs |
| 6 | `Execution`, `HttpServer`: event loop, accept loop, start, stop, TLS handshake | done, with proofs |
| 7 | `HttpSession`: timer coroutine, session set, destruction | done, with proofs |
| 8 | `FileTransfer` on `HttpResponse`: files and ranges as a body | done, with proofs |
| 9 | `HttpRouting`: the table of rules, path matching, unbinding | done, with proofs |
| - | shared mutexes, spin mutexes, modules, session pool | left out, see section 6 |

Composition: `CoMutex` and `CoSemaphore` extend `CoWakeUp` and decide which wake-up
objects are alive; `HttpServer` extends `Execution`, whose event loop decides when its
handlers run; `HttpService` and `FileTransfer` extend `HttpResponse`. Where a component
uses another through its interface only, the abstract one is used: the wait queues of the
primitives are atomic queues, which `LockFreeQueue` implements as long as one consumer meets
one producer at a time. On one thread they are used so. On several threads they need not be:
a `dequeue()` of `co_mutex` can meet two `emplace()` calls, one of `co_semaphore` another
`dequeue()`, and then `DequeueOverlaps` ends what the modules of the primitives claim; a
connection that `HttpServer` serves is what `HttpService` is about; a request's `route` in
`HttpService` is what `HttpRouting` chooses.

Theorems worth proving next: the parser's `BodyIsPrefix` and `FinishedIsWhole`.

## 3. The modules and the code

Every module names its constants and bounds where they are declared. Operators named
`X_Something` with a comment that begins with "Mutation:" are not part of the model: they
are the plausible errors with which each property was shown to be able to fail.

### CoWakeUp, CoMutex, MutexSpec

`CoWakeUp` is `detail::co_lock_wake_up`: `owner` stands for the stored handler, `finished`
for `m_finished`, `timer` for `m_timer` and the shared pointer the initiating function
holds until `start_timer()` returns, `answer` for the handler that has been dispatched
with true or false and has not run yet. The timer handler captures a raw `this`. asio
cannot withdraw a handler that is already queued, so in every run, and in every proof, it may
run after the object is gone (`uaf`) or when the block holds another wake-up (`dangling`,
`DanglingRun`). From there on the behaviour is undefined: nothing new is started, and the
invariants speak of the time before it.

`CoMutex` has one action per atomic access: `TryLockTakes` and `LockMisses` for the
exchange, `Enqueue` for `make_shared` + `emplace`, `Unlock`, `Dequeue`, `Wake`,
`SkipFinished` and `Clear` for the loop of `unlock()`. `DequeueOverlaps` is a `dequeue()` of
the wait queue that meets calls which `lock_free_queue` does not allow beside it; it sets `uaf`
too, so that on several threads the properties hold until the first such call. `MultiThreaded = FALSE` restricts the
interleavings to suspension points. `MutexSpec` is a mutex with a holder and a set of
parked coroutines; `ImplementsMutex` maps `CoMutex` on one thread to it, up to `uaf`.

### CoSemaphore

The same wake-up with a counter. `Load`, `CASTakes`, `CASFails` are the single
load-and-exchange of `try_acquire`; `Release(t, n)` makes the check of `release(n)` and
`left` counts the `release_one()` calls still to make. `held` is a ghost: the permits a
coroutine has and gives back. Two `release_one()` on two threads are two consumers of the wait
queue, which allows one: `DequeueOverlaps` lets any of them break it, and
`PermitsConserved` claims nothing after that. `added` bounds permits released by coroutines that took none.
`co_binary_semaphore` is `Max = 1`.

### LockFreeQueue, QueueSpec

Every atomic access of `emplace` and `dequeue` is an action, with the local variables
`head`, `tail`, `next` and `data` of `dequeue` as state. Nodes are heap blocks: `Delete`
frees one and `Emplace` reuses it. `Copies` says what `std::move` of a value leaves: with TRUE
the value itself (`lock_free_queue<int>` of the example), with FALSE `Empty` (the shared pointers
of the wait queues). `freed` is set at the
first access of a deleted node and the behaviour ends there. `Phased` describes how the
wait queues use the queue: producers may compete among themselves, the consumer meets at
most one of them. `QueueSpec` is a sequence of values with an atomic put and take.

### HttpParser

The stream is a sequence of units: the text of a line, a line end, a byte of data. A line
is only looked at when `m_src_buf` holds its `\r\n`, so cuts inside a text behave as cuts
before its line end. Each round of `parse_header()` and `parse_chunked()` is an action, and
each early return an error of `Error`. `LineLimit` is the 1024 of the code, in units. The
application's `take_partial_body` (`TakeBody`) comes between any two calls of `append()`;
`early` records that it came before the message was finished, `split` that a fragment ended
inside a chunk, between its size line and its end. Every cut is a behaviour of the model; the
properties except those after which the code does not know where it is in the body
(`InPlace`: `split`, or a chunk with a line end in its data), and `VerdictIsReal` has the
errors that a well-formed message can meet when a line or a chunk of it reaches the limit. What
the parser does there is under "Known deviations".

### HttpResponse, HttpService

`HttpResponse` holds the write state of a message as a record with `header_data()`,
`body_data()` and `write()` as operators on it; bodies are counted in units.

`HttpService` is `do_tcp_service()`: `pc` is the place in it. `ReadSome`, `ReadEnds`,
`ReadFails` are the read with its timer and its two kinds of error; `RouteRefused`,
`RouteToHandler`, `RouteAnswered` are the three ways out of rule matching, which is
abstracted to the `route` of a request; an unparsed request has an empty path, which a rule
may match (`BlankRoutes`). The application is free: it writes, announces a length, reads the
body, returns or throws, in `before`, the handler, `after` and the default handler. Exceptions
are `std::exception`s. `Default`, `Html`, `HtmlFails` are `call_on_default()`;
`EndOfRound` is the rest of the loop. A write fails on its header or on its body, and the
state of the response has moved on by then.

Four ghosts say what a property is not about: `cut` (a request was served before it was
whole, or units behind it were dropped: the code ignores the result of `append()`),
`failed` (a write failed), `gaveUp` (the rounds in which the default handler threw, after which
nothing completes the answer), `threw` (the status to expect).
A chunked response is never ended: `chunk_end()` and `chunk_end_data()` are templates that
cannot be instantiated, so the model has no such action.

### Execution, HttpServer

`Execution` is `exec()` and `exit()`: `main` is the place of the main thread (`run` inside
`io_context::run()`, `test`, `restart`), `exiting` that of another thread in `exit()`, whose
two accesses (the flag, the stop of the io_context) are two steps. `ExitHere` is an `exit()`
made by a handler. `late` records that the window between the test of the flag and
`restart()` was hit.

`HttpServer` is `bind()`, `async_start()`, `do_tcp_accept()`, `stop()` and the destructor.
`loop[l]` is a coroutine of `async_start()`, of which several can be alive when `stop()` and
`start()` follow each other; its accept operation is pending, completed, aborted or failed,
and a completed one cannot be cancelled any more. `Begin` is the start of the coroutine,
`Serve` an accepted connection, `Recover` and `Break` the two ways an error is taken, `End`
what follows the loop. `halted` records that the last `stop()` met every coroutine at a pending
or failed accept: one that has not begun yet, or whose accept has completed, starts another
accept without a look at the flag. With `tls`, the handshake is part of the accept. An error that nobody
handles, or a `cancel()` that throws in a noexcept function, ends the process (`dead`).

### HttpSession

`map` is the set's map, `second`, `restart` and `handler` are `m_second`, `m_restart` and
`m_timeout_handle`, `co` and `left` are the coroutine of a session and its timer. The service
thread's calls (`get_or_make`, `make`, `expand`, `set_lifecycle`, `invalidate`,
`on_timeout`, ...) are cut at every access of an atomic member; `pc` is the next access. With
`sameLoop` the service runs on the global io_context, so that the coroutine begins inside the
constructor, where it cannot get a `shared_ptr` of the session. `Destroy` of the set can come at
any time. The ghosts `age`, `calm` and `sure` say since when a session is unused and whether
a step of its coroutine came between the accesses of that use.

### FileTransfer

`co_send_file()` and the functions it calls. An action is what happens between two
`co_await`s; a write takes all, some or nothing of what it is given. The body is a sequence of
units, a byte of the file or of framing, so that a property can say *which* bytes arrived.
`PartSize`, `CloseSize` and `ContentLength` are the sums of `co_range_transfer`; the loops of
`co_send_range` are translated separately (`SingleLoop`, `PartLoop`, `Close`), as they are
separate in the code. The stream has a position, `eofbit` and `failbit`, and another process
may cut the file. Numbers are `size_t` modulo `SizeMod`; the size of a file is an `off_t`, half
of that. `Wanted` is the reference definition:
the body as a reader of the Range header would write it down. `SentIsWanted` leaves out, in
`Plain`, the requests for which the code does something else, each named there: a Range header
of commas only, an open range of an empty file, a range of the handler whose end wraps, and a
body longer than a Content-Length can say; and transfers under which the file is cut or memory
is overwritten. The whole of an empty file is in it: `Answered` says that nothing is written then.
A refused request (`Refuse`) writes its header and its text, and either write may fail.

### HttpRouting

`table` is `m_request_handler_map`. `OnRequest` is one call with its rules in order, ending
with an exception at a duplicate; the three kinds of controller of the overloads decide who
owns what. `Chosen` goes through the rules in the order of `std::map` and asks `path_match()`
of each, which sets `args` as it goes; one turn of that loop is `Turn`. `Matches` is the table
of `wildcard_match()`, written as a recursive function with one `Cell` from the others,
`Weight` the sum over its rows and cells. `serving` is the shared pointer `call_on_request()` holds while the
handler is suspended, during which rules may be bound and unbound.

## 4. The runs

| run | instance | shows |
|---|---|---|
| `co_mutex_threads` | 3 coroutines, 2 wake-up blocks, threads, spurious failures, late timers; up to the first broken dequeue or late handler | `TypeOK`, `MutualExclusion`, `FlagMatchesOwner`, `GrantIsKept` |
| `co_mutex_one_thread` | 3 coroutines, 2 wake-up blocks, one thread, strong exchange, late timers; ends at the first one that finds its object gone | `ImplementsMutex`, `NoWaiterOnFreeMutex`, `LockServed`, `TimedWaitReturns`, no deadlock |
| `co_semaphore_threads` | 3 coroutines, 2 blocks, `Max` 2, batches of 2; up to the first broken dequeue or late handler | `PermitsConserved` |
| `co_semaphore_one_thread` | 2 coroutines, 2 blocks, one foreign permit | `NoWaiterWithFreePermit`, `AcquireServed` |
| `queue_hand_over` | 2 producers with 2 values, 1 consumer that starts when one of them is done, 4 blocks, values that a move leaves in place | `ImplementsQueue`, `NoUseAfterFree`, `AllDelivered` |
| `queue_contended` | 2 producers, 2 consumers, spurious failures, values that a move takes out | `NeverTwice` until the first access of a deleted node |
| `http_parser` | 23 kinds of message, two on a connection, every cut | `BodyIsPrefix`, `FinishedIsWhole`, `VerdictIsReal` up to a cut inside a chunk or a line end in the data of one; `AppendReturns` |
| `http_service` | 5 clients with up to two requests of 8 kinds, 2 rounds, 2 operations of the application | `BodyFits`, `AnswerComplete`, `AnswersInOrder`, `RequestAnswered`, `ConnectionCloses` |
| `http_session` | 2 sessions, one of them kept and reconfigured, lifecycles of 1 and 2 ticks, service on the loop's thread or its own | `SessionKept`, `EraseMeetsTheSet`, `IdleIsFreed`, no deadlock |
| `http_server` | 2 clients, 2 accept coroutines, 2 calls of `exec()`, TCP and TLS | `StartedIsListening`, `StopRefuses`, `BacklogDrains`, `StopCloses`, `ExitEndsExec` |
| `http_file` | files of 0, 4, 7 and 9 bytes, a buffer of 4, one cut of the file, asserts on and off | `SentIsWanted`, `FinishedIsAnnounced`, `OverrunNeedsFullBuffer`, `TransferEnds` |
| `http_routing` | 2 calls with 13 rules between them, 8 paths, 2 requests | `NearestRuleServes`, `ArgsAreTheRules`, `ServingIsAlive`, `BoundRulesStay` |

The type invariants (`TypeOK`) of the other modules hold on the same instances and can be
added to their runs; the runs are kept to the properties that the code could really break.

Why the bounds are enough: three coroutines give an owner, a waiter and a rival that may
come between them, and two blocks are needed for a block to be reused while another
waiter is parked; a third block adds waiters that behave as the second. Two values per
producer make a node come back as somebody else's, which takes four blocks with the
dummy. In the parser, chunks of two and one bytes exercise "more than one unit of content"
and "the last unit"; a line limit of four units is reached by one request line, one header and
one chunk that are well formed and by three lines that are not, and missed by the others; one
chunk has a line end in its data, another what looks like a chunk of its own.
On one thread two coroutines with a block each are enough for the semaphore: one waits while
the other holds or releases. In the service, two requests are needed for anything left over from the first to
show; a length of two against a page of one is the smallest body that the page cannot
complete, and two operations are a length and a write, or two writes. Sessions do not
influence one another, so one that is managed and one that is only looked up are enough; two
ticks make a lifecycle that is longer than the one it replaces. Two accept coroutines are an
old and a new one, two calls of `exec()` are needed for the second to find a stopped
io_context, and two clients for one to wait behind the other's handshake. Files of 0, 4, 7 and
9 bytes against a buffer of 4 are empty, exactly one buffer, a rest that leaves one byte of the
buffer free, and several full pieces; ranges come singly and in pairs. Two requests on a
connection show arguments left over from the first; the rules have one of each form (plain,
`*`, `?`, parameters, nothing but parameters or blanks, with and without leading and double
slashes), and one path has a blank segment, one a `*`.

Both runs of the semaphore, `co_mutex_threads`, `queue_contended`, the runs of the parser, the
service, the server, the file transfer and the routing switch the deadlock check off: there
the program may stop (everyone is parked on a lost race, the behaviour ends at an access of
freed memory or a broken queue, no permit is left to give, the client is done, the connection is closed, the server is destroyed, the
response is sent).

### Fairness

* `CoMutex`, `CoSemaphore`: a coroutine that runs goes on (WF); a queued handler is taken
  although the executor may be busy in between (SF: asio takes handlers in order); a timer
  that was armed expires. That owners unlock is assumed where a property needs it
  (`OwnersUnlock` in `LockServed`), not for `TimedWaitReturns`.
* `LockFreeQueue`: threads are scheduled (WF per thread).
* `HttpParser`: `append()` is synchronous (WF of its rounds); nothing about the network.
* `HttpService`: WF of the service as a whole: handlers and timers run and the
  application's handlers return. The client owes nothing.
* `HttpSession`: time passes (SF of `Tick`), the loop runs queued handlers (SF), the accesses
  of a call follow one another (WF), request handlers return (SF). Nothing forces the
  application to use, keep or release a session.
* `HttpServer`: `exec()` and `exit()` go on (WF), the loop runs what is queued (WF), the kernel
  hands a waiting connection to a pending accept (SF per client: operations may come and go),
  and a TLS client finishes its handshake or leaves (WF). The last is an assumption about
  clients, because the code has no timer there; without it `BacklogDrains` fails.
* `FileTransfer`: WF of the coroutine: it is run on, and a write is answered with success or
  an error. `HttpRouting` has no liveness property.

### Known deviations

The properties are stated for what the code achieves; where it does less than a comment, a
name or a standard suggests, the property says so in its comment. These places came up, and
most can be seen by changing a constant of a run:

* a semaphore on several threads can park a waiter beside free permits
  (`core/coro/detail/semaphore.h:88`): check `NoWaiterWithFreePermit` with
  `MultiThreaded = TRUE`. Its destructor then reports unreleased resources (line 64);
* two consumers of a `lock_free_queue` can lose a value (`core/detail/lock_free_queue.h:155`):
  check `ImplementsQueue` in `queue_contended`, without its symmetry. When a move leaves the value
  in place (`lock_free_queue<int>`), they can also both return the same one: set `Copies = TRUE`
  and `NeverTwice` fails;
* what the primitives do on several threads is only claimed until a `dequeue()` meets two
  `emplace()` calls or another `dequeue()`, and everywhere only until the handler of an expired
  timer runs after its wake-up object is gone (`core/coro/detail/wake_up.h:67`): check
  `[]~uaf`;
* a chunk of which the end comes in a later fragment than its size line is dropped or misread
  (`http/detail/parser_base.h:168`), and a line end in the data of a chunk is taken for its end
  (`:202-209`): leave `InPlace` out of `BodyIsPrefix` and it fails either way;
* a line or a chunk of 1024 bytes or more is accepted when its end is in the same fragment and
  refused otherwise (`http/detail/parser_base.h:78`, `:173`), so that the verdict on a
  well-formed message depends on how it was cut;
* a default handler that throws sends nothing more, and when `on_service_error` returns true the
  connection is read again although the answer is missing or not whole
  (`http/server/detail/server.h:376`): leave `Abandoned` out of `AnswerComplete`;
* a `stop()` before a coroutine of `async_start()` has begun (`start()` and `stop()` in `main()`
  before `exec()`), or when its accept has just completed, does not end it: it goes on accepting
  (`http/server/detail/server.h:171-175`), see `halted`;
* sending the whole of an empty file writes nothing at all
  (`http/server/detail/response.h:262`), and the service then answers with its default page
  (`http/server/detail/server.h:251`): see `Answered`;
* `body_data()` counts a write before it is made (`http/detail/helper_base.h`), so that a
  response whose last write failed is finished and short: see `FinishedIsAnnounced`;
* for a path with a `*` in it, which a client can send as `%2A`, rules that stand for it can be
  missed, because a `*` of the rule stands for one character over a `*` of the path
  (`core/algorithm/misc.cpp:181-187`): leave `Starless` out of `NearestRuleServes` and the path
  `/a*` misses the rule `/*`;
* the answer to HEAD and OPTIONS is written before the try block of `call_on_request()`
  (`http/server/detail/server.h:300`): a client that leaves at that moment is an error outside
  of the service's error handler, and ends the process if the server's handler does not take it;
* the CRLF behind a part of a multipart body is written behind the end of the buffer when the
  piece fills it (`http/server/detail/response.h:571`); `OverrunNeedsFullBuffer` says when;
* `Range: bytes=,` gives an empty list of ranges, which ends at an assert or, without asserts,
  sends an empty multipart body; an open range of an empty file, and ranges of the
  application that wrap around, announce a length that is never sent; the complete length in
  the Content-Range of a single range is the length of the range; a range of the application
  that wraps near 2^63 does end, as `TransferEnds` says, but only after about 10^14 rounds of its
  loop (the small `SizeMod` of the run hides how many);
* a rule of nothing but parameters or blanks makes `join()` throw
  (`core/detail/string_list.h:83`), and the exception ends the process (`server.h:185-197`);
  among several wildcard rules the path arguments are those of the last that matched, and
  `reset()` keeps them for the next request;
* one controller given to several rules is moved out by the first, or gets several owners
  (`http/server/detail/server.h:650`, `:673`); `unbound_request()` does not normalise its
  argument as `on_request()` does;
* `exit()` from another thread between the test of the flag and `restart()` is undone
  (`core/execution.cpp:63`); a second `stop()` ends the process
  (`http/server/detail/server.h:768`); a session made on the thread of the global io_context has no
  timer coroutine (`http/server/detail/session.h:62`).

Seen while reading, outside of the modelled behaviour: `~co_unique_lock` unlocks whether or
not it holds the lock (`core/coro/detail/mutex.h:200`); a chunked response is
never ended (`http/detail/helper_base.h:228`); a body is copied behind its place when a read
is served in two parts (`http/server/detail/request.h:157`); a second reader of
`co_shared_mutex` does not wait for the writer the first one waits for
(`core/coro/detail/shared_mutex.h:66`); every reader of `spin_shared_mutex` that leaves unlocks
the native mutex (`core/detail/shared_mutex.h:91`); `spin_mutex` tests and sets in two accesses
(`core/detail/spin_mutex.h:47`); the session pool's `get()` with an error code calls itself
without end, and its asynchronous form completes twice
(`http/client/detail/session_pool.h:157`, `:193`).

## 5. What is proved

Every module of a component but the parser has a proof module, `...Proofs`. A theorem holds
for every value of the constants that the module's ASSUME allows: any set of coroutines,
threads, sessions or clients, any size of a file, buffer or body. Further hypotheses are in
the statement of the theorem and in this table.

| module | theorems |
|---|---|
| `CoMutexProofs` | `TypeCorrect`, `MutexIsExclusive`, `FlagIsExact`, `GrantStands` for every instance, the second and third up to `uaf`; on one thread with a strong exchange `NobodyForgotten`, and up to `uaf` `MutexRefines` |
| `CoSemaphoreProofs` | `SemaphoreTypeCorrect`, and up to `uaf` `PermitsAreConserved`, for every instance (finitely many coroutines); `NobodyForgotten` on one thread with a strong exchange |
| `LockFreeQueueProofs` | `QueueTypeCorrect` without conditions; `NothingTwice` for values that a move takes out (`~Copies`); `NoDeletedNode` for one consumer (`OneConsumer`) that starts when at most one producer has values left (`Phased`); `QueueRefines` in addition for a strong exchange and a finite heap |
| `HttpServiceProofs` | `BodyNeverTooLong`, `RoundEndsComplete`, `OneAnswerEach` |
| `HttpServerProofs` | `ServerTypeCorrect`, `StartedListens`, `NoClientAfterStop`, `ExitNotLost` |
| `HttpSessionProofs` | `SessionTypeCorrect`, `SessionIsKept`, `EraseIsSafe` |
| `FileTransferProofs` | `TransferTypeCorrect`, `AnnouncedIsSent`, `OverrunIsThatCase`, `TextIsItsRange`, `SentIsWhatWasAsked` |
| `HttpRoutingProofs` | `BoundRulesAreKept`, `ControllerLives`; for texts of any length `WildcardsMatch`, `RuleWeighed`; `NearestServes`, `ArgsAreOwn` |

Each inductive invariant stands in the component's module, behind the properties, and was
checked by TLC on the component's instances before it was proved. What follows is the
argument of each. "Up to `uaf`" means: until a handler of an expired timer runs on a deleted
object or, on several threads, a `dequeue()` breaks the wait queue. Nothing about the code
rules the first one out, so no theorem assumes it away.

**`CoMutex`.** Ownership moves in four ways: taken by the exchange, handed over by `Wake`,
received by `Resume`, ended by `Clear`. A coroutine that has been handed the mutex counts as
owner from the hand-over on (`Owns`), so the hand-over is the step that needs an invariant:
the wake-up that `unlock()` completes must belong to a coroutine that is still parked and
waits for nothing else. Hence `PendingIsParked` (the owner of a live, unfinished wake-up is
parked and has no answer), `OnePendingEach` (no coroutine owns two of them) and
`AnsweredIsParked` (an answer belongs to a parked coroutine, and only a timed one is told
no), which with `MutualExclusion` and `FlagMatchesOwner` are `SafeInv`. After a handler has
run on a deleted object nothing is claimed, so the inductive invariant is
`IInv == TypeOK /\ (~uaf => SafeInv)`. `GrantStands` must hold after such an access too and
rests on the weaker `ParkInv`, which does not mention `uaf`: whoever waits or has an answer
is parked.

`NobodyForgotten` needs only that a coroutine is never between a failed `try_lock()` and its
wake-up in the queue when another one runs, and that `unlock()` clears the flag with an
empty queue (`ClearsWhenEmpty`). `MutexRefines` uses in addition that a parked
coroutine has an object that `unlock()` will find (`ParkedIsQueued`; together `OneThreadInv`).
With them each action before `uaf` maps to one of
`MutexSpec`, `Wake` to the hand-over and `Clear` to a release that finds nobody parked.

**`CoSemaphore`.** The same invariant about wake-ups, with a sum in the place of the flag.
The sum over the coroutines is written as sums of cardinalities (`Tokens(f, most)`: the
number of pairs of a coroutine and one of its units), which changes by one element when
a permit moves, so that facts about finite sets prove it; `FoundIsTrue` says that the value
loaded by `try_acquire()` was the counter.

**`LockFreeQueue`.** `NothingTwice` is true even when blocks are deleted and allocated again
under a stale pointer, so the invariant cannot speak of the order of nodes. `PlacesInv` says
where values are: each is in one place only (the data of one node, the local of one call, or
the delivered ones, `OnePlace`), a call carries something only while it is about to use it
(`Carries`), and what is somewhere has been made (`IsMade`, `AllMade`); pointers are
typed (`PointersHold`). The type invariant has `head \in Nodes`, not that the head is alive,
which is false once two consumers compete. Both theorems speak of the time up to the first access of
a deleted node, where the model ends.

`NoDeletedNode` says when there is none. `HandOverInv` describes the heap: nodes that are alive
have at most one predecessor and only alive successors; a node is in the list (`InList`) unless
it is new and not linked or popped and not deleted, and only one node in the list has no
successor (`ListHolds`). The tail is that node or its predecessor, and then the producer
that linked it is still to swing (`TailHolds`). While producers compete, a local tail is in
the list; once there is a consumer, it is the last node, so the consumer cannot have popped
it (`ProducerHolds`). The consumer's local head is the head until it pops, and its local
tail says truthfully whether the head has a successor (`ConsumerHolds`). Two consumers break
the last, two producers beside a consumer the one before.

`QueueRefines` adds that the nodes from the head on form one list without a cycle (`IsChain`)
and that a value outside of its node is held by the consumer only while the head is about to be
swung (`ValuesHold`); together `DeliveryInv`. A step then appends the new node to that list, takes
its first node away, or leaves the list and its values alone. That the recursive definition of
`Path` yields this list is an induction over its index. The library's induction theorems cannot
be instantiated here, so it is made from the least element of a set of naturals
(`SetInduction`), for which a well-founded relation has a minimum.

**`HttpService`.** `BodyInv`: what the response still owes and what has been sent make up the
announced length (`Counted`), exactly so when no write failed; a round is over with a whole answer
if its default handler did not throw either (`RoundEnds`); a response whose header is
not written has sent nothing and a finished one owes nothing (`BodyFollows`); the default
page is the last thing written (`PageIsLast`). The lemmas on `HeaderData` and `BodyData` say
what each keeps of that balance.

`OneAnswerEach` needs to know which request a round is about, and so what the client has yet to
send. `OrderInv` says it for connections that nothing has disturbed so far (`Undisturbed`): what
comes next continues, unit by unit, where the parser stands (`StreamFollows`, `Continues`), the
round is that of the request after the last one served (`RoundOfNext`), and its answer is the last
on the wire with the right status, or the response has that status already (`AnswerFollows`; a
handler that throws changes it, which only happens to a rule's handler, `Handling`). That the units of a
script form such a stream is an induction over its requests (`UnitsContinue`); a read within one
request takes at most four units, so the recursive function in `Parse` is only unrolled
(`ParseUnroll`).

**`HttpServer`, `Execution`.** `StartedListens` is inductive by itself once every variable is
typed. `NoClientAfterStop` needs that after such a `stop()` no coroutine is left that would
start another accept (`NoneAccepts`). `ExitNotLost` needs one more fact (`RestartIsWanted`): `exec()` is about to restart the
io_context only when the flag is set or an `exit()` hit that window.

**`HttpSession`.** `SessionInv` relates the service's accesses to the coroutine's: a call is
about a session that has been made (`CallsAreAbout`), a use that no coroutine step
interrupted leaves either a restart or a fresh timer behind (`CalmUse`), a timer that runs
has at least as much left as the session is entitled to (`TimerIsLate`), and after the
destruction only risky coroutines remain (`GoneIsQuiet`).

**`FileTransfer`.** `TransferInv` is `TypeOK`, where the coroutine is (`Places`: in its
list of ranges, with the header written or not) and `Accounts`: sent and owed make up the announced
length, up to one write once a write has failed. For it `ContentLength` is written as `Cardinality(Content)`, the set of bytes of all
parts, in place of the loop's sum.

`SentIsWhatWasAsked` is proved from `DeliveryInv`, which says for each phase what the client has:
in the loop of a whole file the bytes up to the position of the stream (`Run`); in a part the
parts before it, its heading and the bytes of its range that were read (`Upto`, `ReadOf`), while
the stream is in the range with as much before it as is left to send (`Within`); and that the
response waits for exactly the body that is wanted (`Answering`). `TransferInv` is part of it,
because a write is cut to what the response waits for: `BodyGoes` has that a write that goes on
in `Wanted` is never cut, or fails and leaves a prefix. `TextIsItsRange` connects the two
descriptions of a range, that of `range_text_parsing()` and the set of offsets that is asked
for, and `ByteSeqOfInterval` has the bytes of such a set in their order. `LengthAhead` is the
sum of `co_range_transfer()` against the loops: the computed Content-Length is the length of
`Wanted`. What `FlattenSeq` joins is
compared place by place (`JoinsUnique`, `FlattenUpto`), by induction over sets of numbers, so the body of
any number of ranges is covered. The assumption that a file is at most half of `size_t` is what
makes `seekg()` to a range in it succeed; a write may fail after any byte.

**`HttpRouting`.** `OwnersInv`: no handler in the table or in a running request holds a
deleted controller unless the controller was shared; no two rules have the same handler; a controller that is
a rule's own is held by no other; and a controller was made by the call that made its handler (`Held`, `FromItsCall`), so
that a new one is never one that is in use. `OnRequest` is written as a closed form (which rules of the call are bound,
and what each gets) in place of the loop over them.

Who serves a request is proved from the functions up, for texts, tables and paths of any size.
Induction is over sets of numbers (`SetInduction`, from the least element of a set), so that no
recursive definition is needed but functions. `Ranks`: in a finite set with a total order every
place is taken, from which `InOrderFacts` has that the loop meets every rule once, in the order
of the map (`BeforeOrder`, `BeforeTransitive`: that order is one). `TextsMatched`: what
`wildcard_match()` is given are texts, that of the path without a `*` if the path has none
(`Starless`, the condition of both properties). `WildcardsMatch`: on such texts the table agrees with the meaning of `*` and `?`
(`Reaches`), by induction over the diagonals of the table (`CellOf...` are the branches of the code,
`EndsByCells` the same for the meaning). `RuleWeighed`: its weight is the number of wildcards times the length of the text, so
that the comparison of weights is that of `Distance`. `TurnCases` has the ways one turn of the
loop can go and `LoopStep` that it keeps `LoopInv`: while the loop goes on, the rule it holds is
the nearest so far and, when it is the only one that stood for the path, the arguments are its
own; an end without wildcards, or with an exception, comes before every other rule without
wildcards that stands for the path. `RequestServes` concludes; the inductive invariant `RoutedInv` adds
only that the rules of the table are texts and finitely many. The assumption that `None` is not
a text says no more than that a null pointer is none. `Distance`
counts what comes before the arguments only: a `*` in the key of an argument is no wildcard
(the instance has such a rule).

Only model-checked, and why:

* everything temporal (`LockServed`, `TimedWaitReturns`, `AcquireServed`, `AllDelivered`,
  `AppendReturns`, `RequestAnswered`, `ConnectionCloses`, `IdleIsFreed`, `BacklogDrains`,
  `StopCloses`, `ExitEndsExec`, `TransferEnds`): liveness under fairness is out of the
  prover's reach;
* the parser's `BodyIsPrefix`, `FinishedIsWhole`, `VerdictIsReal`: they rest on what folds
  compute for every input (the flattened units of a message) and need inductions like those for
  the bodies of `FileTransfer`, over the lines and chunks of a message and over any split of it,
  which have not been made. They also hold only for messages that are well formed in several
  ways, which the module does not assume.

## 6. What is not modelled

`PROJECT.json` lists every part with its reason. In short: text conversions, tables,
formatting and compile-time code, which have no behaviour that interleavings or failures
could disturb; operating-system calls; the client, whose reply side is unfinished, and the
pool only it uses; the condition variable, which is a stub; the module initialisers, which
run in order on one thread; the shared and spin mutexes, whose exclusion does not hold as
they are, so that there is no invariant to state (the session set takes its lock for granted).

Within the modelled parts: the wait queue of a primitive is atomic where its calls may meet, and
nothing is said after a meeting that `lock_free_queue` does not allow (`DequeueOverlaps`); move construction of
the primitives and of a server; gzip and cookies of a request; chunk attributes; partial
transfers of one write in `HttpService` (a failed write sends its header or nothing of its
body); exceptions other than `std::exception`; session attributes; the methods of a rule in
`HttpRouting` (they are in `HttpService`), and registrations from
several threads; the blocking twins of `send_file()`, which name members that do not exist;
`save_file()`; a Content-Length the application sets before `send_file()`.
