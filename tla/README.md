# A TLA+ model of nginx 1.10.0

This directory is a verification project for the annotated nginx 1.10.0 tree of
this repository (`src/nginx-1.10.0/src`).  It holds TLA+ modules translated from
the C source, TLC configurations that check them on small instances, and proofs
that TLAPS checks for every instance.  Paths below are relative to
`src/nginx-1.10.0/src`.  The build modelled is the one of
`src/nginx-1.10.0/objs/ngx_auto_config.h`: Linux, epoll, GCC atomic operations,
POSIX semaphores, threads, one master and several worker processes.

## Inventory of the system

| Component | State it keeps | Operations | Interacts with | Modelled by |
|---|---|---|---|---|
| Shared-memory mutex (`core/ngx_shmtx.c`) | lock word (pid of the holder), wait counter, semaphore, all in shared memory | trylock, lock, unlock, force_unlock | every user of a shared zone, the accept mutex, the master (which forces open the lock of a dead worker) | `Shmtx`, `Mutex` |
| Accept mutex (`event/ngx_event.c`, `event/ngx_event_accept.c`) | the mutex above; per worker `ngx_accept_mutex_held`, `ngx_accept_disabled`, the `active` flag of every listening socket's read event | one round of `ngx_process_events_and_timers`, enable/disable accept events, accept | connection pool, epoll, posted queues | `AcceptMutex` |
| Connection pool (`core/ngx_connection.c`) | free list, `free_connection_n`, reusable queue, per connection `fd`, `closed`, `reusable`, `instance` | get, free, close, reusable, drain | accept, epoll, every protocol module | `EventLoop` |
| epoll module (`event/modules/ngx_epoll_module.c`) | kernel interest set, the batch of events being processed, `active` flags | add/del event, add/del connection, process events | connection pool (the `instance` bit), posted queues | `EventLoop` |
| Posted events, timers (`event/ngx_event_posted.c`, `event/ngx_event_timer.c`) | two queues, one red-black tree of deadlines | post, delete, process; add, delete, expire | all of the worker | `EventLoop` (linking) |
| Master cycle (`os/unix/ngx_process_cycle.c`, `os/unix/ngx_process.c`) | `ngx_processes[]`, the signal flags, `live`, `delay`, `ngx_new_binary`, `ngx_noaccepting` | one turn of the loop, reap, spawn, signal, signal handlers | workers (signals, channels) | `Master` |
| Channels (`os/unix/ngx_channel.c`) | a socket pair per process slot; each worker's table of channels | write, read, open/close/quit/terminate commands | master and workers | `Master` |
| Worker, cache manager and loader cycles (`os/unix/ngx_process_cycle.c`) | `ngx_exiting`, timers, idle connections | one turn of the loop, graceful exit | connection pool, timers | as children in `Master` |
| Thread pool (`core/ngx_thread_pool.c`) | bounded task queue, done list, condition variable, eventfd notification | post task, pool cycle, completion handler, destroy | file I/O, event loop | `ThreadPool` |
| Slab allocator (`core/ngx_slab.c`) | page array with runs of free pages, per-size slot lists, bitmaps | alloc, free | every shared zone, under a Shmtx | `Slab` |
| Limit modules (`http/modules/ngx_http_limit_{conn,req}_module.c`, `stream/ngx_stream_limit_conn_module.c`) | shared red-black tree of counters, LRU queue | look up, account, expire, clean up | slab, shmtx | `LimitConn`, `LimitReq` |
| Upstream balancing (`http/ngx_http_upstream_round_robin.c`, least_conn, hash, ip_hash, keepalive) | per peer `current_weight`, `effective_weight`, `fails`, `accessed`, `checked`, `conns`; the idle connections | get peer, free peer | upstream, shared zone | `Balancers` |
| Upstream (`http/ngx_http_upstream.c`) | per request: peer, connection, buffers, retry state | connect, send, process header, next, finalize | balancing, request, file cache | `Upstream` |
| Event pipe (`event/ngx_event_pipe.c`) | buffers in five lists, shadow links, temporary file | read upstream, write to the client, write chain to the file, drain | upstream, thread pool | `EventPipe` |
| HTTP file cache (`http/ngx_http_file_cache.c`) | tree and LRU queue of nodes with `count`, `exists`, `updating`, `deleting`, `uses`; size | open, lock, update, free, expire, manager, loader | cache manager and loader processes, upstream | `FileCache` |
| HTTP connection and request (`http/ngx_http_request.c`, `http/ngx_http_request_body.c`) | handler, buffers, body still to come, keep-alive and lingering state | read line and headers, read or discard a body, finalize, keep-alive, close | event loop | `HttpConnection` |
| HTTP subrequests and output (`http/ngx_http_request.c`, postpone, copy and write filters) | `count`, `blocked`, posted requests, postponed chains, `c->data` | subrequest, finalize, terminate, writer, output filters | upstream, thread pool | `Request` |
| HTTP phases and locations (`http/ngx_http_core_module.c`, `http/ngx_http.c`) | phase array, location trees | run phases, redirects, find location | request | `Phases`, `Locations` |
| HTTP parsers (`http/ngx_http_parse.c`) | parser state in the request | request line, headers, URI, status line, chunked body | request, proxy | `HttpUri`, `HttpHeader`, `Chunked` |
| HTTP/2 (`http/v2/*`) | streams, windows, priority tree, output queue | frame handlers, send window, close stream | request | `Http2`, `Http2Tree`, `Http2Body` |
| Resolver (`core/ngx_resolver.c`) | trees of names and addresses, resend and expire queues, waiting contexts | resolve, response, timeout, resend | upstream, mail, UDP and TCP connections | `Resolver` |
| Mail proxy (`mail/*`) | session state machine per protocol | commands, STARTTLS, authentication, proxy dialogue | event loop, resolver | `Mail` |
| Open file cache (`core/ngx_open_file_cache.c`) | tree and LRU of open files with `count`, `uses`, `close` | open, expire, clean up | static module, file system | - |
| Stream proxy (`stream/*`) | session with two connections | connect, forward, finalize | balancing | only its limits |
| Pools, arrays, lists, strings, hashes, radix tree, rbtree (`core/*`) | private memory | pure data structures | all | - |
| Configuration, logging, regex, TLS wrapper, filters, OS wrappers | - | mostly I/O | all | - |

How they meet: the master and the workers share memory (zones under a `Shmtx`), signals
and channels.  Inside a worker everything is called from `ngx_process_events_and_timers()`:
the epoll module hands reports to handlers of connections, handlers set timers and post
events, threads hand their results back through an eventfd.  HTTP requests sit on
connections, upstream requests on HTTP requests and on connections of their own.

### What is hard here

* Workers are processes that share memory and may die at any instruction; the
  master repairs what they held from a signal handler.
* A worker is one thread, but its event loop interleaves the life of thousands
  of connections: a batch of epoll events may name a connection that an earlier
  event of the same batch closed and reused.
* The master's loop is driven by flags that signal handlers set between any two
  instructions; children die, fail to start, or ignore messages at any moment.
* Messages between master and workers travel over non-blocking socket pairs and
  may be lost when a pair is full.
* Thread pool tasks complete in another thread and are handed back through a
  list, a spin lock and an eventfd that coalesces notifications.
* Reference counts (requests, cache nodes, counters of the limits, upstream peers)
  must survive every error path.
* Handlers call back into the component that called them: a resolver handler asks again,
  a request is finalized by the code of its own subrequest, a cleanup ends an upstream
  request in the middle of a termination.
* A server may answer before it got the whole request, and connections to servers are
  used again: what is left of one exchange must never be taken for the next one.

The 40 places where this bites are listed in `PROJECT.json` under `hazards`, each with its
line and the properties that would show it going wrong, or the reason why none does.

## How the modules are written

Every module says in its header what one step is.  Definitions that stand for code
have the name of the code where TLA+ allows it, and are listed with their source
lines in `PROJECT.json` under `map`.  Definitions marked *Mutant* are wrong versions
of the definition that follows them; they are used by no specification, and each
shows that a property fails when the code has that bug.

Shared memory: what runs under a mutex of a zone is one step (that the mutex keeps its
promise is shown in `Shmtx`).  A single-threaded worker that calls function after function is
modelled in one of two ways: `HttpConnection` and `Request` keep a `stack` of the functions
still to be run and a return code `rc`; `Upstream`, whose functions all end with a call of the
next one, keeps `at`, the function the worker is about to run.  With an empty stack, or
`at` idle, the worker is in `epoll_wait()` and the environment (clients, servers, timers,
threads) moves.

Modules that never meet in one behaviour are checked in one run by an MC module with a
variable that chooses the part (`MCSync`, `MCZones`, `MCHttp2`, `MCParts`); the property of a
part is then an implication from the choice.  `CHECK_DEADLOCK FALSE` is set where bounds on
calls, signals or faults end a run, or where the program ends.

## The modules

### Shmtx, Mutex (`core/ngx_shmtx.c`)

State: the lock word, the wait counter and the semaphore (shared), the program point
of every process, the local copy of the counter in the wake-up.  Each action is one
atomic access.  A worker dies at any point in `CrashPoints`; the master collects it
and forces its lock open (`ngx_unlock_mutexes()`), then a new worker takes its place.

A worker that dies between freeing the lock and `sem_post()`, or just after it was
woken, takes the wake-up with it, and so does a `sem_post()` that fails: the next
unlock makes up for it, and nothing else does.  The history variable `swallowed` counts
these faults; `WakeupsSafe` and `SleeperServed` are stated for behaviours in which it is 0.
No action reads it.

`Mutex` is what the users of the mutex rely on: at most one inside, a dead holder
keeps the others out until the master has recovered the mutex, nobody is put out while he
is alive.  `KeepsPromise` is the refinement of `Mutex` by `Shmtx` under the mapping given
where it is instantiated.

### AcceptMutex (`event/ngx_event.c`, `event/ngx_event_accept.c`)

State per worker: the point of the round, `ngx_accept_mutex_held`,
`ngx_accept_disabled`, the listening sockets in its epoll, the batch, timers of
listening events; shared: the mutex and the backlogs.  Actions: the parts of
`ngx_process_events_and_timers()`, `ngx_trylock_accept_mutex()` with the enabling
and disabling loops that may fail half-way, the accept and recvmsg handlers with
`EAGAIN`, `ECONNABORTED` and `EMFILE`, `ngx_close_listening_sockets()`, death, collection
and restart of a worker.  The accept_mutex directive is chosen at the start, so one run
covers both ways of sharing the sockets.

### Master (`os/unix/ngx_process_cycle.c`, `os/unix/ngx_process.c`, `os/unix/ngx_channel.c`)

State: the process table, the signal flags, `live`, `delay`, `sigio`,
`ngx_new_binary`, `ngx_noaccepting`, the local variables of `ngx_reap_children()`
(the channel message that is reused for all slots included), the children and the
channels each of them knows.  Signals are blocked except in `sigsuspend()`, so the
loop is interrupted only by children that leave or die.  SIGIO and SIGCHLD wake the
loop in the same way and are one wake-up; a failing `socketpair()` has the effect of a
failing `fork()` and is the same fault.  The history variable `extra` counts the second
sets of workers that an upgrade or its end starts; no action reads it.

Four workloads (`crew` in `MCMaster`): two workers through two signals, through one signal
and two deaths, one worker with the cache processes, a failing `fork()`, a lost channel
message and a deaf child, and one worker with the cache manager, on which `TermEnds` is checked.
Lost channel messages occur in the third one only: `ChannelsKnown`
does not hold with them, and the code marks the case TODO.  A USR1 that arrives together with
a HUP whose configuration is refused stays pending until the next signal, because the
`continue` skips its test; the model has this step.

### ThreadPool (`core/ngx_thread_pool.c`)

State: the task queue and `waiting`, the flags of the tasks, the point and task of
each thread, the list of finished tasks, the notification, the main thread.  What is
done under the mutex or the spin lock is one step.  A failing `ngx_notify()` would delay
completions until the next one and is not modelled.

### Slab (`core/ngx_slab.c`)

State: `page->slab`, type, back link and chunk bitmap of each page, the list of free runs,
the lists of the sizes, and the blocks held by callers.  `alloc` and `free` are one
step each, under the zone's mutex.  Blocks are freed once and by their holder; a wrong
pointer, which the code partly detects and logs, is outside the contract.

### LimitConn, LimitReq

One lock section is one action.  `LimitConn`: the nodes of the zones, the cleanups each
client (a request or a stream session) has in its pool, who was refused; a worker that dies,
or an allocation of a cleanup that fails after the count was taken, leaves a count for ever,
and `CountExact` counts these.  `LimitReq`: the buckets with their `excess`, `last` and
pinning `count`, the handler of each worker with its `ctx->node` fields and its own cached
time.  `RateKept` grants the burst, one request for each other worker whose clock is behind,
and a new start when a node was evicted; `Paced` is the delay of those who wait.  A worker
that dies between two zones leaves a pin, which `PinsExact` counts.

### Resolver (`core/ngx_resolver.c`)

Nodes for names and addresses, the resend and expire queues, the waiting lists, both address
families, CNAME chains, truncated answers, PTR queries, time-outs, and callbacks that ask again.
The loop over a waiting list that is under way is the variable `todo`.  SRV lookups are left
out (nothing in the repository asks for one); the connection of a TCP query is a flag.

### EventLoop (`event/ngx_event*.c`, `event/modules/ngx_epoll_module.c`, `core/ngx_connection.c`)

State: the free list, flags of the events and connections, the posted queue, the
timer tree and the reusable queue (kept apart from the flags that claim membership),
the kernel's interest and pending edges, the batch.  Handlers are protocol code, so a
handler does any sequence of pool and event operations on any connection before it
returns.  The listening socket appears only as a handler without a connection.
Deadlines are not modelled: any timer may be due.  `ngx_get_connection()` that fails
changes nothing and has no action.

### HttpConnection (`http/ngx_http_request.c`, `http/ngx_http_request_body.c`)

One client connection with its requests one after the other: the wait and keep-alive handlers,
request line and headers with the small and the large buffers, the body that is read or
discarded (also while an upstream server is fed), the end of a request, pipelining, lingering
close, the exit of a worker.  The client's bytes are units that say what the client meant;
the code only counts them, so taking a unit of a body for a request shows.  PROXY protocol and
TLS in the wait handler are left out.

### Request (`http/ngx_http_request.c`, postpone, copy and write filters)

A document is a plan of outputs, file reads, upstream responses, subrequests and errors for
each of its requests.  State: per request `count` of the main request, `blocked`, `buffered`,
the postponed list, `c->data`, posted requests, the handlers for reads and writes, the
termination that is put off.

### Phases, Locations

`Phases` builds the array of phase handlers as `ngx_http_init_phase_handlers()` does and walks a
request through it: rewrites, `try_files`, error pages, internal redirects, named locations,
post_action; what a handler answers is a choice.  `Locations` sorts, joins and hangs locations
into the tree as `ngx_http.c` does and looks URIs up in it; the property compares with the
definition of the documentation (exact, longest prefix, first regular expression).

### HttpUri, HttpHeader, Chunked

The parsers, character class by character class, fed with all inputs of a small grammar, split
at every point where the parser keeps its state in the request.  Each is compared with a
reference definition of what the input says.

### Upstream, EventPipe, Balancers, FileCache

`Upstream`: requests over two servers with connecting, sending (also while the client still
sends: unbuffered), early answers, the response header, the three ways in which a body is passed
on, `ngx_http_upstream_next()`, time-outs, the leaving client, the keep-alive cache.  The balancer is
any untried peer or none; the pipe is reduced to what it decides about order and end.
`EventPipe` is the pipe itself with its buffers, shadows, temporary file and thread writes.
`Balancers`: round robin with weights, failures and backups, least_conn, ip_hash, hash,
consistent hash and the cache of idle connections; `crc32` and the hash of addresses are the function
`Slot`.

`FileCache`: each section under the mutex of the zone is an action, and so is each step between two
of them: `Exists`, `Full`, `Evict` and `Retry` are `ngx_http_file_cache_exists()` with and without room,
`Test` the look at `cold`, `OpenFile` the opening, `LockNode` and `LockWait` the lock, `Read`, `Know` and
`Judge` the header of the file, a file that the loader has not seen, and its expiry.  `Respond` is
`ngx_http_upstream_send_response()`: a secondary key that is not the variant of the response is
left for the main one, and a request that bypassed the cache gets its node.  `Rename` and `Update` are
the two halves of `ngx_http_file_cache_update()`, `DeleteFile` and `DeleteEnd` of a deletion, `Examine`,
`Add` and `Drop` the loader at one file.  A request that was served a cached status has it in `error`, so
`Free` leaves the node with it.  A file is named by `<<hash of the key, variant>>`; keys may have one hash,
so that the comparison of the key in the file matters.

### Http2, Http2Tree, Http2Body

`Http2`: what a connection sends (the queue of frames with its fixed priorities, windows of the
connection and the streams, waiting streams) and the ends of streams and of the connection.
`Http2Tree`: the dependency tree with reused nodes.  `Http2Body`: one request body with its windows,
buffer and upstream reader.  `Leaked` and `Unwatched` name the states from which the code has
no way on: a stream whose last frame was sent while it was still marked exhausted, or whose header
was queued after the connection was finalized; a body whose timer rang while the upstream server
was being connected and did not count, because a frame on its way had filled the window.  Padding
is counted against the windows by the client (RFC 7540) and not by the code; while padding is under
way when the window is computed (`strayed`), `BodySound` says nothing.

### Mail

A session of POP3, IMAP or SMTP: greeting, commands, STARTTLS, the authentication request with
its answers and waits, the proxy dialogue and relaying.

## Runs

| Run | Module | What is checked | Instance, and why it is enough |
|---|---|---|---|
| `sync` | `MCSync` | `MutualExclusion`, `WakeupsSafe`, `KeepsPromise`, `SleeperServed` (`Shmtx`); `NamesSound`, `EventuallyAnswered` (`Resolver`) | 3 workers, so that a holder, a waker and a sleeper are there at once; deaths everywhere, failing semaphore calls, 4 calls, 1 fault. 2 askers, a name in two families with one that cannot be asked for, and two names that may lead to each other |
| `accept` | `MCAcceptMutex` | `HolderServes`, `Served` | 2 workers, one shared and one `reuseport` UDP socket, `multi_accept`, failing `EPOLL_CTL_ADD`, 2 faults out of deaths and `EMFILE`, 3 arrivals; `connection_n` is 16 with 14 in use, so that `ngx_accept_disabled` becomes positive |
| `zones` | `MCZones` | `SlabSound`, `PinsExact`, `RateKept`, `CountsSound` | 4 pages of 16 bytes, words of 4 bits, 6 blocks: all three kinds of bitmap, full pages and every order of joining; 2 workers, 2 zones, 2 keys, 3 clients (one a stream session), memory for one node in a zone, 1 fault; the two workers and two of the clients are symmetric (no property of the run is temporal) |
| `http_connection` | `MCHttpConnection` | `FramingKept`, `RestSound`, `EventuallyClosed` | six scripts of two pipelined requests, bodies of 0 to 3 units, one of them chunked, long and wrong heads, 2 pieces, 1 failing call |
| `request` | `MCRequest` | `DocumentKept`, `FreedExact`, `EventuallyFreed` | documents with three subrequests, side by side, nested and under a proxied main request; memory, files, upstream, errors, error pages; a client that stops reading twice |
| `request_hangs` | `MCRequest` | `NeverHangs` is violated | as `request`; see *Findings* |
| `upstream` | `MCUpstream` | `HoldersExact`, `OwnResponse`, `AtMostOnce`, `EventuallyDone` | 2 requests one after the other, 2 servers, 2 connections, 1 cached; the second request meets what the first one left |
| `upstream_resend` | `MCUpstream` | `DummyMeansSent` is violated | as `upstream`; see *Findings* |
| `event` | `MCEventLoop` | `LoopSound`, `NoStaleEvent` | 2 connections, so that one handler closes the subject of the next report; batches of 2; a connection is taken again once within a batch (`MaxReborn`); four workloads divide what handlers do |
| `master` | `MCMaster` | `WorkersTracked`, `ChannelsTold`, `NobodyLost`, `TermEnds` | the four workloads above; `NobodyLost` in all of them |
| `http2` | `MCHttp2` | `SendSound`, `TreeAndBodySound`, `StreamsAndBodiesEnd` | 2 streams, windows of 2 to 4 frames, changes of the initial window in both directions, responses of 0 and 3 units; a tree of 4 streams, of which 2 are open and 2 closed ones kept; a body of two buffers whose length is declared rightly, wrongly or not |
| `parts` | `MCParts` | `PoolSound`, `PoolServes` (`ThreadPool`), `ParsersExact`, `DataKept`, `AccessKept`, `CacheSound`, `SessionsSound` | 3 threads, 2 tasks, 2 posts, limit 1, a spurious wake-up; lines, headers, values and bodies of small grammars, whole and in pieces; a pipe of 3 buffers of 2 bytes and 11 bytes; 4 locations; 2 requests for 2 variants of a key, or 2 keys of one hash and only one of them locked, responses of which the first varies by either of 2 headers or not at all, 2 nodes, an empty disk or a file of a third variant; 3 mail lines; servers of different weights with a backup |

## Fairness

Stated where a liveness property needs it, and no further than the code's scheduling goes.

* `Shmtx`: weak fairness of the steps inside a call (the scheduler), of leaving the critical
  section (holders only copy small data) and of the master collecting a dead child (SIGCHLD).
* `AcceptMutex`: weak fairness of a worker's round as long as `epoll_wait()` has a reason to return,
  of collecting and restarting a dead worker; strong fairness of timers, which the round may
  disable and enable again.  `Served` names the ways in which the code does not promise
  service: workers told to quit; a failed `ngx_enable_accept_events()` after `EMFILE` without the
  mutex, which nothing repeats; and all workers asleep without a time limit after each of them
  skipped the mutex in the same round (`Stalled`).
* `Master`: weak fairness of the loop, of its alarm and of SIGKILL.  Nothing makes a worker obey SIGTERM.
* `ThreadPool`: weak fairness of each thread and of the main thread.
* `Resolver`: weak fairness of the loop over a waiting list, strong fairness of each asker's time-out.
* `HttpConnection`: weak fairness of the worker and of what wakes it: reports of the kernel, posted
  events, timers, the asynchronous operation of a handler.
* `Request`: weak fairness of the worker, strong fairness of the write timer, of thread completions and
  of events of upstream servers (which time out at the latest).
* `Upstream`: weak fairness of the worker, strong fairness of the timers and of the clients taken together.
* `Http2`, `Http2Body`: weak fairness of the worker, of reading the end of a connection and of each response;
  strong fairness of timers.

Nothing else is fair: clients and servers may stop at any time.

## Findings

Runs that TLC must find violated.

* `request_hangs` (`http/ngx_http_request.c:2748`): a subrequest fails with an error that ends the
  connection while a thread reads a file for another subrequest and a third one is proxied.
  `ngx_http_terminate_request()` runs the cleanups, which finalize the upstream request, but puts the
  termination itself off because `blocked > 0`; when the thread is done nothing calls the terminating
  handler, and the connection stays without a timer.  `src/nginx-1.10.0/CHANGES:21` says of this version
  that connections no longer hang with `aio threads`.
* `upstream_resend` (`http/ngx_http_upstream.c:2131`): the comment at line 2130 says that `header_sent`
  means that the request was sent to the upstream server.  The flag says that the header of the
  response went to the client.  When a server answers before it was sent the whole of a request with a
  buffered body and an idempotent method (a PUT), and the sending of the rest then times out,
  `ngx_http_upstream_next()` goes on to the next server (it gives up only for an unbuffered body or a
  method that is not idempotent), the write handler becomes the dummy, and the request is never sent to it.

The proof of `OwnResponse` met a second consequence of the same resend: when the header of a first
response has been passed on and the request is passed to a next server, the length found in
the header of the discarded answer is taken for what the client still gets, and an incomplete response
is finalized as a complete one.  The second half of `OwnResponse` therefore leaves such a request
out (`~u[i].again`), as does `EventuallyDone`.

Limits of the code that are in the model, and which the properties name or the instances exclude:

* `event/ngx_event_accept.c:724`: a failing `EPOLL_CTL_DEL` (`"del"` in `FailingCalls`) leaves
  `ngx_accept_mutex_held` set at a worker that lost the mutex; it later takes the mutex without adding its
  sockets again, and `HolderServes` does not hold.
* With a connection taken twice within a batch (`MaxReborn = 2`) one instance bit cannot tell the first
  life from the third, and `NoStaleEvent` does not hold.
* `os/unix/ngx_process_cycle.c`: a failed upgrade after WINCH is cleaned up without setting `live`, so a TERM
  may let the master leave before its workers; this takes four signals, and the instances of `master` have two.
  `ch.command` stays "open" after a respawn, so the next exit in the same pass is announced as an open channel;
  `ChannelsKnown` speaks of live children only.
* Deaths of workers leave counts of `LimitConn`, pins of `LimitReq` and counts of `FileCache` nodes behind.
* `http/ngx_http_file_cache.c:871-907, 1859-1888`: the size of the cache drifts when a node is found again while
  its file is being deleted, and when a cached status expires at a node that has a file; `SizeExact` names these cases.

## Proofs

`TLAPS` proves, for every value of the constants that the named assumptions allow:

| Theorem | Module | States |
|---|---|---|
| `TypeCorrect`, `MutualExclusionHolds` | `ShmtxProofs` | types; at most one process inside |
| `WakeupsKept` | `ShmtxProofs` | `WakeupsSafe`: no wake-up is lost |
| `ShmtxKeepsPromise` | `ShmtxProofs` | `Shmtx` implements `Mutex` |
| `MutexReleased`, `MutexServes` | `AcceptMutexProofs` | the accept mutex is released in every round; `HolderServes` |
| `PoolKept` | `ThreadPoolProofs` | `PoolSound` |
| `CountsKept` | `LimitConnProofs` | `CountsSound` |
| `LoopKept` | `EventLoopProofs` | `LoopSound` |
| `EvenTaken`, `NoStale` | `EventLoopProofs` | what the instance bit can tell; `NoStaleEvent` |
| `Held` | `UpstreamProofs` | `HoldersExact` |
| `Own` | `UpstreamProofs` | `OwnResponse` |
| `Once` | `UpstreamProofs` | `AtMostOnce` |
| `RestKept` | `HttpConnectionProofs` | `RestSound` |
| `FramingHolds` | `HttpConnectionProofs` | `FramingKept` |
| `NobodyIsLost` | `MasterProofs` | `NobodyLost` |

Each proof has the same shape: an inductive invariant `IInv`, a lemma per action that the action keeps it,
and a theorem that combines them.

**Shmtx.** Assumption: the workers are a finite set, and neither the master nor the value of a free lock is
one of them.  `MutualExclusion` is not inductive: a process inside must also own the lock word.
`IInv` is the types with `Ownership` (whoever is inside is named by the lock word) and `SemaphoreUsed`.
`WakeupsKept` adds `WaitBalance`, proved by counting two finite sets, the announced processes and the posts
under way; with it, a waker that reads `wait <= 0` knows that no sleeper depends on it.  For
`ShmtxKeepsPromise` every action is shown to map to a step of `Mutex` or to a stutter.

**AcceptMutex.** `IInv` is the types with `Bounded` (a worker watches only sockets it can see) and
`Owned`: the worker that owns the mutex has `ngx_accept_mutex_held` set and is in its accept phase (or dead
and not yet collected), the flag is set only where the mutex is in use, and the mutex is in use only
where the listening sockets are open.  `MutexReleased` needs no more and no assumption beyond
`AcceptAssumption`.  `MutexServes` adds `HeldListens`: as long as the flag is set every listening socket is in
epoll, also in the rounds in which the mutex is not tried.  It has the hypothesis `"del" \notin FailingCalls`, for the reason under *Findings*.

**ThreadPool.** `IInv` is the types with `Shape` (who is where, and the main thread's progress through the
destruction), `Waiting` (`tp->waiting` against the queue and the woken threads), `TaskPlaced` for each task
(in exactly one of queue, thread, done list and completed) and `ExitPlaced` for the one task that
`ngx_thread_pool_destroy()` posts again and again.

**LimitConn.** `IInv` is the types with `Fit` (the cleanups of a client cover zones the handler has passed, each
once, and the node it is about to register is in hand), `Keyed` (every node a client is counted in has the
key it was counted with), `CountExact`, `LimitKept` and `RefusedCountsNowhere`.
That a client counts once in a zone and that no node is freed under a client follow.

**EventLoop.** `IInv` is `LoopSound` itself with `Watched` (only open connections are watched, and the kernel
reports only what it watches) and `Control` (where there can be a batch, and that it has a first report between the
two halves of a turn).  What `ngx_queue_remove()` leaves of a queue (`Without`, a recursive function) is found by
induction over sets of numbers: the library's induction theorems have an operator as a parameter, which
the provers cannot instantiate, but `WFMin` on least elements has not, and `Induction` follows from it.
`EvenTaken` adds `BitTells`: the bit in a report equals that of its connection exactly when the connection was taken
an even number of times since `epoll_wait()`.  So a report of a connection that is taken twice
within a batch would not be recognised, which is the reason for the hypothesis `MaxReborn = 1` of `NoStale`.  The proof
showed a mistake in an earlier form of `Watch`, whose two cases overlapped for a socket with an error and no
interest left.

**Upstream.** `IInv` is `Types`, `Control` (which state the functions and handlers leave behind where
they return to the loop), `Holding` (who holds which connection), `ConnsExact`, `ConnsSound` and `Exchange`.
`ConnsSound` says of every connection what it can still deliver: what is in flight is the end of what the
server sent, and that belongs to the exchange the server is in.  `Exchange` says of every request what
it has of its answer: the pieces read and those sent to the client are the beginning of one answer, what
the header announced and the length still expected agree, and `keepalive` is set only when nothing of
the answer is left, so that a connection in the cache is between two exchanges.  The module begins with sequences,
cardinalities and the frames of the invariant; sending, reading, the header and the three ways of passing a body on follow,
then connecting, freeing, retrying and finalizing, environment and events, and the theorems.  TLC runs requests one after
the other (`Together = 1`); the theorems allow any number of them at a time.

**HttpConnection.** `RestSound` speaks of the states in which the worker waits for events; between two of them
it runs through up to a dozen functions, and each of them may be reached with several stacks below it.  So
`IInv` has a clause per function (`Facts`): what the stack below it is (`Konts` names the few possible
continuations), what the request and the connection look like, and how many references will be left
when the functions below have returned (`Held`, `Terminated`, `Lingers`, with `Owed` for the reference that
`ngx_http_read_client_request_body()` takes and its caller gives back).  At rest `AtLoop` holds, from which
`RestSound` follows.  `Edge` carries the lost-event half: what arrived is due, or remembered as `ready`, and where a
handler has returned with `NGX_AGAIN` it has cleared `ready` (`Dry`).  `ScriptsAssumption` says only that a script is a sequence of
requests; that `Stream` makes units of it is shown by induction as in `EventLoop`.

`FramingKept` needs a second invariant, `FInv`, beside `IInv`.  Its first half is about the text: what nobody has
looked at is `Framed` (every unit is followed by one that may follow it, the empty line after a head by as many units of
body as the request announces), and where the worker is, it begins with a request (`Starts`), a header line of the
request being read (`Header`), its body (`HeadRead`) or what is missing of the body (`Bodies`).  The other half says that
the connection is used again only when the body is at its end.  `Spent` names the reasons for which it is, or for which
there will be no next request: nothing of it is left, `r->keepalive` is off, the unbuffered reading is still on, the client
has closed its end or reset the connection.  `Left`, `Settled` and `Refused` say how every function that finalizes gets there: the
body was read by its handler, or `ngx_http_discard_request_body()` was called before the answer.  While a body is read or
discarded the header buffer is empty (`Emptied`): the units to come are all in the socket, so that
`ngx_http_set_keepalive()` finds a pipelined request only in a buffer that begins with one.  That the text of a script is
framed is `StreamFormed`, by induction over the requests.  A reset and a lingering close give up the text, and the invariant says
nothing of it then.  Writing the proof showed that two `CASE` expressions of the module, in `Units` and in
`FinalizeConnectionLast`, had overlapping guards, which TLC reads in their order and the definition of `CASE` leaves
open; they are disjoint now.

**Master.** `IInv` is the types with `Placed` and `Alone` (a process that nobody has collected is in the table, once), `Marked`
(a slot is marked `exited` only when its process is gone, only the new binary is detached, a slot knows what it runs), and what
ties `live` to the table.  A slot is `Over` when the master waits for nobody in it.  `Searched` says of
`ngx_reap_children()` that the slots behind it are `Over` unless it has found one that is not; `Deserted`, that without `live`
all slots are, except between a respawning loop and the message to the old workers, where `Renewed` says why
the master is about to be alive again; `Left`, that it leaves only without `live`.  That `ngx_spawn_process()` finds a
pid for its child needs the pigeonhole principle, with the assumption that there are more pids than slots.
`LeavesNobody` has the hypothesis `extra = 0`: after workers were started again beside a new binary or after it, `live` may be unset
while they run, as *Findings* describes.  The search for this invariant replaced a property that said
less, and made the cases of `SignalWorkers` disjoint.

What stays with TLC:

* liveness and everything that needs `ENABLED`: `SleeperServed`, `Served`, `PoolServes`, `EventuallyAnswered`,
  `EventuallyClosed`, `EventuallyFreed`, `EventuallyDone`, `TermEnds`, `StreamsAndBodiesEnd`;
* what needs long inductions over data or folds that the provers cannot expand: the parsers, the runs of free
  pages in `Slab`, the tree of `Http2Tree`, the sums in `LimitReq`; and `Locations` and `Resolver`, which declare
  `RECURSIVE` operators;
* `WorkersTracked` and `ChannelsTold` of `Master`: enough signals and lost messages break them (*Findings*), and which
  are too many is a matter of the instance;
* the safety invariants of `Resolver`, `Request`, `Http2`, `Http2Body`, `EventPipe`, `FileCache`,
  `Balancers`, `Phases` and `Mail`, which are not proved yet.

## Abstractions worth knowing

* Time: a timer may fire at any moment after it was set; only `LimitReq`, `Balancers` have a clock.  The
  wrap-around of the millisecond clock is left out.
* `Upstream`: no TLS, no resolver, no cache, no upgrade, no `X-Accel-Redirect`; a premature end of a body taken to
  memory finalizes with 0, as the code does.
* `FileCache`: one request per id; the layout of the file, updates of its header after a revalidation and failing
  deletions are left out; two locks are never taken in the same millisecond; the instance has `min_uses` 1.
* Smaller than what the code can do: half-added sockets of `AcceptMutex` are not looked at by a property,
  `LimitReq` has no rounding of the leak, `Master` meets two signals, `Http2` one control frame of the client in a behaviour,
  `HttpUri` parses a line at once, `Mail` runs with `starttls only`, and `AccessKept` does not speak of
  requests that a stale `access_code` refuses.
* `EventPipe`: no `limit_rate`, no `postpone_output`, no cyclic temporary files, no failing allocations.
* `Balancers`: no sessions of TLS; the zone module's copies of the lists are not modelled.
* `Http2`: fixed priorities, no `limit_rate`, no TLS buffers; header blocks and HPACK are left out.
* `Mail`: the resolving of an SMTP client happens only before the greeting; a "WAIT" answer without a wait header
  makes the session ask again at once, as in the code.
* `Phases`: `access_code` survives an internal redirect and the 4-bit `uri_changes` may wrap, as in the code.
* `HttpUri`: a trailing `/..` or `/.` without a slash stays, a truncated `%X` at the end is dropped, as in the code.
* `Locations`: names are shorter than 256 characters, as `node->len` is a byte.

## What is not modelled

The open file cache, the stream proxy (but its `limit_conn`), configuration parsing and start-up, TLS, filters and
content modules, variables and scripts, formatting, logging, OS wrappers, event modules other than epoll, data
structures that are private to one caller.  `PROJECT.json` has the reason for each under `components`.

## Plan

Done: the modules above, their runs, the proofs above.  Left, in this order:

1. Proofs: `LimitReq` (`PinsExact`, by counting as in `LimitConn`), `Http2` (`WindowsExact`).
2. Modules: the stream proxy (two connections of a session, its balancers), the open file cache (files replaced
   while they are in use), deadlines with a clock of a few bits against a reference.
3. An abstract zone that `Slab` implements, used by `LimitConn` and `FileCache` in place of sets of nodes.
