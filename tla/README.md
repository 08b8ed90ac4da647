# wshttp in TLA+

wshttp is a C++ library for HTTP/2 over TLS built on libevent, OpenSSL and
nghttp2. One thread runs the event loop; applications talk to it by jobs, and
everything else (listeners, sessions, streams, timers, endpoints) lives on it.
This directory models that: what may interleave, what is deferred, who owns
what, and what happens when a step fails.

Paths are relative to the repository; file names stand for those under `src/` and `include/wshttp/`.

## Inventory

| part | state it keeps | operations | how it meets the others | module |
|---|---|---|---|---|
| event loop (`loop.hpp`, `loop.cpp`) | `job_queue` under a mutex, the `job_waker` event, the loop thread | `call`, `call_soon`, `call_get`, `process_job_queue`, `stop_thread`, `~event_loop` | every other part posts jobs to it; `loop_deleter` deletes their objects on it | EventLoop, JobService |
| timers (`ev_watcher`, `loop.hpp`, `loop.cpp`) | one libevent event each, its interval, `_is_running`, `f` | `init_event`, `start`, `stop`, `call_every`, `call_later`, the callback | made on any thread, fire on the loop thread, destroyed with the loop | Watcher |
| session I/O (`session.cpp` 20-218, 349-468) | `_bev`, `_session` of nghttp2, output buffer | `event_cb`, `read_cb`, `write_cb`, `send_hook`, `config_send_initial`, `close_session` | called by libevent's deferred runs; calls nghttp2, which calls back | SessionIO |
| listener and inbound sessions (`listener.cpp`, `session.cpp` 235-347) | `_sessions` by remote address | accept, `close_session`, `close_all`, `close_listener` | sessions post close jobs with a raw pointer; the endpoint owns the listener | Inbound |
| endpoint (`endpoint.hpp`, `endpoint.cpp`) | `_loop`, `_listeners`, `_nodes`, `_close_immediately` | `make`, `listen`, `connect`, `~endpoint` | shares the loop with the application and other endpoints | Endpoint |
| nodes and outbound sessions (`node.cpp`, `session.cpp` 284-347, 388-436) | `_sessions` by host, `_fd`, `_bev`, `_ssl` | `create_outbound_session`, `initialize_session`, `close_session`, the deleters | made by `connect`; libevent resolves and connects; a close job holds the session by a raw pointer | Outbound |
| url parser (`parser.cpp`, `internal.hpp`) | `_data`, `_res`, one object for the process | `read`, `_parse`, `extract`, `_reset` | every `connect` on every loop uses it, without a lock | Outbound |
| addresses (`address.hpp`, `address.cpp`, `encoding.hpp`) | values | conversions between host and network order, `sockaddr` and `ip_address` | `bind` of a node, paths of sessions | Address |
| streams (`stream.cpp`, `stream.hpp`, hooks in `session.cpp` 470-652) | `_streams` of the session, `_fd` and `_req` of each | the hooks, `recv_frame`, `send_error`, `send_response`, `file_read_callback`, `stream_d` | nghttp2 calls the hooks and pulls the bodies | Streams |
| headers | values | constructors | data of the above | only what decides a branch |
| DNS server, TLS contexts, formatting, logging | — | — | set up once, or not used | not modelled |

Hard here: threads between a mutex and a wake-up; closures that refer to frames
or objects that others may end; callbacks of one libevent run after each other
on an object that the first one wants to close; back-pressure between three
buffers; destructors that run on the thread they want to join; exceptions that
leave C callbacks or leave half-made map entries; descriptors running out; a
parser that threads share; objects that libevent frees later than asked.

What makes each part correct: every job runs once, in order, and every waiter is
answered (event loop); a timer that is armed belongs to a watcher that is there,
one-shots run once and not early (timers); frames are neither stranded nor sent
beyond the bound, and a session ends when it should (session I/O); the map and
the live sessions agree, and nothing reaches a freed one (listener); the loop
outlives the endpoints, and dropping one is safe (endpoint); the session and
nghttp2 agree on streams, and every request is answered from its own descriptor
(streams); a connect works on its own url and address, its session leaves
nothing behind, and nothing is used after it was freed (nodes, parser,
addresses).

## Modules

Names are those of the source where TLA+ allows it; `PROJECT.json` maps every
definition to its lines. A definition whose name has a suffix (`Return_OneJob`,
`stream_close_hook_Keeps`) is a *variant*: a plausible mistake in the definition
it precedes. Nothing uses it; it exists to see that the property beside which
`PROJECT.json` lists it does fail when the code is wrong in that way.

**EventLoop.** The constructor of the loop has returned and its thread has been
started, but may not have entered libevent (`EnterLoop`). Each critical section of `job_queue_mutex` is one step, and
`event_active` a later one, because the code calls it after the unlock. The loop
thread waits in libevent (`poll`), runs the waker's callback (`swap`, `drain`)
or any task (`body`); a task may call back into the loop, inline or by posting.
An exception reaches the promise of `call_get` and ends the process in any
other job. `Release` and `Join` are `~event_loop` on the thread that held the
last reference. **JobService** is what the rest of the library relies on: one
FIFO of jobs, at most one running, an answer for each `call_get`.

**SessionIO.** One session, inbound or outbound. libevent collects callbacks
(`pending`) and delivers them in one deferred run in the order connected, read,
write, event. nghttp2 is external: at each read it may queue frames, see streams
begin and end, hear a GOAWAY of the peer, decide to end with a GOAWAY of its own,
or fail; `nghttp2_session_send` calls `send_hook` until it blocks or has nothing
left. It wants to read until its own GOAWAY is sent, or the peer's is there and no
stream is active. Frames are their sizes.

**Inbound.** One listener, its map, and the objects in it. libevent's queue of
active events (deferred runs and the waker) is kept as the order of its members:
the pair `<<x, y>>` is there when `x` became active before `y`, so that events
leave from anywhere in it by dropping their pairs (`Without`), and the one whose
turn it is precedes all others (`First`). Jobs are swapped out as in EventLoop. `Allowed` says what the surroundings may do, so that a run can
ask under which hardships a property holds. Two history variables, which nothing
but a property reads, record how many callbacks closed a session and what
deleted it.

**Watcher.** The steady clock ticks `Micro` times in a microsecond, because
`call_later` and libevent both cut off fractions. Not modelled: `pause`,
`stop_tickers` and ticker ids (see *Limits*).

**Endpoint.** The shared ownership of the loop by the application and by
endpoints, the maps of listeners and nodes with the null entries that a throwing
constructor leaves, and `~endpoint` in the three steps between which others can
act: `shutdown_endpoint`, the test of `use_count` (`clear_mappings`), and the
end of the members.

**Streams.** The hooks of an inbound session and nghttp2's own view of each
stream. Descriptors are numbers from a finite set that the system gives out
again; an answer takes one and an error page needs two for a moment. The `:path`
header is never recognised, because the literal it is compared with has a NUL at
its end, so that in practice every request gets the error page; the model has
the other branches as they are written.

**Address.** Pure operators. An integer is the sequence of its bytes in memory,
so that a byte order is something a conversion can get wrong. `to_in6` swaps
single bytes, as the code does.

**Outbound.** Connects of several endpoints, each endpoint on a loop of its own
that the application holds (the end of a loop, and what endpoints on one loop do
to each other, are in Endpoint). Between two
statements of the parser another loop may run, so that each is a step;
`ParserCrash` is what the data race on its two pointers may do. `connect` throws
where the code does, and leaves the entry it leaves. A bufferevent that is freed
while its host is being resolved is `held` by the DNS request, and in any case
finalised later by the loop; the SSL goes with it. The deletion of a session is
two steps, `FreeBev` and `ShutSsl`, in the order of its members.
**MCOutbound** gives the urls and addresses of the connects that TLC runs.

How they fit: `Inbound` and `Endpoint` use the job queue as `JobService`
describes it (jobs in order, one at a time, on the loop thread), which
`EventLoop` is shown to implement; so does `Outbound`, which is also built on
`Address`. `Inbound` abstracts the callbacks of a session
to whether they close it; `SessionIO` says when they do. `Streams` assumes that
nghttp2 gets to send, which is `QueueMoves` of `SessionIO`.

## Runs

| run | asks | bounds |
|---|---|---|
| event_loop | wake-ups, order, frames, waiters, progress (also if the loop thread is slow to start), and that the loop implements JobService | two threads, three jobs, one inline call |
| session_flow | bound of the output buffer, no stranded frame, no callback before nghttp2 exists, the ways to end (a GOAWAY of either side, the peer gone) | threshold 3, frames up to 2, four queued; both directions, faults on |
| inbound_all | map and objects agree, callbacks reach live sessions, the list of ways to a dangling job is complete, a gone peer's session is freed, and all of them with the endpoint | two remotes, two sessions, everything allowed |
| outbound_all | a uri is that of its url, SSL_shutdown finds its SSL, no session leaves anything behind | two endpoints, two connects on one and one on the other, which may parse at the same time; a host with and without a port, a url that cannot be parsed, one whose scheme cannot be set, a host asked for twice, IPv4, IPv6 and no local address |
| watcher_all | armed timers, one-shots | two watchers, three clock ticks per microsecond, delays 1 and 3 |
| endpoint_all | the loop outlives the endpoints, a holder is safe, dropped endpoints go | two endpoints, two ports (one busy), one host and the empty one |
| streams_all | two books agree, every request answered, own descriptors, requests end | three streams, three descriptors |
| session_h2 | *violated*: a peer that negotiated h2 is initialised | — |
| session_connect | *violated*: an established outbound connection does not end the process | no local address |
| inbound_double | *violated*: every close job finds its session | one session, several callbacks per run |
| watcher_repeat | *violated*: a ticker fires again | one watcher |
| endpoint_final | *violated*: the last endpoint stops the loop and the program goes on | one endpoint |

Why the bounds are enough: the event loop's races need one thread between the
mutex and the wake-up while another finishes, and a third job that is posted
during the batch of the first two. The threshold is larger than a frame and
smaller than two, and the queue longer than what fits, so frames are held back
and let go. A second remote, or a second connection of the same one, is what a
close job can be confused with. The clock's phases matter within a microsecond,
hence three ticks. With as many descriptors as streams, and one leaked for each
answer, the last answer finds no pipe. Two loops are enough to race in the
parser, and the second connect of the first loop is what `call_get` keeps out of
it; no step of Outbound looks at two sessions of one endpoint at a time, except
for the deletion of the endpoint, which destroys them one after the other. Where a safety property is also proved,
the bound does not matter.

### What the violations show

* `session_h2`: `"h2"_usp` has three bytes (`types.hpp` 47-60, 172), the answer
  of ALPN two, so `session.cpp` 37 takes the branch that says "failed to
  negotiate 'h2' alpn!". Sessions work only with peers that offer no protocol.
* `session_connect`: `initialize_session` sets an option on descriptor -1 unless
  the node was bound to a local address, and throws through libevent.
* `inbound_double`: read and event callbacks of one run both call
  `close_session`; the second job reads a session the first one deleted. The
  same happens when the endpoint is dropped between the posting and the run of a
  close job. `DanglingExplained` of inbound_all has the whole list: besides these,
  a reconnect, a listener that fails, and a job that was itself dangling. Without
  any of these no job dangles (`QuietIsSafe`, proved).
* `watcher_repeat`: the event has no `EV_PERSIST`, and the flag for the closure
  that would add it again is never passed on (`loop.hpp` 267, `loop.cpp` 137).
  `FiredTickerIsSilent` proves it of all tickers.
* `endpoint_final`: `loop_deleter` runs `~endpoint` on the loop thread, where
  `stop_thread` joins that thread. An application that keeps its own reference
  to the loop as long as it has endpoints is safe (`HolderIsSafe`, proved).

Seen while modelling, part of the models, without a run of their own: a session
that the peer finishes with a GOAWAY (or by resetting the last stream after one)
when there is nothing left to send is not closed, because only a write callback
would notice that there is "No more IO" (`session.cpp` 172): it stays until the
peer speaks again or leaves (the exception in `FinishedCloses`); a busy
port passes a null listener to `evconnlistener_free` (`listener.cpp` 91-106); a
listen or connect that throws leaves a null entry that refuses every retry, and
that of a listener is dereferenced by `shutdown_endpoint` (`endpoint.hpp` 86,
`endpoint.cpp` 65); a
second connection from a known remote ends the first one although the message
says it is rejected (`listener.cpp` 42-43); a url that cannot be parsed is
accepted (`address.hpp` 57); `call_every` with `start_immediately` false and
`wait` true starts at once (`loop.hpp` 267); a loop that is stopped before its
thread has entered libevent never stops, because entering clears the flag
(`loop.cpp` 239); the host field of a uri includes the port, so that a url with
a port never resolves, and the port used is always 443 (`parser.cpp` 23,
`session.cpp` 311); two loops in the parser at once mix their urls or crash
(`parser.cpp` 8); `bind` is given the size of a `sockaddr` for an IPv6 address
and refuses it (`node.cpp` 59), which hides that `to_in6` would have passed on
the wrong bytes (`Ipv6WrittenBack`); `ip_address{sockaddr*}` says of an IPv6
address that it is IPv4, because `_is_v4` is set before the body of the
constructor (`address.hpp` 167, `address.cpp` 120).

## Fairness

* EventLoop: a thread that is inside a call goes on; the loop thread goes on
  while it has something to do; libevent dispatches an active waker again and
  again (strong fairness: other events may come first, but not for ever, since
  active events are served in order). Threads need not make calls, callbacks
  must return.
* SessionIO: the loop thread finishes a run, libevent starts the run of pending
  callbacks and the close job. The peer owes nothing: properties that need it
  say so (`[]<>(out = 0) => ...`).
* Inbound, Watcher, Endpoint: the loop thread runs jobs and timers; time passes.
  In Endpoint the delete job has strong fairness, because other jobs may come
  before it, but jobs are served in order (`JobOrder`).
* Streams: nghttp2 gets to send what it has.
* Outbound: the loop threads go on with connects, jobs, pending callbacks,
  finalizers and deletions. The resolver, the network and the application owe
  nothing; `NothingLeft` holds for a session whose name is never resolved.

## Proofs

All by TLAPS, for every value of the constants that meets the named assumptions.

* **EventLoop_proofs.** `TypeCorrect`, `WakeupKept` (`NoLostWakeup` is inductive
  with the type invariant), `JobsInOrder` (needs `LoopInv`: the batch is empty
  wherever the loop thread may swap, and no job is current outside a task; else
  `Swap` could overwrite a batch), `FramesOutliveJobs` (job ids are unique by
  `JobOrder`, so that a job that answers its promise leaves the frames of all
  other jobs alone) and `WaitersAreServed`. Assumptions: the loop thread is not
  an application thread, and the bounds are numbers.
* **EventLoop_refinement.** `LoopImplementsService`: the queue of the service is
  `swapped \o job_queue`. `Swap` is a stutter because the batch is empty then,
  `RunFront` takes the head of the concatenation; lemmas about `\o`, `Append`,
  `Head` and `Tail` carry this.
* **SessionIO_proofs.** `TypeCorrect`, `BackPressure`, `TerminationNoticed`
  (`OwnGoawaySeen`: after its own GOAWAY nghttp2 has output left or `write_cb`
  pending until the session is closed, the safety part of `FinishedCloses`), and
  `FramesNotStranded` and `NoNullSession`, from two strengthenings: `Flow` is `NoStall` also inside a run,
  when the write callback may be about to be delivered; `Fresh` says what cannot
  have happened while nghttp2 does not exist.
* **Inbound_proofs.** `IInv` has four parts. `Mapped` makes `OwnedByListener`
  inductive: what the map names is live and knows its key. `Alternate` makes
  `CallbacksReachLive` inductive: a batch is empty at `poll` and during a run, so
  no job can delete the session whose callbacks run. `NoOrphans` says that no
  session outlives its listener. `CloseJobs` and `ListenerJobs` count the jobs in
  both queues together (`Posted`, `PostedOnce`): a session closed once has one
  job, and none after that job has erased it. From them `ListenerOwns`,
  `NoCallbackToFreed`, `ListenerTakesSessions`, `DanglingHasCause`, and the action
  property `FreedWithEntry` (objects are made and freed once, with their entry).
  `QuietIsSafe` assumes `Allowed = {}`, that is, one callback per run, no
  reconnect, a listener that works and an endpoint that is kept, and concludes that
  no job dangles. Its invariant `QuietInv` is about the order of the active queue:
  a close job not yet in a batch has `job_waker` active, and the session that
  posted it, if active again, is behind the waker (`WakerFirst`), so that the job
  is served before any second run could post another. Assumptions: `None` is
  neither a session nor a remote, `Waker` is no session.
* **Watcher_proofs.** `ArmedWatchersRun` needs `Callable` (a live ticker has its
  function while the loop is up, so that only watchers of a loop that is gone
  leak); `LaterRunsOnce` needs `Fresh`. `LaterIsNotEarly` rests on `OnTime`: a
  one-shot with `left` microseconds in libevent's clock has less than
  `(left + 2) * Micro - sub` to go, because the job truncated once and libevent's
  first microsecond was already `sub` ticks old; `Truncation` and `ClockStep` are
  its arithmetic. `FiredTickerIsSilent` is an action property. Assumptions: a
  microsecond has at least one tick, delays and bounds are numbers.
* **Endpoint_proofs.** `LoopLives` and `KeepersAreSafe` from `IInv`: every
  endpoint that is not deleted holds the loop (unless giving it up ended the
  process, the case of `endpoint_final`), and only the last holder stops it.
  `DeletedLeavesNothing` from `EndInv`: maps are empty from `dying` on, ports are
  not shared, and one `~endpoint` runs at a time.
* **Streams_proofs.** `BooksAgree`, `EveryRequestAnswered`, `BodiesAreOwn` from
  `IInv`: nothing is answered before the request is complete, and descriptors of
  answers are open and different, *also of streams that have ended*. The last part
  is inductive only because `stream_d` closes nothing (`DeleterClosesNothing`):
  a deleter that closes `_fd` needs a closer look at when nghttp2 last reads. What
  that costs is `AnswersKeepDescriptors`: no step ever closes a descriptor.
* **Outbound_proofs.** About Address: swapping twice is the identity, hence
  `Ipv4RoundTrip` and `SockaddrRoundTrip` for all addresses and both kinds of
  machine, and `Ipv6WrittenBack`, which says exactly when `to_in6` is right. About
  Outbound: `ShutdownIsSafe` and `SslEndsOnce` from `Ownership`, which ties the
  state of a session to that of its bufferevent, its SSL and its pending callbacks
  (a freed SSL is excluded only because the finalizer waits for the loop thread);
  `BoundToArgument` from `Binding`: nothing is bound before the node is made, after
  which the argument stays; `UriFromOwnUrl` from `ParserInv`: of the connects on
  one loop one is in the parser (`Serial`), what it has put into `_data` and `_res`
  is its own or stems from another loop (`Parsing`), and so are the fields it has
  taken out (`Extracted`); the sets of urls of other loops only grow
  (`SourcesGrow`). `HostConnectsOnce` from `NodeInv`: a session has an entry, and
  entries stay. Assumptions: the shapes of urls and addresses, that `None` is no
  url, and that `Delete` is no connect.

Each of these modules also proves `TypeCorrect`. Every invariant that a passing
run checks is proved; `OwnGoawaySeen`, `BoundAsAsked`, `NoOrphans`, `OneSessionPerHost`, `EndInv`
and the action properties `FreedWithEntry`, `SslEndsOnce`, `AnswersKeepDescriptors`
and `FiredTickerIsSilent` are proved without a run that states them.

Only model-checked: liveness (the prover has no rules for fairness and ENABLED).
Not proved, because it is false in general, is `NoDanglingJob` without
`Allowed = {}`, nor any other property whose violation a run shows.

## Limits

* A data race on the map of tickers (`make_handler` on any thread, no lock) is
  not modelled; neither are `stop_tickers` and ids of callers, which nothing that
  compiles can reach: `endpoint::call_every` calls `_call_every` with too few
  arguments.
* nghttp2, OpenSSL and libevent are modelled from how they are used. That the
  input buffer is never drained (`session.cpp` 150) appears as nghttp2 being free
  to fail at any read.
* Contents of bodies and headers are left out, with them the extra byte at the
  end of a file (`stream.cpp` 33). Addresses are modelled by their bytes, their
  printing, hashing and comparison are not.
* `_path` of a session is only printed. What an uninitialised length makes of it
  (`session.cpp` 398) is left out, except that it may throw.
* The DNS server is never started (`endpoint.hpp` 42), and its lookup is
  unfinished; only its evdns base matters, as the resolver of Outbound.
* A stream makes a second owner of the nghttp2 session (`stream.cpp` 38). It
  never acts, because streams are never deleted.
* Failures to allocate an SSL or a bufferevent are left out of Outbound.
* Outbound sessions never submit a request, so outbound streams do not exist.

## Plan

Done: EventLoop with JobService, SessionIO, Inbound, Watcher, Endpoint, Streams,
Address, Outbound; a proof of every invariant the passing runs check, of the
refinement of JobService, and of the action properties above.

Next, in this order:

1. An abstract life cycle of a session (made, open, closing, freed) that both
   Inbound and Outbound implement, with the refinements proved from
   `FreedWithEntry`, `Ownership` and `SslEndsOnce`.
2. Which single hardship is harmless for which job: `QuietIsSafe` with a larger
   `Allowed`, for close jobs of sessions whose remote does not come back.
3. The order in which frames leave `SessionIO`, as a refinement of a FIFO.
