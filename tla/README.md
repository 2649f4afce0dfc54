# Verification of the REST client

TLA+ specifications, TLC runs and TLAPS proofs for the program in `src/`: a REST
client that keeps one HTTPS connection to a server open, lets several threads
post requests on it, and calls a function back with each response. The program's
own code is about 700 lines; `src/include/beast/` is a vendored copy of
Boost.Beast, whose streams, buffers, HTTP, WebSocket and zlib parts are modelled
too. Boost.Asio and OpenSSL are used but are not part of the tree: they are
external and modelled from how the code uses them.

Run everything from this directory: `tlc -config MCSession.cfg Session.tla`,
`tlapm SessionProofs.tla`, and so on.

## 1. Inventory

### The program

| Component | Code | State | Operations |
|---|---|---|---|
| RequestBuffer | `include/request_buffer.hpp` | `mRequests` (a ring of `mSize` slots), `mWritePos`, `mReadPos` | `add` (throws when full), `get` (empty answer), sizes from `LOG2`, `GetClosestExp` |
| Session, Handler | `src/session.cpp`, `src/handler.cpp` and headers | `mSessionReady`, `mError`, `mRequest`; the stream, its deadline, one `mBuffer` and one `mHttpResult` | `Run`, `OnResolve`, `OnConnect`, `OnHandshake`, `Read`, `OnRead`, `Write`, `OnWrite`, `AsyncRequest`, `ExecRequest`, `ErrorHandle`, `Stop` |
| RestClient | `src/rest_client.cpp`, `include/rest_client.hpp` | `mSession`, `mStopSubscriber`, `mSubscriber`, `mFutTasks`, the `io_context` | constructor, `SubscribeEndpoint`, `run`, `AsyncRequest`, `LaunchTaskSubscribe`, `SignalHandler` |
| main, ClientImpl | `src/main.cpp`, `include/client_decoder_example.hpp` | the locals of `main` | launch, serve, wait, join, destroy; the client's loop |
| Decoder, helpers | `include/decoder.hpp`, `include/helper.hpp`, `src/helper.cpp` | none | `dispatch`, `GetTargetOpts`, printing |
| io_context, resolver, TLS stream, the peer | external | queue of handlers, outstanding operations | one thread in `run()` takes handlers in order; the peer reads, answers in order, closes |

Threads and how the parts interact:

    main thread                 subscriber thread            client thread
    (std: main, run())          (mFutTasks)                  (clientFuture)
      |                           | loop over mSubscriber      | loop
      | mIoc.run() -- handlers:   |                            |
      |  OnResolve .. OnHandshake |  Session::AsyncRequest     |  RestClient::AsyncRequest
      |  ExecRequest  <===========|== asio::post ==============|
      |    add(), Write()         |                            |
      |  OnWrite                  |                            |
      |  OnRead: get(), callback, Read()                       |
      |  SignalHandler (SIGINT)   |                            |
      | waits, joins, destroys    |                            |

The other threads share four things with the main thread: the queue of the
io_context (`asio::post`), `mSessionReady`, `mError` and `mStopSubscriber`.

What is hard in this code: a response is paired with a request only by its
position in the ring; a slot of the ring is given back by the response while the
write of the request may still refer to it; nothing keeps a write from starting
while another one is outstanding; the flags the threads read are out of date when
they act on them; an error or SIGINT has to end three threads that check
different flags in different orders; destruction relies on the order in which the
members are declared.

### Boost.Beast

| Part | Code below `include/beast/boost/beast/` | What makes it correct |
|---|---|---|
| basic_stream (tcp_stream) | `core/impl/basic_stream.hpp`, `core/rate_policy.hpp` | the deadline of an operation ends that one and no later one; a slice has no more bytes than the policy allows and what is granted beyond it |
| dynamic buffers | `core/impl/{flat,multi,static}_buffer.*`, `buffers_adaptor.hpp` | bytes come out as they went in |
| views, static_string | `core/impl/buffers_{cat,prefix,suffix}.hpp`, `static_string.hpp` | an iterator is where its bytes say; a string behaves like `std::string` |
| stream layers | `core/impl/flat_stream.hpp`, `buffered_read_stream.hpp`, `core/detect_ssl.hpp`, `_experimental/http/impl/icy_stream.hpp`, `_experimental/test/` | the bytes keep their order, a read waits only for what it needs |
| HTTP | `http/impl/{basic_parser.ipp,read.hpp,serializer.hpp,write.hpp}` | complete means whole, nothing is sent twice, every operation ends |
| fields, message, lists | `http/impl/{fields,message}.hpp`, `rfc7230.ipp` | what a peer finds is what was set |
| files and file_body | `core/impl/file_*.ipp`, `http/basic_file_body.hpp`, `http/impl/file_body_win32.hpp` | one owner, own errors, the body is the file |
| websocket::stream | `websocket/impl/`, `websocket/detail/` | frames stay whole, locks are handed on, every call ends, both ends agree on compression, masks and text |
| zlib | `zlib/detail/` | what is decompressed is what was compressed, at any cut of input and output |

What is hard there: timers that race completions; operations that wait for each
other in two orders; partial reads and writes at any byte; offsets that wrap;
bits held over from one call to the next. The list, line by line, is "hazards" in
`PROJECT.json`.

## 2. Modules

| Module | What it models | Checked by |
|---|---|---|
| `RequestRing` | the ring as a value: `NewBuffer`, `IsFull`, `IsEmpty`, `Add`, `Front`, `Drop`, `Window` | |
| `RequestBuffer`, `RequestQueue` | the class on its own, `add()` and `get()` in any order; the abstract bounded queue it implements | `MCRequestBuffer` (with `LOG2`, `GetClosestExp` and the mask) |
| `Session`, `SessionLife` | Session and Handler with ring, io_context, stream and peer; the abstract life of a session that other threads can observe | `MCSession.cfg`, `MCSessionWrites.cfg` |
| `RestClient`, `RequestRate` | `main`, subscriber and client around a session that behaves as `SessionLife`; their pace, the limit and the ring | `MCRestClient` |
| `BasicStream`, `TimedStream` | basic_stream with deadlines, cancel, close and the rate policy; abstract: what its user may rely on | `AllStreams` |
| `TestStream`, `Layers`, `AllStreams` | test::stream and fail_count; flat_stream, icy_stream, buffered_read_stream, detect_ssl; all streams side by side, one of them running, with the values of `MCStreams.cfg`, `MCStreamsLive.cfg` | `AllStreams` |
| `ByteQueue`, `StaticBuffer`, `FlatBuffer`, `MultiBuffer`, `BufferSequences` | the abstract dynamic buffer and the four classes that implement it (`BufferSequences`: buffers_adaptor and the views) | `MCBuffers` |
| `StaticString` | static_string and to_static_string | `MCBuffers` |
| `HttpRead` | basic_parser and the read operations | `MCHttp` |
| `HttpWrite`, `WriteOps` | serializer; the functions that write it, in all their forms | `MCHttp` |
| `Fields`, `FieldGroups` | basic_fields as list and set, message; the abstract groups of fields a container is | `MCHttp` |
| `TokenLists`, `Files`, `FileBody` | lists in a value; the three file classes; bodies that are files | `MCHttp` |
| `WebSocket`, `WebSocketSync` | an open stream with asynchronous calls; two streams with blocking ones | `MCWebSocket` |
| `Handshake`, `Frame` | async_handshake, async_accept, the agreement on permessage-deflate; frame headers, masks, close payloads, UTF-8 | `MCWebSocket` |
| `Deflate`, `Inflate`, `HuffmanTree` | both directions of zlib and a WebSocket stream's messages; trees, code lengths, bits, tables | `MCZlib` |
| `*Proofs` | the proofs (section 5) | |

A component of Beast that no other one calls in the code is checked on its own:
an MC module, and `AllStreams`, hold several of them as *parts*. A behaviour chooses one part in its
initial state and runs it while the others are at rest in one of their initial
states, so a run is the union of the runs of its parts and no part constrains
another.

An operator whose comment starts with "Wrong" is a plausible mistake in the
definition after it, such as a check left out or two steps swapped. No
specification uses it. Put in the place of that definition it makes TLC refute a
property; `PROJECT.json` ("mutants") says which one.

### RequestRing, RequestBuffer

A request stands for the pair `<http::request, Callback>` that a slot holds.
`pos & mRingMask` is `pos % mSize`: `MaskIsModulus` checks that this is what the
mask computes. Positions are natural numbers; `uint64_t` wraps only after 2^64
requests. `add()` and `get()` are atomic because only handlers call them, on the
one thread in `mIoc.run()`; the compare-exchange in `get()` therefore never fails
and its loop runs once. The program's ring has 4096 slots.

### Session

A request is the number of the `AsyncRequest` call that posted it: number n is in
position n - 1 of the ring. A response is the number of the request it answers, or
`Stray`. State and code:

| Variable | Code |
|---|---|
| `started` | `Session::Run()` called (by the constructor of RestClient) |
| `mSessionReady`, `mError`, `mRequest` | the members of the same names |
| `called` | history of `hdl(...)` in `Handler::OnRead`: request and response |
| `accepted` | how often `AsyncRequest` returned `RequestSent` |
| `ready` | handlers queued in the io_context |
| `stopped` | `mIoc.stop()` called |
| `terminated` | an exception main() does not catch left `mIoc.run()` |
| `setup` | async_resolve, async_connect or async_handshake outstanding |
| `expiry`, `readTimed` | `expires_after(5s)` / `expires_never()`; whether the latest read started under a deadline |
| `reads` | `http::async_read` outstanding |
| `writes` | messages whose `http::async_write` has not been handed to the peer |
| `link`, `sent`, `atServer`, `inbound`, `stray` | the peer |

Choices worth knowing:

- *Handlers are atomic and run in order.* One thread runs the io_context, and a
  strand is entered directly from the handler the io_context takes from its queue.
  When a completion is queued is free: that covers every order the reactor can
  produce. Once `mIoc.stop()` is called the handler that runs goes on to its end
  and no other one starts.
- *Errors.* Every completion may fail when the code it stands for may. A response
  that cannot be parsed counts as the end of the connection.
- *Overlapping writes.* The program starts writes without waiting for the earlier
  ones, which the documentation of Beast forbids (section 4). The model lets them
  leave in the order in which they were started, each as a whole, as the TLS
  stream underneath does. `OwnResponse`, `SlotHeldIfNoStray` and
  `EveryRequestAnswered` rest on it.
- *The peer* answers what it has read, in order, as HTTP/1.1 asks of it. It may
  also send a response to no request (a `408` on an idle connection). From then on
  every callback gets the response before its own: `OwnResponse` and
  `SlotHeldIfNoStray` are stated without strays.
- *Races.* `mSessionReady` and `mError` are plain members that one thread writes
  and others read. The readers sleep between their reads, which the compiler cannot
  see through: a read returns the value before or after the write, and is a step of
  its own.

### RestClient, RequestRate

`main` is where the main thread is, `pc` where the other two are; each of their
steps reads or writes one shared variable. `Objects` is the order of construction
of main's locals and of the members of `restClient`; `alive` counts what is left.
The futures come from `std::async`: their destructors join. `late` counts the
requests posted after `mIoc.stop()`. Setting a flag and calling `mIoc.stop()`
right after it is one step: no other thread sees `stopped`, so the two differ only
in what `late` counts, and one step counts more.

`RestClient` is composed with `SessionLife` and not with `Session`. That `Session`
implements it is checked (`ImplementsLife`) and proved (`RefinesLife`).

`RequestRate` counts time in ticks of `cTimeoutMs`. A sleep lasts for at least its
time, so a faster pace than the code's does not exist.

### What the models of Beast abstract

- `BasicStream`: handlers are one step each (they share a strand); time is how it
  looks to a timer, never, future or past.
- `TestStream`: the content of bytes is a number; an action is what is done under
  one mutex.
- `Layers`: flat_stream with a limit of 4 bytes and 3 on the stack instead of 16384
  and 8192.
- Buffers: bytes are numbered as they are committed. `BufferSequences`: `size_t`
  has 4 bits.
- `HttpRead`: a line of the header is one character and its line end, so the grammar
  inside of a line is gone and what is left is what ends where. A `put()` that
  returns and is called again is one loop. An asynchronous read ends like the
  blocking one, later. How many bytes a caller is told after a fatal error is left
  out.
- `HttpWrite`: the sent message is a sequence of tokens; a caller gives buffer_body
  its next piece after `need_buffer`. `WriteOps` has the serializer only as what is
  shown next. `write_header()` without a handler is checked with a stream that does
  not fail (`HeaderOps`), since it sends again what was sent (section 4).
- `Files`: each read and write is one step with any partial outcome; stdio's own
  buffer is left out. `FileBody`: bytes are numbered; TransmitFile sends all or
  nothing.
- `TokenLists`: a character is one of eight kinds.
- `WebSocket`, `WebSocketSync`: a header with its control payload is one unit of the
  wire; messages are not compressed.
- `Frame`: the long form of the length has 3 bytes instead of 8; a masked byte is
  the set of the key bytes it was combined with; for UTF-8 a byte is a class and a
  word has four.
- `Handshake`: the fields of a message other than the extension are good or bad as a
  whole.
- `Deflate`, `Inflate`: the window, the lookahead and the hash are as small as the
  relations between them allow; what a compressed stream says is a sequence of items,
  in `Inflate` with a number of bits each.
- `HuffmanTree`: five symbols and codes of at most three bits in `tree`, five codes
  of four bits over a root of two in `table`, the real numbers in `tables` with
  distances around every border.

## 3. Runs

| Run | Instance | What it shows |
|---|---|---|
| `request_buffer` | ring: 4 slots, 3 requests, 9 additions; geometry: integers of 6 bits, every SIZE and position | `PositionsInv`, `ImplementsQueue`, `MaskIsModulus` |
| `session` | 4 requests, 2 slots, 1 stray response | `RequestsKeepOrder`, `OwnResponse`, `SlotHeldIfNoStray`, `TerminatesOnlyOnOverflow`, `ImplementsLife`, `SetupSettles`, `EveryRequestAnswered` |
| `session_writes` | 2 requests | refutes `OneWriteAtATime` (section 4) |
| `rest_client` | 2 endpoints; a minute of 6 ticks, 8 slots | `LatePostsBounded`, `UsesLiveObjects`, `ClientToldWhy`, `EndsAfterStop`, `PaceSuffices` |
| `streams` | 3 operations under deadlines; ends with 2 writes of up to 2 bytes; 9 to 11 bytes through the layers | `NoWaitLeft`, `TimeoutHasOp`, `ImplementsTimed`, `BytesInOrder`, `WaitsAndVerdicts` |
| `streams_live` | a rate limit of 1 byte: 2 operations under deadlines, 6 transfers without; fairness | `SliceBound`, `StreamsSettle` |
| `buffers` | capacities of 3 to 6, up to 8 bytes fed | `ImplementsByteQueue`, `OthersImplementByteQueue`, `PositionsHold`, `StringsBehave` |
| `http` | nine messages with bodies of up to 3 bytes, good and bad; all lists of 4 or 5 characters | `SentOnce`, `ReadsAreWhole`, `WritesAreWhole`, `ReadersFindAll`, `StepsKeepPromises` |
| `http_live` | two messages, bodies of up to 2 bytes; fairness | `OperationsEnd` |
| `websocket` | two messages, two close calls and a ping against a peer that pings, sends and closes; handshakes with any timeouts | `LocksHeld`, `MessagesSurvive`, `PeersUnderstand`, `TimeoutsAreTold` |
| `websocket_live` | a quiet peer, every call once; fairness | `CallsEnd` |
| `zlib` | strings of repeats over the whole window; all streams of few items | `StreamsRoundTrip`, `CodesRoundTrip`, `NothingHeldBack` |

Bounds and why they are enough:

- `MaxPos = 9`, `W = 6` (`request_buffer`): the write position passes the end of four
  slots twice, and every size on either side of every power of two occurs.
- `MaxRequests = 4`, `mSize = 2`, `MaxStray = 1` (`session`): the ring wraps twice, is
  full with requests queued (the overflow), a slot is refilled while the request after
  it is outstanding; pairing with and without a stray. The proofs need no bound.
- `Subscribers = 2` (`rest_client`): the least number for which a round is more than
  one request. There is no other bound there.
- `BasicOps = 3` (`streams`): an operation, one that the deadline of the first may wrongly
  hit, and one in the other direction. `MaxArrived`, `AtLeast` and `MaxSent` let bytes
  come before, between and after two reads.
- `BasicOps = 2`, `MaxOps = 6` (`streams_live`): six reads and writes are enough for two of
  them to pass each other by again and again (section 4), so that one slice grants more
  than one byte beyond its limit; the part `transfers` leaves deadlines and close out to
  reach that many. The theorem has no bound.
- `buffers`: more bytes are fed than any block holds, so each wraps or is replaced.
- `Length`, `Messages`, `MaxBody` (`http`): each construct of the grammar once and twice,
  with a cut at every byte; sizes 0, 1 and 2 of pieces.
- `Caller`, `Peers`, `Scripts` (`websocket`): two of each operation that shares a lock,
  and every order of close frames.
- `Rooms`, `Repeats` (`zlib`): the output is full at every byte; the window slides.

Deadlock is checked where nothing may stop (`request_buffer`, `rest_client`, whose
processes stutter explicitly when they have ended). Elsewhere the bound on calls, or a
connection that has gone, does stop a behaviour, and the `CHECK_DEADLOCK FALSE` of the
cfg says so.

Fairness, and why the code justifies it:

- `Session`: the io_context thread polls and runs handlers as long as it is in `run()`;
  the resolver answers or fails; a deadline that is set expires; the peer answers what it
  has read. Connect and handshake are not assumed to end: `SetupSettles` shows that the
  deadline ends them. The assumption on the peer is needed because after the handshake
  nothing in the code ends the wait for an answer.
- `RestClient`: each of the three threads is scheduled; sleeps and `wait_for` end. Nothing
  is assumed of the session.
- `streams_live`: handlers that are due run, timers expire, and for the layers the next
  layer goes on. Of the peer of basic_stream nothing is assumed.
- `http_live`: a stream takes or hands over something, or fails; a loop goes on.
- `websocket_live`: the strand runs what is posted, time passes, the connection hands over
  what was sent.

For zlib no liveness is checked: a call is a loop over bounded data, and what a caller
repeats is bounded by `MaxCalls`.

## 4. Where the code and what is said of it differ

`OneWriteAtATime` states what Beast asks of the program in
`include/beast/boost/beast/http/write.hpp:673`: "The program must ensure that the
stream performs no other writes until this operation completes." `ExecRequest`
(`session.cpp:43`, `handler.cpp:38`) starts a write for every request posted; two
`AsyncRequest` calls before the first `OnWrite` make two writes outstanding. Run
`session_writes` shows the behaviour.

The following were noticed while the models were written. The models do what the code
does in each case, and the properties of the runs are stated so that they do not promise
more. No run is kept for them. Paths are below `include/beast/boost/beast/` unless they
begin with `src/`.

The program:

- `src/src/rest_client.cpp:90`. The limit is kept by a sleep of cTimeoutMs after each
  request of the subscriber, which alone uses all of it; ClientImpl posts one request a
  second on the same session on top (src/include/client_decoder_example.hpp:61), and nothing
  counts both. The constant reads "static constexpr uint64_t cBinanceLimitRequestsPerMin =
  120;" (src/include/rest_client.hpp:25); the comment at src/src/session.cpp:56 "implement
  throttle to handle api limit; 20 msg/sec" was not carried out.

Streams:

- `core/impl/basic_stream.hpp:369`. Only the last waiter starts a new slice, and whoever has
  waited may transfer one byte even if nothing remains. A read and a write that both want
  more than the limit can pass each other by: each begins its next wait, on a timer that has
  expired and so ends it at once, before the other's ends, on_timer() never finds a last
  waiter, and any number of bytes, one by one, pass within what counts as one slice. The
  documentation says "limits on the amount of bytes per second allowed for reads and writes"
  (core/rate_policy.hpp:143). `SliceBound` counts these bytes in `over` and promises no more
  than the limit besides them.
- `core/impl/basic_stream.hpp:364`. An operation whose wait for the next slice is aborted
  goes straight to upcall: it neither increments tick nor cancels the wait on its deadline.
  BOOST_VERIFY(read.timer.expires_at(never()) == 0) in reset()
  (core/impl/basic_stream.hpp:135), and the same in expires_after, asserts that no wait is
  left once nothing is pending; the run ends in a state where one is. The deadline of the
  aborted operation then closes the socket under a later one.
- `core/impl/basic_stream.hpp:364`. The same path leaves impl_type::waiting incremented, so
  that on_timer() never again sees the last waiter: no slice is started any more, waits on
  the rate timer end at once, and operations go on one byte after the other. The
  documentation says "This rate policy allows for simple individual limits on the amount of
  bytes per second allowed for reads and writes." (core/rate_policy.hpp:141).
- `_experimental/test/impl/stream.ipp:74`. The destructor calls close(), whose cancel_read()
  posts the read that waits: its handler is called with operation_aborted. The documentation
  says: "If an asynchronous read operation is pending, it will simply be discarded with no
  notification to the completion handler." (_experimental/test/stream.hpp:191).
- `_experimental/test/impl/stream.ipp:214`. A stream that is destroyed sets the state of its
  peer to eof, and the peer's reads end with error::eof; only writes see connection_reset.
  The documentation says: "the peer will see the error `net::error::connection_reset` when
  performing any reads or writes." (_experimental/test/stream.hpp:195).
- `_experimental/test/impl/stream.hpp:99`. A read that was posted because bytes came finds
  the area empty when clear() was called in between, and takes that for the end of the
  stream although both ends are open. The documentation says: "the operation is blocked or
  deferred until data is made available, or until the endpoints become disconnected."
  (_experimental/test/stream.hpp:60).
- `_experimental/test/impl/fail_count.ipp:46`. fail() counts before it compares, so that a
  counter made with 1 fails its first operation, like one made with 0. The documentation
  says: "@param n The 0-based index of the operation to fail on or after"
  (_experimental/test/fail_count.hpp:42).
- `core/detail/flat_stream.hpp:49`. When the first buffer is empty and the second larger
  than max_size, flatten() returns size 0 and write_some writes no byte and reports no
  error; what is left is the same, so that a caller that repeats the call, as the example of
  buffers_suffix does (core/buffers_suffix.hpp:47), gets no further. The documentation says:
  "The function call will block until one or more bytes of data has been written
  successfully, or until an error occurs." (core/flat_stream.hpp:287).
- `_experimental/http/impl/icy_stream.hpp:259`. A synchronous read that is served from what
  is left of the first bytes does not write the error variable: an error that an earlier
  call left there is taken for one of this read. The documentation says: "@param ec Set to
  indicate what error occurred, if any." (_experimental/http/icy_stream.hpp:180).
- `_experimental/http/impl/icy_stream.hpp:110`. A read that fails or is cancelled when one
  or two of the first three bytes have come keeps them, and the next read finds n_ # 0,
  against "BOOST_ASSERT(s_.n_ == 0);" (_experimental/http/impl/icy_stream.hpp:93); without
  assertions it goes on correctly.
- `_experimental/http/impl/icy_stream.hpp:245`. When the stream ends after one or two bytes
  that could begin "ICY", the reader is told of the end and never gets them. The
  documentation says: "This wrapper replaces the word "ICY" in the first HTTP response
  received on the connection, with "HTTP/1.1"." (_experimental/http/icy_stream.hpp:26),
  nothing else.
- `core/detect_ssl.hpp:252`. When the dynamic buffer is full before the bytes decide,
  read_size is 0 and the loop reads nothing for ever, also when the peer has closed. The
  documentation says: "The call blocks until one of the following is true: A TLS client
  opening handshake is detected, The received data is invalid for a TLS client handshake, or
  An error occurs." (core/detect_ssl.hpp:182).

Buffers and strings:

- `core/flat_buffer.hpp:487`. commit() moves out_ and leaves last_ where it is, so that a
  second commit() appends the remaining bytes. The documentation says of commit(): "The
  remainder of the writable bytes are discarded." (core/flat_buffer.hpp:469). static_buffer
  does discard them.
- `core/impl/flat_buffer.hpp:245`. Assignment from a buffer with another allocator type
  copies all its bytes and keeps max_: size() may exceed max_size(), and the next prepare()
  throws. The documentation says of max_size(): "Return the maximum number of bytes, both
  readable and writable, that can ever be held." (core/flat_buffer.hpp:409).
- `core/impl/flat_buffer.hpp:347`. A block that has to grow is doubled, and alloc() throws
  if the doubled size exceeds what the allocator can give, even if size() + n does not. The
  documentation says prepare() throws "if `size() + n` exceeds either `max_size()` or the
  allocator's maximum allocation size" (core/flat_buffer.hpp:456).
- `core/impl/multi_buffer.hpp:828`. If one block holds all readable bytes, shrink_to_fit()
  cuts it, sets out_ to list_.end() and leaves out_pos_ and out_end_ as they were; a later
  prepare() appends a block and commit() starts out_pos_ bytes into it. debug_check() says
  BOOST_ASSERT(out_pos_ == 0) for out_ == list_.end() (core/impl/multi_buffer.hpp:1266).
  Likewise the blocks behind out_ are freed and out_end_ still refers to them, against
  BOOST_ASSERT(out_end_ <= back.size()) (:1274).
- `core/impl/multi_buffer.hpp:1062`. copy_from() takes over max_ of the other buffer and
  keeps its own blocks, which may be larger: prepare() then finds total > max_, against
  BOOST_ASSERT(total <= max_) (core/impl/multi_buffer.hpp:909), and computes max_ - total in
  unsigned arithmetic.
- `core/impl/multi_buffer.hpp:1080`. operator=(&&) only clears its own buffer, which keeps
  the blocks, and move assignment of the intrusive list swaps: the buffer moved from gets
  those blocks with out_ behind them, and takes them for its readable bytes as soon as it is
  used again. The documentation says "the moved-from object will have zero capacity, zero
  readable bytes, and zero writable bytes" (core/multi_buffer.hpp:257).
- `core/impl/buffers_adaptor.hpp:350`. consume() never gives room back to prepare(): after
  two bytes in and out of a sequence of six, prepare(5) throws. The documentation says
  prepare() throws "if `size() + n` exceeds `max_size()`" (core/buffers_adaptor.hpp:168).
- `core/impl/buffers_adaptor.hpp:321`. prepare() moves end_ and out_end_ before it knows
  whether n bytes fit; a commit() after it takes bytes that no successful prepare()
  returned. The documentation says of prepare(): "Strong guarantee."
  (core/buffers_adaptor.hpp:172).
- `core/impl/static_string.hpp:311`. insert() moves what is behind the place and then copies
  from the caller's pointer: when that points into the string itself it is read after the
  move. static_string.hpp:29 says "These objects behave like `std::string` except that the
  storage is not dynamically allocated but rather fixed in size", and std::string inserts
  what the range held before.
- `core/impl/static_string.hpp:446`. append(str, pos) throws std::out_of_range for pos ==
  str.size() with the text "pos > str.size()" (impl/static_string.hpp:449); std::string,
  substr() and insert() of this class take it for the empty part, and static_string.hpp:29
  says "These objects behave like `std::string`".
- `core/detail/static_string.hpp:87`. x = -x of the least number of a signed type is
  negative again (or undefined), the loop does not run and only "-" is written.
  static_string.hpp:1089 says "Returns a static string representing an integer as a
  decimal", of a size large enough for any integer of the type.

HTTP, fields and files:

- `http/impl/basic_parser.ipp:149`. put() compares header_limit_ with the bytes of the start
  line and then, from zero, with those of the fields in the buffer; nothing is subtracted
  for what has been parsed, so that a header longer than the limit is accepted. The
  documentation says: "Set a limit on the total size of the header." and "This function sets
  the maximum allowed size of the header including all field name, value, and delimiter
  characters and also including the CRLF sequences" (http/basic_parser.hpp:303).
- `http/impl/basic_parser.ipp:597`. parse_body_to_eof() subtracts all bytes in the buffer
  from body_limit_ before the reader says how many it takes; what it leaves is subtracted
  again by the next put(), and a body within the limit is refused. The documentation says
  the parse fails "If a sufficient number of body payload octets are presented to the parser
  to exceed the configured limit" (http/basic_parser.hpp:277).
- `http/impl/basic_parser.ipp:702`. The assertion BOOST_ASSERT(n >= 5) counts the line end
  of a chunk before. If the last chunk is the first one, three bytes that end its size line
  set flagFinalChunk, and a fourth one makes put() come back with n = 4: a debug build
  aborts on a well-formed message. The assertion (http/impl/basic_parser.ipp:702) says "n >=
  5".
- `http/impl/serializer.hpp:230`. next() makes a chunk of every piece get() returns, also of
  an empty one: a buffer_body with data and size 0 (or a string_body that is empty, in a
  chunked message) sends the chunk that ends the body, and what follows is taken for the
  trailer or the next message. The documentation of the size of a chunk says: "The value
  must be greater than zero." (http/chunk_encode.hpp:125).
- `http/impl/serializer.hpp:315`. consume() looks at split_ when the header has left, not at
  what next() has shown. If write_header() was cut off inside of the header and write() goes
  on, which sets split_ to false, the message is complete with the header; the body is never
  asked for. The documentation says: "The operation is complete when all octets
  corresponding to the serialized representation of the message have been successfully
  retrieved." (http/serializer.hpp:284).
- `http/impl/write.hpp:627`. write_header() writes with net::write and returns on an error
  without consume(), although a part of the header may have been written, and it counts
  those bytes for the caller. A caller that goes on after a timeout or would_block sends
  them again; async_write_header consumes each part. The documentation of consume() says:
  "This function should be called after one or more octets contained in the buffers provided
  in the prior call to next have been used." (http/serializer.hpp:324).
- `http/detail/rfc7230.ipp:304`. param_iter::increment() takes a parameter without a value
  only when a semicolon or the end of the string follows it; a comma is an error. In a list
  like "a;b, c" the parameter b is lost, and ext_list then meets the semicolon where it
  wants a comma and ends: c is never given. The grammar in the documentation allows both:
  "ext-list    = *( \",\" OWS ) ext *( OWS \",\" [ OWS ext ] )" (http/rfc7230.hpp:116) with
  "param       = token OWS [ \"=\" OWS ( token / quoted-string ) ]" (http/rfc7230.hpp:119).
- `http/impl/rfc7230.ipp:103`. increment() clears the name of the element but not its
  parameters, and returns before it sets them when the token is the end of the string: in
  "a;b=c,d" the extension d is given with the parameters of a. The documentation says: "The
  first element of the pair is the extension token, and the second element of the pair is an
  iterable container holding the extension's name/value parameters." (http/rfc7230.hpp:150).
- `http/detail/rfc7230.ipp:305`. An invalid character behind the name of a parameter, or
  behind its equals sign, makes the iterator drop the parameter: ";a=?" gives nothing, while
  ";a=" gives a. The documentation says: "the behavior of the container will be as if a
  string containing only characters up to but excluding the first invalid character was used
  to construct the list." (http/rfc7230.hpp:28).
- `http/impl/fields.hpp:1161`. copy_assign() clears the container before it copies, and
  operator=(const&) does not ask whether the two are the same, as operator=(&&) does: after
  f = f all fields, the method and the target are gone. The documentation says only "Copy
  assignment." (http/fields.hpp:266), which promises the value of the other container.
- `http/impl/message.hpp:393`. prepare_payload() compares status_class(this->result()), a
  cast of the status 100 to 199 to the enumeration of the classes, with
  status_class::informational, which is 1; need_eof() calls to_status_class(). So a response
  1xx with a body is accepted, against the comment of the branch, "The response body MUST be
  empty for this case" (http/impl/message.hpp:397). The peer takes the body for the next
  message.
- `http/impl/message.hpp:327`. content_length() takes chunked out of the Transfer-Encoding
  and keeps the other codings, so that prepare_payload() of a message with
  Transfer-Encoding: gzip makes one with both fields. The documentation says it will "adjust
  the Content-Length and Transfer-Encoding field values based on the properties of the body"
  (http/message.hpp:843); the library's parser refuses the result as "conflicting field"
  (http/impl/basic_parser.ipp:865).
- `http/impl/fields.hpp:811`. chunked() goes through the field with token_list, which ends
  at the first parameter: with Transfer-Encoding: gzip;q=1, chunked it is false, the
  serializer writes the body without chunks, and chunked(true) adds the token again at each
  call. The documentation says it "Returns `true` if the chunked Transfer-Encoding is
  specified" (http/message.hpp:721).
- `core/impl/file_posix.ipp:194`. posix_fadvise returns its error and leaves errno alone,
  but open() takes the error from errno: a pipe, for which it fails with ESPIPE, is closed
  again and open() may report success although is_open() is false. The documentation says:
  "@param ec Set to the error, if any occurred" (core/file_posix.hpp:123).
- `core/impl/file_posix.ipp:297`. read() and write() return without ec = {}, so that an
  error of an earlier call that is still in the caller's error_code looks like one of this
  call; basic_file_body::writer::get then drops the bytes it has read. The file body says of
  the convention: "The error_code specification requires that we either set the error to
  some value, or set it to indicate no error." (http/basic_file_body.hpp:484).
- `core/impl/file_stdio.ipp:298`. ferror() stays set after an error until clearerr(), which
  is never called: each later read or write that works returns 0 and an old errno, and what
  was read is lost. The documentation says: "@param ec Set to the error, if any occurred"
  (core/file_stdio.hpp:145).
- `core/impl/file_stdio.ipp:202`. append_existing opens the file with "rb+" to see that it
  exists, closes it and opens it with "ab", which creates it if it was removed in between.
  The documentation says: "If the file does not exist, an error is generated."
  (core/file_base.hpp:93).
- `core/impl/file_posix.ipp:168`. append opens an existing file with O_APPEND without
  O_TRUNC ("ab", OPEN_ALWAYS in the other classes). The documentation says: "If the file
  exists, it is truncated to zero size upon opening." (core/file_base.hpp:83).
- `core/impl/file_win32.ipp:212`. file_win32 moves to the end of the file when it opens it,
  and nothing moves there again after a seek(), or for a handle given to native_handle().
  The documentation says: "The current file position shall be set to the end of the file
  prior to each write." (core/file_base.hpp:91).
- `core/impl/file_stdio.ipp:142`. write_new is fopen() with "wbx", for writing only; the
  other classes open for reading and writing. The documentation says: "This mode permits
  random-access reading and writing for the specified file." (core/file_base.hpp:62).
- `core/impl/file_win32.ipp:46`. set_file_pointer_ex takes a low word of 0xffffffff for a
  failure without asking GetLastError(), which is NO_ERROR: pos() answers 0 without an error
  at 2^32-1. The documentation says of the result: "The offset in bytes from the beginning
  of the file" (core/file_win32.hpp:140).
- `core/impl/file_win32.ipp:212`. For the same reason open() with append closes a file of
  2^32-1 bytes again and sets ec to GetLastError(), which is no error. The documentation
  says: "@param ec Set to the error, if any occurred" (core/file_win32.hpp:120).
- `http/impl/file_body_win32.hpp:478`. The completion of async_write_some takes every part
  that is not the header for one of TransmitFile, also one of a chunked body: it adds the
  bytes to pos_, which get() has moved already, and calls sr.next() with null_lambda while
  the serializer has more to show. The code asserts "BOOST_ASSERT(w.pos_ <= w.body_.last_);"
  (http/impl/file_body_win32.hpp:480) and in null_lambda "BOOST_ASSERT(false);" (:337). The
  function without a handler returns before that.

WebSocket:

- `websocket/impl/read.hpp:617`. When a read has to fail the connection (an invalid frame or
  payload) while async_close is writing its close frame, it waits for the write block and
  keeps the read block; async_close has the write block and, after its frame has left, waits
  for the read block. No operation of the socket is pending, so neither the timeout, which
  only closes the socket, nor the peer resumes them: neither handler is ever called.
  async_close looks for the close frame of the peer only (close.hpp:130). The documentation
  of handshake_timeout says: "if any of the applicable operations takes longer than this
  amount of time, the operation will be canceled and a timeout error delivered to the
  completion handler." (websocket/stream_base.hpp:95).
- `websocket/impl/read.hpp:126`. The timeout may expire during the teardown of async_close,
  which does not call check_stop_now(); timed_out is still set when the suspended read is
  resumed, and the read is told of a timeout. The assertion there says: "BOOST_ASSERT(ec ==
  net::error::operation_aborted);" (websocket/impl/read.hpp:126).
- `websocket/impl/close.hpp:244`. If the time is up during the teardown, async_close reports
  the error of the closed socket; the timeout is left for whatever operation comes next. The
  documentation of handshake_timeout says: "the operation will be canceled and a timeout
  error delivered to the completion handler." (websocket/stream_base.hpp:96).
- `websocket/impl/read.hpp:643`. A read that was posted for the control callback does not
  call check_stop_now() when it runs again. If the time was up meanwhile, it changes the
  status from closed to closing, marks the close frame as written and fails to send it; the
  stream stays in closing, and the first async_close of the application fails the assertion
  "BOOST_ASSERT(! impl.wr_close);" (websocket/impl/close.hpp:112).
- `websocket/impl/stream_impl.hpp:417`. Neither reset() (lines 189-211) nor open() sets
  idle_counter back, so a stream that sent an idle ping and then failed or timed out enters
  its next handshake with a counter of 1. stream_impl.hpp:417 asserts
  "BOOST_ASSERT(idle_counter == 0);" there.
- `websocket/impl/stream_impl.hpp:339`. A handshake that is declined leaves its timer set
  and its status at handshake; reset() clears neither timed_out nor a handler that is
  queued, so the next handshake is told of a timeout at its first step. stream_base.hpp:95
  says "if any of the applicable operations takes longer than this amount of time, the
  operation will be canceled and a timeout error delivered to the completion handler."
- `websocket/detail/impl_base.hpp:264`. open_pmd() leaves pmd_ as it is when the extension
  was not agreed, and only close() resets it; a stream that failed or timed out keeps it,
  and compresses for a peer that did not agree. impl_base.hpp:54 says "pmd settings or
  nullptr" and impl_base.hpp:75 "pmd not negotiated" of a stream without it.
- `websocket/impl/stream_impl.hpp:564`. open() cancels the handshake's wait, but not a
  handler that is queued already; it then finds the status open and times the new connection
  out at once. stream_base.hpp:107-108 says "the behavior of the stream when no data is
  received for the timeout interval".
- `websocket/impl/stream_impl.hpp:361`. ec_delivered is never set back to false, so after an
  error in an earlier connection check_stop_now() tells operation_aborted of the next error
  and leaves the status open. stream.hpp:254 says "The stream is open after a successful
  handshake, and when no error has occurred."
- `websocket/impl/close.hpp:355`. The synchronous close() does not return when its frame is
  written: it reads until the close frame of the peer, discards every message on the way and
  tears the connection down; a read after it is aborted. The documentation says: "The call
  blocks until one of the following conditions is true: The close frame is written"
  (websocket/stream.hpp:1485) and "the program should continue reading message data until an
  error occurs. A read returning error::closed indicates a successful connection closure."
  (websocket/stream.hpp:1495).
- `websocket/impl/ping.hpp:289`. ping() and pong() give the error_code of the caller to
  check_stop_now() without clearing it first, as close(), read_some() and write_some() do.
  An error it holds from something else is taken for one of the stream: nothing is sent, and
  the stream is failed for good. The documentation says of ec: "Set to indicate what error
  occurred, if any." (websocket/stream.hpp:1618).
- `websocket/impl/write.hpp:723`. With a mask or auto_fragment the bytes of a piece are
  counted before the error of its write is looked at: a write_some() that fails at once
  reports bytes none of which has left. The documentation says it returns "The number of
  bytes sent from the buffers." (websocket/stream.hpp:2474).

zlib:

- `zlib/detail/deflate_stream.ipp:350`. doParams() changes level_ and strategy_ whether or
  not doWrite(Flush::block) could write everything: with room for one byte only it returns
  without an error while the input is half compressed, and the next function knows nothing
  of the byte that f_slow() kept back (match_available_). deflate_stream.hpp:298 says "If
  the compression level is changed, the input available so far is compressed with the old
  level (and may be flushed)" and asks only that "`zs.avail_out` must be non-zero" (:305).
- `zlib/detail/deflate_stream.ipp:1730`. f_slow() leaves prev_length_ 0 after a match,
  f_fast() never sets it, and nothing in doParams() does: after a change from level 4 to
  level 1 longest_match() compares scan[best_len-1] with best_len 0. deflate_stream.ipp:1704
  says "IN assertions: cur_match is the head of the hash chain for the current string
  (strstart) and its distance is <= max_dist, and prev_length >= 1".
- `zlib/detail/inflate_stream.ipp:372`. The slow path demands lenbits_ bits (9 for the fixed
  codes) before it looks up a code, also when the code has fewer: if the end-of-block code
  of the last block is in the last bits of the input, write() waits for input that does not
  exist. inflate_stream.hpp:197 says "`error::end_of_stream` if the end of the compressed
  data has been reached and all uncompressed output has been produced".
- `zlib/detail/inflate_stream.ipp:1108`. fill(9) leaves up to 16 bits in the reservoir, and
  a literal with a code of one bit for which there is no room keeps 15 of them for the next
  call; a short end-of-block code then lets bi_.rewind() go back before that call's input,
  used() is negative and total_in too small by a byte. inflate_stream.ipp:1107 says "return
  unused bytes (on entry, bits < 8, so in won't go too far back)", :942 "state->bits_ < 8".
- `zlib/detail/inflate_stream.ipp:109`. With Flush::block write() stops with up to nine bits
  in the reservoir, as fill() takes what a whole lookup needs. inflate_stream.hpp:151-153
  says "except when bit 7 of `zs.data_type` is set, in which case the number of unused bits
  will be less than eight".
- `zlib/detail/inflate_stream.ipp:51`. doClear() is empty. inflate_stream.hpp:97 says "Put
  the stream in a newly constructed state. All dynamically allocated memory is
  de-allocated.", and impl_base::do_context_takeover_read() relies on it.
- `zlib/detail/inflate_stream.ipp:118`. An error returns without done(): what was written to
  the output in this call is not reported. inflate_stream.hpp:121 says "Provide more output
  starting at `zs.next_out` and update `zs.next_out` and `zs.avail_out` accordingly".
- `zlib/detail/deflate_stream.ipp:893`. When symbol 1 is the only one that occurs, max_code
  is 1 and the code that is forced is given to symbol 2. The comment at
  deflate_stream.ipp:899 says "node is 0 or 1 so it does not have extra bits"; symbol 2 has
  none either, so the lengths are still right.

## 5. Proofs

All theorems hold for every value of the constants that satisfies the named
assumptions: `RingAssumption` (at least one slot; the empty slot is not a request),
`BasicStreamAssumption` (a limit and buffers of at least one byte),
`SessionAssumption` (requests are the numbers 1 .. MaxRequests, zero is the empty
slot), `SubscribersAssumption` (a natural number), `RateAssumption`,
`TestStreamAssumption`, `FlatStreamAssumption` (buffers are sequences of sizes), `IcyStreamAssumption`, `BufferedReadAssumption`,
`DetectSslAssumption`, `StaticBufferAssumption`, `FlatBufferAssumption`, `WriteOpsAssumption` (the body has a
last piece, and the caller owes none behind it; operator<< takes a message),
`HttpReadAssumption` (a message has bytes; the limits are natural numbers). TLC evaluates
each of them in a run. Hypotheses of single theorems (`RoomForAnswers`, `Unlimited`, `NoErrorInHeader`,
`NoControlCallback`) are explained with them.

- **RequestBuffer** (`RequestBufferProofs`, lemmas in `RequestRing`):
  `TypeCorrect`, `PositionsCorrect`, `RefinesQueue`. The invariant is the type and the
  two bounds on the positions. The refinement rests on two facts about the ring: adding
  appends to the window between the positions, because two positions closer than `mSize`
  never share a slot; dropping takes its head.
- **Session** (`SessionProofs`). `IInv` is `TypeOK` and, each inductive only together
  with the ones before it: `SetupInv`, resolve, connect and handshake follow one another
  and nothing else happens before they have ended, after which there is no deadline;
  `ReadInv`, one read is outstanding or one OnRead queued; `OrderInv`, request n is
  called back, in slot n - 1, or queued, in order; `SentInv`, the peer knows a prefix of
  the ring's requests, the writes are the rest; `AnswerInv` (no strays), requests called
  back, in OnRead, inbound, at the peer are consecutive stretches of the numbers, which
  is what makes pairing by order right; `HeldInv` (no strays), OnWrite of a request is
  queued before the OnRead of its response, which keeps its slot; and
  `TerminatesOnlyOnOverflow`. From it follow `KeepsOrder`, `GivesOwnResponse`,
  `ReadsOneAtATime`, `HoldsSlots`, `ReadsAreUntimed`, `WritesWaitForHandshake`,
  `OverflowTakesMany` and the refinement `RefinesLife`.
- **RestClient** (`RestClientProofs`): `FewLatePosts`, `NoUseAfterDestruction`,
  `ClientLearnsWhy`. The bound on late posts is not inductive: a thread past its checks
  may post. `LateInv` says what it may have posted at each place of its loop, and
  `ReasonInv` that exactly one of the two flags is the reason of a stop and stays set. A
  thread that has posted late and reads the other flag first finds it unset; then the
  second one must be set, so that no thread gets through its checks twice after the stop.
  `NoUseAfterDestruction` rests on the futures being the last to be constructed.
  `PaceIsEnough`, under `RoomForAnswers`: what two threads post while the server takes to
  answer, and in the tick around it, fits the ring. For the program's 4096 slots that is
  so of any server that answers within 2729 ticks of half a second, about 22 minutes; the
  run has 8 slots and 4 ticks. `PaceInv` says that the subscriber's requests of the last
  minute are at least a tick apart, and that of the requests in the ring no more are as
  young as the i-th than the two threads post in that time; so a full ring has a
  request that is too old, and the server is silent.
- **static_buffer** (`BufferProofs`): `TypeCorrect`, `CapacityHolds`, `Implements`,
  for every capacity.
- **flat_buffer**, the buffer of `Handler` (`BufferProofs`): `FlatPositions` and
  `FlatImplements`, for every `max_size()` and whatever an allocator has. `FlatInv` adds to
  the order of the pointers that what `prepare()` handed out keeps within `max_size()`;
  otherwise `commit()`, which takes it, could pass the limit that only `prepare()` looks
  at. The refinement of `ByteQueue` is one lemma per call: a move to the front, a new
  block and `shrink_to_fit()` are steps in which no byte changes.
- **basic_stream** (`StreamProofs`), first under `Unlimited`: no rate is limited, as with
  `unlimited_rate_policy`, the policy of `tcp_stream` and so of this program. `IInv` is
  `TypeOK` and: `HandlersInv`, a direction has at most one handler that resumes its
  operation, at most one deadline handler with the tick of its latest operation, and none
  with a later tick; `DeadlineInv`, a deadline has at most one wait, of the latest
  operation, and a wait, a handler that will still find its operation and a timeout exclude
  one another; `PendingInv`, an operation that waits has set its pending flag, and a connect
  has both. So an operation that ends, or never had a deadline, leaves nothing that could
  hit the next one: `LeavesNoWait`, `TimesOutItsOwn`, and the refinement
  `StreamRefinesTimed`, one step lemma per action. With a limited rate `NoWaitLeft` is false
  (section 4). Then without a hypothesis, for limits of any size, cancelled waits included:
  `SlicesAreBounded`. `SliceBound` alone is not inductive, since a transfer counts when it
  ends and was granted when it began. `PaceInv` therefore says that an operation is in one
  place, at the socket, on the rate timer or in one handler that is due (`InOnePlace`), and
  that what a direction has transferred in the slice is within the limit and the grants
  both with what remains of the slice and with what its operation at the socket may still
  take (`WithinLimit`). And `TimerAssertions`, the assertions of `on_timer()`: `TurnInv`
  says that `waiting` counts at least one for each of a read, a write and a slice that is on
  the rate timer or whose handler is due; a cancelled wait leaves the count too high, never
  too low.
- **test::stream** (`StreamProofs`): `EndsKeepOrder`, `NoReadIsLeft`, `ReadIsInOnePlace`,
  `FailsFromThereOn`. `EndInv` is `EndTypes`; `Places`, a read is in its area or has one
  handler due, and one in the area has found no bytes and no end; and `Counts`, what `i_` of
  the fail_count says of the results so far. `Places` is needed as a whole, since whoever
  closes or fills an area has to know that what it posts is not posted already. What
  `clear()` drops is taken out of what has arrived, so that the order holds with it too.
- **flat_stream** (`StreamProofs`): `FlatKeepsOrder` and `FlatHandsOne`, for buffers of any
  number and size. `FlatInv` adds to the order that what an asynchronous write copied is
  still the front of what the caller has to write, and no more than the buffers it takes.
  The step needs that `buffers_suffix` drops the bytes the next layer took and no other
  (`SuffixKeeps`), whichever buffers are empty, and that the buffers one write takes are
  within `max_size` (`TakenFits`). Both rest on what flattening a sequence of sequences
  does, which is recursive: it is shown for the least number of buffers that could be
  otherwise (`LeastNumber`), which needs no theorem with an operator parameter.
- **icy_stream** (`StreamProofs`): `IcyKeepsOrder`, for any bytes of the peer. `IcyInv`
  distinguishes `Keeping`, fewer than three bytes have come, all of "ICY", and all are in
  `buf_`; `Replaced`; and `Passed`, one of the first three was another one. The peer may close
  at any time, which changes what it sends in all, but none of the three.
- **buffered_read_stream** (`StreamProofs`): `BufferKeepsOrder`. `LayerInv` adds to the order
  that a read of the next layer has found the buffer empty; otherwise bytes read past the
  buffer would overtake those in it.
- **detect_ssl and read** (`StreamProofs`): `VerdictIsFinal`, `WaitsForTheVerdict`,
  `ReadMeetsCondition`. `DetectInv` says at each place of the loops what has been found so
  far; it rests on `detect_size` keeping within `max_size()`, which what a read asks for
  respects.
- **All streams** (`StreamProofs`, about `AllStreams`): `AllKeepOrder` and `AllWaitAndAnswer`,
  the invariants `BytesInOrder` and `WaitsAndVerdicts` of run `streams`. A step of one stream
  leaves the others at rest, so a run of `AllStreams` is a run of each (`RunOfEach`), and the
  theorems about the single streams combine.
- **websocket::stream** (`WebSocketProofs`), for any peer, messages, settings and calls:
  `MutexesHeld`, `MutexAssertions`, `WritesAlone`. `LockInv` says for each of `wr_block` and
  `rd_block` who has it from the place of each operation, and that an operation that waits
  for `rd_block` waits for the other one: `LocksHeld` alone is not inductive, since it does
  not say that a mutex is free, or has not changed hands, when an operation is resumed. A
  handler is a sequence of a few kinds of steps (take a mutex or wait for it; give it up and
  resume whoever waits; move on; fail), with a lemma for each of them, and what a handler
  does to the mutexes follows from these.

  Under `NoControlCallback` (no control callback is set, as is the default) also `Asserted`,
  all the assertions of the code that the model has, and `ReadsAndWritesAlone`, the whole of
  `OneAtATime`; a run checks both as conjuncts of `MessagesSurvive`. They need to know what a
  stop means for whom, which `StopInv` says: an operation that has looked at `status` and
  goes on has found the stream open, since between that look and the next suspension nobody
  else runs; `async_close` ends only on a stopped stream; the close frame was sent by the
  operation that is about to tear down, or the stream has stopped, and likewise received; and
  a message that is done has no bytes left. `StopInv` contains that at most one operation
  is between two suspensions. The hypothesis is needed: with a callback a read suspends
  itself between the look and what it does then, and the assertion in `close.hpp:112` does
  fail (section 4, `websocket/impl/read.hpp:643`).
- **http write functions** (`HttpProofs`), for any body, mixture of calls, pieces and
  errors: `TellsWhatWasTaken` and, under `NoErrorInHeader`, `SendsOnce`. `CountInv` relates
  what the stream took since the call to `bytes_transferred_`, and `SentInv` to what the
  serializer was told to consume; both differ in the middle of `net::write`. The hypothesis
  says that no error comes there: the blocking `write_header` does not consume what
  `net::write` had written before an error, so a second call would send it again. It
  holds where nobody calls it, as in this program and in the run.
- **http::basic_parser and http::read** (`HttpProofs`): `ReadPositions`, `ReadAssertions`,
  `BodyLimitHolds`, `GivesOnce`, for any bytes, which need not be a message, arriving and
  ending anywhere, for all limits and whatever the caller reads with. `ReadInv` consists of
  `PlaceInv`, between two calls of `put()` nothing is parsed that is still in the buffer,
  and the loop over a trailer has its end in sight; `SkipInv` and `ChunkInv`, the search for
  the end of a header, a chunk size or a trailer goes on before the bytes that come next,
  and behind a last chunk that is remembered; `LimitInv`, what was delivered and what is
  `Promised`, that is announced or still free to be announced, is together within
  `body_limit()`, so that no chunk can take it twice; `ToldInv`; and `Ascending`.
  `AssertionsHold` needs the first three, `BodyWithinLimit` the fourth. One lemma per case
  of `put()` and per step of the operation. That the limits are kept is so for every input;
  that a body is delivered as it was sent, a message is whole when it is complete, and
  nothing well-formed is refused (`BodyAsSent`, `CompleteIsWhole`, `NoFalseAlarm`) depends on
  the grammar of messages, which only the messages of `MCHttp` follow, and stays with TLC.

Only model-checked: liveness under fairness (`SetupSettles`, `EveryRequestAnswered`,
`EndsAfterStop`, `StreamsSettle`, `OperationsEnd`, `CallsEnd`), which is beyond the prover;
`MaskIsModulus`, whose definitions are recursive and bitwise; of websocket::stream
the assertions with a control callback, the frames, messages, pongs and close codes; properties
that compare with a recursive reference, where induction over data would be needed
(`StreamsRoundTrip`, `CodesRoundTrip`, the lists and fields); and the
components section 5 does not name.

## 6. Not modelled

- `Session::OnShutdown`: nothing calls or registers it.
- Behaviour without a property: printing, `operator<<`, `helper::Fail`, the fields of the
  request other than its target, `mHandlerRequestStop`, `mTarget`, `mTasks`,
  `cMaxAsyncRequests` (none of them is used); which Decode function `dispatch` reaches.
- When the server name cannot be set, `Run()` returns and the session never becomes ready
  nor fails (`session.cpp:28`). `Session` has the step; nothing but SIGINT ends what follows.
- An exception of a callback leaves `mIoc.run()` with no flag set: the destructor of
  `clientFuture` then waits for a client that never ends. `RestClient` has the behaviour
  (`CallbackThrows`, after which `main` stays in `destroy`), and `EndsAfterStop` is stated
  from the stop of the io_context on.
- A server that stays connected and silent is excluded by the fairness of `Session`.
- Of Beast: ssl_stream, async_base and the binding of handlers, saved_handler, string and
  error types, allocation, `upper_bound` and `tuning` of deflate_stream, iterators and element
  access without state, moving and reconnecting a test::stream.
