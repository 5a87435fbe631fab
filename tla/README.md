# TLA+ models of the TypeDB drivers

This directory models the Rust driver of TypeDB: its transactions, its routing of
operations to the servers of a cluster, its lifecycle, import and export, the
requests of a connection, the data that passes through it, the C interface
that the C, C++, C#, Java and Python drivers are built on, and the separate HTTP
driver in TypeScript. `PROJECT.json` maps
every definition to the lines it models, and lists the runs, the mutants, the
findings, the hazards and the theorems.

## The system

A user thread calls the public API (`rust/src/driver.rs`, `transaction.rs`,
`database/`, `user/`), directly or through the C interface. Every operation
except those inside a transaction goes through `ServerManager::execute`, which
picks a server and hands over a connection. Opening a transaction, an import or
an export returns a bidirectional gRPC stream with workers of its own.

| component | state | operations | modules |
|---|---|---|---|
| transaction transmitter, `transmitter/transaction.rs`; transaction stream | open flag, error, request queue, batch buffer, map of response sinks, registered callbacks | `single`, `stream`, `on_close`, `close`, drop; dispatcher thread, listener task | `TransactionTransmitter`, `AnswerContract` |
| server manager, `server_manager.rs` | cache of replicas, map of connections, each behind a lock | `new`, `execute`, `fetch_servers`, search for the primary | `ServerManager`, `ServerCall` |
| driver, server connection and background runtime, `driver.rs`, `server_connection.rs`, `runtime.rs` | open flag, worker thread, callback handler thread, shutdown senders per connection | open, `transaction`, `force_close`, `run_blocking`, `spawn`, drop | `DriverLifecycle` |
| RPC transmitter and stub, `rpc.rs`, `stub.rs`; users and databases | token shared by all clones of the stub | unary requests with `request_timeout`, token renewal | `RpcStub` |
| import and export, `import.rs`, `export.rs`, `database.rs`, `database_manager.rs`, `migration.rs` | queues, early result, shutdown guard, files | `import_from_file`, `export_to_file`, the reader of import files | `DatabaseImport`, `DatabaseExport`, `ImportFileReader` |
| values, `value.rs` | none | arithmetic, printing and parsing of decimals and durations | `Values` |
| concepts, answers, given rows and their messages, `concept/`, `answer/`, `given.rs`, `proto/concept.rs` | rows being built | decoding, typed accessors, JSON, encoding | `Concepts` |
| analysed queries, `analyze/`, `proto/analyze.rs`, `c/src/analyze.rs` | none | decoding, accessors | `AnalyzedQueries` |
| C interface, `c/src`, `typedb_driver.i` | objects on the native heap, last error of the thread | some 250 extern functions | `CInterface`, `AnalyzedQueries`, `Concepts` |
| HTTP driver, `http-ts` | current origin, sign-in token | one request per call: sign-in, redirect, fallback, retry | `HttpDriver` |

What is hard here, and what makes each part correct:

* *Transaction.* Client threads, the dispatcher thread, the listener task, the
  callback handler thread and the server run concurrently. Every answer the
  server produced must reach its caller once and in order, or the caller must
  see a failure; nobody may wait for ever; `close()` must return after the
  callbacks; dropping must release the dispatcher; all of this also when the
  stream breaks or the driver is forced closed at any step.
* *Server manager.* The cache is stale whenever the primary moves, and several
  operations read and overwrite it between their awaits. An operation must not
  be run again once answered, must give up after its budget, and must find the
  primary of a settled cluster from any outdated cache.
* *Driver lifecycle.* `force_close` races with transactions being opened,
  connections being replaced and other `force_close` calls; requests in flight
  must return, and the last drop, which joins a thread, must not hang.
* *Import and export.* The server answers before it was asked to, an attempt is
  repeated after half of it was done, the driver goes away. What returns `Ok`
  must be complete; what fails must leave no thread and no file.
* *Requests.* A token shared by concurrent requests expires and is renewed by
  several of them at once; a request must not be carried out twice.
* *Data.* Fractions carry across a machine word; texts must read back; malformed
  messages must be refused before code that calls a case unreachable sees them.
* *C interface.* Ownership: for every function, what the bindings give up must be
  what the function takes, on success and on failure.
* *HTTP driver.* Every request reads and moves one shared origin and one shared token
  between its awaits. Each must find the primary, return what arrived, and come to an
  end whatever the others do.

## Plan

1. Transaction transmitter with its answer contract. Done, eight theorems.
2. Server manager with its call contract. Done, three theorems.
3. Driver lifecycle. Done, three theorems.
4. Import, export, reader of import files, requests of a connection. Done, seven
   theorems: one about imports, two about exports, one about the reader and three about
   requests.
5. Values, concepts, analysed queries, C interface. Done, nine theorems: two about
   decimals and durations, four about concepts, one about walks, two about handles and
   given rows.
6. HTTP driver. Done, two theorems.
7. Left: re-entrant use of a transaction from its callbacks.
8. Proofs left: every invariant of a passing run has its theorem; what remains is liveness,
   out of the prover's reach. (`SettledCallSucceeds` for concurrent callers is not a proof
   left: it does not hold, see Runs.)

## Modules

### TransactionTransmitter, AnswerContract, MCTransaction

One transaction. The variables are the fields of `TransactionTransmitter` and
`ResponseCollector` (`is_open`, `error`, `callbacks`, `on_close`, the channels),
the program counters of dispatcher and listener, and per request, callback and
`close()` call its progress. `got`, `sent` and `before` are history: which items
were read and sent, and which callbacks were recorded when a `close()` began.

| code | actions |
|---|---|
| `single`, `stream`, `process_response` | `Submit`, `Read`, `ReadEnd`, `Abandon` |
| `sync_dispatch_loop` | `DispatchCheck`, `DispatchTake`, `DispatchFlush`, `DispatchShutdown` |
| `async_listen_loop`, `ResponseCollector` | `ListenMessage`, `ListenRegister`, `ListenEnd`, `ListenStoreError`, `ListenDrain`, `ListenInvoke`, `ListenReply`, `ListenFinish` |
| `on_close`, `close`, drop | `OnClose`, `CloseBegin`, `CloseSignal`, `CloseReturn`, `CloseCancel`, `Drop` |
| `BackgroundRuntime`, `ServerConnection::force_close` | `HandlerRun`, `ForceCloseSignal`, `RuntimeForceClose`, `WorkerStop` |
| server and stream, external | `ServerReceive`, `ServerReply`, `ServerEnd`, `StreamBreaks` |

`AnswerContract` is what a request promises its caller. It is an abstract machine
of numbers of items produced and read; `AnswersKept` says that the transmitter
implements it.

Abstractions. A request is a name with an encoded length; an item is a kind and a
number. The check of the flag and the send in `Submit` are one step, as are
registering a request and flushing the buffer in `DispatchTake`, and the exchange
of the flag and the sending of the registration in `CloseBegin`: between the two
halves no other actor can see a difference the properties speak of. Where the
dispatcher ends, its queue and its share of the map are dropped in the same step.
A stream state that is missing removes the sink silently, which looks like the
end of the answers: the contract counts the server as finished there. A row that
cannot be decoded leaves the listener waiting for itself (`SelfDeadlock`), because
the read guard of the map lives until the end of the `match`. The buffer compares the
sum of the bare encoded lengths with `MAX_GRPC_MESSAGE_LEN`, as the code does; the tag
and length that each entry adds in the message are left out there and here, so a batch may
exceed the limit by a few bytes for each entry, and no property says that it does not.
Re-entrant use of
the transaction from its own callbacks is left out.

### ServerManager, ServerCall, MCServerManager

Several user operations over the shared cache `replicas` and the map `conns`. The
locals of an operation are one record `op[c]` whose `pc` names the next step; each
`await` and each lock acquisition of the code is a step boundary.

| code | actions |
|---|---|
| `new`, `fetch_servers_from_addresses` | `New`, `NewReturns` |
| `execute`, `get_or_seek_primary_replica` | `Begin`, `BeginDirect` |
| `execute_on`, `record_new_replica_connection` | `Lookup`, `Connect`, `Task`; in the search `Poll`, `PollConnect`, `Fetch` |
| `execute_strongly_consistent` | `Answered`, `FollowHint`, `SeekAfterFailure`, and `NextAttempt` shared by both ways to go on |
| `seek_primary_replica_in`, `seek_primary_replica` | `RoundFailed`, `Store`, `Read`, `SeekReturns` |
| `refresh_replica_connections` | `RefreshBegin`, `RefreshConnect`, `RefreshFails` |
| `fetch_servers` | `Record` |
| cluster, external | `Elect`, `Learn`, `Crash`, `Restart`, and the outcomes in `Task`, `Unreached`, `Misbehaves` |

`runs` and `calm` are history: how often a server ran the operation, and whether
it began in a settled cluster and was not disturbed since. `ServerCall` is the contract of one operation: an at-least-once
call with a budget.

Abstractions. A connection is its entry in the map: a connection to a server that
crashed and came back works again, as the lazy gRPC channel does. A request that
times out is a lost answer, since `RequestTimeout` is a connection error. The
two reads of the cache in `get_or_seek_primary_replica` are one step, and so are
the reads of cache and map at the start of `refresh_replica_connections`. The
order of a hash set is arbitrary and may differ between rounds, which allows more
than the code does. Errors from servers that are up, and crashes, share the bound
`MaxFaults`. Servers that report no address are left out of a view on arrival.
`force_close` is part of `DriverLifecycle`.

### DriverLifecycle

Connections, transactions being opened through them, and everything that closes
them. A transaction is here its dispatcher thread, its listener task, its open flag
and its shutdown signal; its inside is `TransactionTransmitter`.

| code | actions |
|---|---|
| `execute_on`, `record_new_replica_connection` | `Lookup`, `Record` |
| `ServerConnection::new`, `run_blocking` | `Started`, `StartPanics` |
| `request`, `request_async`, `dispatcher_loop` | `Check`, `Send`, `Dispatch`, `DispatchLoopEnds`, `Reply` |
| `open_transaction` | `Build`, `Push` |
| `start_workers`, listener, dispatcher, drop | `StartWorkers`, `StreamEnds`, `CallbacksReturn`, `DispatcherEnds`, `DropTransaction` |
| `refresh_replica_connections` | `Forget` |
| `force_close` of driver, manager, connection and transmitter | `CloseBegin`, `CloseConnection`, `CloseRpc`, `CloseRuntime` |
| `BackgroundRuntime`: worker loop, drop | `WorkerStops`, `DriverDrop`, `RuntimeDrop`, `RuntimeJoined` |

`late` and `reach` are history: whether a call began after `force_close` had
returned, and which transactions were registered when the first `force_close` began.
Abstractions: the routing is left to `ServerManager` (any server may be chosen); the
connections are closed in one fixed order, that of the hash map, which the read
lock keeps unchanged; the transaction's dispatcher takes its signal whatever else
is in its queue.

### DatabaseImport, DatabaseExport, ImportFileReader, RpcStub, MCServices

| code | actions |
|---|---|
| `import_from_file` | `OpenImport`, `ReadItem`, `ReadEnd`, `CheckEarly`, `SendImport`, `WaitDone`, `ImportReturns` |
| `DatabaseImportTransmitter` and its workers | `StartImportWorkers`, `DispatchLoop`, `ListenImport` |
| forced close; server, external | `CloseImports`, `StopImports`; `ServerAnswers` |
| `export_to_file` | `ComparePaths`, `CreateSchemaFile`, `CreateDataFile`, `OpenExport`, `NextAnswer`, `ExportReturns` |
| `listen_loop` of the export | `Listen`, `ListenEnds` |
| `ProtoMessageIterator` | `CallNext`, `DecodeNextLen`, `ReadBody` |
| `ServerConnection` methods, `send_request` | `Submit`, `Deliver`, `Timeout` |
| `call_with_auto_renew_token`, `renew_token` | `Renew`, `Renewed` |
| `CallCredentials::inject`, once the channel is ready | `Inject` |
| server of the requests, external | `Serve`, `Authenticate`, `Expire` |

`RpcStub` also holds, as tables, which request every method sends, which call
carries it, which message it is made from, which response its answer becomes and
which response the method accepts, for all twenty requests; `MethodsMatch` relates
the five tables. `calm` is history: the requests since whose call nobody else reset or
stored the shared token and no token expired. The four modules share no state, in the
code either; `MCServices` checks them side by side, each behaviour being about one of
them.

Abstractions. An attempt of an import or export that ends in a connection error may
be repeated or not: which errors `execute` retries is `ServerManager`'s affair. The
reader counts bytes and does not store them. A file write or
the last flush may fail; creating a file may fail for any reason, and always does when
the file exists; removing a file just created succeeds (the code ignores its error). The messages behind
one that could not be decoded are still forwarded, as in the code. All tasks of the
stub run on one worker thread, so a stretch without an await is one step; a call awaits
that its channel is ready, and only then is the token put in (`Inject`), whatever it is
by then. A request whose token another renewal resets in that gap fails.

### Values, Concepts, AnalyzedQueries, CInterface, MCData

`Values`: the steps of a behaviour add, subtract, negate and print a `Decimal`, or
print and parse a `Duration`; `exact` is the number the decimal should be. The
denominator, the machine word and the clock units are constants: the bounds of the
runs keep `Denominator < Word < 2 * Denominator`, as 10^19 and 2^64 are. A text is a
number with its count of digits, and for durations a sequence of segments.

`Concepts`: a row or a document leaf is decoded (`DecodeRow`, `DecodeLeaf`) and then
turned into JSON (`DocumentJson`), put into given rows and sent back (`NewRows`,
`SetVariable`, `PushRow`, `SendRows`), or looked at through the C interface
(`TakeConcept`, `NewConcept`, `AskType`, `GetAs`, `AskCategory`, `GetType`). Labels and
plain payloads are opaque; what may be missing, out of range, unknown or of type is kept. `RowEntries` and `LeafEntries` say what a message can be at all: which
parts belong to which variant, as the schema of the protocol has it. The constants of a
run are some of them (`ConceptConstants`).

`rows.given` is history: the variables the client set, each of which `CarriedOver` wants
to arrive, and no other.

`AnalyzedQueries`: for every message of an analysed query its fields and how each is
read, and for every C accessor the variant it is named for, the variant it matches
on and the field it gives. Both are sets of tuples, `Fields` and `Accessors`, so that
the proofs can expand them. The server builds one path of a message (`Extend`), the
driver decodes it (`DecodeQuery`), the caller walks it (`CallAccessor`).

`CInterface`: a table, as a set of names with signatures, of the extern functions with what each borrows, takes and
gives and how its result is returned (`release`, `try_release`, `unwrap_void`...), the
functions whose handle the bindings give up (`DelObjects`, kept apart from what the
functions take; `ReleasedByWrapper` for the one that the wrappers release by hand), the
functions of the tables that allocate and are no `%newobject` (`NotNewObjects`), the heap
and the handles, of which `unowned` do not own their object. `Call` applies one function of
the table, a destructor only on what its handle owns; `Forget` collects the last handle of
an object it does not own, which then stays (`Lost`). A `VoidPromise` is never left to the
collector: the wrappers resolve it in the expression that makes it. Given rows have actions of
their own because their header is counted. Callbacks, options and getters of plain
data are left out, and one object of a kind lives at a time, so a function that gives
the kind it borrows (`fetch_list_element`) is left out as well.

### HttpDriver, MCHttp

| code | actions |
|---|---|
| public methods, `apiReq`, start of `apiReqOnce` | `ApiReqOnce` (with `Leave`, `NextRetry`) |
| `tryApiReq`, `signinOnce` | `SignedIn`, `Responded` |
| `switchToRedirectTarget`, `followMisdirected` | `SwitchToRedirectTarget`, `FollowMisdirected` |
| `tryFallbackOrigins` and what follows it | `NextFallback` inside the actions above, `FellBack` |
| servers and network, external | `ServeSignin`, `Serve`, `Elect`, `Crash`, `Restart`, `Expire` |

A step is a stretch between two awaits, with the reads of `currentOrigin` and `token`
where the code makes them. That an awaited function has returned and its caller goes on
is a step boundary where the caller then reads a shared field (`switched`, `fellback`);
elsewhere the two are one step. `calm` and `arrived` are history.
Abstractions: all requests have the same shape, so paths, bodies and the types of the
answers are left out. Only the primary carries a request out; this also covers the
requests inside a transaction, where the server that has it open takes that part. A
token is its server and a number that expiry makes invalid. A server that is not the
primary may name any server as primary, or none. `Advertised` is the server that a
configured origin names by its public address, which `resolveOrigin` compares as text; in
the instance each origin leads to the server it names, in the theorem they are independent.
A sign-in denied with 421 is retried like any request. `MCHttp` restricts when the user issues
requests: they overlap in a cluster without faults, or come one by one in one with them.

## Runs

All runs use two workers and end within five minutes. A state without successor
is legal in every run: the requests, callbacks and operations of a run are finite,
and the system may stop when they are over.

| run | question | instance |
|---|---|---|
| `tx_answers` | Do the answers keep `AnswerContract`? Are sinks orphaned, requests lost between queue, buffer and stream, requests for more unasked? | one single, one query, up to three items, all malformed messages |
| `tx_close` | Does `close()` wait for the callbacks, in order, are none lost, and does every `close()` return? | two callbacks of which one panics, two `close()` calls of which one may be cancelled |
| `tx_live` | Does every request resolve and a dropped transaction end? | one query, one `close()`, a missing stream state |
| `mgr_failover` | Does an operation in a settled cluster succeed from any outdated cache? | three servers, two operations in sequence, one fault, one election |
| `mgr_live` | Does an operation return through the nested loops, keep `ServerCall`, and succeed in a settled cluster where a server is not listed and addresses are translated? | two servers, one operation, two faults, one election |
| `lifecycle` | Does `force_close` reach what was open, is nothing opened after it, do calls and the last drop return? | two servers, three connections, one transaction, two `force_close` calls |
| `services` | Is an import or export that returns `Ok` complete? Are failed ones undone? Does the reader lose a message? Is a request answered as its method expects, carried out once, content with one renewal of the token when no other one interferes, and over after its timeout? | files of 0 to 3 items, batches of 2, two attempts; files of two frames cut anywhere; three requests, one of them of any method, three tokens |
| `data` | Are decimals exact and texts read back? Does what is taken from an answer arrive when given to a query? Are malformed messages refused and decoded ones usable? Does a handle dangle, is an object left that nobody holds, but for the known ones? Are the rows finished those committed? | denominator 100 and word 128; paths of 7 objects; 3 handles, 1 object left behind; 2 rows |
| `http` | Does a request succeed from whatever origin and token others leave behind, is an answer that arrived final, does every request return? | two servers of which any may be down, one retry; two overlapping requests and a third after them, or two in sequence with two faults |
| `tx_drop_sync` | *violation*: does any `close()` wait? | one callback, one `close()` |
| `export_retry` | *violation*: is writing the files idempotent? | two attempts |
| `decimal_text` | *violation*: does every decimal print its own number? | as `data` |

Why the bounds are enough for the cases that matter: a query of three items has a
header, a row or an error, a pause and a continuation; with message length 3, a
single of length 1 and a query of length 3 a batch can be full, exactly full and
overfull. Two `close()` calls and two callbacks give every order of winner, loser
and panic. Three servers give a primary, a deposed one and a bystander with an
old view; `Retries = 1` is the default of the driver. One operation at a time runs in
the manager's instances; that concurrent ones keep `ServerCall` is proved
(`ManagerKeepsContract`, any number of operations). Three connections for two servers
let one be replaced while its transaction is open, and two `force_close` calls
overtake each other on two connections. Three items in batches of two leave a full and
a partial batch; two attempts let the second find the leavings of the first. A frame
longer than the buffer, a delimiter of two bytes and reads of any size put every
boundary inside a read. Three tokens are one for the opening and one for each of two
renewals at once. Operands of 0, 5 tenths, 7 and 99 hundredths add up beyond the
denominator and beyond the word. A path of 7 leads from a query through pipeline,
conjunction, constraint and vertex to a label; it follows one part of the message at a
time, since decoding refuses the whole for any part. Three handles are what the
function with most handles needs. An object left behind only keeps another one of its kind
from being made, so one at a time (`MaxLost`) shows each of the kinds. The handles are followed with a builder of one row,
the two rows while nothing is left to the collector. Two overlapping HTTP requests are enough for each step
of one to fall between any two of the other; the third looks at what they left. With two
origins there is a right one and a wrong one, either of which may lead nowhere; one retry
shows the loop of `apiReq`, whose three rounds are alike. A redirect to an address that is
not configured has no run; `HttpAnswerIsFinal` covers it.

`SettledCallSucceeds` is stated for operations during which nothing happens to the
cluster, with one retry, and a cache that lists a live server. Each premise is
needed: the driver never goes back to its configured addresses, and with
concurrent callers an older list stored by another operation can send the last
attempt to the wrong server: `fetch_servers` overwrites the cache after its await
without comparing terms (that is why the runs that check it have one operation at
a time). A single server without replication status (`Standalone`) has no run of
its own; the theorems cover it.

Fairness. `FairSpec` of the transmitter assumes that the operating system and
tokio schedule dispatcher, listener and handler, that futures awaited by the
caller are polled, that a runtime told to stop stops, and that the server receives
requests, replies to each and ends a half-closed stream. Nothing is assumed of the
user: no request, `close()`, drop or registration is fair. `FairSpec` of the server
manager assumes that an operation that has begun goes on: its thread runs, and each
request ends in an answer, an error or the request timeout. `FairSpec` of the
lifecycle assumes the same of threads, tasks and calls in progress, and that
callbacks return; nobody is obliged to drop a transaction or end a stream. The workers
of an import are scheduled, its server owes no answer. Of the requests of a connection
only the timer is fair: `TimedReturn` holds against a silent server. `HttpFairness` assumes
that every `fetch` settles, with an answer or a failure: the code sets no timeout and
leaves that to the platform.

## Findings

* `tx_drop_sync`: `close()` waits only when it wins the open flag. When the server
  has just ended the stream, `transaction_drop_sync` frees the transaction before
  the callbacks were invoked, against its comment.
* `export_retry`: a second attempt opens the files of the first without truncating
  them; when it has less to write, the tail of the first attempt stays.
* `decimal_text`: negative decimals with a fraction print their floor and the
  positive fraction: -1.5 prints as -2.5.

Disagreements and weaknesses met while modelling that have no run of their own; the
models contain them, and the properties say where they are excepted:

* a `close()` future that is cancelled has cleared the open flag and sent no signal:
  the later drop does nothing and the dispatcher thread stays;
* a redirect moves a local variable and not the cache (`failover.rs:288` expects the
  cached primary to move); the next operation pays the redirect again;
* `run_blocking` unwraps the answer of a task that a stopping runtime drops: the
  caller's thread panics;
* with three servers or more, two overlapping `force_close` calls may both fail and leave a
  transaction unsignalled: the second stops at the connection the first has just ended,
  closes the runtime, and the first then fails at its next connection, before it came to
  the third. `CloseReaches` therefore speaks of the calls that return Ok, and says that a
  lone call does;
* a listener cut while it waits for a callback never signals its dispatcher, and the
  drop of the runtime then joins for ever;
* a row that cannot be decoded makes the listener wait for its own read guard;
* eleven functions of the tables that allocate, among them those for variable annotations
  and the operations of a return, are missing from the `%newobject` list: their proxies own
  nothing, so the native objects stay when the proxies are collected, although "native
  memory is automatically cleaned up" (`csharp/README.md:46`). `HandlesSound` lists the six
  kinds and shows that there are no others;
* an out-of-range decimal, date or time in an answer panics in the decoding task, and
  an attribute type without its value type too; a sign-in answer without a token panics;
* the listener of an export panics when the consumer has left;
* `concept_get_X` aborts the process where its comment says that the error is set;
* a callback whose registration is still in the channel when the stream ends is dropped,
  and `on_close` returns `Ok`, although its documentation says that an awaited
  registration is executed (`rust/src/transaction.rs:160`);
* a request of the HTTP driver reads the shared origin again after its awaits. When
  another request has moved it, an origin that was never asked counts as tried, and the
  caller may read "Cannot connect to any server" while the primary is up; and the origin
  restored after an unsuccessful fallback may not be that of the response
  (`http-ts/src/index.ts:251` says that it is);
* the HTTP driver waits and retries only when a 421 survives: when the named primary is
  down, as after it was killed, or none is named, the result is "cannot connect" at once;
* the HTTP driver reads a schema sent without `Content-Length` as the empty text;
* renewal uses the credentials the driver was opened with, also after the password
  was changed; opening an import or export stream is under no timeout.

## Proofs

Proved by TLAPS, for every value of the constants allowed by `ConstantsAssumption`,
`ManagerConstants`, `LifecycleConstants`, `StubConstants`, `MethodsAssumption`,
`ImportConstants`, `ExportConstants`, `ContentsAssumption`, `ReaderConstants`,
`HttpConstants`, `WordAssumption`, `OperandsAssumption`, `UnitsAssumption` and `ConceptConstants`, from nothing else but what a
theorem itself assumes (`MaxActive = 1` in `FailoverSucceeds`). What they ask: sets of
requests, callbacks and close() calls that do not overlap; a first attempt
(`1 \in Attempts`); items of a database that are neither its schema nor the end of its
stream; methods that the tables of `RpcStub` know; frames with a delimiter of at least one
byte; rows and leaves of the variants the schema of the protocol has, with an IID in every
entity and relation; clock units that are positive (and powers of ten, which the provers
cannot tell of a power); at least one configured address; at least as many connections as servers; finitely many
operations; and that a deployment without replication (`Standalone`) is a single server.
The proofs are in `TransactionTransmitterProofs` and `TransactionAnswersProofs`,
`ServerManagerProofs`, `DriverLifecycleProofs`, `ServicesProofs`, `DataProofs` and
`HttpDriverProofs`; `NumberLemmas` holds what several of them need about numbers.

Transactions:

* `TypeCorrect`: types of the transmitter. `TypeOK` is inductive; it is split into
  one conjunct per group of variables, and each action is shown to keep each group.
* `SinksNotOrphaned`: once dispatcher and listener are gone no sink is left. The
  strengthening `SinkInv` adds that the queue of a finished dispatcher is empty;
  the argument is that whichever worker ends last drops the map.
* `CallbacksOrdered` and `CloseWaits`: `CallbackOrder` is the inductive invariant.
  `HooksPlaced` says where each callback is (channel, `on_close`, head of `on_close`
  while the listener waits, over) and that it is there once; `CloseOrdered` says
  that callbacks recorded before a `close()` stay ahead of its notifier. When the
  notifier has run, those ahead of it have, unless the runtime or the handler died.
* `RecordedKept`: `RecordedNotLost`, an action property. Only three steps drop a recorded
  callback; by `CallbackOrder` the last of them, the listener's end, finds none left.
* `RequestsNotForgotten`: `RequestsUnderWay`. `AwaitedInv` says of each request whose
  caller waits where it is: its entry in queue, buffer or a batch of the stream, or the
  server works on it, or an answer or an end is on its way back, as long as transaction
  and stream are up. The actions hand it on from one to the next; that a full buffer
  leaves with the batch before a new entry is put in is the step that could lose one.
* `PausesMet`: `ContinueMeetsPause`. `FlowInv` says of each request that it has at most one
  entry in queue, buffer and request stream together (`OneEntry`), that the server has not
  begun it or has paused it according to the entry (`EntriesFit`), and that while a
  Continue is on its way to the caller there is no entry (`PausesOpen`): the caller reads
  each Continue once, so it asks once for each pause.
* `TransmitterKeepsContract`: `TransactionTransmitter` implements `AnswerContract`.
  `AnswerInv` says where the items of a request are: those in the channel of its caller
  go on where the caller has read to, and those in the response stream go on where the
  channel ends, without a gap, as long as its sink is in the map (`Continued`); a sink that
  has gone left a last answer behind, or everything was given to it, or nothing was
  (`SinkGone`). The last two cases are what makes a stream that looks complete be complete;
  the exception is a stopped runtime. Then each action maps to a step of the contract or
  to a stutter.

Operations of the driver:

* `ManagerTypeCorrect`: types of the server manager, with the bounds of the nested
  loops as part of the types of `attempt` and `round`.
* `ManagerKeepsContract`: `ServerManager` implements `ServerCall`. A step changes
  the locals of one operation, so the invariant is a predicate `Good` on them and
  the simulation a relation `Moves` between them before and after the step, with
  one lemma per action. The heart of `Good` is that an operation about to be tried
  has been run at most `attempt` times, and where a reply may be pending.
* `FailoverSucceeds`: `SettledCallSucceeds` for one user thread (`MaxActive = 1`, as in the
  runs; with more it is false). `FailoverInv` follows an undisturbed operation: it is tried
  on the primary, or for the first time on a server of a cache in which one is up, or it searches with a
  server that is up among those still to be polled (`OnTrack`). Leaving out the failed
  server cannot remove the last one, because it is left out only when it is down.
* `LifecycleTypeCorrect` and `ClosedStaysClosed`: the invariant `LifeInv` is `GoodOp` on
  each call, with types for the rest. A connection is started once and the open flag is
  only ever cleared, so `GoodOp` survives the steps of the others. A call that began after
  `force_close` may make a connection, whose opening request is sent without looking at
  the flag, but never gets its transaction request past the check.
* `CloseDelivers`: `CloseReaches`. `CloseInv` says of a `force_close` that has met no error
  that each transaction it has to reach is signalled or registered with a connection it has
  yet to come to, and, while it is the only one, that those connections and the runtime
  still run, so that it cannot fail.
* `ImportsComplete`: what the server received, the queue and the buffer form one chain of
  batches in which each begins where the one before ended (`Chain`, `Reached`), as long as
  the dispatcher runs and the server has not answered; Done follows the last item of a file
  read to its end, and an Ok comes from a server that got Done.
* `ExportKeepsFiles`: an export touches no file that was there before it, and one that
  fails leaves the disk as it found it, for any number of attempts and any database.
  The invariant `FilesInv` says which files are the call's own at each `pc`: none before
  the first was created, both once the second was. `create_new` is what makes it hold.
* `ExportsComplete`: `CompleteInv` numbers the messages of an attempt. What is written,
  what is in the channel and what the server has left follow one another (`Streaming`), so
  that at Done the files begin with all of them; they may hold more (`export_retry`).
* `MessagesRead`: `ReadsWhatIsThere`. `ReaderInv` says that the buffer starts where the last
  message ended and that a body is read only behind its complete delimiter; frames end in
  ascending order (`EndsGrow`, by induction), so the complete ones are the first of the file.
* `RequestsExecutedOnce`: the invariant `StubInv` is a predicate `Good` on one request
  and its count of executions, which the steps of the others leave alone; a request is
  sent again only from states in which it was refused.
* `OneRenewalIsEnough`: `OneRenewalSuffices`. `CalmInv` says of the requests in `calm` that
  once they renewed, the token they were given is accepted, is the shared one until it
  is put in, and is what the server then sees. A request leaves `calm` when another one
  resets or stores the token, and all do when a token expires.
* `ConversionsMatch`: `MethodsMatch`. For each of the twenty requests the tables agree
  (`TablesAgree`), and a call repeated after a renewal is the same call.

Data:

* `DecimalsExact`: sums, differences and negations of decimals are exact for every
  denominator and word, however many are chained. The invariant `DecimalInv` adds that
  the fraction stays below the denominator, which is what makes the carry cases of
  `add` complete: with both fractions below it, a sum beyond the word is below the
  denominator again, so the arm the code marks unreachable is.
* `TextsComeBack`: `TextsReadBack`. `TextInv` says that a text kept is the print of the value
  beside it. A fraction ends in as many zeros as `Tail0s` finds (`MinIsFirst`, over the
  powers of ten that do not divide it), so the digits without them scale back
  (`ZerosScaleBack`). For durations `Turns` is the loop of `from_str` up to a segment: it is
  defined for every text by `Induction`, and does not depend on what follows
  (`ReadingGrows`). `ReadUnit` adds one unit to a text: if it is zero neither text nor
  counters change, and a minute that is first on the clock carries the T, which tells it from
  a month. `ModOfMod` makes the units of the clock add up to the nanoseconds.
* `MalformedNeverDecoded`, `UnreachableNeverMet`, `ConceptsCarriedOver` and `AskedThenGot`:
  the four properties of concepts follow from one invariant, `ConceptInv`. `MessageInv` says
  that the message is one of the run's, `AnswerInv` that each entry of a decoded row is what
  an entry with nothing wrong becomes, and a leaf one of those a document may have, `RowsInv` that a given row holds under the name of each
  variable set what was taken from the answer's column of that name and is empty otherwise
  (`Filled`, `Taken`), `CallerInv` what the C caller heard of its concept.
  That the first fault of a row refuses it is `FirstBadIsOne`, by `MinIsFirst`.
* `WalksReachLeaves`: `FieldTables` and `AccessorTables` check the tables entry by entry: a
  field has an accessor named for the variant it matches, or is left out. `VariantsToldApart`
  says that no two variants report the same, so the accessor a caller picks matches
  (`DecodedIsHeard`). `WalkInv` adds that no node of a path being walked was refused.
* `HandlesStaySound` and `RowsStayFaithful`: `TablesGood` checks every function of the tables:
  what it takes the bindings give up (`GivenUpIsTaken`), a result that refers into a handle is
  never made while taking one, and a result that is not owned is of one of six kinds or a
  `VoidPromise`. `HeapInv` says that a live object is held or of one of the six kinds, and counts the owners of the header by the handles (`Owners`) and
  the open row; `RowsMade` adds that the open row and the rows of a builder are the client's,
  and that a builder and its rows never live together. Each action frees and makes what
  `FreesAndMakes` says, from which `HeapStep` concludes.

HTTP:

* `HttpAnswerIsFinal`: the invariant `AnswerInv` is a predicate `Good` on the locals of one
  request and the number of its answers that arrived. No step of another request touches
  them: what they share, origin and token, decides where a request goes and never what it
  returns. An ok is either being processed, held as the result of the fallback, or
  returned, and from none of these is anything sent.
* `SettledRequests`: `SettledRequestSucceeds`. `LoneInv` says of an undisturbed request that
  every origin it has asked without success is one at which the primary is not reached, so
  it cannot come to the end of the configured ones when one of them reaches it, and that at
  such an origin the next answer is a token, an ok, or a refusal that a new token cures.

Numbers. The induction theorems of the library take a predicate as parameter, which no
installed prover can instantiate. `Induction` of `NumberLemmas` is stated for a set
instead, and is proved from the pigeonhole principle of finite sets: were m left out, the
successor would map the numbers of the set up to m into the same numbers without 0, which
are one fewer. `MinIsFirst` and the facts about recursive sums (`SumsExist`, `SumsAgree`) follow.

The two type theorems of transmitter and lifecycle stand for all constants, so no run repeats
them. Only model-checked: the liveness properties, which are out of the prover's reach.

## Not modelled

* Credentials and TLS, parsing of addresses, wording of errors, logging, options: data
  without state of its own. Dates and times are those of the library `chrono`.
* The wrappers in Java, Python, C# and C++: of them only the ownership that their
  common interface file declares, the release of given rows and that the promises of a
  transaction are resolved at once.
* The latency estimate of connections, the JSON text of documents (an integer becomes
  a double there), build and documentation tools.
* Time: an interval or a timeout is a step that may happen, so a busy loop or a
  blocking sleep is not visible.
