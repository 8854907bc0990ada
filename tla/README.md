# A TLA+ development of icap-poc

icap-poc is a small ICAP server library: it accepts TCP connections, decodes
ICAP requests with the HTTP heads embedded in them, asks a service what to do
with the message, and writes the answer. This directory holds TLA+ modules
that follow the source, configurations that check them with TLC, and proofs
checked with TLAPS. Paths below are relative to the repository.

Throughout, *request* means an ICAP request, *head* its request line and
headers, and *chunk* the empty preview that follows a message with a body.

## 1. The system

| Component | State | Operations | Hard parts |
|---|---|---|---|
| Connection task, `src/server/connection.rs` | socket, `wbuf`, the `ReqCtx` it hands from function to function | `process` loops over `process_message`: `init_ctx`, `recv_missing_header_bytes`, `recv_preview_zero_chunk`, `parse_entities`, one service call, one of four answers or `send_status`; then `clear` and `yield_now` | awaits: reads cut anywhere, timeouts, a client that pipelines or goes away, a write that fails between two writes of one answer |
| Request context, `src/server/request_context.rs` | the receive buffer, decoded heads, entity list, `allow`, `preview`, offsets, what the service sets | `init`, `parse_entities`, setters, `ensure_*`, `clear` | one context serves all requests of a connection: what is left behind, what is stale |
| Chunk header scanner, `decode_chunk_header` in `src/decoder.rs` | nine states, positions in the line | one pass over the bytes | indices, partial lines, quoting, overflow |
| Head decoders, `src/decoder.rs` | none | `decode_icap_request`, `decode_http_request`, `decode_http_response`, `decode_allow`, `decode_preview` | positions computed from pointers; a head that is partial, or decoded twice; the parsing itself is httparse's |
| Encapsulated list, `src/decoder/encapsulated.rs` | list of entities | `parse_append`, `get_body_offset` | several headers make one list; a loop that must advance |
| Header lists, names, iterators, `src/header/` | index pairs into the buffer | `encode`, iteration | indices outlive the buffer they were made for |
| Service, `src/service.rs`, `src/service/`, `src/common/service_fn.rs` | the user's | three handlers | may fail, panic or never return, may set any output field |
| Acceptors and ids, `src/server/tcp_acceptor.rs`, `src/common/id.rs` | listener, atomic counter | `bind`, `run`: accept, next id, spawn | several acceptors on one counter; an accept error ends `run`; connections share the runtime's workers |
| Configuration, errors, methods, versions | none | | |

Interaction. An acceptor spawns one task per connection with a clone of the
service. A task owns its context and moves it (as a `Box`) into each handler
and back. Nothing is shared between tasks but the service clones, the id
counter and the worker threads of the runtime. The concurrency of a connection
is therefore between *one* task and its surroundings: client, network,
service. Connections meet in the accept loops, at the counter, and in the run
queue, where one that never gives way would keep the others from running.

What makes each part correct:

* Connection: one answer per request, in order, determined by the request and
  the service's reply alone; nothing after `Connection: close`; no slice or
  read out of the buffer; every request that was read is answered and every
  connection ends.
* Context: nothing of one request is seen by the next; headers are those that
  were sent, wherever the buffer has moved since; the checks of
  `check_sanity` justify what `append_headers` sends.
* Scanner: accepts the lines of the grammar at their end, rejects nothing
  else, waits only for what can become a line, never slices out of bounds.
* ICAP headers: what is accepted, and what is left in the context, depends on
  what the headers say together, not on how they are split, spelled, spaced or
  ordered; offsets in order, the last entity is the body.
* Acceptors: distinct ids, one task for each socket that is accepted, and no
  connection can keep another from being accepted or run.

The list of hazards in `PROJECT.json` says, line by line, where these can go
wrong, and which property would notice.

## 2. Modules

| Module | Models |
|---|---|
| `RequestContext` | `ReqCtx` and its methods, as operators on records |
| `Connection` | one connection: task, client, network, service. EXTENDS `RequestContext` |
| `IcapPromise` | which requests are served, and what the answer to one is and the headers it has, as functions of request and reply. EXTENDS `RequestContext` |
| `ConnectionProperties` | the properties of `Connection`, measured by `IcapPromise`, and the inductive invariant `IInv` |
| `IcapExchange` | the abstract specification: requests, consultations of the service, answers. EXTENDS `IcapPromise` |
| `ConnectionRefinement` | the refinement mapping from `Connection` to `IcapExchange` |
| `ConnectionInvariants` | the inductive invariants `AInv` and `PacedInv`, and one property only the proofs state (`DeclaredAnswersAreFaithful`). EXTENDS `ConnectionProperties` |
| `IcapHeaders`, `IcapHeadersProperties` | `parse_icap_headers`, `parse_append`, `decode_preview`, `decode_allow`, over tokens; what headers say, and that the code takes them so. EXTENDS `RequestContext` |
| `Heads`, `HeadsProperties` | the head decoders, lists of indices, iterators and `encode`, over bytes that know where they come from |
| `Server`, `ServerProperties` | accept loops, id counter, tasks, workers; and the parts of their inductive invariant |
| `ChunkHeader`, `ChunkHeaderProperties` | `decode_chunk_header`; the grammar of the line, and the properties |
| `MCConnection`, `MCIcapHeaders`, `MCHeads`, `MCServer` | requests, replies, headers, heads and bounds for TLC |
| `ConnectionProofs`, `AnswerProofs`, `RefinementProofs` | theorems about `Connection`, each module on top of those before it |
| `HeadsProofs`, `IcapHeadersProofs`, `ServerProofs`, `ChunkHeaderProofs` | theorems about the other components |
| `SequenceLemmas` | least numbers, induction, recursive functions and the parts of a concatenation, as lemmas the provers can use |

How they fit together. `Connection` takes the result of reading a head for
given: `hdrsOk`, `ee`, `preview`, `allow` are fields of a request, and where
the HTTP heads end is a length. `IcapHeaders` shows, with the operators of
`RequestContext`, that the loop over the headers leaves just these fields
(`LeavesWhatIsSaid`, `AcceptsWhatIsSaid`); `Heads` shows that the positions the
decoders compute lead back to the bytes that were sent. `Server` takes a
connection by the places where it holds its worker and lets it go, which are
the awaits of `Connection`. `IcapExchange` is what remains of a connection when
buffer, context and awaits are forgotten.

### Connection

`pc` names the await or the function the task is in. A path without an await
is one step up to the place where another function takes over; a loop with an
await is one step per turn.

| Code | Actions |
|---|---|
| `init_ctx` | `InitPartial`, `RecvHead`, `InitBad`, `InitComplete` |
| `recv_missing_header_bytes` | `RecvMissing`, `HeadersReceived` |
| `recv_preview_zero_chunk` | `ChunkMore`, `RecvChunk`, `ChunkBad`, `ChunkOk` |
| a read that ends without data | `RecvEof`, `RecvError`, `RecvTimeout` |
| `parse_entities` and its caller | `ParseOk`, `ParseBad` |
| `handle_*` | `ServiceReturns`, `ServiceFails`, `ServicePanics` |
| `reserve` beyond what can be allocated (`AllocMax`) | `AllocFails` |
| `process_options`, `send_204`, `append_headers`, `custom_response`, `process_decision` | `ProcessOptions`, `Send204`, `AppendHeaders`, `CustomResponse`, `NoHttpStatus`, `NoDecision` |
| `send_status` | `SendStatus` in the actions that refuse, then `WriteStatus` |
| `write_all` | `WriteStatus`, `WriteHead`, `WriteHttp`, `WriteFail` |
| the loop of `process` | `Yield`, `Shutdown` |
| client and network (external) | `ClientSend`, `ClientRead`, `ClientClose`, `ClientGone` |

The input is one stream of bytes, of which only positions are kept: `sent`
says which request begins where, `pos` how much has been read, and `rbuf` is
the stretch from `base` to `pos`. A request is what the decoders make of it:
the lengths of its parts, the values of the headers the server reads, and
whether its HTTP heads and its chunk are well formed. If `rbuf` begins in the
middle of a request (after `clear()` threw away its beginning), what is there
may read as a partial head or a bad one. Bytes from the middle of a request
that happen to *be* a request are left out.

`cap` is the capacity of `rbuf`, and stands for its allocation: it grows with
every reallocation. `Reserve` and `ChunkMut` are the rules of
`BytesMut::reserve` and `chunk_mut` (external). `vec.realloc` may also grow in
place; then the decoder would not be called again, and nothing would change.

An answer is a head, with the names it took from `out_icap_headers` and its
Encapsulated header, and an HTTP head made of pieces, each with the request it
comes from. Lengths of HTTP heads are counted in pieces.

A panic, of the service or of `reserve`, leaves the task `dead`: the runtime
drops it and with it the socket, and nothing more is written.

What is abstracted: the contents of heads and headers; time (a read may time
out at any moment); a `write_all` that breaks off half way counts as not
written; the message counter, which is only logged;
`out_http_ver`, which no setter reaches. A service hands back the context it
was given. The replies TLC uses leave the Encapsulated header to the server; a
service that sets one would get two, as `append_headers` adds its own.

### IcapExchange and ConnectionRefinement

The exchange has four variables. `asked` are the requests of the stream,
`consults` the calls of the service with the reply to each, `written` the
writes, reduced to the request answered, the status and whether an HTTP head is
to follow; `stage` says how far the server is. Its actions are `Consult`,
`Refuse`, `Answer`, `CompleteAnswer`, `HangUp`. `ConnectionRefinement` computes
`stage` from `pc`, and maps `sent`, `calls` and `out` one to one (`Asked`,
`Consults`, `Written`). All that
happens in the receive loops, in the buffer and in the context is a stutter.
Two things are weaker than a reader may expect, because the code is: requests
may be passed over (`Ahead` asks only that numbers grow), and after something
was passed over, or if a request is not as long as it declares, a refusal may
belong to no request (`Astray`), and such a request may be taken for a good or
a bad one.

### IcapHeaders

| Code | Actions |
|---|---|
| one turn of the loop of `parse_icap_headers` | `ReadHeader`, by name: `ReadEncapsulated`, `ReadPreview`, `ReadAllow`, `ReadOther` |
| one turn of the loop of `parse_encapsulated_list_`, with its call of `parse_ee` | `ParseBlank`, `ParseEntity` |
| the order check behind it | `ValueParsed`, `CheckOrder`, `OrderChecked` |
| the end of `parse_icap_headers` | `Finish` |

A value is a sequence of tokens, each for a longest run of bytes of one class,
so that `skip_name` and `skip_offset` skip one token. No two neighbours are
therefore blanks, words or digits both (`LongestRuns`): it is what makes a token
a longest run, an assumption on the set of headers that every value can be
written to satisfy. `Number` gives digits their value; one of them is too large
for a `usize`.
The properties compare the loop with a definition that has no loop: values of
one name are joined by commas, blanks dropped, and what is left is a list of
`, name = offset`. Two peculiarities of the code are in that definition: a
blank Encapsulated header adds nothing but must not be the first, and
`decode_preview` passes over words that are not ASCII. Which word of a Preview
counts is the one thing taken from the code on both sides (`DecodePreview`).

### Heads

| Code | Actions |
|---|---|
| a read; `rbuf` may move | `Recv` |
| `decode_icap_request` after a read | `DecodeIcapRequest` |
| `parse_entities`, if `rbuf` has moved | `Reparse` |
| `decode_http_request`, `decode_http_response` in its loop | `DecodeHttpRequest`, `DecodeHttpResponse`, `EntitiesParsed` |
| `append_headers`, its request line or status line and headers | `AppendHeaders` |
| other answers | `OtherAnswer` |
| `clear` | `Clear` |

A byte is a record of the request, the head, the line and the part it belongs
to. `addr` is the address of `rbuf`, pointers are numbers, and an index is a
difference of pointers, as in the code. httparse is external: it returns
partial, an error or the number of headers, and fills the slots of an array
whose other slots hold anything. A `fault` of a head says at which of the
decoder's checks it fails, which decides what the decoder has already changed
by then. The request method and URI of a head are copies, and are represented
by the byte they come from; `clear` leaves a request its URI, as the code does.

### Server

| Code | Actions |
|---|---|
| the loop of `TcpAcceptor::run` | `Accept`, `NextId`, `Spawn`; `AcceptFails` |
| a caller that calls `run` again | `RunAgain` (external) |
| the runtime (external) | `Poll` |
| `Connection::process` between two awaits | `Message`, `Refused`, `Panics`, `Pends`, `Reads`, `Ends` |
| clients, services, the clock (external) | `Connect`, `Send`, `Close`, `Expire`, `Resume` |

Between two steps of a loop the loops of other acceptors run; `next()` is one
step, as `fetch_add` is. A task is `queued` when it can run, `running` on a
worker, `reading` while it waits for input at most `READ_TIMEOUT`, `pending`
while it waits for its service or for its client to read, which nothing
bounds. Ids are counted modulo `IdRange`. `hand` is the socket a loop holds
between accept and spawn.

### ChunkHeader

One behaviour is one scan: each step feeds the next byte, and `result` is what
the function returns if the buffer ends there. That covers repeated calls on a
growing buffer, since the scanner starts over and reads the same bytes. A byte
is one of the classes the scanner tells apart. Three things a reader may not
expect, all in the code and in the grammar of `ChunkHeaderProperties`: a
quoted byte is one preceded by a backslash, even where that backslash is
itself quoted (`"\\"` does not close); `ieof=x` counts as `ieof`; a size that
is too big is noticed at the end of its digits.

### Slips

Some definitions are preceded by a variant the comment calls a slip: a
forgotten reset, a missing guard, an off-by-one that could stand at that place
of the code. No action uses them. `PROJECT.json` pairs each property with a
slip that violates it, which shows that the property says something.

## 3. Runs

| Run | Question | States |
|---|---|---|
| `honest` | Is each answer the one its request and reply call for, and is the context clean for the next request? Does the connection implement the exchange? | 174 000 |
| `misled` | What if the declared offsets are wrong, or larger than memory, and the client sends ahead? | 363 000 |
| `pipelined` | What if the client does not wait for answers? | 810 000 |
| `live` | Is every request that was read answered, and does the connection end? | 12 000 |
| `headers_one` | Does the server read an Encapsulated header right, whatever it consists of? | 16 000 |
| `headers_mixed` | And three headers of any names, in any order? Is the last of several Encapsulated headers checked against the first? | 202 000 |
| `heads` | Are the headers the service and the client see the ones that were sent? | 19 000 |
| `server` | Ids, accepted sockets, and does every connection get its turn? | 10 000 |
| `chunk_lines` | Does the scanner accept exactly the lines: sizes, overflow, extensions, tokens? | 381 000 |
| `chunk_quotes` | And quoted values; are all slices in bounds? | 134 000 |
| `finding_allow`, `finding_206` | Two statements of the documents the code departs from | |

`ImplementsExchange`, the refinement, is a property of `honest`, `misled` and
`pipelined`, for each of them has steps the others lack.

Bounds, and why they are enough. `MaxMsgs` is 2 or 3: what one request leaves
behind is seen by the second, and three are needed for an answer between two
others. `Window` is 1 for a client that waits, 2 in `misled`, where what is left
of a request with a false offset must be able to run into the next one, 3 in
`pipelined`. Heads are 1 or 2 bytes, lines 1 byte, so a request has 2 to 9 bytes
and every cut of it is tried, with several cuts in each part.
`RBufCap` = 4 is smaller than most requests and `LowCap` = 1, `GrowBy` = 2
scale down with it, so that `rbuf` fills, grows by `reserve`, by `chunk_mut`
and not at all. `OutCap` = 2 lets the task write a head and block on the next
write. `UsizeMax` = 99 is larger than all lengths, and `AllocMax` = 40 than
all that is needed except by the request that declares too much.

In `headers_one`, values have up to four tokens, enough for an entity with one
token more, and longer ones, of two or three entities, differ from a correct
list in one place at most. In `headers_mixed`, three headers hold a list in
two parts with something between, or two of every name. Where just
the last two entities are compared (`LastTwo`), such a list is accepted out of order, and
`AcceptsWhatIsSaid` is violated. In `heads`,
`MaxHeaders` = 2 and a head may have three headers; two `Addresses` are enough
for `rbuf` to move and to come back to where it was; with two requests
the second follows each way the first can end. In `server`, two acceptors race
for the counter, which wraps around after two ids; two connections share one
worker, which is the worst case for fairness; `MaxInput` = 1 lets a
client send the next request while its last is worked on, and so always have
input. In `chunk_lines`, two
digits make the size overflow; lines of 8 bytes hold a size, two extensions or
one with a value, and the CRLF. In `chunk_quotes`, 9 bytes hold a value with
a quoted byte. No symmetry is used.

Deadlock is checked everywhere: a finished task, scan or head stutters in an action
of its own (`Terminated`, `Returned`), and nothing else stops. A server
never stops: `run` can be called again.

The run `live` includes `MissingBody`, a client that never sends the body it
announces, so that only the timeouts end the wait; `ReadRequestIsAnswered` is
about the requests that are as long as they declare (`SentAsDeclared`).

Fairness (run `live`). Weak fairness of `Local`, `Recv`, `WriteOut`: the tokio
runtime polls a task that can run, and the timeouts of
`connection.rs:350` and `:429` end a read that brings nothing. Weak fairness of `Service`: a
handler returns; the code sets it no limit, so this is an assumption on the
user's code. Weak fairness of `ClientRead`: the client reads what is written
to it, again an assumption, as there is no timeout on a write. Nothing is
asked of `ClientSend`.

Fairness (run `server`). Weak fairness of `Loop(a)` for each acceptor and of
`Work(w)` for each worker: threads run, and tokio polls what is in its queue.
It is fairness of the worker, not of a connection: a worker that serves one
connection for ever is fair, and that it comes to the others is due to
`yield_now`, as the slip `GoOn` shows. Nothing is asked of clients,
services, the clock, or a caller whose `run` has returned; so `QueuedIsRun` and
`BacklogIsServed` hold next to clients that never read and services that never
return. What is taken for granted is that the run queue is in order; tokio's
work stealing and its slot for the last woken task are left out.

What the runs show. All properties hold but two: `ensure_options_headers`
offers `Allow: 206` to clients that did not ask for it, against the draft in
`docs/`; and `append_headers` answers 200, not the 206 of the comment on
`AppendHeaders`, when the message has no body. The pipelined run shows the
extent of a known limit: `clear()` drops what has been read of the next
request, so a request sent ahead may get no answer, or a 400 that ends the
connection, but never one that belongs elsewhere. `honest`, which has two
requests with such offsets, and `misled` show what a false
offset costs:
memory in proportion to it, before `check_sanity` is asked
(`MemoryFollowsRequests` bounds it by what the requests declare), a panic that ends
the connection if it is beyond what can be allocated, a request taken for
another; never a slice out of bounds or an answer to a request already
answered. `RefusedForAFault` shows that the error for a head that no longer
decodes after `rbuf` has moved cannot occur.

## 4. Proofs

The theorems hold for every value of the constants that meets the named
assumptions: every set of requests whose HTTP heads are those their entities
announce, every set of replies, every window and capacity, buffers of any
length. They do not assume offsets to be right.

`ConnectionProofs`:

* `TypeCorrect`, `BufferIsSafe`. Type correctness needs that the count of
  missing bytes never goes below zero, and `BufferSafe` needs more than
  itself: `RequestInv` (from `init` to `clear` the context holds the request
  at `base`, whose head is in `rbuf`) and `BufferInv` (all that is missing
  fits in the free part of `rbuf`, and a request with HTTP heads is buffered
  up to its body once nothing is missing). One lemma per conjunct, one step
  per action.
* `Inductive`, `AnswersAreInOrder`, `CloseIsTheLast`. That answers are in order
  is a fact about `out` alone, but why they are is spread over the stream and
  the task: requests begin at different places (`StreamInv`), what waits in
  `wbuf` answers the one at `base` (`PendingInv`), what has been written
  answers those before it, or the one at `base` once the task is past its
  write (`OrderInv`). `clear` moves `base` on, past the ICAP head of the
  request it has answered; that a head has at least one byte makes
  the move a real one. `IInv` is the conjunction. A panic, in `reserve` or
  in the service, changes `pc` and nothing it speaks of.

`AnswerProofs` is about what is in the answers. `IInv` says where a request
lies and how far its answer is; `AInv` adds what the task has in hand, location
by location, one named part for each thing the code relies on:

* `FreshInv`: `clear` leaves the context as `NewCtx`. `HeadInv`: from `init`
  on it says what the head of its own request says. `EmptyInv`: nothing that
  the service sets is there before the service is asked. `DecodedInv`: the HTTP
  heads are those of the request, decoded at the address `rbuf` has. `BodyInv`:
  an announced body's chunk has been seen, whole.
* `CallsInv`: each call was for an `Acceptable` request with its own heads, and
  either `base` is past its beginning, and past its end unless it is not as it
  declares or has an unannounced body (`Passed`), or it is the one at `base` and its answer is under way. That is what makes calls distinct and ordered.
* `ReplyInv`: between the service's return and the end of the answer, context,
  `wbuf` and `http_buf` hold what the last call calls for (`AnswerTo`,
  `HttpHeadFor`) or a refusal (`RefusalInv`). `OutInv`: the same of what has been
  written.
* `CoverInv`: requests lie in the stream without gaps, needed to know that bytes
  at `base` that begin no request come behind one that was not as it declared.

The theorems that follow from it: `ServiceSeesItsRequest`,
`HeadsAreDecodedInPlace`, `HttpHeadsFollow`, `OffsetsAreHeadLengths`,
`HttpHeadsAreOwn`, `HeadersAreOwn`, `PartialContentIsAllowed`,
`ClearDropsTheRequest`, all without further assumptions, and one with an
assumption: `AnswersFaithful` is about requests that are as long as they declare,
because the answer to another depends on what follows it.
`DeclaredAnswersFaithful` has no such assumption, and says the same of those
requests that are, whatever the others on the connection do.

How far these reach. A request that is not as long as it declares
(`SentAsDeclared`) may have bytes of another taken for its chunk, so the service
may be asked about one that has no chunk of its own; `Acceptable` says just that:
its heads are to be served in any case, and all of it if it is as declared.
`HeadersAreOwn` compares all names with those the request and the reply call
for (`HeadersFor`), also names the service sets; only that there is one Encapsulated
header needs a service that leaves it to the server.
`ClearDropsTheRequest` says for every request that its heads and what it
declares before its body are gone (`HeadReach`: the buffer has held that much, which
is `BodyInv`). That *all* of it is gone holds if it is as declared and has no
body it does not announce (`HiddenBodied`): of others bytes do stay, and are taken for
the next head.

`RefinementProofs`: `Implements`, that each step of `Connection` is one of
`IcapExchange` or a stutter. The step of the service is `Consult`, possible
because requests are put to it in order (`CallsInv`); a refusal is `Refuse`, and
`Astray` where it belongs to no request (`NothingBeginsHere`, from `CoverInv`);
a written ICAP head is `Answer` (`AnswerTo` is the exchange's promise in the terms
of the code), its HTTP head `CompleteAnswer`; every way to `dead` or `closed` is
`HangUp`. `QuietMaps` has all the steps that are none.

The last part of `AnswerProofs` is about clients that wait (`Waiting`: `Window = 1`, and requests that
are read to their end before they are answered, `LeavesNothing`; the run `honest`
checks with these). `PacedInv` has three cases: nothing is under way, the last
request is, or its answer is complete and the next request may be in `rbuf`'s
future but not in `rbuf`. From it `ClearDropsOne`, and with it `MemoryFollows`: a
reserve is made for the request at `base` alone, so `rbuf` is bounded by the
largest request and not by the traffic.

`IcapHeadersProofs`, for values and heads of any length over any tokens:

* `TypeCorrect`: no position leaves the value, or the list it counts through.
  It needs that a step over a token moves on and stays in reach
  (`PastMoves`, `PlacesMove`).
* `OrderIsChecked`, from `OrderInv`: what the order check has passed is in order,
  and all of it is when the next header is read, so that the check after
  the next Encapsulated header, which starts again at the beginning, finds one
  list. From it `BodyIsBehindHeaders`, which only the proofs
  state (`BodyIsFarthest`): `AcceptsWhatIsSaid` says more of the heads TLC reads.
* `LoopsAdvance`: each turn of the inner loops moves its position on, so the
  task cannot hang in `parse_encapsulated_list_`.
* `AcceptedIsSaid`, `LeftIsSaid`: the loop takes what the headers say, and just
  that. The inductive invariant `SaidInv` has a conjunct for each place the loop
  can be at. Between headers the list is that of all tokens of the Encapsulated
  headers read (`ListRead`). Within a value (`ValueRead`) these tokens are those of
  an entity list, the entries added so far, and behind it what is left of the value
  from `i` on, with a comma in front if it is not yet read (`ReadSoFar`). The
  options are always those of the headers read (`OptionsRead`).
  A turn of `parse_ee` moves four tokens from what is left to the entity list
  (`EntityTaken`); where it fails, what is left begins with no entity, and then
  the whole is no entity list, whatever follows (`EntityRefused`, on top of
  `EntityFollows` and `EntityFound`). Both need that there is one token of blanks
  at most where one can be, which `LongestRuns` says. A header more is a token
  sequence more (`EntityTokensGrow`), because keeping some of a sequence and
  joining sequences go member by member; that is the induction in `KeptAppend`
  and `KeptConcat`. For Allow, the comma between two values keeps a code at the end
  of one from the word at the beginning of the next (`CodesJoined`).

`ServerProofs`, for any number of acceptors, connections and workers:

* `TypeCorrect`; the counter stays in its range.
* `IdsStayUnique`. Uniqueness alone is not inductive: the next id must differ
  from all the last ones. `IdInv` says where every id is relative to the counter, and
  is only about `gen` and `claimed`, which no other action touches.
* `AcceptedStaysKept`. `HandInv` (a loop has a socket between accept and spawn,
  and only then) and `PlaceInv` (a connection is in one listening socket, one
  hand, or with its task) make the claimed connections different;
  `StartedInv` is needed because `Poll` and `Wake` must not start a task that
  has not been spawned.

`ChunkHeaderProofs`: `ScanInv` says where each state's positions may be, before and
after a CR. From it, `NoSliceOutOfBounds`; with `LineEndsAtLineLen`, that
`line_len` is the place after the CRLF (`LineLenIsLineEnd`). One lemma per arm of the
`match`, on top of lemmas for the four kinds of step the arms share.

The second part of `ChunkHeaderProofs` compares the scanner with the grammar, for
lines of any length. The
grammar cuts a line at some of its semicolons; the scanner goes from left to right
and decides at each one.

* `ReadsLines`: `LineRead`, the inductive invariant. There are cuts `C` of what has
  been read such that each piece between two of them is in order, the piece behind
  the last one is as far as the state says, the digits before the first are those of
  the size, and `ieof` says whether a name that is over is "ieof". Each arm of the
  `match` carries `C` on, and adds the place of the semicolon if it cuts.
* `AcceptsOnlyLines`: at the CRLF `C` is a parse of the line. What `ieof` says is
  about every parse, so there must be no other: where two parses first differ, a
  piece of one would begin a piece of the other and be over before it. That "first"
  exists is the least element of a set of numbers (`Least`), which needs no
  induction.
* `WaitsForLinesOnly`: each state, with a CR read or not, has its completion.
* `RejectsLinesNever`: any line that begins with what has been read is cut at `C` that
  far, by the same argument, and its next byte is one the scanner takes in its state.
  A size is refused only if two significant digits lie `MaxDigits` apart.

`HeadsProofs`, for heads of any number of headers of any length, at any address and
cut anywhere. The constants are as in section 2: any set of messages whose heads
come in an order that can be announced.

* `HeadsInductive`: `HInv`, on top of the types. `BufferInv`: `rbuf` holds a
  beginning of the message, and all of it once the HTTP heads are decoded.
  `IcapInv`, `HttpInv`: a head that has been decoded is good and whole, and
  its list is the one a head of these lengths has at the place where it begins;
  a head that was not decoded has left its list and its length empty, whatever
  the request before left there. `RefusedInv`, and the property about
  `append_headers`, hold where they are established and nowhere else.
  The work is in the lemmas on the operators: where a line of a head lies is a
  sum over those before it (`Lies`, `Before`), what `SubSeq` at a pair of
  positions returns is the name or value they were computed for, and `Encode` of
  a list is the head again, line by line.
* `HeadTypes`, `HeadersShown`, `AppendedIsSent`, `RefusedOnlyForFaults`. A prefix of
  a head is never complete, and a complete head stays so when more is behind it
  and when `rbuf` moves: that is why nothing else is ever refused.

`SequenceLemmas` has what these proofs need and the library states over an operator:
induction as a fact about sets of numbers (`Induction`), the existence of a recursive
function (`Recursion`), and from it what `FlattenSeq` is, in steps
(`FlattenSteps`).

Each inductive invariant was checked with TLC before it was proved.

Only model-checked: the liveness properties (`ReadRequestIsAnswered`,
`ConnectionEnds`, `QueuedIsRun`, `BacklogIsServed`), since fairness and ENABLED are
beyond the prover. Every other property of a passing run is stated by a theorem.

## 5. Not modelled

Configuration and errors, which keep no state; the example, whose replies are
among those of the model, and whose `main` returns when `run` does; the fuzz
targets. Of what is modelled:

* The bytes of heads and which of them httparse and the http crate take; the
  text of versions, methods and URIs, parsed or printed.
* Clocks. A client that sends a byte now and then keeps a connection for as
  long as it likes, since `READ_TIMEOUT` begins again with every read; the
  bound on requests hides this.
* An allocation that fails although it is small enough to be asked for: it
  aborts the process, with all connections.
* A service that hands back another context than it was given, or sets an
  Encapsulated header of its own, of which there would then be two.
* The runtime's run queue beyond its order, and its budget for one poll.
* TLS, which the library does not have.

## 6. Plan

What would come next: a service that sets an Encapsulated header of its own, as an
action of `Connection`, with the two headers then written as a property to decide
about.
