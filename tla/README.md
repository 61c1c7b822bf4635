# Verification of the Mitsubishi M70 EZSocket library

TLA+ specifications of the C library in `src/mitsubishi_cnc_m70_ezsocket_net`
(a client for the GIOP-based EZSocket protocol of Mitsubishi M70 CNCs), the TLC
configurations that check them, and TLAPS proofs. File names below are relative
to that directory.

## 1. Inventory

The library is one thread of synchronous calls: no callbacks, no background
threads. What is hard about it is the other side of the socket (short reads,
late answers, broken connections, registers that change between two requests of
one call), C library calls that fail half way through a sequence, and long
sequences of legal calls over two pieces of global state.

| Component | Files | State it keeps | Operations |
|---|---|---|---|
| Socket layer | `socket.c` | a descriptor, `SO_RCVTIMEO` 5 s | open, send, `recv_data_one_loop` (one `recv()`), close |
| GIOP transaction | `m70_giop.c`, `m70_ezsocket_private.h` | `m70_conn_t` (`socket`, `connected`, `request_id`), during a call `msg_length` and the code | `giop_connect`, `giop_disconnect`, 15 `mel*` functions and `CancelModal2` |
| Connection API | `m70_ezsocket.c` 24-59 | the same `m70_conn_t` | `m70_cnc_connect`, `m70_cnc_disconnect` |
| Reading API | `m70_ezsocket.c` 61-948 | none | some 30 `m70_cnc_read_*`, each one or more `melGetData` and a conversion |
| Logger | `m70_log.c` | `g_log_config`: settings, path, `FILE`, counted size; the files on disk | init, shutdown, set level/target/file, ten log functions, rotation |
| Error information | `m70_error.c` | `g_last_error` | set (logs a line), describe, convert codes |
| Conversions | `utill.c` | none | byte order, numbers and strings |
| Demonstration | `main.c`, `log_error_example.c` | none | log init, connect, poll, disconnect, log shutdown |

The reading API calls the transaction, which calls the socket layer; all of
them call the logger and the error module, and the error module calls the
logger.

What makes each correct, in a line:

- **Transaction**: a call returns what the device answered to *this* request or
  reports the loss of the connection; it leaves the stream at a message
  boundary; it returns.
- **Connection**: a valid connection has an open descriptor of its own, whatever
  was closed and used again in between; no descriptor is lost but by the one way
  the code has.
- **Reading API**: OK only if the requests its outputs depend on succeeded; what
  is put together from several requests was true of the device.
- **Demonstration**: every loss is counted, and the program ends after it.
- **Logger**: lines are lost oldest first and only when the history is full; one
  FILE is open, for the current path; the counted size is the file's.
- **Errors**: the last error is that of the last failure, and every code has a
  description and a basic code.
- **Conversions**: inverse where they should be, and faithful at the limits of
  their width.

The hazards of the code, each at its line, are in `PROJECT.json`.

## 2. Modules

| Module | What it is |
|---|---|
| `GiopRpc` | abstract: what a `mel*` call promises |
| `M70Giop` | the transaction, one action per `recv()`, with the device and the network |
| `MCGiop` | small replies and sizes for TLC |
| `M70GiopProofs` | theorems about `M70Giop`: types, the stream, lost connections |
| `M70RpcProofs` | theorems about `M70Giop`, on those of `M70GiopProofs`: what a call returns, and that it implements `GiopRpc` |
| `M70Log` | the logger, one action per call |
| `MCLog` | small configurations for TLC |
| `M70LogProofs` | theorems about `M70Log`: types, the open FILE, the counter |
| `M70HistoryProofs` | theorems about `M70Log`, on those of `M70LogProofs`: the files on the disk |
| `M70Error` | error codes, the two conversions, the last error (no state) |
| `M70Conn` | EXTENDS `M70Error`: several connections over a table of descriptors; its own run module |
| `M70ConnProofs` | theorems about `M70Conn` |
| `M70Read` | EXTENDS `M70Conn`: the reading functions, one action per request |
| `MCRead` | small devices for TLC |
| `M70ReadProofs` | theorems about `M70Read`, on those of `M70ConnProofs` |
| `M70Poll` | EXTENDS `M70Read`: the demonstration program |
| `MCPoll` | its function list for TLC |
| `M70PollProofs` | theorems about `M70Poll`, on those of `M70ReadProofs` |
| `M70Wire` | the lengths of requests, against a device that parses them |
| `M70WireProofs` | theorems about `M70Wire` and `M70Util` |
| `M70Util` | conversions as operators |
| `MCWire` | instances of `M70Wire` and `M70Util` for TLC |

There are three layers that refine each other: `PollSpec => Spec` of `M70Read`
(the program is one use of the reading functions) and `Spec => ConnSpec` of
`M70Conn` (the reading functions do to connections only what requests do). Both
are proved and checked, so what is proved of a layer holds in those above. Below
`M70Conn`, `M70Giop` is the detail of one request and implements `GiopRpc`; the
outcomes of a request in `M70Conn` (`Answered`, `Lost`, `EndOfFile`, `Killed`,
`Hangs`) are those `M70Giop` has, as the argument under `M70Conn` says: this step
is not checked.

### GiopRpc

Five pieces: a call is in progress or not (`phase`), the connection is usable
or not (`up`), the device's `verdict` on the latest request, the last `result`.
`Return` gives the verdict of the request, or "lost" if the connection was lost
during the call. A call may be refused without a request.

### M70Giop

The calling thread is `pc`: `idle`, or the `recv()` in `m70_giop.c` it is at.
A call (`SendRequest`) goes through `RecvHeader` and `RecvReplyHeader`
(`mel_receive_response`), the exception branch `RecvExcLength`, `RecvExcText`,
`RecvExcPack`, `DrainException` (`receive_error_data_response`), or the
operation's own reads `RecvField`, `RecvData`, `RecvRest`, and ends with `Drain`
(`receive_remain_info_response`) and `Return`. What the sixteen operations read
differs only in data: `Body` lists fixed fields, the fields whose zero ends the
reading, the tail and the code returned on an invalid connection; `melGetData`
has two entries because axes in `T_FLOATBIN` have a longer header.

`remain` is `msg_length`, `socket` and `connected` those of `m70_conn_t`
(`socket` is `conn->socket > 0`). The byte stream is kept as counts: `coming`
(sent), `avail` (received by the kernel), `own` (those of the latest reply),
`fresh` (nothing of that reply read). Because it is a FIFO, the first
`avail + coming - own` bytes are left over from earlier replies, so a stale
reply is visible without modelling contents. A length field read out of place
or in part holds any value of `Junk`, which stands for uninitialised structures
too. `sync` is a history: every read of this call has got what it asked for.

`RecvResults` is `socket_recv_data_one_loop`: all bytes asked for, a part of them
at a read in `SplitAt`, 0 at end of file, -1 at a read in `StallAt` (the 5 s
timeout), when nothing will ever come, or after a reset. The device answers a
connection's requests in order; it may answer late, and close with bytes unsent.
Requests have no contents; a failed send is a request that is never answered.

### M70Log

`sys` is `g_log_config` with the files, the number of open `FILE`s, the lines
sent to each path, and whether the process called `fclose(NULL)`. As a call is
not interrupted, each is one action; because it contains the log line it writes
and the rotation this line causes, operators map a state to the set of states a
piece of the call may leave, and the action composes them as the code does
(`SetFile` = `Fclose`, path, `OpenLog`, `log_write`, which may
`rotate_log_file_if_needed`). Lines are numbered per path, and a file is the set
of lines in it and its size. `FailAt` names the C library calls that may fail.
A line that `fprintf` accepted is taken to reach the disk (`fflush` does not
fail on its own). Console output, formatting and the three `include_` switches
keep no state that matters here. `InitDefault` is `m70_log_init(NULL)`: whatever
the comment at `m70_log.c:147` says, it keeps the settings that are there.

### M70Error and M70Conn

`conn` are the application's `m70_conn_t`, `link` what is behind each descriptor,
`errno`, `last` the last error (its message left out), `alive` whether the thread
goes on: SIGPIPE has not ended the process, and it is in no request that hangs;
`orphans` is a history variable. `socket_open_tcp_client_socket`
is the set of its outcomes: no descriptor; connected; refused, where the error is
recorded (167), the socket closed (unless it is 0) and `setsockopt` then called
on -1 (178), which leaves EBADF. `m70_cnc_connect` zeroes the structure first
(35), so the test in `giop_connect` (190) for a socket to close is never true:
the branch is not in the model. Descriptors are taken lowest first, so a closed
one is used again at once.

The outcomes of a request, from `M70Giop`: the header comes whole (`Answered`);
the first `recv()` fails (`Lost`, `connected` cleared); it returns 0 at the end of
the stream, which is taken for success (`EndOfFile`), while the device's host
answers the request with a reset; and the `send()` after that one raises SIGPIPE
(`Killed`), which nothing ignores. A request may also never end (`Hangs`): the
drain (`m70_giop.c:108-113`) waits for the announced bytes without end when the
stream ends inside a reply, where `recv()` returns 0, or when a byte of it was
counted wrong after a timeout (`MCGiopStall`). The descriptor stays open and the
process does nothing more.

### M70Read

`at` is the request a call is at (`mode`, `auto`, `run` of `m70_cnc_read_status`;
`method`, `code`, `register` of the overrides; `first`, `second` of date and time
and of the external accumulative time; `count`, `axis` of the lists; `single` of
all others). An action is one request with what the function does before the
next. Between two requests `DeviceChanges` may change the registers (`dev`) and
`Closes` break the connection. `out` are the caller's outputs, `Caller` where the
function has not written; `got` what it keeps in local variables; `seen` and
`results` are histories. A request's result is `ok`, `error`, `lost`, `invalid`
or `empty`: success without data, which leaves the local variable as it was.
`StopsInCall` is a request that ends the process or hangs: the call gets no result.

Functions of one request differ in the register, in whether they clear the
output first (`Cleared`), in what an empty success leaves (`WithoutData`) and in
what they return (`m70_cnc_read_is_alarm` never returns OK), so they are names in
sets. `m70_cnc_read_svo_load` reads the first axis whatever is asked (466), and
an axis index above 8 reads the first as well: the model says so and no property
claims otherwise.

### M70Poll

`pc` is where `main` is, `call` the number of the call in its group; the two lists
of calls are those of the code. `read_axis_position_info` ends after the names if
they were not read. A group returns the code of its last call (178, 215), and
`main` counts the groups that failed. `lateGroups` is a history: groups whose last
call (`MayBeLast`) found the connection lost. `auto_startup_time` is stored in
`auto_op_time` (162): only printed, and not in the model.

### M70Wire and M70Util

`Operations` gives for each of the fifteen `mel*` functions the `operation_length`
it passes to `build_request_pack_header` and its pack: bytes of `op` with padding,
32-bit words, bytes of the array. `data_length` and `BytesSent` are the
expressions of the functions. The device reads as GIOP prescribes: request
header, operation aligned to four, words, then the bytes the last word announces.
The contents of words are left out.

`M70Util` has the conversions over digits of base `Byte` and a value of `Bits`
bits. Shifts and masks become quotients and remainders. What the code does in
loops is a recursive function here (`Power`, `Assembled`, `Digits`), which both
TLC and the proof system take.

## 3. Runs

Every run is complete: TLC exhausts the instance. Figures are distinct states.

| Run | Expect | Shows |
|---|---|---|
| `MCGiopProtocol` (19 k) | pass | all 16 operations, answers and exceptions, late headers, split data: `AnswerReported`, `DataWhole`, `CallReturns`, `ImplementsRpc` |
| `MCGiopStream` (274 k) | pass | short, late and broken reads anywhere but a split header, other messages, closes: `Framing`, `RemainCoversReply`, `NoStaleReply`, `LostCallFails`, `LostConnectionUntouched`, `DataWhole`, `TypeOK` |
| `MCGiopStall` | violation | after one timeout in a body the call never returns (`m70_giop.c:113`) |
| `MCGiopErrorLost` | violation | an error reply in two segments is returned as success (`m70_giop.c:932`) |
| `MCLogHistory` (6 k) | pass | no failures: `OldestLostFirst`, `HistoryKept`, `FileTargetOpen` |
| `MCLogFailures` (58 k) | pass | mkdir, fopen, rename, remove fail: `OneHandle`, `FullWhenRotated`, `CounterNotAbove`, `TypeOK` |
| `MCLogSize` | violation | short lines are counted as nothing, the file is never rotated (`m70_log.c:395`) |
| `MCConn` (105 k) | pass | two connections, four descriptors: `OwnDescriptor`, `OnlyOverwrittenLost`, `ConnectCause`, `ErrorTablesAgree`, `ConnTypeOK` |
| `MCRead` (580 k) | pass | every kind of reading function against a changing device: `StatusTrue`, `ClockNeverAhead`, `NothingHalfWritten`, `AxesAligned`, `OutputsRead`, `OkMeansAnswered`, `ConnSpec` (the refinement), `ReadTypeOK` |
| `MCReadShadowed` | violation | an override returns FAILED after it read and stored the register (`m70_ezsocket.c:657`, 764) |
| `MCPoll` (35 k) | pass | the program: `LossCounted`, `CleanEnd`, `ProgramEnds`, `Spec` (the refinement), `PollTypeOK` |
| `MCWire` (184) | pass | all requests, names of 1 and 256 bytes: `MessageExact`, `StrayOnlyAfterNames`; `ConversionsInvert`, `ItoaExact` |

`OkMeansAnswered` and `StatusTrue` speak of `empty` results explicitly: an
error reply in two segments is an empty success (`MCGiopErrorLost`).

`DataWhole` says where data can be lost. A read that comes short or fails loses
what it asked for, and the code does not notice (`socket.c:132`); the property
claims that nothing else loses any: a success all of whose own reads were whole has
stored everything the device sent, although earlier calls on the connection were
cut short or late. `MCGiopStream` checks it where reads are disturbed,
`MCGiopProtocol` for all sixteen operations.

`MCReadShadowed` has only the two overrides among its functions, so that its
trace is theirs. `m70_cnc_read_is_alarm` (`m70_ezsocket.c:417-430`), which sets the
alarm and never its `ret`, violates `FailedMeansFailed` as well.

### Bounds

- Sizes of headers and fields are 1 to 3 bytes instead of 4 to 20: every read is
  then whole, split at each place (2 or 3 bytes) or empty, and fields of one
  byte keep the states few. The proofs take any sizes.
- `MaxRequests = 2` per connection, connections without bound: the second
  request is the one a stale reply would meet.
- `RemainCap = 9`: a failed `recv()` adds one to the bytes left to read, for
  ever; above the cap it adds nothing. It exceeds any message, so what it cuts
  off are states that differ only in how far too large `msg_length` is.
- `MCJunk = {-1, 0, 3}`: a misread length that is negative, zero, or longer than
  the data announced in any reply.
- Four operations in `MCGiopStream` stand for the shapes of a body: none, header
  with data, rest, announced data.
- The logger: a kilobyte of 4 units, lines of 3 (counted as nothing) and 5
  (counted as one); files are full at 1 KB and 2 old ones are kept; at most
  `MaxLines` lines per path, enough to fill the current and both old files and
  lose one. `Width = 64` stands for 2^32 KB. `MaxOld = 5` is the default count.
- `MCConn`: two connections show a descriptor passing from one to the other;
  descriptors 0, 3, 4, 5 show the one that is not closed, and exhaustion.
- `MCRead`: one function of each kind; two changes of the device, so that each of
  the three requests of the status sees another state; `DayLen = 2` and
  `LastDate = 2`: two midnights; modes with and without automatic operation;
  axis indexes 2, 8 and 9 about the limit of 8; lists of 0 and 3 axes. One
  connection, one descriptor: calls touch one connection.
- `MCPoll`: `TEST_COUNT = 2`, so that a loop is repeated; all 33 calls; one change
  of the device during a call; single values of most registers, which the
  program only prints.
- `MCWire`: `Byte = 2` and `Bits = 6`: all values of 2, 4 and 8 such bytes, of
  both signs; texts of up to 3 of two letters; the shortest and the longest name.
  The proofs take every name and every width.
- Covered by proofs and by no run: split GIOP headers (`TypeCorrect`,
  `LostCallFailsCorrect`, `LostConnectionUntouchedCorrect`); `set_*` called on an
  uninitialised logger (`LogTypeCorrect`, `CounterCorrect`,
  `FileTargetOpenCorrect`); lost and late data in a call that still reports the
  device's verdict (`AnswerReportedCorrect`, `ImplementsRpcCorrect`); a history
  over failing `fopen`, `mkdir` and `remove` (`OldestLostFirstCorrect`,
  `HistoryKeptCorrect`); bytes of 256 values.
- `MCLogFailures`, `MCConn`, `MCRead`, `MCReadShadowed` and `MCPoll` do not check
  deadlock: the process may end, by a crash, by SIGPIPE or at the end of `main`, or
  hang in a request.

### Fairness

`FairSpec` adds weak fairness of `Reading` and of `Deliver`. `Reading` is the
thread inside a call: it is scheduled, and a `recv()` that can return does,
because it has bytes, an end of file, or its 5 s have passed. `Deliver` is TCP: a
connection that stays open delivers what was sent. The device need not answer
and the application need not call. `CallReturns` holds only for a device that,
once a header was read, sends the rest (`MCGiopProtocol`); `MCGiopStall` shows
what one gap of more than 5 s does. Its counterexample ends in the drain, waiting
for bytes nobody owes: each `recv()` times out and adds one to `remain`, and at
`RemainCap`, where the count is cut off, the same step repeats without a change.

In `M70Conn`, `M70Read` and `M70Poll` a request is one step, and may hang or end the
process. That a reading function returns would therefore have to assume what
`MCGiopStall` refutes: `M70Read` has no fairness and claims nothing of the kind.
`PollFairSpec` is weak fairness of `Main`, the thread of `main` while it goes on
(`alive`), and `ProgramEnds` claims only what needs no request to end: once the
connection is lost, at whichever call of whichever iteration, the program makes its
remaining calls, leaves its loops and reaches its exit. It never connects again and
a call on an invalid connection sends nothing, so there is nothing left to hang in.
The call in which the loss is found comes to its end too: lists count up to their
length, and their remaining requests return at once. On a connection that is not
lost nothing is claimed.

## 4. Proofs

`M70GiopProofs`, for all sizes, operations, replies, junk values, splits and
stalls:

- `TypeCorrect`: `Spec => []TypeOK`, from `SizeAssumption` alone. The invariant
  adds that `fld` stays inside the operation's fields.
- `FramingCorrect`, `RemainCorrect`, `NoStaleReplyCorrect` assume `HeaderWhole`
  (`"header" \notin SplitAt`): a GIOP header arrives in one `recv()`. Without it
  they do not hold: a split header leaves its tail for the next call. The three
  follow from one inductive invariant, `StreamInv`. None of the properties is
  inductive: `Framing` says nothing inside a call, and `RemainCoversReply`
  nothing at the header, where it is established. `StreamInv` says for each
  place what the stream holds: at the header of a call all of it is the latest
  reply's, unread, and it is the answer to the latest request if there is one;
  inside the reply the unread bytes are the latest reply's and `remain` covers
  them; when a call ends nothing is left. On a lost connection it says nothing
  of the stream: `connected = false` after a failed header read is what makes it
  inductive, and is what the mutant `HeaderFailed_KeepsConn` removes. One lemma,
  `RecvStream`, covers every `recv()` inside a reply.
- `LostCallFailsCorrect` and `LostConnectionUntouchedCorrect` need no
  `HeaderWhole`. Their invariant `LostInv` says at which places a call can be on
  an invalid connection: only at its end, with code -1 and nothing left to read,
  because only a header read, before anything was announced, loses it.

`M70RpcProofs`, for all sizes, operations and replies, of the constants that
satisfy:

- `Intact`: the parts of a reply that say what it is (header, reply header,
  length and code of an exception) come in one `recv()` and in time, the device
  does not close in the middle, and it answers with a reply whose exception
  carries an error code (1 in the model; `m70_giop.c:97` returns the device's code
  as the result of the call, so that a device which sent 0 or -1 in an exception
  would be taken for success or for a loss). Headers may be late,
  and data may be split, late and of any length. `MCGiopErrorLost` shows what
  happens without it.
- `Fitting`, for the data: GIOP headers are not split (`HeaderWhole`), and what the
  device sends with a success fits what the operation reads. Reads inside a reply
  may be short, late or fail, and the device may close: the instances of
  `MCGiopStream` and `MCGiopProtocol` are such ones.

Under them:

- `AnswerReportedCorrect` (`Intact`). `AnswerReported` speaks of the end of a call
  only; the invariant `RpcInv` says at each `recv()` which part of the latest
  reply comes next (`own` is what is left of it) and whether the call is in the
  exception branch exactly when the device answered with one, and that requests
  are answered once (`Asked`). It stands on `StreamInv` and `LostInv`.
- `ImplementsRpcCorrect` (`Intact`): `Spec => Rpc!Spec`, by `RpcInitMaps` and
  `RpcStepMaps`. There is a lemma for each kind of step: connect, disconnect,
  request, refusal, answer, loss and return are the action of `GiopRpc` of that
  name, all other steps stutter. The one step that needs the invariant is
  `Return`: the code of a call whose connection held out is the verdict.
- `DataWholeCorrect` (`Fitting`). `DataInv` says that, as long as every read of the
  call has been whole (`sync`), `msg_length` is what is unread of the reply and
  before field k exactly the fields before it are read; a short or failed read
  ends the claim for this call (`DataVacuous`), and the next request takes it up
  again, because `StreamInv` has the stream at a message boundary then
  (`HeaderInPlace`). `BodyShape` has the six ways in which the sixteen operations
  read a body.

`M70LogProofs`, for all paths, configurations, sizes and failures, from
`LogAssumption`:

- `LogTypeCorrect`: `Spec => []TypeOK`.
- `OneHandleCorrect` assumes `"early" \notin Uses`: `set_*` are called on an
  initialised logger. Otherwise `m70_log_init` overwrites the FILE they opened.
- `CounterCorrect` assumes `"fprintf" \notin FailAt`: otherwise the -1 of a
  failing `fprintf` wraps the counter, from 0 to 2^32 - 1, and the next line
  rotates a file that is not full.

  The invariant is `Inv` (types; a FILE in use is open and has a path; the
  counter is not above the size) and, when `set_*` are not called early,
  `Good` (exactly one FILE, and none on an uninitialised logger). There is one
  lemma for each piece of a call (`FopenInv`, `FcloseInv`, `MeasuredInv`,
  `RotateInv`, `AppendInv`, `WriteInv`) and each call, composed as the operators
  are. The counter needs the arithmetic lemmas `DivBound`, `ModBound`,
  `SumBound`: whole kilobytes of the parts never exceed the whole.

`M70HistoryProofs`, for all paths, configurations and sizes, and all orders of
calls that `Uses` allows:

- `FullWhenRotatedCorrect` assumes `Sized`, `OldestLostFirstCorrect` and
  `HistoryKeptCorrect` assume `Counted`: `set_*` are called on an initialised
  logger; `fprintf`, or `rename`, does not fail; and the configurations agree on
  `max_file_size`, or `max_file_count`. The last is what the repository does (10240
  and 5 in `main.c:310` and `log_error_example.c:37`), and needed: a restart with
  fewer files leaves those with higher suffixes behind, where they are never
  removed. `fopen`, `mkdir` and `remove` may fail.
- `FileTargetOpenCorrect` assumes `Opens`: `mkdir` and `fopen` do not fail and
  `m70_log_init(NULL)` is not called: after a shutdown it leaves the target a file
  and does not open one (`m70_log.c:147`). `rename`, `remove` and `fprintf` may fail, and calls
  come in any order.

  The invariant `HistInv` describes the disk per path, and the first three are
  read off it: the suffixes in use are the first ones, a higher suffix holds
  older lines, what is missing is older than what is kept and is missing only if
  the path has its `max_file_count` files, and a rotated file has the limit's
  size. `FullWhenRotated` needs the counter as well (never above the size,
  `CounterCorrect`). Three lemmas (`RotatedShape`, `RotatedPath`, `RotatedFull`)
  take the loop of renames at once, for any files and any count. `FileTargetOpen`
  is inductive together with the types.

`M70ConnProofs`, for any connections and any descriptors (`Fds \subseteq Nat`):

- `ConnTypeCorrect`, `OwnDescriptorCorrect`, `OnlyOverwrittenLostCorrect`,
  `ErrorTablesAgreeCorrect`, and `ConnectCauseCorrect` for the action property.
  `OwnDescriptor` is not inductive: a lost connection still holds its socket,
  which must not be given to another. `ConnInvariant` therefore says for every
  structure, valid or not, that a positive socket is open and nobody else's
  (`Held`), that a marked descriptor is not free (`Marked`), and
  `OnlyOverwrittenLost` itself.

`M70ReadProofs`:

- `ReadsAreConn`: `Spec => ConnSpec`, by lemmas for each action that it is a step
  of `M70Conn` or leaves its variables alone; `ReadersOwnDescriptor` then carries
  `OwnDescriptor` over.
- `ClockNeverAheadCorrect`, for any `DayLen` and `LastDate`. The invariant
  (`ClockInv`) says that the device's present instant is the latest of those seen
  during the call, in date and as a whole, and that the date read (`got`) is that
  of one of them. That the date is read *before* the time is what makes it enough:
  an older date with a later time is still in the past. The mutant
  `PairOrder_Swapped` reads the time first.
- `StatusTrueCorrect` (`StatusInv`: at each place, what the outputs so far say was
  true at some instant of the call) and `OkMeansAnsweredCorrect` (`OkInv`: which
  results a call can have had when it is at a request).
- `ReadTypeCorrect`, `NothingHalfWrittenCorrect` and `OutputsReadCorrect`, for any
  device. `CallTypeInv` says which places a function has and what its histories
  hold there; `OutputsInv` adds that until the call returns the outputs are as the
  function set them before its first request, and that a second request follows
  a success only, so that a failure cannot leave half.
- `AxesAlignedCorrect`, for any number of axes (`Counts \subseteq Nat`). `AxesInv`
  says that a list being filled has an entry for each axis asked so far, its own
  or none: the place of an entry does not depend on which requests before failed.

`M70PollProofs`, for any `TEST_COUNT`:

- `PollImplementsRead`: `PollSpec => Spec`.
- `PollTypeCorrect`; `LossCountedCorrect`, whose invariant (`LateInv`) says that a
  group whose last call found the connection invalid ends with FAILED and is then
  counted: `lateGroups` is ahead of `failed` only while that call returns;
  `CleanEndCorrect`, whose invariant (`Clean`) says that the program never connects
  over a socket it holds: `orphans` is empty, and `OnlyOverwrittenLost` of
  `M70Conn`, which holds by the refinement, leaves only the socket in `conn0`.

`M70WireProofs`, for all names up to 256 bytes and all data types:
`MessageExactCorrect`, `StrayOnlyAfterNamesCorrect`. The invariant (`WireInv`) says
how many announced bytes are left at each place; the arithmetic is per operation.

The same module proves the conversions, from `UtilAssumption` (a byte has an even
number of values, a value at least one bit), so for the 256 and 64 of the code:

- `ConversionsCorrect`: `ConversionsInvert`. Adding up bytes gives the number less
  what is above them (`AssembledBytes`), and each byte is the one of the number
  (`BytesAssembled`); the signed, unsigned and swapped conversions follow.
- `ItoaCorrect`: `ItoaExact`. The digits denote their number (`DigitsExact`, with
  `NumberCons` for one digit more), a number of m bits has so many digits
  (`DigitsLength`), and the magnitude of a negative value is its two's complement
  (`MagnitudeIs`).

The induction theorems of the library take an operator as parameter, which the
provers do not. Here induction is over *sets* of numbers: a set of numbers that
is not empty has a least element (`LeastNat`, from `NatLessThanWellFounded`), so a
set with 0 and every successor has all (`Induct`, `InductTo`, `CourseOfValues`). A
recursive function is a `CHOOSE`, so for each of them a lemma first shows that a
function with these equations exists (`PowerFunction`, `UptoFunction`,
`DigitsFunction`, `NumberFunction`).

Only model-checked: liveness, that is `CallReturns` of `M70Giop` and `ProgramEnds`,
which is beyond TLAPS here. Every safety property of a passing
run is a theorem, under the assumptions above. The runs of `violation` show that
some of these assumptions are needed.

## 5. Not modelled

- The contents of requests and replies: a *wrong* answer with a right length, and
  the section numbers of the reading functions.
- The width of file handles and sizes on a platform with 8-byte `long`
  (`m70_giop.c:451`), and of `T_DLONG`, announced as 8 bytes and set as 4 (295):
  byte counts stand for fields.
- Buffers of the caller are taken to be large enough, and names to have at most
  256 bytes.
- `log_error_example.c` (a list of calls `M70Log` allows), build files.
- `socket_recv_data` and the Windows-only branches, console output, messages and
  their formats, the line `m70_error_set` logs, `str_to_int`, `str_toupper`,
  `str_tolower`.
- A GIOP header that is split: `MCGiopStream` and the theorems on the stream leave
  it out; what the next calls then read is not described.

## 6. What is left

1. The step from `M70Giop` to the outcomes of a request in `M70Conn`, as a
   refinement over one connection.
2. Proofs: what a logger with changing `max_file_count` still keeps; the stream
   theorems without `HeaderWhole`, in the form that 4 allows.
3. Widths: file operations with 4-byte fields on the wire and 8-byte `long`.
4. Recovery of the stream after a split header.
5. The logger composed with the other modules: `m70_error_set` writes a line, and
   the log's failures could then be seen by the program.
