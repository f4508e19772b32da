# Verification of the POS server

TLA+ models of the C++ point-of-sale server in `src/`, checked with TLC on small
instances, and theorems about them checked with TLAPS.

The program is a small TCP server that runs on a terminal. It receives ISO 8583
messages wrapped in `<isomsg>…</isomsg>`, sends each one to a payment backend with
an access token, and relays the answer. What is hard about it is not the parsing: it
is that the credentials behind that access token are a chain of one-time values,
spread over the backend, the process environment and three files, and rewritten
by whichever thread happens to meet an expired token, without a lock.

## 1. Inventory

| Component | Source | State it keeps | Operations |
|---|---|---|---|
| Access token life cycle | `logic/accesstoken.hpp`, `refreshtoken.hpp`, `setup.hpp`, `requests/activate.hpp`, `session.hpp`, `responses/*`, `utils/io_utils.hpp` | `ACCESS_TOKEN`, `TOKEN_EXPIRY_TIME` (process environment), `device_security_parameters.json`, the environment file of the service, `secrettoken.txt` | `setup`, `requestAccessToken`, `requestAccessTokenFromSecretToken`, `processActivateResponseOK`, `requestRefreshExpiredToken` |
| `set_token` | `set_token/set_token.cpp` | the secret and the environment file | empty the environment, remove the old secret, ask, save, install the service |
| Custom server mode | `logic/server_custom.hpp` | one receive buffer per connection | accept, read, frame, execute, reject, echo, close |
| Request execution | `logic/server.hpp`, `requests/sendplaintext.hpp`, `utils/request_utils.hpp` | the token it was started with | post the payload, recognise an expired token, refresh, retry, answer |
| Periodic refresh | `logic/periodic_access_token_refresh.hpp` | the time of the next refresh | sleep, refresh |
| Other server modes | `server_original.hpp`, `server_threads.hpp`, `server_libevent.hpp` | the token of the start of the server | accept, read to the end of the file, execute |
| Logger | `utils/log_utils.hpp` | period, file | rotate, delete old files, write |
| Start and stop | `main.cpp` | the stop flag | options, setup, threads, server |
| Configuration | `shared/*` | settings, constant after the start | load |
| ISO 8583 fields | `utils/request_utils.hpp`, `test.cpp` | none | parse, alert message |
| Vendored JSON | `utils/json*.hpp` | none | third-party code |
| Test client | `test_client/test_client.py` | none | send, wait for the answer |

### Interactions

* `set_token` and the server share the secret and the environment file; the service
  manager turns the environment file into the environment of the process at a start.
  `set_token` has the path of that file in its text, the server takes it from the ini
  file: they are one file here, as in the installation that `set_token` makes.
* `main` calls `setup` alone, then starts the periodic thread (detached) and the
  server, which detaches one thread per connection.
* The periodic thread calls `requestRefreshExpiredToken` (through
  `askRefreshToken`); so does every connection thread on an "Access token expired"
  answer or on field 32. Each starts a thread for it and joins it at once. There is no
  lock.
* Every session request carries `hash(device key, sequence number)`. The number is
  read from the device file, incremented, and saved after the session is granted.
* Errors end calls in four ways: `{1, ""}`, an exception that some callers catch,
  `std::exit` from any thread, and only a log line (all file saves).

### What is hard

Interleavings of refreshes over the same file and environment; files that are
truncated when opened and written later; a crash or a lost answer between the
backend's acceptance of a number and its save; a process that any thread can end; TCP
cutting the stream anywhere, a client that goes away before its answers; retries
without a limit; a refresh loop that depends on the clock. `PROJECT.json` lists each
at its line under `hazards`.

### What makes each component correct

* Credentials: one refresh publishes at a time; the token of a device never goes
  back; what is saved is what the backend accepted last; token and expiry time belong
  together; with one refresher and no crash the device is never locked out; a
  device's credentials are never gone from the disk; a restart resumes the
  latest session; only a spent secret is deleted.
* A connection: nothing of a well-formed stream is lost, doubled or reordered; each
  payload is executed whole; a waiting client gets the right kind of answer; every
  message is executed in the end; no client stops the server.
* Request execution: no payload is executed twice; what a requestor is told is what
  happened; the next attempt carries a later token than the refused one; every
  request ends; a failed refresh yields an alert, and not silence or a crash.
* Periodic refresh: the token is renewed before it expires and not long before; the
  loop goes on after a failure, and ends when it is told to.
* The four accept loops: what was received is executed whole, once, in the order of the
  mode; a client that ends its stream is done with; the stop signal stops the server.
* Logger: what was logged lately is on file, and what is old goes.

## 2. Modules

### `AccessToken.tla`

Actors: any set of `Worker` threads of the running server, the `Main` thread,
`set_token`, the backend and crashes. A step is what one thread does between two
points that another can observe: one `getenv`/`setenv`, one open (which truncates),
one flushed write, one exchange with the backend.

| Model | Code |
|---|---|
| `env`, `envFile` | the two variables, each recorded as the session it came from; the same in the environment file |
| `deviceFile` | `device_security_parameters.json`: device (named by its secret) and sequence number; an empty, missing or half-written file is `NoParams`, since all three make the reader throw |
| `params[t]`, `token[t]` | the `ActivateDeviceAPIResponse` of the call, and the token in the session's answer |
| `caller[t]` | where the call was made, which decides what an exception does (`Throw`) |
| `Setup…`, `ActivateDevice`, `OpenActivationFile`, `WriteActivationFile` | `setup` → `requestAccessToken` → `requestAccessTokenFromSecretToken` |
| `BeginRefresh`, `ReadDeviceFile` | `requestRefreshExpiredToken` up to `incrementDeviceSequence` |
| `SessionGranted`, `…ReplyLost`, `…Unreachable`, `…Refused`, `…Empty` | the session request in `processActivateResponseOK` and its five outcomes |
| `SetToken` … `UnlinkSecret` | the rest of `processActivateResponseOK` |
| `OpenDeviceFile`, `WriteDeviceFile` | the save at the end of `requestRefreshExpiredToken` |
| `ClearEnvFile`, `RemoveTokenIfExists`, `SaveSecretToken` | `set_token`: an environment file that cannot be opened is left as it is, and ignored; a secret that cannot be removed ends the tool by an exception |
| `registered`, `lastHash`, `Accepts` | external: the backend. A secret registers one device once; a session is granted to a known device whose hash number is beyond the last one granted. A new device starts at sequence number 0 |

The backend's rule is the one assumption about code that is not here; it is what the
sequence number in the source is for. Whether the backend also refuses numbers that
skip ahead does not matter: `HashNeverSkips` says that none does.

Abstracted: the clock (a token with an expiry time may be found valid or expired at
any start), the text of every message, the keys and their encryption. `std::exit` is
one step. `Faults` selects which failures may happen: `request`, `reply`, `backend`,
`disk`, `setenv`, `crash`.

### `ServerCustom.tla`

One connection of the custom mode. The stream is a sequence of symbols: a tag is two
symbols, so that a `read()` can end inside one, and everything between the tags is
one symbol, as is a newline or another text between messages. `Find`, `SubStr`,
`CompleteMessage`, `AfterMessage` and `MessageLength` (which wraps, as `size_t` does)
are the string operations of the loop. `Read(n)` takes any prefix of what was sent.
`Execute`/`Executed` enclose `checkTokenAndExecute`, which takes time and answers or does
not. `HandlerEnds` is every other end of the handler, at any point: a `select()` that fails
(with `EINTR` too, and SIGINT only sets a flag), a `read()` that fails, a process that ends by `exit()` or an
exception, in `checkTokenAndExecute` or on another thread; what was received is then lost. `Reply` has the socket: open, closed by the client, or reset, in which case a
`send()` raises SIGPIPE. The client is a pipelining one or, as the test client, one
that waits for an answer first (`waits`).

### `SendPlainText.tla`

The composition: the client handlers that execute requests, on top of `AccessToken`
(`EXTENDS`, sharing its variables). `Worker` is the set of handlers and the one `Periodic`
thread. A handler's step is a step of its request together with the step of its refresh
that it is part of; `Elsewhere` is everything in `AccessToken` that touches no
request: `set_token`, `setup`, the periodic thread, the inner steps of a refresh.

| Model | Code |
|---|---|
| `request[h]` | the frame of `sendPlainTextAttempt` on thread `h`: where it is, the token and the length of its payload, whether the `try` of the field 32 branch encloses it (that branch calls the next attempt from inside it, and all that follows stays inside), and two history fields: how often the backend executed the payload, and what the requestor was sent |
| `Receive` | `handleClientCustom` reading `ACCESS_TOKEN` for a message and calling `checkTokenAndExecute` |
| `Respond` | a response without "TOKEN EXPIRY": returned unmodified |
| `PostFails` | a lost, cut or erroneous response, examined and forwarded like any other |
| `ExpirationWarning`, `TokenExpiry` | the two ways to say that the token is expired, and the branches that refresh |
| `RefreshSucceeds`, `RefreshFails`, `RefreshThrows` | the three ways in which `future.get()` comes back; in the fourth, `std::exit` or an exception outside the `try`, the process ends (`Elsewhere`) |
| `Alert` | the alert message, of which the `substr` from 137 on throws for a payload of less than 137 characters (`"short"`), caught or not |
| `expired`, `Valid`, `Expire` | external: the backend refuses a device's tokens up to some sequence number, and says so truthfully |

A handler keeps its last request until it receives the next one, so that the invariants
about `executed` and `sent` are about finished requests. The stream is the
subject of `ServerCustom`, where the same call is `Execute`/`Executed`, and a `send()` to
a client that has gone can end the process.

### `SessionStore.tla`

What `AccessToken` promises, without its threads: four cells, `granted` (the backend's
number), `published` (the token that requests carry), `stored` (the token that a restarted
service resumes with) and `saved` (what the next refresh starts from). Each of them is
written in one step: a token is published only while it is the latest one of its device,
only the published token is stored, only the number of the latest session is saved; a stop
or a failure may empty a cell, and a restart resumes with what was stored. `AccessToken` implements it with the mapping
`granted <- lastHash`, `published <- env.token`, `stored <- envFile.token`,
`saved <- deviceFile` (`Store`, `ImplementsStore`): its many steps between two writes are stutters.

### `PeriodicRefresh.tla`

The periodic thread, the clock and the life of a session, in half minutes. `left` is what
remains of the token of the process, relative to now, so that no absolute time is needed.

| Model | Code |
|---|---|
| `Difference`, `Truncate`, `WaitTime` | `difftime(mktime(&tm), now)` and `int(difference / 60) - 1` |
| `World` | what a run does not change: the lives the backend gives its sessions (`lives`), summer time (`getFutureTime` prints local time, and the `tm` it is parsed into says that summer time is off, so `mktime` adds `Shift`), whether the `tm` whose address `get_expirytime_from_env` returns is still intact when it is read (if not, the difference may be any value of `Garbage`, which is what undefined behaviour is here), and whether every refresh is granted |
| `FallAsleep`, `Wake` | `sleep_for(minutes(waittime_sec))` |
| `Spinning` | the round of the loop in which the waiting time is negative: nothing happens and time passes |
| `AskGranted`, `AskFails`, `AskThrows` | `askRefreshToken`: granted, logged as failed, and rethrown by `future.get()` on a detached thread, which ends the process |
| `HandlerRefreshes` | the same refresh by a client handler, at any time |
| `Start`, `Signal`, `LeaveLoop` | `is_valid_access_token` in `setup`; the SIGINT handler; `while (!stop_thread_flag.load())` |

Computation takes no time, which is why `Tick` is not enabled between two steps of the thread that
follow each other at once. This favours the code at one boundary: with a life of exactly 60 seconds the
thread may read 59 of them, and spins. `left` counts no further down than `Floor`, beyond which every token looks
expired, and `since` no further up than the longest life.

### `ServerModes.tla`

The accept loops and the connections of the four dispatch modes, chosen in `Init` as the ini file
does. Streams are sequences of whole messages and of the two parts of one that a read may cut.

| Model | Code |
|---|---|
| `main` | where the thread of the accept loop is: at `accept`, at `while (!stop_thread_flag)`, back in `main()` |
| `order`, `Backlog`, `First` | external: the kernel's queue of connections, of which `accept()` returns the oldest |
| `handler[c]` | the server's end: reading, executing, closed, or `"leaked"`, which is a socket that the handler of threads returns without closing |
| `Accept`, `AcceptFails` | a connection, or no descriptor left (`limit`): exit in original and custom, one more round in threads, out of the event loop in libevent. The cast of a `CallbackData` to a `Logger` in `accept_conn_cb` may crash |
| `ReadToEnd`, `ReadArrived`, `EndOfConnection` | `handleClientOriginal` and `handleClientThreads`; `read_cb`; a read error, `event_cb` |
| `Process` | the empty string, a message, or anything else, which is echoed |
| `Reply` | `send` to a client that reads, has gone (RST follows) or has reset (SIGPIPE may end the process); the buffered write of libevent, which may be dropped |
| `PostSucceeds`, `PostFails` | `checkTokenAndExecute` with the token of the start, which is refused once it is expired, and then costs a session; what the backend answers in place of executing the payload is passed on |
| `PostLibevent`, `SetupLibevent` | `checkTokenAndExecuteLibevent`: `EnvTokenValid` is about the environment, the post about the token of the start, and the result of `setup()` is tested the wrong way round: the payload is echoed, or posted with an empty token, which may be answered by the alert, an echo or nothing |
| `Renew`, `Expire` | the periodic thread; external: the clock of the backend |

The handler of the custom mode is `ServerCustom`; here it only holds its socket. The time of
the tokens is `PeriodicRefresh`, the retries are `SendPlainText`.

### `Logger.tla`

The log directory over the runs of the server. A step is one call of `log()` (which holds `logMutex`
from the choice of the file to the written line), the start of a process, or a day. A
file is named by the run that made it and a number below seven; its content is the set of days on which
something was written to it. `sweep` is a history: what the last deletion found old, and could not remove.

| Model | Code |
|---|---|
| `Elapsed`, `ShouldRotate`, `NextPeriod` | `shouldRotateLogFrequentRotations`: the days since the start are compared with `currentLogPeriod`, which goes back to 0 after a week |
| `Old`, `OldFiles`, `DeleteOldLogs` | `deleteOldLogsOldFormat` and `deleteOldLogs`, whose messages create the current file again if it was deleted |
| `Left`, the argument `stay` | the files that `fs::remove` fails on, which is caught file by file: they stay. All of them, or `MaxStuck` at most |
| `Start` | `init()`, which a directory that cannot be read ends, and the process with it |
| `LogAppends`, `LogRotates` | `log()`, and inside each the file that cannot be opened |
| `LogThrows` | the directory that cannot be read, or not to its end: the period is set, the file name is not |

### The proof modules

`AccessTokenProofs` (types, the inductive invariant, mutual exclusion),
`AccessTokenSaveProofs` (what a refresh publishes and saves), `AccessTokenStoreProofs` (numbers
that are not skipped, the pairs, the refinement, and what holds of a server that is spared some
failures), `SendPlainTextProofs` (requests), `ServerCustomProofs` (the stream), `PeriodicRefreshProofs`,
`ServerModesProofs` and `LoggerProofs` hold the theorems of section 4. The `MC…` modules only add symmetry sets and values, and extend a module for TLC.

## 3. Runs

| Run | Question | Instance |
|---|---|---|
| `concurrent_refresh` | do concurrent refreshes keep each other's state intact under every failure, with `set_token` at any time? `RefreshExclusive`, `TokenNeverRegresses`, `SaveIsLatest`, `EnvComplete`, `HashNeverSkips`, the inductive invariants `IndInv`, `PublishInv` and `PairInv` (of which `EnvPaired` is a part), and `ImplementsStore`, the refinement of `SessionStore` | 3 workers, 2 secrets, all faults, `MaxHash` 3 |
| `single_refresher` | is a device whose refreshes do not overlap ever locked out, or its credentials lost? `SessionAccepted`, `CredentialKept`, `EnvPersisted`, `EnvPaired`, `SecretSpentBeforeDeleted` | 1 worker, 2 secrets, requests that fail or are refused, `MaxHash` 4 |
| `requests` | what is executed, answered and sent again while tokens expire under the handlers? `ExecutedOnce`, `AnswerTruthful`, `RetryCarriesNewerToken`, `RequestEnds`, and the inductive invariant `RequestInv` | 2 handlers and the periodic thread, 1 secret, tokens that expire twice, short and long payloads, lost answers, backend errors, `setenv` failures, crashes |
| `framing` | what does the framing loop keep, execute and answer, wherever `read()` cuts the stream? `StreamConserved`, `ExecutedInOrder`, `AnsweredInKind`, `EveryMessageExecuted` | 3 units of messages, newlines and text; a handler that may end at any point |
| `server_modes` | what do the four modes read, execute and answer, how often and in which order, and do they stop? `WholeStream`, `ReadOnce`, `OneMoreAfterStop`, `AnsweredInTurn`, `StopNoticed`, `EndServed` | 2 clients, one with a message and one in two parts, the other with a part of one; 1 or 2 descriptors; 2 sessions |
| `periodic` | is the token renewed in time, and how often is it asked for? `TokenKept`, `AsksSeldom`, `AsksAgain`, `StopEndsLoop` | lives of 1, 3 and 9 half minutes and every set of them, a shift of 4, wild differences |
| `log_files` | what stays and what goes in the log directory? `KeptForAWeek`, `OldFilesGo` | 2 processes after an older version, days 0 to 8; removals, writes and listings that fail |
| `refresh_returns` | violation of `RefreshReturns` | 2 workers, nothing fails |
| `one_time_config` | violation of `OneTimeConfig` | 1 worker, nothing fails |
| `rejects_only_invalid` | violation of `RejectsOnlyInvalid` | 2 messages |
| `runs_indefinitely` | violation of `RunsIndefinitely` | 2 messages |
| `record_kept` | violation of `RecordKept` | as `log_files` |

### Bounds

* `Worker`: three is one more than a conflict needs: one thread that commits, one that has
  asked, one that is reading. Any number is proved for `RefreshExclusive`.
* `Secret`: two, so that a device can be replaced, before or while a refresh is under way.
* `MaxHash` is a guard of `Start` and `BeginRefresh` only: a call that has begun ends.
  3 or 4 allow an activation, and refreshes of refreshes, over several restarts.
* `MaxExpired` bounds the number of expiries: it is an assumption as well as a bound, see
  `RequestEnds` below. 2 lets a request be refused, and refused again
  with the token that its own refresh, or another thread's, has brought. `MaxHash` is
  `MaxExpired` + 1 + the number of workers in `requests`, and `MayExpire` keeps `Start` and the periodic thread
  from using it up: no handler's refresh is ever blocked by the bound, which would be
  a false proof of the safety properties and a false refutation of `RequestEnds`.
* `Length` may contain `"short"` only if `"crash"` is a fault, because an uncaught exception
  of a handler is a crash for the threads of `AccessToken` (`LengthAssumption`).
* One secret in `requests`: handlers on two devices at once do not exist (`SameDevice`); a
  second device after a restart is in the other runs, and in the theorems.
* `MaxSent`: three units give a message before, after and between others, and with
  `Read(n)` every way to cut them. `SizeT` stands for 2^64 and only has to be longer
  than any buffer, which `BoundAssumption` states.
* `Client`, `Stream`, `MaxFd`: two clients are one that is served and one that waits, and with one
  descriptor one that cannot be accepted; a message and the two parts of another can be read together, one by one,
or across the boundary between the two.
  Any clients, streams and limits are in the theorems. `MaxSession` 2: the token of the start, and a later one.
* `Life`: a session shorter than a minute, one whose waiting time is zero, and one that is slept for
  minutes; every set of them, so that the lives may differ. `Shift` 4 (an hour, scaled down) is longer than the two
  short lives and shorter than the long one.
* `MaxDay` 8: the wrapped period and the elapsed one differ for good from the seventh day of a process on, and one
  that starts a day late gets there too; two processes suffice for a deletion by the other one.
  `MaxLine` 2: a line that is lost and one that is not; `MaxStuck` 1: a deletion removes all old files, all but
  one, or none. `Old` treats each file alike, and the theorems have neither bound.
* `CHECK_DEADLOCK FALSE`: the service is installed with `Restart=no`, so that a stopped
  server may stay stopped, and the bounds end every behaviour; a connection ends when
  it is closed.

### What holds, and under which conditions

* `SessionAccepted` holds of one refreshing thread, when no answer is lost, nothing crashes in the middle, no
  write and no `setenv` fails, and `set_token` does not run beside the server. Each of these is needed:
  without it TLC finds a request that is refused or a number that is skipped. With a crash or
  a lost answer between the grant and the save the file is one number behind: the next refresh is refused,
  `std::exit` ends the server, and so does every later one. With two refreshers
  the second may present the number the first has spent (`refresh_returns`). A `setenv` that
  fails ends the refresh with an error before it saves the number that was granted, with the same effect.
* `CredentialKept` needs one refreshing thread too, and no lost answer, crash or failed write; but `set_token`
  may run beside the server and `setenv` may fail.
* `EnvPersisted` holds for any number of threads, with crashes and lost answers, as long as neither the disk nor
  `setenv` fails and `set_token` waits.
* `SecretSpentBeforeDeleted` holds for any number of refreshing threads, with crashes, lost answers and failing
  `setenv` calls, under two conditions. `set_token` runs while the server is down: a refresh deletes whatever secret is on disk,
  also one it has not used. And the disk does not fail: when `set_token` cannot open the environment file it goes on
  with the old token in it, with which the next start serves, and its first refresh deletes the new secret unspent.
* `EnvPaired` is strict where `setenv` succeeds: if the second one fails the pair is mixed
  until the next refresh, with the expiry time of an earlier token and never of a later one.
* `HashNeverSkips` has one exception: an activation that saves its parameters and loses its own session request
  makes the next refresh ask for number 2.
* `TokenKept` holds in a favourable world only: one life of at least a minute, no summer
  time, an intact stack frame, a backend that grants each refresh within a minute, and a server that
  started with a minute left. Otherwise the thread spins until a handler refreshes: a token with
  less than one minute left by the thread's own arithmetic is renewed by no timer. `AsksAgain` says what is left: while a token seems
  to have a minute, the thread gets to asking.
* `EndServed` is conditional on what the modes really need: in original mode, that the clients before
  this one end their streams (a client that waits for its answer with its stream open is never answered, nor
  is anyone behind it); in threads mode, that a descriptor is left, and none ever comes back.
* `ReadOnce` is about libevent, where a payload is whatever a read has found: messages run together are executed
  as one, and one that is cut may be executed in a piece that the pattern accepts, or echoed; but no part twice.
  That nothing is executed any more once the token of the start is expired is what `PostLibevent` says, and no property.
* `EveryMessageExecuted` is about handlers that go on: a failing `select()` or `read()`, and the end of the process
  (`HandlerEnds`), lose what was received.
* `OldFilesGo` speaks of deletions that saw the whole directory, and excepts the files that could not be removed; no file of
  a process that it found old comes back.
* `KeptForAWeek` is about the week after the start of a process; `record_kept` shows what happens then.
* A failed save of an activation is only logged: an older parameter file is then what
  the next refresh reads. `SaveIsLatest` is about what is written, and holds with it.
* `RequestEnds` holds although attempts are not counted, because each attempt needs
  another expired token: it assumes that the backend lets finitely many expire while the request is under
  way. A backend that refuses every token would hold the handler in the recursion of
  `sendPlainTextAttempt` (sendplaintext.hpp:169) until its stack is used up.
* `AnswerTruthful` allows silence: a refresh that throws in the field 32 branch is caught and
  the requestor is sent nothing (sendplaintext.hpp:265).
* `ExecutedInOrder` speaks of streams of messages only. With newlines between messages,
  and a cut inside an opening tag, `end_pos - start_pos + 9` wraps and the text of a
  later message can be taken twice.

### Findings

1. `requestRefreshExpiredToken` is said to return `{1, ""}` when it fails; when two
   threads refresh at once the second one ends the process.
2. "One time config" followed by a start by hand works once: the secret is deleted and
   the token is only in a file that the service manager reads.
3. A `read()` that ends inside `<isomsg>` makes the server reject a valid message
   in pieces.
4. A client that closes with two answers outstanding ends the server by SIGPIPE,
   which is said to run until a socket operation such as accept fails.
5. A process that has been up for a week deletes at every call of `log()` all its own files, so that
   each line survives until the next one; the period that goes back to 0 is compared with one that does not.

### Fairness

`FairSpec` has weak fairness of `HandleClientCustom` only: the thread of a connection
is detached and runs whenever it can, and the backend answers each exchange at some
time (curl has no timeout: a backend that never answers is a hazard that this
assumption excludes, and it is listed). The client is not fair: it may stop sending at any
point; and `HandlerEnds` is outside the fairness, for nothing makes a failure happen. `FairSendSpec` has weak fairness of each handler's `Progress`, the steps of its request and of its
refresh: a detached thread that runs, a `join` on a thread that runs, and a backend that
answers or a call that fails. Nothing else is fair: not the periodic thread, not other handlers as
a condition of this one, and neither a restart nor the expiry of a token. `AccessToken` on its own is checked
for safety only.

`ServerModes!FairSpec`: the accept loop and each handler run when they can, and the
backend answers; the clients are not fair. It is weak fairness of `Server` and of each `Handler(c)`, threads
of their own in two modes, and in the other two callbacks or calls of one thread that is never idle while
one of them is enabled. `PeriodicRefresh!FairSpec`: the thread is scheduled, the clock advances, an exchange with the
backend ends. Neither a start nor a handler's refresh is fair.

## 4. Theorems

For every set of threads, handlers, secrets and messages, every bound, and every set of faults unless the
statement says otherwise:

| Module | Theorem | Statement |
|---|---|---|
| `AccessTokenProofs` | `TypeCorrect` | `Spec => []TypeOK` |
| | `Inductive` | `Spec => []IndInv` |
| | `Exclusive` | `Spec => []RefreshExclusive` |
| `AccessTokenSaveProofs` | `Published` | `Spec => [](IndInv /\ PublishInv)` |
| | `Complete` | `Spec => []EnvComplete` |
| | `NoRegress` | `Spec => TokenNeverRegresses` |
| | `SavedLatest` | `Spec => SaveIsLatest` |
| `AccessTokenStoreProofs` | `NoSkip` | `Spec => []HashNeverSkips` |
| | `PairsHold`, `Pairs` | `Spec => []PairInv`, `Spec => []EnvPaired` |
| | `Refines` | `Spec => ImplementsStore` |
| | `SecretSpent` | `Spec => SecretSpentBeforeDeleted`, if `set_token` waits for the server to be down and `"disk"` is no fault |
| | `Persisted` | `Spec => []EnvPersisted`, if in addition `"setenv"` is none |
| | `Kept` | `Spec => []CredentialKept`, for one worker, without `"reply"`, `"crash"`, `"disk"` |
| | `Accepted` | `Spec => []SessionAccepted`, for one worker, without those three and `"setenv"`, if `set_token` waits |
| `ServerCustomProofs` | `Types`, `CustomAlways` | `Spec => []TypeOK`, `Spec => []CustomInv` |
| | `Conserved`, `InOrder` | `Spec => []StreamConserved`, `Spec => []ExecutedInOrder` |
| | `InKind` | `Spec => []AnsweredInKind` |
| `PeriodicRefreshProofs` | `TypeCorrect`, `Inductive` | `Spec => []TypeOK`, `Spec => []IInv` |
| | `Kept`, `Seldom` | `Spec => []TokenKept`, `Spec => []AsksSeldom` |
| `LoggerProofs` | `TypeCorrect`, `Inductive` | `Spec => []TypeOK`, `Spec => []IInv` |
| | `Kept`, `OldGo` | `Spec => []KeptForAWeek`, `Spec => []OldFilesGo` |
| `ServerModesProofs` | `TypeCorrect`, `Inductive` | `Spec => []TypeOK`, `Spec => []IInv` |
| | `Whole`, `OneMore` | `Spec => []WholeStream`, `Spec => []OneMoreAfterStop` |
| | `InTurn`, `Once` | `Spec => AnsweredInTurn`, `Spec => []ReadOnce` |
| `SendPlainTextProofs` | `RequestsInductive` | `SendSpec => [](IndInv /\ PublishInv /\ RequestInv)` |
| | `Composition` | `SendSpec => Spec` |
| | `ExecutedAtMostOnce` | `SendSpec => []ExecutedOnce` |
| | `Truthful` | `SendSpec => []AnswerTruthful` |
| | `RetryIsNewer` | `SendSpec => RetryCarriesNewerToken` |

They assume that the main thread is no worker (`ThreadAssumption`), that `None` is neither a
secret nor a call site (`NoneAssumption`), and what kind of value `Faults`, `MaxHash` and
`LiveReprovision` are. `SendPlainTextProofs` also uses that the periodic thread is a worker and
`LengthAssumption`; `ServerCustomProofs` that no message is a tag, a newline or the other text, and that
`SizeT` is longer than all that is sent. The hypotheses of the last four theorems of `AccessTokenStoreProofs` are about
the constants (`OneWorker`, `Faults`, `LiveReprovision`); `single_refresher` is an instance of the four.

`RefreshExclusive` is not inductive. There is no lock, so that one thread commits at a time
has to come from the backend: two threads that read the same file ask for the same
number, and one is refused. For that to work the file must be behind the backend
(`FileBehind`), what was read from it at most one ahead (`SessionBehind`), and all
threads on one device (`SameDevice`). `CommitAhead` is the heart: while a thread
commits, its number is the last one accepted, greater than what the file holds and no
smaller than what anyone else asks for; so nobody else's request is granted before the file is
rewritten, which is the last thing the committing thread does. `BootAlone` and
`CallerSeq` say that an activation, which starts again at 0, runs alone. Each lemma
`Ind…` takes one group of actions and one conjunct per step; `TypeNext` does the same
for types. TLC checks `IndInv` in `concurrent_refresh`.

`PublishInv` follows the session from its grant. `TokenOfSession`: a committing thread holds the token
of its own session, which `CommitAhead` says is the last one granted.
`TokenBehind`: nothing in the process or in its file is later than that. The two give
`NoRegress`: whoever reaches `setenv` sets the latest token. `SavedLatest` needs in addition that
a device whose activation is being saved has no session yet (`FreshDevice`). `EnvSet`
says which variables are set where; its weak spot is `setup`, which must not serve with a token that has no expiry
time. The proofs go variable by variable (`HashStep`, `EnvStep`, `EnvFileStep`,
`DeviceFileStep`, `CommitStep`): what any step of `Next` can do to it.

`RequestInv` ties a request to its refresh: a handler is inside one exactly when its request is
(`RefreshOfRequest`), which is what makes every step of the composition one of `AccessToken`
(`SendStep`), and so makes `Composition` a theorem. `RequestUnderWay` says that nothing was executed or sent while attempts are
still to come, from which `ExecutedOnce` and `AnswerTruthful`. `TokenOfRequest`: the refused token was not of the
future when its refresh began, hence a session granted afterwards is later, whatever other threads
were granted in between; that is `RetryIsNewer`. The proof treats one handler at a time (`HandlerInv`,
`OneRequest`): what a step does to the one that moves, and that it leaves the others alone.

`PairInv` is what `EnvPaired` needs: between the grant and the last write each thread knows which half
of the environment and of the file is already of its session (`EnvOfSession`, `FileOfSession`), and no expiry
time is later than the backend (`ExpiryBehind`), so that a failing `setenv` can only leave an older one. `Refines` shows for each action
which cell of `SessionStore` it writes and that it is allowed to, from `IndInv`, `PublishInv` and `PairInv`.

The last four theorems of `AccessTokenStoreProofs` each add one invariant, of what is lost if a failure is allowed.
`ProvisionAlone`: an unspent secret on disk is met only by a server that starts without any token, because
`set_token` emptied the environment file while the server was down, which a failing disk would undo; so what a commit deletes was spent.
`FileFollowsEnv`: the environment file is behind the environment only while a thread is between its `setenv` and the
rewriting of the file, and mutual exclusion makes that the one committing thread. `ParamsOnFile`: whoever works with
the parameters of a device has them on disk, until the truncation in its own save, which it then completes.
`ActivationFirst` and `FileInStep`: an activation meets no token and a device without a session, and between commits the
number on file is the one the backend accepted last, less one, so that the next request carries the number it
expects. Each is carried through the same groups of actions as `IndInv`: the tool, `setup`, the request, the commit.

`CustomInv` of `ServerCustom` rests on `StreamTail`: every step cuts from the front of the buffer only, so that the
buffer and the wire together are always the end of the stream, and a place in the buffer is a place in a message. A tag
that `find` meets is then the tag of a message (`TagsAt`), the first closing tag is either three symbols behind the first opening
one or in front of it, and what is cut out is a whole message or, by the wrapped length, nothing (`FirstMessage`). It would
not be so with a newline between messages, which is why the properties speak of `OnlyMessages`.
`PicksDone` gives `ExecutedInOrder`: what was executed lies in front of what is left, so that the next message is a later one.
`NoneSkipped` gives `StreamConserved`: on a stream that was never cut inside an opening tag nothing is rejected or echoed
(`UncutFront`), so what was executed is all that is gone. `UncutEnd` says that such a buffer never ends with half
an opening tag, which `OneUnderWay` needs: the one unit of a waiting client is on its way, whole or in part,
and it is answered before the next. The two recursive functions in this, `RemoveNewLines` and the library's `FlattenSeq`, are treated by
induction over a set of numbers (`NatSetInduction`), which follows from the least element of a set of numbers and needs
no operator as a parameter: `KeptExists` and `FlatExists` show that the functions exist, `KeptRecursion` and
`FlatRecursion` unfold them once.

`IInv` of `PeriodicRefresh` bounds what is left of the token in each state of the thread: `left >= nap + Minute`
while it sleeps, `left >= Minute - asking` while it asks. A tick takes the same from both sides, and a handler's refresh
only adds. `SeldomInv` does the same from above, with the time since the last renewal.

`IInv` of `Logger` adds to its types that a process writes to files of its own only (`OwnFiles`); a deletion by
age of the process can then not touch a line of a process younger than a week; and since a process that was a week old at a
deletion is none that runs now, nothing writes to its files again, from which `OldFilesGo`.

`IInv` of `ServerModes` has four parts. `WholeInv`: what executes or was executed is all that a client sent
which has ended its stream, hence can send no more. `ReadInv`: what executes was read last,
and what was executed are pieces of what was read before that, one behind the other. `TurnInv`: the clients before one that was ever accepted in original mode
are closed. `LateInv`: the loop has tested the flag since it accepted, so nobody is accepted after the one
that it was waiting for when the signal came. `HandlerStep` reduces the seven handler actions
to two forms, a read and an execution, and says that they leave other clients alone.

TLC checks the inductive invariants on the instances first: `IndInv`, `PublishInv` and `PairInv` in `concurrent_refresh`,
`RequestInv` in `requests`; those of the other modules are conjunctions of a run's properties with named parts, which are proved only, as are the five
invariants that the conditional theorems add.

Every safety property of a passing run, invariant or action property, is the statement of a theorem. Only
model-checked are the liveness properties, `EveryMessageExecuted`, `RequestEnds`, `AsksAgain`, `StopEndsLoop`,
`StopNoticed` and `EndServed`: liveness under fairness is beyond the prover. The violations of section 3 are
counterexamples, which TLC finds.

## 5. Not modelled, and the plan

Not modelled:

* `utils/json.hpp` and `json_fwrd.hpp`: third-party code, 24942 of the 29134 implementation lines of the
  repository. Measured against the whole, the lines that the map names are a small share for this
  reason alone; of the program's own 4192 lines they are about half, and the rest is mostly logging, comments, includes,
  dead code, and the installation by `set_token`. The library is taken to do what its callers expect: to return what was written, or to throw.
* The configuration (`shared/*`): read once, by a line parser, and constant; its values are constants of the modules.
* `parseISO8583` and `handleClient`, which nothing calls; the rotation of the log by the day of the week, which a constant switches
  off, as it does the local token check of `checkTokenAndExecute`.
* Opening the listening socket: every failure there exits before there is a client.
* The installation of the service unit, folders and rights in `set_token`: system administration.
* A curl handle that cannot be allocated; the size of the socket buffer towards a client.
* The deletion of the logger at the return of `main()` while detached handlers use it: undefined from there on. `ServerModes`
  lets the process end at that point.

The plan that is left:

1. A run that shows the silence after a refresh that throws (sendplaintext.hpp:265),
   where the code a few lines above answers a failed refresh with the alert.
2. A composition of `PeriodicRefresh` with several refreshing handlers over `AccessToken`, should the clock
   matter for more than the time of the calls.
