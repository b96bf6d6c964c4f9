# Verification of the Telegram Desktop fork in this repository

The program is a C++/Qt messenger (ZyeGram, a fork of AyuGram and Telegram
Desktop). Its own logic is in `src/Telegram/SourceFiles`. This directory holds
TLA+ models of the parts of it that are hard to test, the TLC configurations
that check them on small instances, and proofs checked by TLAPS.

Paths below are relative to `src/Telegram/SourceFiles` unless they start with
`src/`. `PROJECT.json` maps every definition to the lines it models.

## 1. The system

| Component | State | Operations | Hard behaviour |
|---|---|---|---|
| Auth keys of a datacenter (`mtproto/details/mtproto_dcenter.cpp`, `mtproto_bound_key_creator.cpp`, `mtproto_dc_key_binder.cpp`, key parts of `session.cpp`, `session_private.cpp`, `mtp_instance.cpp`) | persistent key, two temporary keys, creating flags (shared, under locks); per session: claim, connection, creator, key id | acquire, create, bind, install, lose and destroy keys; stop, kill and restart sessions | many threads, queued notifications, keys dropped by the server at any time |
| Message layer (`mtproto/session.cpp`, `session_private.cpp`, `mtproto_received_ids_manager.cpp`) | requests to send / sent / received, acks, salts, session id | containers, resend, acks, `bad_msg_notification`, `new_session_created`, state requests | loss, duplication, reordering, server restarts |
| MTP Instance (`mtproto/mtp_instance.cpp`) | request registry, delayed and dependent requests, auth waiters, sessions, keys to write | send, cancel, retry, migrate, export/import authorization, destroy keys | callbacks after cancellation, retries, half-failed import |
| Concurrent sender (`mtproto_concurrent_sender.cpp`) | callbacks by request | send, cancel, answer on another thread | cancellation against answers |
| Connections (`mtproto/connection_*.cpp`, sockets), DC options, config loaders | sockets, address lists | connect, fall back, resolve, reload | timeouts |
| Updates (`api/api_updates.cpp`, `data/data_pts_waiter.cpp`) | pts, seq and qts of the account, one pts per channel, updates put aside, timers | apply, put aside, request and apply the difference | lost and overtaken updates, failing requests, new sessions |
| Histories (`data/data_histories.cpp`) | per chat: requests under way, read positions | serialise requests, read, delete | answers against newer local state |
| Streaming (`media/streaming/media_streaming_reader.cpp`, `media_streaming_file.cpp`, `media_streaming_loader_mtproto.cpp`, `storage/streamed_file_downloader.cpp`) | header and slices of a file, what is loading, cached entries, work for a downloader | fill, wait, sleep, save into the cache, start and stop streaming | two threads, a cache that answers from a third, errors |
| Uploads, downloads (`storage/file_upload.cpp`, `storage/download_manager_mtproto.cpp`) | parts under way per session | request, retry, cancel | several sessions, cancellation |
| Accounts and sessions (`main/`), local storage (`storage/`) | accounts, encrypted files | start, log in, log out, save | partial writes, shutdown |
| Calls (`calls/`), export (`export/`), AyuGram additions (`ayu/`), application core (`core/`), UI (`window/`, `dialogs/`, ...) | | | mostly libraries, platform I/O and widgets |

How they interact: each MTP `Session` lives on the main thread and owns a
`SessionPrivate` on a thread of its own. They share `SessionData` under locks;
every cross-thread call is queued (`InvokeQueued`, `crl::on_main`). All sessions
of one DC share a `Dcenter`, whose methods lock. The `Instance` receives
answers and updates from the sessions and passes updates of the main session to
`Api::Updates`, which hands what is in order to the data model. All code above
the Instance runs on the main thread, one callback at a time.

What makes each component correct:

- keys: one creator per cluster, no use of a key that is not bound to the
  current persistent key, no waiter forgotten, everyone gets a key in the end;
- message layer: every request is in one place and is answered or failed once;
- Instance: every registered request has a home, a retry or an error;
- updates: the position never passes an event that was not applied, a known
  gap is always being waited for or asked for;
- histories: conflicting requests are not in flight together, both sides agree
  on what has been read, nobody stays postponed;
- streaming: a thread that waits is woken, what has changed is saved before it
  is dropped, a part that was asked for arrives once.

`PROJECT.json` lists the components with their status, and every hazard found
with its line and the properties that cover it.

## 2. Modules

| Module | What it is |
|---|---|
| `DcKeys` | the keys of one DC: Dcenter, Session, SessionPrivate, key events of the Instance, the server |
| `MCDcKeys` | its instances for TLC: symmetry of the keys and a view |
| `DcKeysProofs` | theorems about the keys of `DcKeys`, checked by TLAPS |
| `DcKeysCallsProofs` | theorems about the calls `DcKeys` queues |
| `ReceivedIds` | the window of received message ids, as operators |
| `MtpSession` | the message layer of one session, on both threads, and the server's end |
| `RequestChannel` | the abstract specification `MtpSession` implements |
| `MtpSessionProofs` | theorems about `MtpSession`, checked by TLAPS |
| `InstanceRequests` | the requests of the Instance from registration to their end |
| `InstanceRequestsProofs` | theorems about `InstanceRequests`, checked by TLAPS |
| `PtsWaiter` | the counter of `data_pts_waiter.cpp` as a value and its methods as operators |
| `Updates` | `Api::Updates` for the common sequence, and the server it talks to |
| `UpdateFeed` | the abstract specification `Updates` implements |
| `UpdatesProofs` | theorems about `Updates`, and that it implements `UpdateFeed` |
| `MCUpdates` | its instances for TLC |
| `Histories` | the requests of chats that must not overtake each other, and what has been read |
| `MCHistories` | its instances for TLC |
| `HistoriesProofs` | theorems about the requests of `Histories`, checked by TLAPS |
| `HistoriesAgreeProofs` | theorems about what both sides of `Histories` say is read |
| `ReaderSlices` | what a streaming Reader has of its file, as operators on a record |
| `StreamingReader` | the Reader between the streaming thread, the main thread, the cache and a downloader |
| `StreamingReaderProofs` | theorems about the safety of `StreamingReader` |

The modules stand one above the other. `DcKeys` says when a session has a key;
`MtpSession` takes the key for given and promises that a request is answered
once; `InstanceRequests` takes that for given and says where a request waits in
between; `Updates`, `Histories` and `StreamingReader` send their requests
through the Instance and take for given that each is answered or fails.

The mutants of the checks stand before the definitions they mutate, under a
comment that starts with "Mutant:".

### DcKeys

State. `persistentKey`, `temporaryKeys` and `creatingKeys` are the fields of
`Dcenter`. `myKeyCreation[s]` is `Session::_myKeyCreation`, `phase[s]` the life
of the Session object, `priv[s]` the fields of its SessionPrivate that concern
keys. `pending[s]` holds the calls queued to the SessionPrivate
(`updateAuthKey`, `restart`), `queue` those queued to the Instance,
`keysForWrite` the key that is written to disk. The server is three functions:
which keys it forgot (`dead`), which persistent key a temporary key is bound to
(`boundTo`), and where it was made (`madeAt`).

Actions. Each is one handler of one thread. Where a handler reads the Dcenter
twice (`applyAuthKey` for a media session, a release followed by a
destruction) it is cut at the second access and `place` says where it stands,
because other threads run in between. `ConnectToServer`, `OnConnected`,
`UpdateAuthKey`, `UnboundReady`, `BindSucceeded`, ... are named after the code.

Abstractions:

- a key is a model value; a value nobody refers to may be made again, which is
  sound because nothing compares a key with one that is gone;
- the key exchange is one step that succeeds or fails (`UnboundReady`,
  `UnboundFailed`);
- a connection is `down`, `testing` or `up`; `ConnectToServer` is enabled while
  it is down (the retry timer, a queued call or a config change runs it);
- `Kill` resets the fields of the detached SessionPrivate at once: from then on
  none of its handlers can reach the Dcenter (`SessionData::detach`);
- the age test for persistent keys (`kKeyOldEnoughForDestroy`) is a choice
  between `BindKeyDestroyed` and `BindFailed`;
- the server refuses unknown keys with -404 and unbound ones with
  `AUTH_KEY_PERM_EMPTY`, and refuses a temporary key at the other cluster:
  this is read off from how `session_private.cpp` handles the errors;
- `restartBinder` is not modelled, nothing calls it when it would do anything
  (`session_private.cpp:597`); nor are the keys-destroyer Instance and
  `DcType::Temporary`.

### MtpSession, ReceivedIds, RequestChannel

State. `session` holds the fields of Session, SessionData and SessionPrivate:
`toSend`, `haveSent` and `haveReceived` are the shared maps, the fields of
`NewPrivate` are those that are lost with the SessionPrivate. `callback` is
`Instance::_parserMap`. `up` and `down` are the connection each way, `server`
is the other end: the session it knows, what it has run, what it has to answer,
which messages it keeps until they are acked, and its salt. A message id is a
number made of the packet and the slot in it, so that the order of ids is that
of the code.

Actions. `TryToSend` builds one packet, with everything that waits (acks, resend
and state requests, the ping, the requests), alone or in a container.
`HandleReceived` handles a batch of packets as `handleReceived` does, the ids
registered first, each message in order, and hands answers and updates to the
main thread, where `Deliver` takes them. `Connect`, `Drop`, `Rekey`, `Stop` and
`Resume` end and begin connections and SessionPrivates, `CheckSentRequests` and
`ClearOldContainer` are timers. A container is old only when its packet has come
and its ping is answered: it takes 600 seconds, and `sendPingByTimer` closes the
connection after 45. The server takes a packet, refuses it, answers,
repeats what was not acked, mentions an answer (`msg_detailed_info`), pushes an
update, forgets the session, changes its salt.

Abstractions: the key is ready; clocks agree (no `bad_msg_notification` about
time); no http-wait; the periodic ping is left out, the ping that starts a
connection is there; every request needs an ack; `session != _sessionId` cannot
be met, since the session id changes together with the connection's packets;
requests that come after others are in `InstanceRequests`. The server forgets a session only while it has not been heard on the
connection, and repeats what was not acked: read off from what the code does to
be answered in these cases.

`RequestChannel` says what this is for: an answer comes at most once, after the
server has run the request, and not after it was cancelled. The mapping takes
the callbacks for the outcome.

### InstanceRequests

State. A request is `plain`, an `export` or an `import` of an authorization.
`outcome` says whether it is registered; `dc`, `shift` and `toMain` are its entry
of `_requestsByDc` (whose sign says that the request is for the main DC);
`delayed`, `dependent`, `waiters` are `_delayedRequests`,
`_dependentRequests`, `_authWaiters`; `goal` is `_authExportRequests`;
`sessions` is what the sessions have been given and not answered.

Actions: `SendRequest`, `Cancel`, `SetMainDcId`, `CheckDelayed` (one delayed
request is due), `Answer`, and `Error` with what `onErrorDefault`, `exportFail`
and `importFail` do about each: try later, move to another DC, wait for another
request, wait for an authorization, or fail. The end of a request sends those
that depend on it (`unregisterRequest`).

Abstractions: 401 is not an answer to imports and `MIGRATE` only one to plain
requests, as the server has no reason for either; answers that are in the batch
of a killed session are lost with it; each request is answered at most once;
durations, requests without callbacks and `killSession` are left out.

### PtsWaiter, Updates, UpdateFeed

An event of the account is named by its pts. `log` is what happened to the
account, `own` those events that the client caused by requests whose answer is
only `affectedMessages` (their effect was applied when the request was made).
`wire` is what is on its way to the client. `client.waiter` is the PtsWaiter
with the set `applied` of the events handed to the data model; the other fields
of `client` are those of `Api::Updates`.

`Deliver` hands over one message or answer and runs its callback to the end,
including the updates of a block that were waiting behind it (`SetSeq`) and
the request for the difference (`GetDifference`). The three timers are actions.
The server pushes an update alone or in a numbered block of one or two,
loses it, answers requests with updates or affected messages, and answers the
difference empty, in a slice or whole; an answer can be an error; a new session
can lose what is on its way.

Assumptions about the server, read off from how the code uses it: an event is
pushed at most once (duplicates of the transport are removed by the
received-ids manager); answers come in the order they are sent
(`Session::tryToReceive`) and pushes may be late; answers to the account's own
requests are not numbered and carry their peers; a request whose answer is lost
with its session is sent again by the message layer; `getState` does not fail
and `differenceTooLong` does not come (see the hazards).

Abstractions: `_byPtsTimer` and `_failDifferenceTimer` are one flag each, with
no durations, so a timer may fire at any moment after it is set; dates, qts,
channels, `_byMinChannelTimer`, group-call updates and the logout notification,
the only things let through while the difference is requested, are left out.

`UpdateFeed` says what this is for: a position that never goes back and never
passes an event that was not delivered. The mapping takes `good` for the
position and `applied` with `own` for what is delivered.

### Histories

State. A request of a chat has a `type` (`Histories::RequestType`, and the two
that read), is asked, handled or neither (`net`), and is in `sent` or
`postponed`. `willTill`, `sentTill`, `delayed` and `sentDone` are the fields of
`State` about reads; `entryPostponed`, `entries`, `pending`, `posted` are about
the entry of a chat in the list of chats. `position` and `count` are what the
History says is read, `serverTill` is what the server says. `alwaysSent` is a
history variable: the sending of reads was never turned off. Which messages of a
chat are the account's own, and never unread, is a constant of each chat.

`setUnreadCount` does more than set the count (`Counting`): with a new count of
0 it moves the position to the last message, with a new count of 1 to the one
before the last, unless the last one is known to be an own one. It is called when
a message is read here, after a read when the last message is (`syncGuard`, in
`Synced`), when another device has read, and with the position of an entry
(`Applied`). Whether the last message is known (`msgIdForRead`), and known to be
an own one (`loadedAtBottom`), depends on what is loaded, so that every call may
go ahead or not (`ahead`), and `lastServerMessage` is the last one or not known
(`last`).

Actions: messages are read here, on another device or with the read that ghost
mode sends (`ayu/utils/telegram_helpers.cpp`); requests are sent, handled and
answered, or cancelled; the timer of the delayed reads fires; entries are
requested, handled with the position of that moment, and applied or refused;
the sending of reads is turned off and on. The server handles requests and its
answers arrive in any order.

Abstractions: no messages come or go; the chats are ones the account is in;
folder and count become known together; the server refuses no reads; callbacks of entries change nothing here; folders,
topics, the fake chat list and delivery reports are left out; a timer that fires
when nothing is due does nothing; ids of finished requests are used again.

### ReaderSlices, StreamingReader

`ReaderSlices` has the methods of `Reader::Slices` as operators on a record of
the header, the slices, the header mode and the order of use.
`StreamingReader` says who calls them when.

State. `reader` has the fields of the Reader: slices, what is loading, the parts
and cached entries that have come and were not looked at, the semaphore that is
waited for (`waiting`, `cacheWaiting`, `sleeping`, `token`), the downloader's
offsets, what was requested for it, what it has acknowledged, the slices read
from the cache for it, and `calls`, what the streaming thread has queued to the
main thread. `thread` is where the streaming thread stands, `joining` why the
main thread waits for its end, `downloader` the StreamedFileDownloader,
`loader` the parts LoaderMtproto has asked for, `disk` the cache.

Actions. `Reader::fill` is cut where another thread can come in between: `Read`
(what has come is processed), `FillFromSlices`, `Recheck` (after the semaphore
is published) and `Wait`. The thread sleeps when it has enough, and does the
downloader's work while it sleeps; when no streaming is active the main thread
does. The main thread plays, stops, wakes, runs queued calls, takes parts and
failures, starts and cancels downloads, closes the file and opens it again. The
cache delivers entries from a thread of its own.

Abstractions: parts are numbers; the semaphore is binary (a second release
before the wait is only a spurious wakeup in the code's loop); the cache
database works in order, so the content of an entry is that of the moment it
was asked for, while the results are handed over in any order; `FullInCache`,
sizes, speeds and priorities are left out; so is the limit
`kLoadFromRemoteMax` and the repeated load of a part that is loading, which
changes nothing in the loader; the last part of a download and the end of its
downloader are one step; writing the file never fails. `MaxCalls` bounds how
far the main thread falls behind, as a guard on `Read`.

## 3. Runs

| Run | Instance | Shows |
|---|---|---|
| `dckeys` | a regular session that is stopped, killed and restarted at will and a media session; the server may destroy persistent keys | the inductive invariant `CallsInvariant` (types, exclusive creation, claims, private keys, what the queued calls still say), installed keys bound to the current persistent key, the saved key follows, no lost wakeup, a connection keeps its key |
| `dckeys_cdn` | two CDN sessions | exclusive creation |
| `dckeys_liveness` | two regular sessions, the server forgets keys | everyone ends up with a usable key |
| `dckeys_media` | one media session whose DC type changes with the config | claim and creator agree; it ends up with a usable key, through the regular key it has to make first |
| `dckeys_leaked_flag` | small | refuted, see section 6 |
| `updates` | 4 events, 2 block numbers, 2 messages on the way | no gap is passed, a known gap is watched, nothing is applied ahead, a held block is watched, a request is alive; `Updates` implements `UpdateFeed`; what the client is told of is applied in the end |
| `updates_zero_count` | small, zero counts | refuted, see section 6 |
| `mtp_session` | 2 requests, 2 incidents, a window of 9 ids | no request is lost, no answer is dropped that was acked, an update is handed over once, a request is run once in a session, when all is quiet only a request that was refused is not answered, and it is in a container that will be found old, every request ends; `MtpSession` implements `RequestChannel` |
| `instance_requests` | 3 requests, 2 exchanges of an authorization, 2 DCs, 4 events | a waiting request is in one place and the inductive invariant `Registry` holds; requests are lost only in the ways known, and end otherwise |
| `histories` | 2 chats of 3 messages, 3 events | reads grow and are watched, a waiting entry is held, answers and deletions come in order, both sides agree on what is unread when nothing is under way, but for the message that `setUnreadCount` may pass by; every read and every entry settles, and what waits for a deletion is sent |
| `histories_ghost` | 1 chat, 5 events | refuted, see section 6 |
| `streaming_reader` | 2 parts in 2 slices, 1 slice in memory, 3 events | a changed header can be saved, the main thread leaves a running stream alone, what the downloader asked for is kept, a reader that waits is woken, a download ends |

Every property has a mutant, a definition changed the way a bug would, under
which the same run finds it violated. `PROJECT.json` names them.

### Bounds, and why they are enough

`DcKeys`. Two sessions are enough for every pair of threads to meet; three
temporary keys are one more than two clusters can hold and two persistent keys
allow a replacement. `MaxQueue` and `MaxPending` limit queued calls to two: the
code queues at most one of each kind per key event, and a longer queue repeats
calls that are idempotent. `VIEW UsedView` in `MCDcKeys` leaves out what the
server remembers of keys nobody refers to, `KeySymmetry` permutes the keys of
each kind; the liveness runs use neither. A third session is out of reach;
`DcKeysProofs` and `DcKeysCallsProofs` cover any number, and queues of any
length, for what they prove.

`Updates`. Four events are a gap of two with an update on each side; two
messages on the way let a push be late for another push or for an answer.
`SkipLongest` (updates that stand for two events) and the block size of two are
the smallest that tell a count from a number. The proofs cover any bounds.

`MtpSession`. Two requests make a container and let one be resent while the
other is not. Two incidents are two failures on top of each other, such as a
lost connection while a salt is being changed. The window of 9 ids
(`kIdsBufferSize` is 400) is small enough to overflow and larger than what is
on its way at a time, which the code relies on as well. One request with three
incidents (5,708,356 states, too many for the run) was checked for everything,
and two requests with three incidents (39,192,534 states) for
`QuietMeansAnswered`. The third incident shows what the
question for the state of a request cannot do: a container is refused for good,
the error goes to nobody (`wasSent` takes the container for a special message),
`checkSentRequests` asks once and its timer rests, and the packet with the
question is refused as well, of which `wasSent` knows nothing
(`session_private.cpp:1593`). Only `clearOldContainers`, ten minutes later, sends
the request again. The proofs cover any number of everything, and windows of any
size.

`InstanceRequests`. Three requests make a chain of dependencies, two exchanges
let an authorization be carried over twice or to both DCs, and four events are
errors and cancels on top of each other. One shift is enough: shifts only
choose the session (with two shifts, two requests and four events pass too).
The proofs cover any number of everything.

`Histories`. Three messages, one of them the account's own, are an earlier and a
later read; the own one is the last of one chat and in the middle of the other,
which is what `setUnreadCount` tells apart; two requests are one that overtakes
another; two chats share the timer and a request for entries. The proofs cover any
number of everything, and own messages anywhere.

`StreamingReader`. Two slices of which one stays in memory make every read of the
other unload something. Playing, stopping, reopening and downloading are limited
by `MaxEvents` together with failures and cancels; `Stop` and `ReopenReader` are
not counted. Other instances were run for the safety properties: three parts in
two slices with two events, and two parts with longer reads and three queued
calls. The proofs cover any number of everything.

`CHECK_DEADLOCK FALSE` stands in the configurations of systems that may come to
rest: the requests of `MtpSession`, `InstanceRequests`, `Histories` and
`StreamingReader` are all answered and the events used up.

## 4. Fairness

`DcKeys!Fairness`: handlers of queued calls run, an established connection
attempt ends, the creation of a key that has started ends, the server answers
(weak fairness for each per session). Timers, queued calls and a responsive
server justify these. Failures (a lost connection, a failed creation, keys
forgotten or destroyed, the config changing) have no fairness, and the liveness
properties assume that they stop.

`Updates!Fairness`: messages are delivered, timers fire, requests are answered.
`EventuallyApplied` assumes that errors, new sessions and `updatesTooLong` stop.

`MtpSession!Fairness`: the system goes on as long as it can by itself (queues
are served, a lost connection is made anew by the retry timer, the server
answers and repeats). `Idle` says that it cannot, so that the formula is weak
fairness with `ENABLED` written out. It is fairness of the union of these steps,
which is weaker than fairness of each. `CheckSentRequests` and, for a container
with a request that is still waited for, `ClearOldContainer` are among them: the
timers of both fire when nothing else is left to do. (They may fire earlier as
well, which is an incident then.) What is not in it: sending another request,
cancelling, incidents, and the server's pushes.

`InstanceRequests`: the timer of the delayed requests fires and sessions answer.
Errors are events, of which there are finitely many. `EventuallyEnds` assumes
that the main DC stays and that no request is stranded: the cases in which the
code strands one are those `OnlyKnownLosses` names.

`Histories!Fairness`: as in `MtpSession`, for answers, the timer and the posted
call. The steps of the system are written as those that are no events; only
refusals and deletions that need another one are both, at most `MaxEvents` times. `EventuallySettled` and `EventuallySent` assume that sending reads is never
turned off and that no request is left unfinished by its sender (section 6).

`StreamingReader!Fairness`: weak fairness of the streaming thread, of the main
thread's queue, of the parts the loader has asked for and of the cache, each
written out. A request for a part that has failed is not retried and is not
fair. `EventuallyRead` assumes that no request fails and the Reader has no
error: section 6 says what happens then. `EventuallyDownloaded` assumes that no
request fails, that it is the Reader's first downloader, and that again and
again streaming is over or asleep: the streaming thread does the downloader's
work only while it sleeps, and nothing in the code forces it to sleep
(`media_streaming_file.cpp:77`).

## 5. Proofs

`DcKeysProofs` proves, for any sets of sessions and keys and any values of the
flags, under the named assumptions of `DcKeys` only (`NoKey` is not a key, the
two kinds of keys are disjoint, the session sets are subsets):

- `KeyInvariantHolds`: `Spec => []KeyInvariant`;
- `TypeCorrect`, `CreationIsExclusive`, `ClaimsAgree`, `InstalledKeysAreBound`:
  the invariants of the runs;
- `KeyIsFixed`: the action property `KeyFixedPerConnection`.

Argument. `CreationExclusive` is not inductive: nothing in it says that the
session that releases a claim is the one that holds it, nor that a session
without a handler of its own has no claim. `KeyInvariant` adds
`CreatorHoldsClaim` and `ClaimsEnd` for that. `InstalledKeysBound` needs that a
key is bound to the persistent key its creator compares with
(`BindAnswerCurrent`), that nobody else touches it before it is installed
(`BoundKeyPrivate`, and `StartedUnkeyed` for the moment it is made), and that
the persistent key does not change while somebody creates one
(`PersistentClaim`). Each conjunct is preserved action by action: most actions
touch one session (lemmas about `SetPrivate` and the release functions), the
others (installation, destruction of the keys) get a lemma each. The temporal
step is PTL.

`DcKeysCallsProofs` proves, under the same assumptions:

- `CallsInvariantHolds`: `Spec => []CallsInvariant`, the inductive invariant of
  the run;
- `SavedKeyCatchesUp`: `Spec => []SavedKeyIsCurrent`, the key that is written to
  disk is the Dcenter's whenever the main thread has nothing queued;
- `NobodyIsForgotten`: `Spec => []NoLostWakeup`, whoever waits for a key has a
  call queued when there is one.

Argument. Both properties speak of empty queues, so that the invariant must say
what the calls still in them are enough for. `SavedKeyFollows`: the saved key is the
Dcenter's unless a queued call brings it, and no call that destroys that key
comes before. `ListenersHear`: a session that found no key although there is one
has a call to come, to the main thread or to itself. `NewKeyUnheard`: a
persistent key that is being bound is its creator's alone, so that no queued
call can destroy it once it is installed. `CdnStays`: the keys of a CDN
datacenter are all of one cluster, so that whoever makes one makes the one the
others listen for. Each conjunct has a lemma for the handlers that do
not touch what it is about, and a proof for the few that do.

`InstanceRequestsProofs` proves, for any numbers of requests and exchanges, any
sets of DCs and shifts and any number of events, under `InstanceAssumption` only:

- `RegistryHolds`: `Spec => []Registry`, the inductive invariant of the run;
- `RequestsHaveOneHome`: `Spec => []OneHome`;
- `InstanceTypeCorrect`, `RequestsAreInTheirPlace`, `DependenciesAreLive`,
  `ExchangesAreExclusive`: the types, that a request is where `_requestsByDc`
  says it is, that a request that waits for another waits for one that is
  alive, and that one exchange at a time carries an authorization to a DC;
- `OnlyTheseAreLost`: `Spec => OnlyKnownLosses`, that a step strands a request
  only in one of the four ways the code is known to lose one.

Argument. `OneHome` is not inductive: a request that ended may still be named in
`delayed` or `waiters`, and must not be sent again from there to be found in two
places. `HomesApart` says that no two of the places have a request in common.
When a request ends, `unregisterRequest` sends those that depend on it and they
may end up in a session, the delayed ones or the waiting ones; the lemmas
`UnregisterPlaces` and `FollowingFacts` say which. That those are requests
nobody else moves needs `DependOnLive`, and that no request depends on itself
through others needs `AfterEarlier` with `InTurn`: a dependency is on a request
sent before. For the authorizations, `ExchangesApart` says that whoever carries
one over has somebody waiting for it, so that a second 401 finds the waiters and
starts nothing, and `ExchangeInTurn` that an import begins when its export ends.
There is one lemma per action.

`OnlyTheseAreLost` follows a request through one step. `Tended` names what it may
wait for: a session, the timer, a request that has not ended, or an authorization
under way. Under `Registry` each action other than the known losses keeps it
tended (`...Tends`, one lemma per action): a request that ends has those sent
that follow it, an export hands the authorization to its import, and an import
that does not change the main DC gives all who waited for it to a session.

`HistoriesProofs` proves, for any number of chats, messages, requests, batches
and events, under `HistoriesAssumption` only:

- `ReadsAreTold`: `Spec => []ReadsWatched`, the timer runs for a read that waits;
- `ReadsAreBeyondThoseTold`: `Spec => []ReadsGrow`, it is later than the one told;
- `EntriesAreHeld`: `Spec => []EntryHeld`, the two assertions of
  `finishSentRequest` about entries that wait;
- `RequestsAreInOrder`: `Spec => []InOrder`, the assertion on the order of the
  answers and that deletions are alone, as long as reads are always sent. With
  `histories_ghost` this says that turning the sending off is all that breaks it.

Argument. What a handler does to the requests is composed of functions from a
queue to a queue (`Sending`, `Asking`, `Cancelling`, `Finishing`, `Told`,
`RequestingEntry`), so that there is one lemma per function about `Held`, which is
`EntryHeld` of a queue, and one per action. `InOrder` needs two more facts.
`Apart`: a request that is asked has been sent, those that wait are for
messages, and no deletion of a chat has been sent together with them. `Ordered`:
whatever read the server has been told is not later than `sentTill`, or than the
position of the chat when `sentTill` was forgotten, nor later than `willTill`.
Most functions add no reads (`NoNewReads`); `Told` adds one that is later than
all. Forgetting `sentTill` is safe only because the position was moved up to it
in the same step (`ToldTill`), which is where `AnswerEntries` needs the most care.

`HistoriesAgreeProofs` proves, under the same assumption:

- `HistoriesTypeCorrect`: `Spec => []TypeOK`, among others that no count of
  unread messages becomes negative;
- `AgreeInvariantHolds`: `Spec => []AgreeInvariant`;
- `BothSidesAgree`: `Spec => []ReadsAgree`, once nothing of a chat is under way
  the device and the server say the same of what is unread, but for one message
  before a last one of the account's own (section 6).

Argument. `AgreeInvariant` says where each read is until both sides know of it.
What is read here is read at the server, waits or is being told (`ReadIsTold`);
what is read at the server is read here, or an answer or an entry still has to
say so (`ReadIsHeard`). For the entries, `sentTill` must be what is being told
until it is done, and done what the server knows (`SentIsAsked`, `SentIsDone`,
`ServerKnows`), and an answer must find the read it is for, which it does by the
message only (`ReadsDiffer`). A read that changes no count sends nothing, which
is right if the count leaves out no message that is unread (`CountCovers`).
`setUnreadCount` moves the position without telling anybody, past at most one
unread message when one is left: `ReadIsTold` excepts that one (`PassedBy`: then
nothing is unread here any more, and the last message is an own one). With
nothing under way the first two give that both sides have read the same, or all
but that message.
TLC checked `AgreeInvariant` on the instance of `histories`
(761,269 states) before it was proved; it is not among the properties of the
run, which has `ReadsAgree`.

`UpdatesProofs` proves, for any numbers of events, blocks and messages on the
way, under `BoundsAssumption` and `ZeroAssumption` only:

- `UpdatesInvariantHolds`: `Spec => []UpdatesInvariant`;
- `UpdatesTypeCorrect`, `BlocksAreWatched`, `RequestsAreAlive`: the types, that a
  held block has its timer, and that while pushes are ignored there is exactly
  one request, answer or timer that ends it;
- `NothingGoesAhead`, `GapsAreWatched`: that nothing is applied ahead of the
  position and that a known gap is watched, `~ZeroCounts => ...`: with
  `updates_zero_count` this says that answers with `pts_count` 0 are all that
  breaks them;
- `FeedIsKept`: `Spec => FeedPromise`, the refinement of `UpdateFeed`, with or
  without zero counts.

Argument. `PtsWaiter` compares two numbers, the highest pts it was told of
(`last`) and the sum of the counts (`count`), and concludes from their being
equal that it misses nothing. The invariant says why this is right (`Counted`):
`count` is the size of a set of numbers that have been counted. It has every
number up to the position, all numbers of an update or none, and whatever event
it has is applied, put aside or the account's own. A set of numbers up to `last`
with `last` members has all of them, and that is when the position jumps. The
set never counts a number twice because no two messages under way, or blocks put
aside, tell of the same event, and none tells of one that was counted
(`ToldOnce`, `BlocksApart`, the last part of `Counts`). The answer to a request
for the difference replaces the set by all numbers up to its pts; it may do so
because it starts from where the client still is (`RightMessage`,
`RequestRight`), because there is no second one (`OneSource`), and because
nothing that was applied while it was under way is later than what it gives
(`AnswerCovers`). The proof goes from the operators of `PtsWaiter` to what the
client does with one message, from there to the client together with all
messages under way, and ends with one lemma per action. TLC checked
`UpdatesInvariant` on the instances of `updates` (73,606 states) and
`updates_zero_count` (185,395 states) first; it is in neither configuration.

`StreamingReaderProofs` proves, for any file, slices, limits and bounds, under
`FileAssumption` and `BoundsAssumption` only:

- `StreamingInvariantHolds`: `Spec => []StreamingInvariant`;
- `StreamingTypeCorrect`: the types;
- `HeaderIsSaved`: `Spec => []HeaderCanBeSaved`;
- `MainIsAside`: `Spec => []MainLeavesItAlone`;
- `NothingAskedIsLost`: `Spec => []AskedIsKept`, between the queues of the Reader
  no part is lost that the first downloader has asked for.

Argument. The Reader is a record, and what a handler does to it is a chain of
operators. There is a lemma per operator about what it keeps: the slices
(`Sound`), the types (`Good`), the queues (`Same`), what the downloader has
asked for (`Kept`); then one per action. Three facts make it inductive. The
header is read from the cache once and before it changes, and only the header
of a file that is larger is a good one (`HeaderReadOnce`): so a changed header
is not being read, and can be put into the cache. A thread that runs has its
Reader active and nobody has wished the end of streaming (`StreamingGoesOn`): a
thread wishes it at its own end, and `stopStreaming(true)` takes the wish back
before the next thread starts. And a part could be lost where the Reader
compares what a downloader asks for with the end of its queue to tell a second
downloader from the first: the first one asks in increasing order, so that its
queues stay increasing and below the next part it will ask for, and it is never
taken for another (`FirstIsAlone`). For a second downloader this fails, which
is the hazard at `media_streaming_reader.cpp:987`. TLC checked
`StreamingInvariant` on the instance of `streaming_reader` (576,725 states)
first; it is not among the properties of the run.

`MtpSessionProofs` proves, for any number of requests and incidents and a window
of received ids of any size, under `BufferAssumption` and `SessionAssumption` only:

- `SessionInvariantHolds`: `Spec => []SessionInvariant`;
- `SessionTypeCorrect`: the types;
- `UpdatesComeOnce`: `Spec => []UpdateOnce`;
- `RequestsRunOnce`: `Spec => []RunsOnce`;
- `ChannelIsKept`: `Spec => ChannelSpec`, the refinement of `RequestChannel`.

Argument. Three facts carry it. A message id tells its request by its slot
(`IdsTell`, `PacketsTell`), in whatever map, packet or answer it is, so that
`wasSent` never takes one request for another. Within a session a request that
was not refused has one id (`OneId`): `prepareToSend` gives a new id only before
the session's first packet, and when the session changes nothing of the old one
is on its way any more. What the server has run in one session therefore has
one id per request, and a request that was refused is known to be (`OnlyRefused`).
And an id that `registerMsgId` does not let in (it is in the window, or below a
full one) is not let in later, neither after other ids have come
(`RegisteredStays`) nor after `shrink` (`RegisteredShrinks`): so an update that
was taken stays registered as long as the server may repeat it
(`UpdatesRegistered`). For the channel, an answer under way is to a request that
was executed, which is part of the same invariant. The model's operators take a
session, or the server's end, to the next one; there is a lemma per operator,
and then one per action. TLC checked `SessionInvariant` with windows of 9
(355,368 states) and of 2 ids (2,188,223 states) first; it is not among the
properties of the run.

The same module proves, for behaviours in which the ids in use always fit into
the window of the acked ids (`[]IdsFit`, which TLC finds to hold throughout the
instance of `mtp_session`, with the window of 9 ids that also bounds the ids received):

- `RequestInvariantHolds`: `Spec /\ []IdsFit => []RequestInvariant`;
- `NoRequestIsLost`: `Spec /\ []IdsFit => []NoRequestLost`;
- `AnswersAreKept`: `Spec /\ []IdsFit => []AnswerKept`.

Argument. `wasSent` finds a request by its id in `resending`, `acked` or
`haveSent`, and `acked` keeps only the largest `kIdsBufferSize` ids: without a
bound on the ids in use an answer may come to a request that is forgotten, is
acked and dropped, and the request is lost. That is what `IdsFit` excludes, in
the state in which an id could be trimmed. With it, what a session does to its
maps keeps every open request somewhere (`Tracks`), and an answer either finds
its request or the request needs none any more (`Settled`). An id of the server
is acked only when it was received, and then its request is settled
(`AnswersSettle`); the server may forget what is acked. That one id has one
kind, and that pings and state requests are not taken for requests, is
`ServiceTells`. As before there is a lemma per operator of a session
(`...Serves`), of the server (`...Keeps`), and per action.

A real session gives no such bound: it may have any number of requests under
way, and beyond 400 ids `_ackedIds` is trimmed (`session_private.cpp:2187-2193`)
and a request can be lost. In the run no acked id is ever trimmed; with a window of
one id TLC refutes `NoRequestLost`: of two requests the later one is answered
first, the id of the other is trimmed as soon as its answer has it acked, and the
answer is dropped. So `[]IdsFit` is a hypothesis, and what it depends on is proved
for windows of any size:

- `IdsStayFew`: `Spec => []IdsAreFew`, the ids in use, the requests without an id,
  the requests to be retried, the errors on the way and the incidents left are
  together at most `NumRequests + MaxEvents`.

Argument. A request gets a new id when it has none or in place of the one it
has, and only an error of the server, which is an incident, takes an id away and
has the request sent again. So no step lets them be more: what one of them gains
another gives up. There is a lemma per operator of a session (`...Within`) and
one per action (`...Few`). TLC checked `IdsAreFew` on the 355,368 states of the
instance first.

Only model-checked: `QuietMeansAnswered` of `MtpSession`, for which one has to
follow what both ends may still say; and all liveness.
Liveness under
fairness, `ENABLED`, induction over data and `RECURSIVE` operators are beyond
this prover. No module declares a `RECURSIVE` operator; `Updates` computes what
a list of updates does by recursive functions, whose values are proved about by
induction on the number of updates (`Upwards`).

## 6. Where the code and its comments disagree

With a run that shows it:

- `dckeys_leaked_flag`: `releaseKeyCreationOnDone` (`mtproto_dcenter.cpp:142`)
  refuses a key bound to a replaced persistent key and leaves the creating flag
  up; the cluster never gets a key again until restart.
- `updates_zero_count`: an answer with `pts_count = 0` during a gap stops the
  timer of `data_pts_waiter.h:23` and applies what was skipped ahead of the gap.
- `histories_ghost`: while the sending of reads is off `sendReadRequests` clears
  the states, among them that of a read under way. When an earlier message is
  read after it is on again, the answer to the first read breaks the assertion
  at `data_histories.cpp:741`.

Seen while modelling. The models contain what the code does here, and the
properties exclude it by their conditions where it would break them:

- `setUnreadCount(1)` takes the last message for the one that is left
  (`history.cpp:2188-2196`). When the last one is an own one that is not loaded, the
  position goes past the unread message before it and the server is not told. The
  next read till that message needs no request, as it is not beyond the position;
  a read till the last one sends none either when the count comes out unchanged
  (`data_histories.cpp:306-316`), after which the guard sets it to 0. The message
  then stays unread for the server and for other devices until one is read after
  it. `ReadsAgree` excepts just that message (`PassedBy`);
- a session that reconnects with a key the Dcenter has dropped acquires the
  creation in `connectToServer` (`session_private.cpp:2403`) and never starts it;
- a creator that is stopped or killed (`session.cpp:500`) releases its claim
  without waking those who wait for it;
- the restart at `session_private.cpp:2463` keeps the old `_currentDcType`, so
  that the regular key is made at the media cluster;
- requests whose session is killed by a change of the main DC, or that wait for
  an authorization whose import fails, are neither answered nor failed
  (`mtp_instance.cpp:480`, `:1303`); a request for the main DC that waits for an
  authorization there waits for ever (`:1557`);
- `Reader::fill` returns at once when the error was set, without a release of
  the semaphore (`media_streaming_reader.cpp:1261`): the streaming thread waits
  until it is interrupted;
- the request for a part that has failed stays in the loader's queue, so that a
  later load of the part does nothing, although `media_streaming_reader.h:259`
  says "Even if streaming had failed, the Reader can work for the downloader.";
- `_downloaderOffsetsRequested` and acknowledgements are kept for the next
  downloader of the same Reader (`media_streaming_reader.cpp:983`); and where
  the queue was empty its change of offsets is not noticed, for the size is that
  of a vector that was moved from;
- an entry of the cache that was read for the downloader is taken for the one
  that a slice waits for, although the slice was saved in between, and a part
  comes twice (`:263` expects that it does not).

Not in the models:

- a CDN session whose public key is unknown keeps its connection
  (`session_private.cpp:2525`), so that `connectToServer(true)` returns early;
- `differenceTooLong` (`api_updates.cpp:520`) leaves `requesting` set with no
  request and no timer, and `getState` (`:254`) has no fail handler;
- the read that ghost mode sends (`ayu/utils/telegram_helpers.cpp:438`) and
  `DeleteChannel` never call `finish()`: `Histories` has these types, and
  `NoneUnfinished` excludes them from liveness only;
- `stopStreaming` looks at the cache's `waiting` outside its lock
  (`media_streaming_reader.cpp:917` against `:1173`);
- without a cache no slice is ever unloaded.

## 7. What is not modelled

- Channels' own pts, qts and short polling (`api_updates.cpp`): they repeat
  `PtsWaiter` per channel; their failures are those of `Updates`.
- `ConcurrentSender`: its handlers run under one mutex and only hand callbacks
  over to `InstanceRequests`' interface.
- Uploads and downloads: the choice of sessions by measured speed is arithmetic
  on durations; what is left of them without it is a set of parts under way.
- The key handshake, transports, encryption and DC options: in `DcKeys` and
  `MtpSession` they succeed or fail.
- Accounts, local storage: files are written through Qt and the cache database,
  which is not in the repository.
- Calls need tgcalls, which is not in the repository. Export is a sequence of
  requests. The data model, the AyuGram additions besides ghost mode, the
  application core and the user interface are sequential code of the main
  thread or widgets, or platform I/O.

Parts of modelled components that are left out are named under "Abstractions"
above and in the notes of `PROJECT.json`. Next would be `ChannelUpdates` beside
`Updates`, and the retry of parts over sessions beneath `StreamingReader`.
