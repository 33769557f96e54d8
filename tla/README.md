# TLA+ models of MCP Inspector

This directory holds TLA+ models of the parts of MCP Inspector whose
correctness depends on the order in which things happen: promises that resolve
late, streams that are replaced while the old one still closes, requests that
are lost or answered twice, a keychain and a file that are written one after
the other. TLC model-checks them on small instances, and the TLA+ proof system
(TLAPS) proves their safety properties for every value of their constants.

Line numbers below refer to `src/`; `PROJECT.json` maps every definition of the
models to the lines it stands for.

## The system

MCP Inspector is a client for MCP servers with three front ends (web, terminal
UI, command line) over one core (`src/core`). In the web form the browser
cannot open a stdio process or most HTTP connections itself, so a Node backend
owns the MCP transport and the browser talks to it over HTTP and server-sent
events.

```
 browser                                        Node backend                upstream
 ┌──────────────────────────────┐   POST send   ┌─────────────────────┐
 │ state managers  (lists, logs)│ ────────────► │ /api/mcp/* routes   │      MCP server
 │   ▲ events                   │   SSE events  │ RemoteSession       │ ───► (stdio, HTTP)
 │ InspectorClient              │ ◄──────────── │   queue, waits      │
 │   RemoteClientTransport      │               ├─────────────────────┤
 │ useServers                   │ ────────────► │ /api/servers routes │ ───► mcp.json
 └──────────────────────────────┘  REST + SSE   └─────────────────────┘ ───► OS keychain
```

Everything on either side is single-threaded JavaScript. A step of a model is a
maximal run between two awaits; what interleaves are the continuations of
different calls, timers, and the arrival of messages.

### Components

| Component | State it keeps | Operations | What is hard | What makes it correct | Status |
|---|---|---|---|---|---|
| Modern listen stream (`inspectorClient.ts` 5509–5973) | subscribed URIs, the held stream, a generation, badge, reconnect timer and counter | subscribe, unsubscribe, re-list, acknowledge, reject, closed handler, reconnect, reset | several re-lists in flight, each with two awaits; teardown at any point | the held stream carries exactly the set, no stream leaks, the badge tells the truth | `ListenStream` |
| Backend MCP session (`remote-session.ts`, `server.ts` 600–960) | upstream transport, event queue and consumer, request waits, auth-echo suppression, death mark, sweep timer | connect, send, events, disconnect; upstream message, error, close; timers | events before, between and after event streams; two delivery paths for errors; a wait settled from five sides | nothing lost, duplicated or swapped while detached; `ok` means answered; a death is not forgotten | `RemoteSession` |
| Remote client transport (`remoteClientTransport.ts`) | session id, stream, closed flag, waits for responses on the stream | start, send with auth retry, event handling, attach, close | every request and answer may be lost or late; `close()` at any await | events in order, each at most once; every send settles; nothing is left running | `RemoteLink` over `RemoteSession` |
| Server catalog and secrets (`server.ts` 1391–2520, `serverList.ts`, `secret-store.ts`) | `mcp.json`, OS keychain, write queue | GET, POST, PUT, DELETE of `/api/servers`; seed; migration | two stores without a transaction, an unlocked read, hand edits, a keychain that comes and goes | no secret thrown away, answers tell the truth, no orphans | `ServerCatalog` |
| Client life cycle (`inspectorClient.ts` 880–2310) | status, cached transport, teardown and handshake in progress | connect, disconnect, onclose, onerror, OAuth resume | the ends of a session overlap each other and the next connect | no close goes unnoticed, no state of an old session is left | `PeerRequests`, and `ListenStream` as far as the stream needs it |
| Managed and paged lists (`state/managedListState.ts`, `paged*State.ts`) | items, error, indicator, loading flags, two settings | connect-time, auto and user refresh, page loads, list_changed, toggling | a fetch that outlives its session or races another; two stores that share one display | what is shown is the server's list, or the screen says that it may not be | `ManagedList` |
| Requestor tasks (`state/managedRequestorTasksState.ts`, `inspectorClient.ts` 2500–2770, 4230–4860) | task list, cleared and cancelled ids, polling loops | refresh, live update, cancel, clear, pause for input | a paged walk over a list that changes; a cooperative cancel; a loop without a session | cleared stays gone, cancelled stays cancelled, a pause ends | `RequestorTasks` |
| Receiver tasks, sampling, elicitation (`inspectorClient.ts` 1130–1550, 1682–1724, 2785–3050) | task records, TTL timers, pending requests | ask, answer, reject, cancel, expire, sweep | a user's answer after a cancel, an expiry or a new session | what the user sees is what is owed; what leaves the queue is settled | `PeerRequests` |
| Message, fetch and stderr logs (`state/*LogState.ts`) | bounded logs, pending-request index, bodies in flight | push, fold, trim, clear, mark, hydrate | a response to an entry that was trimmed; a load from storage that races the live log | no response vanishes, the log is the newest run of events | `MessageLog`, `FetchLog` |
| OAuth (`oauthManager.ts`, `auth/oauth-storage.ts`) | token, scope and code verifier in storage, the pending scope, the challenge mutex; the memory of the storage and its queue of writes | challenge, authenticate, complete, clear; load, save | challenges beside each other and beside a completion; a page that goes; writes that overlap and fail | a pending step-up belongs to the code that can be redeemed, "satisfied" is granted, saved stays saved | `OAuthManager`, `OAuthStorage` |
| Watcher of `mcp.json` | mtime of the last own write | change, notify | own write told from a foreign one | every foreign change is announced | not modelled |
| URI templates, import parsing, React views, CLI, TUI | none, or what they render | – | – | – | not modelled: plain data processing and rendering |

Interaction: the front ends call `InspectorClient`; its events drive the state
managers; over a remote transport its messages become `POST /api/mcp/send`, and
what comes back are events on `GET /api/mcp/events`. `useServers` calls the
catalog routes and re-reads the list whenever the backend says that the file
changed. The two backends share a process and no state.

## The modules

| Module | What it is |
|---|---|
| `ListenStream` | the listen stream of `InspectorClient` with the session around it |
| `ListenStreamProofs` | its inductive invariant and the theorems from it |
| `RemoteSession` | one backend session and its routes, with a browser that does anything |
| `RemoteSessionProofs` | its inductive invariant and the theorems from it |
| `RemoteLink` | the browser transport composed with `RemoteSession` (it extends it and uses its actions) |
| `EventChannel` | the abstract ordered channel that `RemoteLink` implements |
| `RemoteLinkProofs` | the inductive invariant of `RemoteLink`, and that it implements `EventChannel` |
| `ServerCatalog` | the catalog routes over file and keychain |
| `ServerCatalogProofs` | its inductive invariants and the theorems from them |
| `ClientSession` | the session of one client as its state managers see it |
| `ManagedList`, `RequestorTasks`, `MessageLog` | a list, the tasks and the Protocol log over that session (each extends it) |
| `FetchLog` | the Network log, which knows no session |
| `LogProofs` | the inductive invariants of `FetchLog` and `MessageLog`, and the theorems from them |
| `Selection` | `Array.prototype.filter`, which the stores and logs use |
| `PeerRequests` | the life of the client itself and the requests the server makes of it |
| `PeerRequestsProofs` | its inductive invariant and the theorems from it |
| `OAuthManager` | challenges, logins and their completion for one server |
| `OAuthStorage` | the memory the credentials are kept in, and its file |
| `OAuthProofs` | the inductive invariants of both, and the theorems from them |
| `ClientStores` | the seven stores, `ManagedList`, `RequestorTasks`, `MessageLog`, `FetchLog`, `PeerRequests`, `OAuthManager` and `OAuthStorage`, side by side for one run of TLC |
| `ClientStoresProofs` | the inductive invariants of `RequestorTasks` and `ManagedList`, and the theorems from them and of the stores together |
| `MC*` | constants for TLC; `MCCatalogEnvironments` also joins two environments of `ServerCatalog` |

Operators named after a mutation ("Mutation: …" in their comment) are faulty
variants of the definition next to them. No specification uses them; each is put in
the place of the real definition to see that a property notices.

### ListenStream

| Model | Code |
|---|---|
| `status`, `disconnecting`, `connectPc`, `announced` | `status`, and where `connect()` and `disconnect()` are |
| `link`, `ready`, `optIn` | the transport is up; era and capabilities are known; they share a list-change opt-in |
| `subscribed`, `gen`, `current`, `badge`, `attempts`, `timer` | `subscribedResources`, `modernListenGeneration`, `modernSubscription`, `modernStreamState`, `modernReconnectAttempts`, `modernReconnectTimer` |
| `call[g]` | the `refreshModernSubscription` that took generation g, and which caller awaits it |
| `carried[g]`, `live`, `closing` | the filter that refresh sent; the streams open on the server; those `close()` was called on |

A stream is named by the generation of the refresh that opened it. `StartRefresh`
is `refreshModernSubscription` up to its first await: take a generation, let the
old stream go, then either begin its close or send `listen` at once.
`PreviousClosed`, `ListenAcknowledged` and `ListenRejected` are what follows each
await, with the caller's own continuation in the same step (`CallerResumes`,
`CallerCatches`), since nothing runs between them. `StreamEnds` is the `closed`
promise of a stream, `ReconnectTimerFires` the back-off timer. `Connect*`,
`Handshake*`, `Disconnect*` and `Transport*` are the client's session, kept as far as
they change the stream: `ResetSubscriptionStream` is part of `ConnectBegin` and `DisconnectEnd`
exactly where the code calls it. `HandshakeAnswered` is the last answer the handshake
needs, after which `client.connect()` still sends `notifications/initialized`; over the
remote transport that POST does not notice a close, so `HandshakeResolves` sets the
status whatever became of the transport, as the code does.

The length of delays, the set of URIs the server honours out of those requested
and which of the list-change opt-ins are shared (`optIn` says whether any is) are
abstracted. The legacy `resources/subscribe` era is not in this module.

### RemoteSession and RemoteLink

| Model | Code |
|---|---|
| `inMap`, `upstream`, `closing`, `transportDead`, `gcTimer` | `sessions.has(id)`, the transport, the disconnect route's await and whether its `close()` rejected (the session then stays), `transportDead`, the 30 s sweep |
| `eventQueue`, `eventConsumer`, `held[s]` | the queue, whose response the consumer writes to, the state of each SSE response |
| `srv[m]`, `wait[m]`, `reply[m]` | a send's progress in its route, its entry in `requestWaits`, its HTTP answer |
| `suppress`, `owed` | `shouldSuppressAuthEcho()`; an auth error swallowed and not reported yet |
| `wire[s]` | what was written to stream s and not yet read |
| `stage`, `closed`, `sid`, `asked`, `abandoned` | the browser's stream loop, `closed`, `_sessionId`, the newest stream, those it aborted or lost |
| `sent[m]`, `sse[m]`, `retried`, `bye`, `seen` | each `send()`, its `sseResponseWaits` entry, sends repeated after a challenge, the disconnect POST, the last event handled |

An event is numbered when produced, so order and loss can be stated. In
`RemoteSession` the browser's actions (`ConnectArrives`, `SendArrives`,
`EventsRequest`, `StreamAborted`, `DisconnectArrives`, `Reads`) happen whenever they
may. `RemoteLink` gives each the browser's own guard: `PostArrives(m)` is `SendArrives(m)`
for a message posted, `AbortArrives(s)` is `StreamAborted(s)` for a stream
abandoned, at any later time. Losing a request or an answer is an action (`PostFails`,
`ByeFails`, `ConnectionLost`, the failing alternative of `ConnectReplies`).

What an OAuth challenge leads to is a choice between its outcomes; retries within
`start()` are one attempt; headers and protocol version stamping are left out.

### ServerCatalog

| Model | Code |
|---|---|
| `exists`, `file` | `mcp.json`: per server the env keys it lists (`Blank` or in plain text) and the OAuth client secret, which only a hand edit puts there |
| `keychain`, `keyring` | the OS keychain, and whether it is available |
| `lock` | who is inside `withWriteLock` |
| `req[q]` | a request: its route, the file it read and will write (`next`), keychain writes in flight (`sets`), fields to delete last (`drop`) |
| `acked` | not in the code: what the answers so far promise of each server |

`Look` takes the lock and reads the file; `Refuse`, `AddServer`, `UpdateServer` and
`RemoveServer` are what each route does next. The kinds of PUT are its bodies:
"config" and "rename" send a config, "settings" the settings with the env they mirror,
"patch" settings without env, "clear" `settings: null`. `SetSucceeds` and
`SetFails` are the parallel writes of `writeKeychainEntriesFor`; the first failure
answers and releases the lock while the rest go on. `Peek`, `Settle`, `Migrate` and
`Rehydrate` are GET: the unlocked look, the locked second look, the migration of plain-text
secrets, the read of the keychain. `EditByHand`, `KeyringTurns` and `Restart`
are the environment.

Simplifications: the keychain reads of one answer or one update are one step, and so
are the deletes of one request and the get and set of one migrated secret; queued
requests get the lock in any order (the code: in turn). The `order` route moves
whole entries and touches no secret; read-only and in-memory sessions write
nothing; both are left out, as are `cwd`, non-stdio entries and the file watcher.

### ClientSession, ManagedList, RequestorTasks, MessageLog

`ClientSession` is what the state managers observe of a client: `status`, whether the
transport below is open (`wire`), how many sessions there were and whether
`connect` was announced. An `onerror` reports "error" and leaves the transport, so
answers still come in and the next `connect()` may go over it. A transport that closed before
the end of the handshake is left to `ListenStream` and `PeerRequests`: a
session of the stores opens over an open transport. In the other, what a store asks for is refused by
the SDK at once and shown as an error. Over an `onerror`'s transport, the state
managers have emptied themselves by then, and requests are in flight. This is
where most of the interleavings come from. Each store conjoins its own effects to
the four steps of the session (`ListCloses` is `SessionCloses` and what the two list
stores do with the new status).

| Model | Code |
|---|---|
| `current`, `notices` | the server's list, as a version number; `list_changed` notifications on their way |
| `items`, `lit`, `err` | `ManagedListState.items`, `listChanged`, `error` (as the session whose fetch failed) |
| `timer`, `running`, `runQueued` | the debounce timer and the guard of the auto-refresh loop |
| `fetch[c]` | a fetch of the auto-refresh (`Loop`), of the connect handler of session c, or of the `User`, with the version it read; one of an earlier session may still commit |
| `pages`, `more`, `load`, `pageErr` | `PagedToolsState.tools`, `nextCursor`, the load in flight (`loading`), `error` |
| `auto`, `paginated`, `fallback` | the two settings, and what a failed save of the toggle falls back to |
| `excuses` | not in the code: which known way of going stale was taken since the last good load |

`Turn` is one turn of the loop in `runListChangedOnce`: it reads the settings when it
fires, fetches or lights the indicator. `FetchCommits` does not look at the session,
as the code does not. A list is read at one moment; the pages of an aggregate are
not told apart, since the SDK walks them.

| Model | Code |
|---|---|
| `list`, `dismissed`, `stuck` | `ManagedRequestorTasksState.tasks`, `dismissedTaskIds`, `cancelledTaskIds` |
| `marked` | the client's own `cancelledTaskIds`, which labels the error of a cancelled call |
| `walks[w]` | a refresh: page by page on the legacy era, task by task on the modern one |
| `poll[t]` | the loop of `pollTaskToolCall`: asleep, answered, waiting for input, or fetching the result |
| `cancel[t]`, `server[t]`, `notes` | the `tasks/cancel` of a task, its status at the server, status notifications in flight |
| `doubled` | not in the code: the list held a task twice |

The pages of `tasks/list` hold one task each. A `tasks/get` of the loop or of a
refresh is an answer that is read and, a step later, an update that is dispatched.

| Model | Code |
|---|---|
| `messages`, `pending` | `messages`, `pendingRequestEntries` |
| `awaited`, `sent` | per peer, its requests in flight and the id of its last one |
| `last`, `salvage` | `lastAnsweredRequestByMethod` for the one method modelled, `salvageList` between its two walks |
| `hidden`, `refused` | not in the code: a response was folded into an entry that had been cleared; the ids whose response the client refused |

### FetchLog and PeerRequests

| Model | Code |
|---|---|
| `network`, `cap` | `fetchRequests`, `maxFetchRequests`; exchanges carry the order they were made in |
| `bodies`, `loading` | bodies being read by `createFetchTracker`, `loadSession` under way |
| `dropped` | the `fetchRequestBodyDropped` events |
| `link`, `tearing`, `connecting` | `status`, `disconnecting`, where `connect()` is |
| `made`, `kept`, `open`, `unclosed` | transports made, whether `baseTransport` holds the newest, whose wire is open, whose `onclose` is to come |
| `overtaken` | not in the code: the `onclose` came before `client.connect()` ended and set the status |
| `peer[p]` | one request of the server: its kind and way, its queue entry, its receiver task record |

In `PeerRequests` `connect()` has five stops: the handshake, what is left of `client.connect()`
once the server has answered (`HandshakeAnswered`), the awaits after
it, the drop of the cached transport in its failure path, and idle. `disconnect()`
has one, `client.close()`. At any of them the `onclose` of an old or new transport
and `onerror` may run. `Settle` is what an answer or rejection does to the task record
of a request; `Swept` is `clearPendingPeerRequests`, `Forgotten` is
`clearReceiverTasks`, and `Clean` has them in the order of `connect()`. A request belongs
(`of`) to the `connect()` after whose start it arrived, so that one the old session sent late over a
kept transport counts as the new one's.

### OAuthManager and OAuthStorage

| Model | Code |
|---|---|
| `scope`, `token`, `codeVerifier` | what the storage holds for the server; a token is what it grants and whether its response said so |
| `pendingScope`, `authChallengeMutex` | `pendingAuthorizationScope`, `authChallengeMutex` (a chain of promises, here the queue of those that hold or await it) |
| `recovery[c]` | one `handleAuthChallenge()` or `authenticate()`: where it is, what the server required (`needs`), what of it is lacking (`lacks`), the scope to ask for (`asks`), what a refresh would keep (`old`) |
| `flow` | the authorization the user is at, then its `completeOAuthFlow()` |
| `web` | whether an authorization unloads the program (a page) or leaves it running (terminal) |
| `lapses` | not in the code: which of the four known ways came true in which the stored scope says too much |
| `memory`, `disk` | `OAuthMemoryStore`, the file or backend behind it, as the sets of changes each has taken in |
| `loadPromise`, `persistQueue`, `saver[s]` | `loadPromise`, the chain of writes, each call that changes the state |

The SDK's `auth()` has four outcomes (`AuthRedirects`, `AuthRefreshes`, `AuthThrows`, the code
exchange), each with what it stores. The reads of one check of a challenge are one step,
and in `OAuthManager` the memory is the storage: that the two agree is what `OAuthStorage`
is about. A write under way when the page goes has either landed or never does. Other
processes that write the same file, enterprise-managed authorization, the slots per
issuer, registration and discovery are left out.

## What is checked

Passing runs:

| Run | Instance | Distinct states | Properties |
|---|---|---|---|
| `listen_stream` | 2 URIs, 6 generations, 1 reconnect attempt, servers with and without a list-change opt-in | 1 105 000 | `TypeOK`, `FilterMirrorsSubscribed`, `CurrentIsLive`, `NoLeakedStream`, `InactiveWhenEmpty`, `AcknowledgedMeansStream`, `NothingForgotten`, `OnlyOwnRollback`, `ConnectFollowsChannel` |
| `listen_live` | 1 URI, fairness | 47 000 | `BadgeSettles` |
| `remote_session` | 1 request and 1 notification, 2 event streams, 1 volunteered event | 2 063 000 | `TypeOK`, `ConsumerIsOpen`, `QueueIsLatest`, `DeathIsKept`, `OkMeansAnswered` |
| `remote_link` | 1 request, 2 event streams, 1 volunteered event | 5 259 000 | `LinkTypeOK`, `WaitsMatchSends`, `EventsInOrder` (refinement of `EventChannel`) |
| `remote_link_live` | 1 request, 1 event stream, fairness | 408 000 | `SendsSettle`, `DeathReachesBrowser` |
| `catalog` | 2 servers (one seeded), 1 env key, OAuth secret, 2 values, 3 requests, 1 hand edit and 2 faults where there is no OAuth secret | 638 000 | `TypeOK`, `BlankIsBacked`, `CatalogShowsAcked`, `NoOrphans` |
| `client_stores` | 2 sessions; 2 pages, 2 list changes, 1 settings edit; 2 tasks; 3 requests of the client and 1 of the server, a log of 2; 3 exchanges over 2 stored ones, caps 0 to 2; 2 requests of the server, 2 connects, 1 error; 2 challenges and 2 scopes, one of them configured; 3 changes of the credentials, 2 reloads | 4 234 000 | `StoresTypeOK`, `ListMissesNothing`, `ClearedStayGone`, `CancelSticks`, `InputIsLive`, `NothingHidden`, `MarksTheRefused`, `NetworkIsRecent`, `QueueIsDebt`, `SessionOwnsItsRequests`, `EndedIsPaid`, `CloseIsNoticed`, `NoStrayStatus`, `PendingIsRedeemable`, `SatisfiedIsGranted`, `SavedIsDurable` |

`catalog` chooses one of two environments in its initial state, and `client_stores` one
of the seven stores (`environment`, `watched`); each then runs as if alone. The stores of a client
share nothing but its session, the credentials not even that, and none reads another, so that nothing is lost
by not interleaving them, and one run covers them all.

Why the bounds are enough. Six generations let a connect, two subscribes, an
unsubscribe, a reconnect and a second session overlap; a URI interferes with
another only through the shared set, so two show everything a third would. Two event
streams are what a re-attachment needs, and one volunteered event beside the
response, challenge and death gives every order of two kinds of event; a
request and a notification are the two ways a send is answered. Three catalog
requests are a server that is there, a mutation of it and a third party to race it. Two
faults allow a failure during the recovery from another.

Two sessions are one to leave something behind and one to find it. Two
pages are a first and a later one, the two kinds a load treats differently; two
list changes are one during a fetch and one during its repetition. Two tasks are
a walk with a second page. A log of two entries is full after two, and three
client requests beside one of the server share an id with it, overflow the log and
leave room for a salvage walk. Caps 0, 1 and 2 are none, smaller than
the log that was stored and equal to it. Two requests of the server are one
from each session or two that are settled in different ways. Two challenges
are the one that has begun an authorization and the one that interferes, and a scope beyond the
configured one is what a step-up adds. Three changes of the credentials are one saved, one
on its way and one behind it; two reloads let a page inherit what the one before it
inherited.

The environment of `catalog` with faults and hand edits leaves out patch and clear and takes
servers without an OAuth secret, because with those the departures listed below
already break the promises; the other covers the OAuth secret and the patch where they
hold, without faults. Neither has both a second secret and a failing
keychain, for the same reason.

What the properties say, in short:

- `FilterMirrorsSubscribed`, `CurrentIsLive`, `NoLeakedStream`: the stream held carries
  the subscribed set, is open, and no other is left open. `InactiveWhenEmpty`,
  `AcknowledgedMeansStream`, `NothingForgotten`, `BadgeSettles`: the badge is true, something
  is always on its way for a set that is not empty, and the badge comes to rest.
  `OnlyOwnRollback`: a URI leaves the set by its own unsubscribe, by a step that empties the
  set, or by the failure of its own subscribe while no newer call was made.
  `ConnectFollowsChannel`: `connect`, upon which the lists are fetched, is announced when the
  connect-time refresh is over, the status is connected and no `disconnect()` is under way; and the channel
  of list changes is then held, being opened or due, unless a refresh that overtook that of `connect()`
  has ended it. That the transport is open is more than the code keeps (`AnnouncedIsLive`, below).
- `QueueIsLatest`, `ConsumerIsOpen`, `DeathIsKept`: events wait in order, while
  somebody reads they reach an open stream, and a death is among them. `OkMeansAnswered`: no
  request is acknowledged on anything but its response.
- `EventsInOrder`: browser and backend together are a channel that delivers in
  order, each event at most once, and skips none before a stream was given up.
  `WaitsMatchSends`, `SendsSettle`, `DeathReachesBrowser`: waits and sends end together,
  every send ends, and the browser learns of the upstream's death or its stream ends. The live run
  has one event stream, so a browser that attaches once more, which starts the obligation anew, is not in it.
- `BlankIsBacked`: whatever fails, no env value is gone while the file still lists
  its key. `CatalogShowsAcked`: what the next GET shows is what the answers said.
  `NoOrphans`: without faults the keychain holds nothing the file does not list.
- `ListMissesNothing`: with nothing under way, the list on screen is the server's,
  or the indicator or an error says that it may not be. Five ways the code does
  leave a stale list without a sign are named in `excuses`: two fetches in flight at once, a page-1 load
  dropped behind another load, a toggle switched back because its save failed; and
  two of a page that arrives late or clears the error of a failed refresh.
  That the pages on screen are 1 to n (`PagesInOrder`), unless a page came late, is part of
  `StoresTypeOK`.
- `ClearedStayGone`, `CancelSticks`: a cleared task does not come back, a task the
  server agreed to cancel stays cancelled, whatever walk, poll or notification was
  on its way. `InputIsLive`: a pause for the user's input ends with its
  session or its cancel.
- `NothingHidden`: no response is folded into an entry the user cleared.
  `MarksTheRefused`: the mark of a refused response is never on another one.
  `NetworkIsRecent`: the Network log is the newest run of exchanges since a
  clear, in order, with the bodies that came, and the stored page in front.
- `QueueIsDebt`: what the user is asked is exactly what has not been settled. A task that the server
  cancels or that expires leaves its question on screen, as the code does,
  though nobody waits for the answer.
  `SessionOwnsItsRequests`: a session that is up shows no request and keeps no task of an
  earlier one. `NoStrayStatus`: no status notification is about a task of an
  earlier session. `EndedIsPaid`: a task's payload is settled exactly when the task
  has ended. `CloseIsNoticed`: no transport closes under a client that goes on
  saying "connected", but for the close between the last answer of the handshake and the end of
  `client.connect()` (`overtaken`), over which the status is set.
- `PendingIsRedeemable`: the scope a step-up waits for is the one that was asked
  for with the verifier in storage. `SatisfiedIsGranted`: a step-up answered "satisfied" is granted,
  unless one of the `lapses` below came first. `SavedIsDurable`: a change a call was told
  is saved is on the disk from then on.

### Disagreements between the code and what it says

Each is a run that TLC ends with a counterexample to a property worded after a
comment of the code; the quotes are in `PROJECT.json`.

| Run | Property | What happens |
|---|---|---|
| `listen_clobber` | `CurrentNotClobbered` | a stale reconnect that is rejected rewrites the badge and arms a timer over the stream a newer subscribe holds (`onModernReconnectFailed` has no generation check) |
| `remote_closed_session` | `ClosedSessionEnds` | a transport that closes while the POST of connect is under way has no id to disconnect, and the answer then opens a stream nobody closes; one closed by a `transport_error` makes `close()` a no-op: stream and dead session stay |
| `remote_auth_echo` | `AuthErrorDelivered` | an upstream auth error during a notification's send is suppressed on the stream and has no wait to reject |
| `catalog_config_save` | `ConfigSaveKeepsOauth` | saving only the config deletes the OAuth client secret from the keychain |
| `message_fold` | `AnswersItsPeer` | client and server number their requests independently and the Protocol log matches by id alone: the server's answer is folded into the server's own request of that id |

Met as well, and not kept as runs; each is the reason for a restriction above:

- `connect()` sets the status to "connected" after the await of `client.connect()` and does not look at the
  transport (`inspectorClient.ts` 1989). Over the remote transport a `transport_error`, or the end of the
  event stream, while `notifications/initialized` is being posted has run `onclose` by then; the status
  covers it, and `connect` is announced over a closed transport. The comment at 2152 says that announcing
  would restart every refresh "against a session being torn down or already dead". TLC
  finds it within six steps (`AnnouncedIsLive` of `ListenStream`); `CloseIsNoticed` excepts it.
- PUT with `settings: null` and no config deletes the env values from the keychain,
  by the computation `catalog_config_save` shows (`server.ts` 2473; the comment at 2394 says a
  clear never touches the env). It appears with "clear" in `Ops`.
- Of two parallel keychain writes one may fail and the other stay (2474; the comment
  at 2442 says that nothing is half-applied). It appears with two `EnvKeys` and a fault.
- A patch that reads the keychain while it is away takes every env key for
  obsolete, and deletes the values if the keychain is back by then (2409–2427).
- An unlocked GET that reads the file before a PUT and the keychain after it shows
  a removed env key with an empty value, which no catalog had (2050 speaks of a
  snapshot).
- `onerror` without `onclose` makes the status terminal, the reconnect timer returns
  early, and the badge keeps saying "reconnecting" (`inspectorClient.ts` 5800).
  `BadgeSettles` therefore speaks of a session that is not over.
- The abort of an old event stream, noticed after a new one was attached, removes
  the consumer of the new one (`server.ts` 927). `ConsumerIsOpen` holds all the same,
  since events are then queued.
- A paged walk of `tasks/list` appends to a list that live updates extend
  meanwhile, or two walks append to the same list: a task is listed twice, and an update then
  reaches only its first row (`managedRequestorTasksState.ts` 184, `NoDuplicates`;
  `mergeTaskIntoList.ts` says "keyed by taskId"). Clearing the completed tasks
  then leaves the other row of a cleared task on screen (`ClearedForGood`), which is why
  `ClearedStayGone` and `CancelSticks` speak of lists without doubles.
- A cancel that the server refuses, since the task has failed by itself, leaves
  the client's mark, and the error of the task is labelled "cancelled"
  (`inspectorClient.ts` 4757; `CancelledIsTrue`).
- A rejection caused by the end of a session is stored as the list's error after the
  terminal status has cleared it, and shown in the next session until a fetch ends
  (`managedListState.ts` 313; `ErrorEndsWithSession`).
- A body that arrives for an entry the user cleared is reported as rotated out if
  the log has filled up again (`fetchRequestLogState.ts` 123; `DroppedMeansRotated`).
- An `onclose` during the last awaits of `connect()` and a `disconnect()` that overlaps an
  error dispatch `disconnect` twice for one connect (`inspectorClient.ts` 2201; `SingleDisconnect`).
- A receiver task that was cancelled takes the status of the user's late answer,
  and its record stays until the session ends, its timer having been cleared
  (`inspectorClient.ts` 1186, 1255).

- The stored scope may say more than the token grants, and a later challenge is then
  declared satisfied although the server refuses it again (`SatisfiedIsAlwaysGranted`). There are
  four ways to it, which `lapses` names and `SatisfiedIsGranted` excuses. `relogin`: a new login
  that is answered without a scope leaves the union an earlier step-up stored, or takes for its
  grant the pending scope of a step-up the user declined (`oauthManager.ts` 376). `overlap`: a completion,
  which takes no part in the mutex, runs beside a recovery. `cleared`: the user clears the
  tokens while `auth()` refreshes or redeems; the new token is stored without a scope, and the
  configured one is later taken for what it grants. `confirmed`: a refresh is confirmed for one step-up
  while the user is asked for another, and the union that is stored is more than the
  second one asks for. The last two need more challenges than `client_stores` has; they showed when the proof of
  `SatisfiedMeansGranted` did not go through, and TLC then found the first with four challenges.
- A completed step-up is to store what it asked for, if the answer names no scope
  (`scopes.ts` 24); in a page, the redirect has unloaded `pendingAuthorizationScope`, and
  nothing is stored (`StepUpIsStored`).
- The prompt of a step-up stays on screen while a later challenge stores its own
  verifier (`App.tsx` 924 refuses the second prompt, after the fact): the code of the
  prompt the user accepts cannot be redeemed (`PromptIsRedeemable`).
- A storage whose first load was rejected rejects every call until the program
  restarts, since the rejected promise is kept (`oauth-storage.ts` 52).

The definitions in parentheses are stated in their modules and violated under the
constants of `client_stores` or, `AnnouncedIsLive`, of `listen_stream`.

### Fairness

Safety runs assume none. `listen_live` uses `FairSpec`: a timer
that is armed fires, an awaited `close()` returns, `listen()` settles because it runs
under the request timeout, and a `disconnect()` that began ends. No user acts and no
server answers by obligation. `BadgeSettles` also ends when the generations run
out, which is the bound of the model and not of the code.

The live runs of the remote link use `FairLinkSpec`: the timers of both
programs fire, an HTTP request arrives or fails and is answered once its route
is done, the browser reads what reaches it, the backend notices a broken
connection, and an awaited upstream start, send or close settles. The upstream need
not answer a request, and nobody need close anything. All of it is weak fairness on
single actions that stay enabled until taken.

## What is proved

`ListenStreamProofs`, from `ListenStreamAssumption` (`NoUri` is no URI, the flag is a
Boolean, the bounds are naturals):

- `ListenStreamInvariant`: `Spec => [](TypeOK /\ StreamInv)`. `FilterMirrorsSubscribed`
  is not inductive: a stream becomes the held one when its acknowledgement arrives,
  so the filter it was opened with must be known to match the set at that moment.
  `RefreshesOwnTheirGeneration` adds this: a refresh in flight has a
  generation not above the counter and no stream yet, and the newest one, once it
  listens, carries the subscribed set. Every change of the set takes a new
  generation or is the roll-back of the newest call, so older ones are refused by
  the comparison the code makes after each await.
- `TypeCorrect`, `FilterMirrors`, `HeldStreamIsLive`, `NoStreamIsLost`, `EmptyIsInactive`: its
  conjuncts.
- `RollbackIsOwn`: the action property `OnlyOwnRollback`.
- `AcknowledgedHasStream`, `NothingIsForgotten`: `AcknowledgedMeansStream` and `NothingForgotten`,
  inductive together (`Kept`) given the invariant above: every step that lets go of a stream or ends
  the newest re-list changes the badge, arms the timer or empties the set.
- `ConnectAfterChannel`: the action property `ConnectFollowsChannel`. It needs that there is at most one
  refresh of kind "connect" (`OneConnectAlways`), that its end leaves none (`ConnectRefreshEnds`), and `ChannelKept`, the part of `Kept` that speaks of
  list-change opt-ins without a URI.

`RemoteSessionProofs`, from `RemoteSessionAssumption`:

- `SessionInvariant`: `Spec => [](TypeOK /\ SessionInv)`. `OkMeansAnswered` needs
  that a wait is resolved only by its response, and `DeathIsKept` that only an ended
  upstream marks a session dead (`WaitsSettleRight`). The lemmas `PushEventInv` and
  `PushKeepsDeath` state once what pushing an event preserves, whether it is
  queued or written.
- `SessionTypeCorrect`, `QueueKeepsOrder`, `ConsumerNeverStale`, `DeathNeverVanishes`,
  `OkAfterAnswer`: its conjuncts; `QueueOnlyWhileDetached`, that events are queued
  only while no stream consumes them, is proved and not run.

`PeerRequestsProofs`, from `PeerRequestsAssumption`:

- `PeersInvariant`: `PeersSpec => [](PeersTypeOK /\ PeersInv)`. `Sound` says of one
  request, apart from all others, what its queue entry, payload, record, timer and
  owner say of one another; the properties are read off it. `QueueIsDebt` alone is not
  inductive: a sweep rejects what is queued and then drops the records, so a request that
  is queued or kept must also be known to belong to the last connect (`r.of = a`).
  Every action is shown to change each request by `Settle`, by a cancel or by
  forgetting it, each of which keeps `Sound` by a lemma of its own.
- `DebtIsQueued`, `SessionIsClean`, `EndIsPayment`, `CloseNoticed`: its conjuncts.
  `StatusIsOwn`: the action property `NoStrayStatus`.

`RemoteLinkProofs`, from the assumptions of `RemoteLink` and `RemoteSession`:

- `LinkInvariant`: `LinkSpec => []LinkIInv`. The backend keeps the invariant of
  `RemoteSession` under the real browser, since every step of the composition is a
  step of `RemoteSession!Next` or leaves it alone. `LinkInv` says where the events are that
  the browser has not read: a stream not asked for is untouched (`UntilAsked`),
  each stream is in order and older than the queue (`WiresInOrder`), what is unread
  is newer than what was read (`SeenIsBehind`), and until a stream is given up
  nothing but the stream and the queue holds it (`NothingSkipped`). The steps fall
  into four kinds, those that produce an event, those that drain the queue onto a
  stream, the read, and the rest, with a lemma for each kind.
- `LinkImplementsChannel`: `LinkSpec => EventsInOrder`, the refinement of `EventChannel`:
  the initial states agree, and under `LinkIInv` every step is a step of the
  channel or a stutter.
- `LinkTypeCorrect`, `WaitsEndWithSends`: conjuncts of `LinkIInv`.

`ServerCatalogProofs`, from `ServerCatalogAssumption` (the markers are no values, no request
is `NoReq`, `Ops` are operations of the routes, the bounds are naturals):

- `CatalogTyped`: `Spec => []TypeOK`.
- `SecretsAreBacked`: `BlankIsBacked`. `BackedInv` says for the request that holds the lock
  (`Locked`: there is at most one past it), at each point it may have reached, where the values are
  that the file it is going to write leaves to the keychain: in the keychain, or among the
  writes it has under way (`Looks`, `Sweeps`, `Sets`, `Migrates`), and that what it deletes last is not
  listed (`Drops`). The theorem holds with any number of faults, restarts and hand
  edits. Its two hypotheses are the first and third departure listed above: no `settings: null`
  alone (`"clear"`), and no keychain that comes back between the read and the deletes of
  a patch (`SteadyPatch`), without which it is false.
- `NoSecretIsOrphaned`: `NoOrphans`, for every mix of the routes. `TidyInv`: while there was no fault and no edit (`Calm`),
  whatever the keychain holds is listed by the file, or the request at work will
  list it or has it among its deletes.
- `CatalogKeepsItsWord`: `CatalogShowsAcked` while `Calm`, without the two operations that lose
  values by themselves (`"config"`, `"clear"`). `ShownInv`: the keychain after what is left of the
  request's writes and deletes (`Through`), merged with the file it writes, is what it will answer. What the answers are worth
  beside failed writes, restarts and hand edits is checked by `catalog` only.

`LogProofs`, from `FetchLogAssumption`, `MessageLogAssumption` and `SessionAssumption`:

- `FetchInvariant`: `FetchSpec => []FetchIInv`. `Recent` is `NetworkIsRecent` as an
  operator of a log, a number of exchanges, a clear and the bodies read, so that `AppendRecent`
  (an exchange is tracked) and `KeepNewest` (the cap trims) can speak of the log of a step;
  `SuffixRecent` is the fact both rest on. While the page of before is loading
  no entry of it is in the log, or its load could put it there twice.
- `NetworkStaysRecent`: `NetworkIsRecent` from it.
- `ResponsesAreShown`, `RefusalIsOwn`: `NothingHidden` and `MarksTheRefused`, by `LogIInv`. `Sound` ties the index of
  pending requests to the log: a request that is pending and was not evicted is on screen, so that a
  response is folded into something the user sees. Pushing to a full log evicts one entry, a
  clear keeps some, the salvage walk rewrites some: `RoomIs`, `OnlyIs` and `AlikeLeads` say
  what each leaves in place.
- `OnlyIs` is what `Array.prototype.filter` keeps, in which order. It is about a recursive function, and
  is proved without induction over data: the least index at which a claim about the prefixes would
  fail (`Least`, from the library's well-foundedness of `<`) has a predecessor at which it
  holds.

`OAuthProofs`, from `OAuthManagerAssumption` and `OAuthStorageAssumption`:

- `PendingMatchesVerifier`: `OAuthSpec => []PendingIsRedeemable`. Not inductive alone: between the
  step that stores a verifier and the one that sets the pending scope another recovery
  must not store its own. `RecoveryIsSerial` says so: a recovery at work is the head of the mutex,
  and one about to answer "interactive" has the verifier, unless `authenticate()`, which
  takes no mutex and sets no pending scope, has taken it over or a clear has dropped
  it. `OneMoves` is the case of a handler that touches neither, the other lemmas come
  down to it but for the steps that store a verifier or set the scope.
- `SatisfiedMeansGranted`: `OAuthSpec => SatisfiedIsGranted`, by `GrantsInv`: as long as nothing lapsed,
  the stored scope is within what the token grants (`ScopeKept`). For this a handler that may store a scope
  asks for all that is stored (`Covered`), the token a refresh puts back is the one whose
  grant is stored (`Refreshed`), and a code is redeemed for the verifier of its own authorization
  with no recovery beside it (`Redeeming`).
- `SavedStaysSaved`: `StorageSpec => []SavedIsDurable`, by `SnapshotsGrow`: each snapshot in the
  chain holds what is on the disk and in the snapshots before it, since they were taken
  of one memory that only grows once it has been loaded.

`ClientStoresProofs`, from the assumptions of the stores:

- `ClearedIsGone`, `CancelIsFinal`, `NoInputIsStuck`: `ClearedStayGone`, `CancelSticks` and `InputIsLive`, by
  `TasksIInv`. `RowsInv` says of the list what the two properties say, with one row per task while it was never doubled;
  it is inductive because each of the ways into the list (a page, a poll, a notification) filters by
  the dismissed and the cancelled ids. `PollInv`: the loop of a task that is being cancelled has been told, which
  keeps it from pausing again. For that a task must not be cancelled before its loop
  is there: `NewInv`, on the modern era nobody has heard of a task whose handle has not arrived.
- `NoChangeIsMissed`: `ListSpec => []NothingMissed`, by `ListIInv`. Each of `AggregateInv` and `PagedInv` lists what
  may stand between a change at the server and the screen: a sign (the indicator, a notice, the
  timer, a queued turn), a fetch that has not read an old list, or an error. `LoopInv` and `PagesInv`
  say which fetches and which pages there can be.
- `StoresTyped`, `AttachedListMissesNothing`: `StoresTypeOK` and `ListMissesNothing` of the composition. A store that
  is attached takes steps of its own specification (`WatchedSteps`), so the invariants
  above carry over.

The proofs hold for any set of URIs, servers, sends, peers, tasks, challenges or calls and any
value of the bounds (pages, sessions, list changes, log sizes, faults), so the bounds
do not limit them. The layout is the same in all modules: a lemma for
the initial state, lemmas for the operators several actions share, a lemma per
group of actions with a step per action, and the temporal theorem at the end.

Every invariant and every action property of a passing run is stated by one of these theorems,
`CatalogShowsAcked` and `BlankIsBacked` under the hypotheses named above. Model-checked only: liveness under
fairness (`BadgeSettles`, `SendsSettle`, `DeathReachesBrowser`), which is beyond the prover, and the
runs that end in a counterexample.

## Plan

Done: the modules above and the proofs of their safety properties. Next, in this order:

1. `CatalogShowsAcked` with failed writes and restarts but no hand edits: `Through` has to speak of what a
   failed write leaves, and `acked` of the servers whose answer is unknown.
2. An abstract catalog (one map of servers, a step per answer) that `ServerCatalog` implements while `Calm`,
   with `ShownInv` as what makes the mapping go through.
3. `ConfigWatcher`: the mtime of the own write, beside `ServerCatalog`.
4. The legacy `resources/subscribe`, whose await has no session check, over `ClientSession`.

## Not modelled

Enterprise-managed authorization, the credentials kept per issuer, and what the MCP SDK does
within `auth()`; in `RemoteLink` and `PeerRequests` an OAuth challenge is a choice of its
outcome. The resource
subscription store mirrors events of the listen stream. The watcher of `mcp.json`
depends on the file system's mtime, the stderr log only appends and trims. URI templates, nullable
unions, import and config parsing turn strings into strings, without state. The
views, the command line, the terminal UI and the launcher render and parse; they are
most of the repository's lines, and what they do in an order that matters, the handlers
of refresh, toggling, cancel, clear and authorization, is part of the modules above. Test
servers, fixtures and stories are not part of the program.
