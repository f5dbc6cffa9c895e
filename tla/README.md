# Verification of Hiro

This directory holds TLA+ models of the parts of Hiro where several processes,
tasks or writes have to agree, the TLC configurations that check them on small
instances, and TLAPS proofs of what matters most. Paths below are relative to `src/`;
`hirocli/` stands for `hiroserver/hirocli/src/hirocli/`, `relay.py` for
`hiroserver/gateway/src/hirogateway/relay.py`, `plugin.py` for the devices
channel's plugin, and Dart files are under `device_apps/lib/`.

    tlc -config rs_steady.cfg MCResourceSync      one run
    tlapm ResourceSyncProofs.tla                  one module's proofs

## 1. The system

Hiro is a personal assistant: a server on the user's desktop, phones paired
with it, and a gateway both connect to, because neither can be dialled.

    device app  <--websocket-->  gateway  <--websocket-->  devices plugin
                                                              | websocket, JSON-RPC
                                                           HiroServer (one asyncio loop
                                                           and worker threads)

| Component | State it keeps | Operations | Hard because |
|---|---|---|---|
| Resource sync, server (`resource_change_broadcaster.py`, `resource_versioning.py`, `device_targeting.py`) | connected device ids, one debounce task per resource, version counters, all in memory | domain event, flush, connect/disconnect events, serve a pull | events from threads, debounce, restart, lossy hints |
| Resource sync, device (`gateway_notifier.dart`, `resource_sync_bootstrap.dart`, `resource_sync_version_store.dart`) | last seen version per resource, local copy | hint, pull, apply, record, revalidate | hints and pulls interleave, pulls run concurrently |
| Gateway relay (`relay.py`) | device registry, the desktop's socket, pending pairings | register, unregister, relay, pairing hand-over | sockets close under it, one lock per table |
| Devices plugin (`plugin.py`) | the gateway session | forward both ways, redial with backoff | loss of frames in both directions |
| Pairing (`infra_event_handlers.py`, `domain/pairing.py`, `tools/device.py`, `pairing_client.dart`) | code file, approved devices | issue, check, approve, answer, ask | two writes, timers on three sides, lost answers |
| Preference reactions and provider changes (`preference_reactor.py`, `agent_manager.py`) | pending changes and task per reaction, a lock for the handlers of `providers.changed`, attached services | save, collect, rebuild | several tasks rebuild one service, in threads |
| Domain event bus (`domain/events.py`) | subscribers, loop | publish, dispatch | threads to loop |
| Communication pipelines (`communication_manager.py`, `outbound_pipeline.py`, `request_handler.py`) | inbound and outbound queue | enqueue, drain, dispatch | a worker that dies, tasks out of order |
| Channel manager (`channel_manager.py`), SDK transport (`transport.py`) | sockets and handlers by channel, processes, frames under way | register, replace, configure, send, disable, enable, spawn, kill, shut down | duplicate registration between awaits, closed sockets, orphan processes |
| App request client (`gateway_request_client.dart`) | pending requests, file sessions | request, timeout, route a stream, cancel | late answers, lost frames, reconnects |
| App history sync (`message_history_sync.dart`, `channel_repository_impl.dart`) | cursor, applied clears, mirror rows | pull pages, store the cursor, reset after a clear | the server moves while pages are read, two flows, a kill between writes |
| App attachments (`attachment_fetch_service.dart`) | a fetch status, path and file per row | pick, fetch, save, mark | two ticks on one row, reset under way, kill |
| Message store, conversation channels (`message_store.py`, `conversation_channel.py`) | messages, clears | append, page, clear | time taken before the commit, coarse cursors |
| Memory ingest (`windowed_ingest.py`, `memory_ingest_cursor.py`) | watermark per conversation | pass, add, advance, idle sweep | addition and watermark are two writes and either may fail; passes overlap |
| Knowledge service (`services/knowledge`) | catalog rows, vectors, jobs | ingest, delete, recover | a document is many writes in two stores; jobs share files; crashes |
| Agent manager and chat graph | services, compiled graphs | turn, evict, rebuild | rebuild during a turn |
| Everything else (catalogues, credentials, providers, CLI, HTTP, frontend, widgets) | files, local state | validated reads and writes, calls to models | nothing to interleave, or external |

What makes each correct, in words:

* resource sync: no update is lost on a device the server knows of; a copy
  never goes back; the devices the gateway announced are recipients;
* pairing: a code pairs one app, an app that believes it is paired has a row
  on the server, approvals and requests are not stranded, and one app cannot
  end the desktop's session;
* preferences and providers: no change is forgotten on its way to a rebuild, and
  the rebuilds for credentials attach in order;
* channels: the registry names a connection somebody reads, a plugin is stopped
  only with its channel or its server, and one that stays up ends up registered
  and started;
* history: nothing lies behind the text the stored cursor is sent as that is not
  in the mirror, but for what was already covered when it was inserted; a bulk
  clear leaves no ghosts;
* attachments: a row says ready only of bytes on disk, a download is whole or an
  error, and every row ends up ready;
* memory: after the first watermark no turn is skipped, and none is told twice
  unless a pass was interrupted between an addition and the watermark;
* knowledge: a ready document has exactly the vectors its hash names, and what
  is unfinished is found again after a crash, unless an outcome could not be
  written.

## 2. Modules

| Module | Models | Extends |
|---|---|---|
| `MonotonicReplica` | abstract: content that moves forward and copies that follow it | |
| `ResourceSync` | server, plugin link, gateway registry and devices, for one resource | |
| `MCResourceSync` | symmetry of the devices for TLC | `ResourceSync` |
| `ResourceSyncProofs` | type correctness, recipients; order of hints and responses: fresh hints, refinement of `MonotonicReplica`; no update of a snapshot resource is lost | `ResourceSync`, `TLAPS` |
| `Pairing`, `MCPairing` | app, gateway, plugin link and server for pairing attempts | |
| `PairingProofs` | type correctness, a code pairs once, approvals are real and not stranded | `Pairing`, `TLAPS` |
| `PreferenceReactor`, `MCPreferenceReactor` | reactor, handlers of `providers.changed`, and the rebuild of one service by both | |
| `PreferenceReactorProofs` | type correctness; no change is forgotten; the handlers stay in order | `PreferenceReactor`, `TLAPS` |
| `PluginChannel`, `MCPluginChannel` | one channel: plugin process, sockets, manager, admin's switch, the server's stop and start, outbound worker | |
| `PluginChannelProofs` | type correctness, live entries, configure before messages, what stops a plugin | `PluginChannel`, `TLAPS` |
| `HistorySync`, `MCHistorySync` | one conversation channel and its mirror on a device | |
| `HistorySyncProofs` | type correctness, no ghosts, no message skipped, pulls are complete | `HistorySync`, `TLAPS` |
| `FileCall` | abstract: a call answered once, with the whole file or an error | |
| `AttachmentFetch`, `MCAttachmentFetch` | attachment rows, ticks, `files.get` with its stream; refines `FileCall` | |
| `AttachmentFetchProofs` | type correctness, ready rows have bytes, the refinement | `AttachmentFetch`, `TLAPS` |
| `MemoryIngest`, `MCMemoryIngest` | turns of one conversation on their way to the memory | |
| `MemoryIngestProofs` | type correctness, what windows hold, no later turn skipped, none told twice without an interruption | `MemoryIngest`, `TLAPS` |
| `KnowledgeIngest`, `MCKnowledgeIngest` | ingestion jobs over documents, catalog and vectors, restarts | |
| `KnowledgeIngestProofs` | type correctness, ready documents are indexed, unsettled ones are owned | `KnowledgeIngest`, `TLAPS` |

Definitions whose comment begins with "Mutant:" are plausible mistakes in the
definition that follows them. No action uses them; each breaks a property when
it takes the place of the original, which shows what that property rests on.

### 2.1 ResourceSync

One logical resource. The content is the number of changes committed so far,
the only thing properties need to tell two contents apart. Correspondence:

| Model | Code |
|---|---|
| `Write`, `OnDomainEvent` | a tool commits and calls `DomainEventBus.publish` from its thread; the handler runs on the loop later (`unpublished` counts the difference) |
| `debounce`, `Flush` | `_schedule_emit`, `_debounced_emit`, `_flush`. A task past its sleep reaches no suspension point before it ends, because the queue it puts into is unbounded, so bump and fan-out are one step |
| `connected` and the three `Handle...` actions | `InfraEventHandlers`, called one event at a time in the order the plugin sent them |
| `ServePull` | `handle_policy_get` / `handle_channels_list`: content and version are read without an await |
| `Relay(d)` | outbound worker, plugin `send`, `relay_message`, in order per device; dropped without a session or a socket |
| `HandleHint`, `IsDuplicate` | `_handleResourceChangedEvent` |
| `HandleResponse`, `ApplyMirror`, `RecordAuthoritative` | `refreshPolicy` (content replaced at once, version recorded after the storage write) and `_refreshChannelsMirror` (rows written later, history sync in between, version last). `ApplyMode` selects which |
| `DeviceConnect`, `DeviceDrop`, `LinkDown`, `LinkUp` | `register` / `unregister` with their notifications, and the plugin's redial loop; a session that ends tells the server so (`plugin.py:146`) |
| `SocketLost` | the socket between plugin and server drops: `on_stop` cancels the gateway loop, the cancellation is raised again (`plugin.py:141`), and nobody tells the server, which keeps its recipients and serves what it has received (`channel_manager.py:500`) |
| `ServerRestart`, `PullTimeout`, `Revalidate` | process restart, `_armTimeout`, `revalidateResourcesIfStale` |

`announced` (devices whose connection the present session was told of) and the
`data` field of a hint are history: no guard and no assignment of another
variable reads them. The app's request client survives a reconnect of its
socket, so a response that was queued for the previous socket and is relayed
to the next one is accepted, in the code and in the model.

### 2.2 Pairing

One `Attempt` is one call of `PairingClient.pair`. `ApproveDevice` and
`FinishApproval` are two steps because the row and the code file are written
one after the other, with a crash or another process in between, although the
handler does not yield. `AnswerClosedSocket` is the path through
`_handle_pairing_response_from_desktop` when the waiting socket is closed: the
exception leaves the loop that reads the desktop's socket. `LoseFrames` keeps a
prefix of what was on the wire, since both sides still read what has arrived.
`askedIn` is history.

### 2.3 PreferenceReactor

Preferences and credentials are the numbers of their saves. One service has
several rebuilders: the reactions to its preferences (one for STT and for TTS,
three for the memory) and the task that each write of `providers.json` starts.
STT and TTS serve until the new service is there (mode `swap`); the memory is
detached and closed first (`detach`).

| Model | Code |
|---|---|
| `UpdateMany`, `OnPreferencesSaved` | `update_many` persists and publishes; the reactor collects the change and creates a task unless one is not done |
| `Wake`, `Begin` | the end of the debounce with the handler up to its first await: the build gets the preferences of that moment |
| `SaveProviders`, `EnterLock` | `_handle_providers_changed`; `_providers_change_lock` orders these handlers with each other, not with the reactions |
| `OldServiceClosed`, `ReadCredentials`, `Attach` | the awaited close of the old memory, the credentials the thread looks up, the assignment that replaces whatever is attached by then |
| `RebuildFails` | the close or the build raises, which is logged |

`tried` (the newest preferences and credentials a finished rebuild was made from)
and `rebound` (the credentials of the last service a handler attached) are
history. A reaction whose paths need no rebuild returns at once and is left out.

### 2.4 PluginChannel

One channel of `channel_manager.py`. A socket has two ends, `sock` (what the
server knows) and `peer` (what the plugin has), because the server learns of a
close later than it happens; this is where registrations and sends go wrong.

| Model | Code |
|---|---|
| `Connect`, `ReadFrame`, `PluginDrops`, `PluginAnswersClose` | `transport.py`: dial, dispatch of configure and stop, redial |
| `Register`, `FinishRegister`, `Enter` | `_handle_connection`: stop and close the connection that has the name, wait for its close, then set the entry and push the configuration without a yield |
| `Dispatch`, `DispatchEnds` | a message is awaited inside the handler, which sees nothing of its socket meanwhile |
| `HandlerEnds` | the handler's `finally`, which deletes the entry only when it is its own |
| `Enqueue`, `WorkerSends`, `WorkerDrained` | `outbound_pipeline.py` and `send_to_channel`; a send may wait for a full socket |
| `Deactivate`, `Reap`, `Killed`, `Activate` | the admin's switch, with the await of the close between the two halves of `deactivate` |
| `ShutdownChannels`, `CloseServer`, `ServerExits` | the ordinary stop, `_shutdown_channels`: stop to what is registered, a second's wait, the processes of this server terminated, the server of the sockets closed; the process ends when its handlers have. The admin's calls are still answered meanwhile |
| `ServerCrashes`, `ServerBoots` | the plugin is a session of its own and outlives the server; at its start each enabled channel's recorded pid is killed |

A channel has one process here, launcher and child together: a child that
outlives its launcher's `terminate` until the next start kills it by its pid is
not modelled.

`Connect` has one assumption about time: the redial delay of five seconds, or
the start of a process, is longer than the manager needs to read a registration
and to close the socket of a peer that is gone. Without it
(`ConnectAtOnce`) a stop can reach a process that has just redialled.

### 2.5 HistorySync

A message is its `created_at` in microseconds, `Milli` of them to a millisecond and
`PerSecond` of those to a second. The server writes the time as text, with six digits
or with none when the fraction is zero; the device keeps milliseconds and sends them
back without ".000"; the server compares texts, and Z is greater than a digit and a
digit than a dot. `Text` and `CursorText` are the places of a row's and of a cursor's
text in that order: a cursor covers its whole millisecond, or its whole second when
its milliseconds are zero. A position within a pull is the text of a row, exact.

| Model | Code |
|---|---|
| `Text`, `Millis`, `CursorText`, `Covers`, `Ties` | `utc_iso`, `_parseCreatedAtMs`, `_serverIsoFromMs` and the comparison in `_sync_list`; rows with the very text of a stored cursor follow it when their id does |
| `StampMessage`, `InsertMessage` | `save_message` takes the time, then a thread inserts the row |
| `ClearMessages` | one transaction of `clear_channel_messages` |
| `ServeHistory`, `ServeList` | the two request handlers, each in one step of the loop |
| `AskHistory`, `ApplyPage`, `NextPosition`, `IsLastPage`, `SaveCursor` | `syncChannel`: pages after a position, the greatest time applied, the cursor stored at the end |
| `CompareClears`, `DeleteMirror`, `ClearWatermark`, `UpsertChannel`, `PullAfterReset` | `syncFromServer` and `_resetLocalMirrorForBulkClear`, one database write each |
| `RequestTimeout`, `AppKilled` | a request that is not answered; a kill between any two writes |

The rows of a page are applied in one step (the code awaits between rows; a kill
in the middle leaves a prefix of the page, without the cursor, which the next
pull repeats). `overlapped` and the fields `clears`, `late` of a message are
history; a message is late when, as it is inserted, a row is there already whose cursor
would cover it. Two messages of one microsecond and a clock that goes backwards are
not modelled. `overlapped` is set when one of a reset's two writes happens while another
flow has a pull, a reset or a row write under way, since what that flow still writes
(rows of a page, a cursor, the channel's row with the number of clears it read) may
be older than the reset, or when a newer clear has been applied since the reset's list.

### 2.6 FileCall and AttachmentFetch

`FileCall` is what a caller of `filesGet` is promised. `AttachmentFetch` has the
download underneath: a request, an acknowledgement, chunks and a terminal
response on a wire that may lose any of them, the session that collects them,
its two timers, `cancelAll` at logout. Around it are the ticks of
`attachment_fetch_service.dart` with one step per database or file write
(`MarkFetching`, `SaveBytes`, `MarkReady`, `MarkFailed`), the candidates by
status and age (`IsCandidate`, `BecomeDue`), and the bulk clear that deletes
files and rows in two steps. `CallOf` is the refinement mapping.

### 2.7 MemoryIngest

One conversation. `Arrive`, `Answer` and `StoreReply` are the life of a message and
its reply: the reply's announcement is handled by the loop that runs the graph before
that goes on to the pass (the library dispatches events in order, which is taken from
how `_handle_inner` consumes them), so the reply is stored, or has failed to be, when
the pass reads the watermark. `ReadCursor`, `ListAll`, `Pin`, `Plan`, `Add` and
`Advance` are the awaits of `ingest_pending_windows`, run by the pass of each turn and
by the idle sweep. `Pin` sets the first watermark, also the first after each clear,
before the last row; with the reply stored that is past the message of the turn.
`StoreFails` is a reply that cannot be stored; `PassFails` ends a pass at any await,
after an addition too, since the memory stores the episode before it rebuilds its
index, and the node catches what is raised and does not retry. Windows are computed as
`plan_windows` does: `opening[n]` says whether an exchange joins the window before it,
follows a session gap (splits) or overflows a window alone, and the window's size may
be edited between two passes. `Take` is the body of its loop, `Grouping` the loop,
written as a recursive function so that it can be reasoned about, and `Complete` the
exchanges it is given. `told[n]` counts the windows with turn n that the memory has
taken; it, `pinned` (the newest message a first watermark was set past) and
`interrupted` (passes that ended between an addition and the watermark) are history.

### 2.8 KnowledgeIngest

A worker is one path of one job. Its steps are the calls of `_ingest_one` that
leave the loop: read and hash the file (`ReadFile`), find the row (`LookUp`),
mark it parsing and embedding (`Mark`, `Parse`), delete the old vectors, write
the new ones batch by batch, write the row. A lock per path orders workers.
`Fault` and `FaultBefore` are exceptions before and after the row exists,
`DeleteRow` and `DeleteVectors` the two halves of deleting a document, `Crash`
and `Boot` a restart with `recover_abandoned_work`.

`task[j]` is the job's own task: it gathers its workers, or is in its `except`, or is
over. With "catalog" the write of an outcome may fail: a worker's totals
(`ReportFails`, outside its `try`, so the gather ends while the other workers go on),
the job's end (`FinishFails`, `FailJobFails`), a document's failed mark
(`MarkFails`). `Report` writes the status running whatever the job says by then, as
the code does. `marker` and `unwritten` are history: the job that marked a row last,
and the jobs with an outcome that could not be written. An exception of
`workspace_prefs()` at the start of `_run_ingest_job`, before its `try`, is not
modelled.

## 3. Runs

| Run | Bounds | Checks | Result |
|---|---|---|---|
| `rs_steady` | 1 device, 2 changes, 2 of drop, link loss, lost plugin socket, revalidation; fair | `TypeOK`, `StaleHasCause`, `FreshHints`, `CopyIsMonotonic`, `Converges` | hold |
| `rs_faults` | 2 devices (symmetric), channel mirror, 1 change, 2 of drop, link loss, lost plugin socket, restart, timeout | `AnnouncedAreRecipients` | holds |
| `rs_restart` | 1 device, restart and drop | `SkipsOnlyDuplicates` | violated |
| `pairing` | 2 attempts, 2 codes, 2 of five disturbances; fair | `TypeOK`, `CodePairsOnce`, `PairedIsApproved`, `ApprovalOnItsWay`, `RequestIsAnswered` | hold |
| `prefs` | 1 reaction, 2 handlers of `providers.changed`, both ways of rebuilding, 3 saves, 2 of credentials, 1 failure; fair | `TypeOK`, `EveryChangeIsBuilt`, `ProvidersRebindInOrder`, `ChangesReachARebuild` | hold |
| `channels` | 3 sockets, 2 messages, 2 of drop, crash, switch, busy handler, server stop, server crash; fair | `TypeOK`, `EntryIsLive`, `ConfiguredFirst`, `StopsAreMeant`, `RegistryFollowsPlugin` | hold |
| `channels_worker` | 2 sockets, 2 messages, 1 drop; fair | `QueueIsDrained` | violated |
| `history` | 2 flows, 2 pulls, messages at 3 times by 2 writers, pages of 1, 2 of clear, timeout, kill; fair | `TypeOK`, `NothingSkipped`, `NoGhosts`, `PullIsComplete`, `FlowsEnd` | hold |
| `attachments` | 1 row, 2 ticks, 2 chunks, 4 of loss, slowness, logout, kill, clear; fair | `TypeOK`, `ReadyHasBytes`, `WholeOrError`, `EndsUpReady` | hold |
| `memory` | 4 turns, windows of 2, 2 of failed run, failed reply, failed pass, clear, kill; fair | `TypeOK`, `LaterTurnsAreKept`, `TwiceOnlyIfInterrupted`, `LaterTurnsEndUpTold` | hold |
| `memory_first` | 1 turn, no failure | `FirstTurnIsCounted` | violated |
| `knowledge` | 2 jobs, 2 paths, one forced, 2 versions, 2 batches, 2 of edit, fault, deletion, crash, failing catalog write; fair | `TypeOK`, `ReadyIsIndexed`, `UnsettledIsOwned`, `WorkSettles` | hold |

What the passing runs show.

* Resource sync: a device the present session knows of is never behind without a
  write, timer, hint, pull or response on its way that brings it the present content;
  its copy refines `MonotonicReplica`; and if it stays connected it converges. This
  rests on three facts of the code the mutants take away one by one: bump and enqueue
  are one step, hints and responses to a device share one queue, and a connecting
  device always pulls. A lost event of an earlier session never takes away a device
  announced later; it may leave one that is gone, which costs a dropped hint (next
  list).
* Pairing keeps its promises across every pair of disturbances, among them a crash in
  the approval.
* Preferences and credentials: whatever the reaction and the handlers do at the same
  time, and whichever rebuild fails, a rebuild is made of every change, and the lock
  keeps the handlers from attaching older credentials after newer ones. It is not
  shown, and is not so, that the newest build is the one left attached.
* Channels: a replaced connection neither takes its successor's entry away nor passes
  its stop on to it, whatever the order in which the two ends learn of a close; a
  plugin that is told to stop has a disabled channel or a server being stopped; and
  the plugin ends up registered and started after every pair of disturbances. The one
  thing that does not recover is the worker (`channels_worker`).
* History: the order of the writes (rows before cursor, cursor dropped with the rows)
  keeps the cursor honest through kills and clears, for times that share a millisecond
  and for whole seconds. The exception is a message that an earlier row's cursor
  covers already when it is inserted (next list).
* Attachments: two ticks on one row may mark failed what is ready, but the row is
  tried again and never says ready without its bytes; a lost acknowledgement or chunk
  ends in an error and never in a partial file.
* Memory: after its first watermark, which skips the turn it is set by
  (`memory_first`), no turn of a conversation is skipped, and the sweep picks up what
  is too little for a window. A turn is told again only after a pass that ended
  between an addition and its watermark; of several windows only the last one added.
* Knowledge: deleting the vectors before the row says ready, and letting every
  unfinished row belong to a running job, is enough for edits, failures, deletions
  between ingestions and crashes at any write. Failing writes of outcomes are checked
  too, and leave behind only what they concern: rows marked by that job, and its own
  status.

What the violated runs show.

* `rs_restart`: the version counters start again at zero. A device that recorded
  version 1 before the restart drops the first hint after it, which announces
  new content. The connect-time pull usually closes the gap; it does not when
  the hint is handled while the pull is still under way or has not been served.
* `channels_worker`: `send_to_channel` sends on the registered socket without a
  guard and the worker's loop catches nothing. A socket that closes before its
  handler has noticed ends the worker; the server keeps running and the queue
  grows.
* `memory_first`: the first pass of a conversation takes the last row for the message of
  its turn and sets the watermark before it. The last row is the reply, which was
  stored before the pass began, so the watermark is the turn's own message and the
  turn is never told, with no fault at all. `windowed_ingest.py:88-93` says the
  opposite, and `test_windowed_ingest.py:53-87` tests it with the user's message
  alone. A clear, which deletes the watermark, makes the next turn a first one.

### Disagreements without a run

Each of these is stated by a definition of the models, or follows from an action,
and was seen with TLC in the instance named; none is among the runs above.

* `gateway_disconnected` clears the recipients, and after the redial the gateway
  does not announce the devices it still has; they get no hints until they
  reconnect, although `device_targeting.py:15` speaks of every connected device
  (`ResourceSync`: `LinkDown`, `LinkUp`).
* `ResourceSync!RecipientsAreConnected` is violated with one device, `MaxChanges = 1`
  and `Disturbances = {"socket", "drop"}`: when the plugin's socket drops no
  `gateway_disconnected` is sent (`plugin.py:141`), and a device that leaves before the
  plugin is back stays a recipient until a session ends in the ordinary way. Its
  hints are dropped at the gateway.
* Two channel pulls at once: the second records its version while the first
  waits for history, and the recorded version then goes down without a restart.
  The device pulls once more, but the comment at
  `resource_sync_version_store.dart:91` reads a lower number as a restart
  (`ResourceSync` with `ApplyMode = "mirror"`).
* `Pairing!SessionEndsOnlyWhenLost` is violated in `pairing.cfg`'s instance: an
  app that closes its socket while the answer is under way makes the gateway
  close the desktop's session (`relay.py:620`).
* `PreferenceReactor!EditsTakeEffect` is violated with one reaction, one handler,
  `Modes = {"swap"}` and one save of each: a rebuild for new credentials that began
  before a preference was saved attaches after the one the preference caused, and
  the old preference stays in use (`agent_manager.py:831`, 895), although the reaction
  swaps its service in "so the next message uses the new model"
  (`agent_manager.py:921`). Two reactions of the memory do the same.
* `PreferenceReactor!PendingWillFire` is violated with one reaction and two saves: a
  preference saved while the reaction's handler runs is collected, but no task is
  created, then or when the handler ends; it waits for the next matching save
  (`preference_reactor.py:165`: "accumulates until it fires"). `EveryChangeIsBuilt`
  counts it as still on its way.
* `PluginChannel!DisabledIsSilent` is violated with two sockets and
  `Disturbances = {"switch", "restart"}`: the server dies between disabling a
  channel and killing its process, the plugin redials, and the next start looks at
  enabled channels only, accepts its registration and configures it
  (`channel_manager.py:242`: "a deactivated channel must stop flowing entirely").
* `HistorySync!ResumesPastCollisions` is violated with one flow, pages of two,
  `Times = {5, 6}`, `Threads = 1` and no disturbance: a message of a
  millisecond, or of a whole second, that the stored cursor's text covers is sent after
  the pull that stored the cursor, and is never pulled, although `channels_dao.dart:53`
  says the next page request can resume past collisions.
* A message whose time was taken before, and whose row was committed after, a
  message the device has already pulled is never pulled
  (`message_store.py:331`). `NothingSkipped` without its exception for `late` is
  violated in `history.cfg`'s instance.
* `MemoryIngest!NeverTwice` is violated with two turns, windows of one and
  `Disturbances = {"overlap"}`: each message is a task of its own, so two passes
  read the same watermark before either has moved it (`windowed_ingest.py:86`), although
  `windowing.py:18` says no turn is ever ingested twice.
* `LaterTurnsAreKept` is violated with "overlap" too: two messages are stored before
  the first one's reply, which is then paired with the second message; the first is
  no exchange, and the watermark passes it. `windowing.py:65` speaks of a trailing
  message only, whose reply lands next.
* `KnowledgeIngest!RecoveryFindsLiveWork` is violated with one job over two paths and one
  failing catalog write: a worker's totals cannot be written (`service.py:1335`, outside
  its `try`), the job is written as failed while another worker goes on and marks its
  document, and a crash leaves that one for good; the same holds of a failed mark
  (`service.py:1458`). A later worker's totals may set the failed job to running
  again. `catalog_store.py:232` says the row is reserved so that crash recovery can
  flip live work to failed.
* `ReadyIsIndexed` is violated with `Disturbances = {"edit", "delete",
  "overlap"}`: deleting takes no lock, so an ingestion under way writes back a
  ready row whose vectors are then deleted (`service.py:1504`).
* `WorkSettles` is violated with `Disturbances = {"crash", "reuse"}`:
  recovery looks up the process id of a job's owner only, and after a restart
  under the same id the jobs of the earlier process seem to be running
  (`runtime_owner.py:29`).

### Bounds

Two disturbances allow every ordered pair (drop then link loss, restart then drop,
crash then timeout); four are used for attachments, where a loss, a second loss on the
retry, a kill and a clear make one story. Two changes are the least that make one hint
follow another and a recorded version meet a later hint; two devices are enough for
one to disturb another, as every action touches one device or all. `MaxLoss` 2 covers
the connection's hint and response at once. Three saves let a save fall before, into
and after a rebuild; two handlers are the least that meet at the lock, and one
reaction rebuilds beside them (the proofs are for any number). Three sockets let a
registration replace a connection that had itself replaced one. Pages of one message
make two messages two pages, which is the least at which a pull can be overtaken; two
flows, one of which may pull again after its reset, let a reset meet a pull and a
later pull use the cursor they leave. With `Milli` and `PerSecond` 2 the times 5, 6
and 8 are the second microsecond of a millisecond, a time without microseconds, and a
whole second. Two chunks are the least at which one can be lost with the other
received. Four turns, the first of which is passed over, leave a full window of two
and a remainder for the sweep; two jobs on the same path, one forced, make both
skipping and rewriting happen, and two batches a document that is half written.

Three disturbances are parts of the models and left out of the passing runs,
because what the code does then is listed above: "overlap" in `MemoryIngest`,
"overlap" and "reuse" in `KnowledgeIngest`. The
properties of `HistorySync` except a reset that meets another flow's pull, reset
or row write (`overlapped`), after which the device does keep ghosts or skip
messages until the next clear. A row write is among them because it may put back
the number of clears that its flow read before the other one's reset.

Deadlock checking is off everywhere: with its bounded disturbances and inputs
used up each system comes to rest.

### Fairness

Weak fairness for the loops that run by themselves: the server's event loop and
its outbound worker, the plugin's redial loop, the gateway's read loops, a
device's handling of what reached it, tasks and build threads, the periodic tick
and the idle sweep, whoever has the lock of the providers' handlers releasing it, and
the start of a server that was stopped or killed where a property speaks of what happens
after it. Users, writers, the admin and disturbances have
none, and `DeviceConnect` has none either: `Converges` is about devices that
stay announced.

## 4. Proofs

### 4.1 Resource sync

`ResourceSyncProofs` proves, for every set of devices, mode, subset of
disturbances and bounds:

* `TypeCorrect`: `Spec => []TypeOK`, action by action.
* `RecipientsSettled` and `AnnouncedAreHinted`: `Spec => []AnnouncedAreRecipients`.

`AnnouncedAreRecipients` speaks only of an empty queue and is not inductive. The
strengthening says what the queue still owes. For an announced device d, take the last
queued message that concerns d (its connect, its disconnect, or the end of a
gateway session): it is its connect, or, with no such message, d is a recipient now.
`Settled(d)` states that for a queue and a set of recipients, without
recursion, and `RecipientInv` states it for every device, with `SessionInv`:
without a link nobody is announced, and only registered devices are. The lemmas
say how `Settled` behaves under the four things a step does to the queue:
taking the head, appending a message that concerns d, appending one that
concerns another device, and appending a pull. A session that ends, with its
`gateway_disconnected` or without it (`SocketLost`), loses a suffix of the queue and
leaves nobody announced, so nothing is owed any more. The converse, that a recipient
is connected, is false for that reason (section 3).

On the order, for every set of devices and all bounds:

* `HintsAreFresh`: `Spec => []FreshHints` when "restart" is not among the
  disturbances (`rs_restart` shows what happens when it is), in both modes.
* `SnapshotsNeverGoBack`: `Spec => CopyIsMonotonic` for a snapshot resource,
  with every disturbance, restarts and timeouts included. A mirror is left out:
  its rows are written after other awaits, and pulls overtake each other there.

Neither property is inductive, because neither says anything of the messages
behind the next one. `OrderInv` does: what a device holds (its recorded version
and shown content, and every pull it has open), then its inbox, then its
outbound queue, then the server, form one ascending line. Content never
decreases along it and a hint's version is above everything before it. Equal
versions of a hint and a later response are allowed, and so are lost messages:
a line stays ascending when elements are taken out. `Ordered` states this for
one device as a predicate of its queues alone, so each lemma is about one thing
that can happen to a queue (`OrderedLoss`, `OrderedSend`, `OrderedRelay`,
`OrderedReceive`, `OrderedRecord`, `OrderedApply`), and `OrderStep` only says
which of them each action is. A restart resets the counters, so versions are
part of the order only without restarts; content survives a restart and stays
in it. The refinement step is then short: a response taken from the inbox lies
above the copy and below the server's content, which is a `Refresh` or a
stutter.

The last part proves `NoUpdateIsLost`: `Spec => []StaleHasCause` for a snapshot
resource when neither "restart" nor "timeout" is among the disturbances (a response
that times out is an update lost, by design of the code). It builds on all of the
above. `RepairInv` restates `StaleHasCause` without the duplicate guard, which
`HintsAreFresh` shows cannot fire, and adds `Followed`: whatever the server's queue
still says of an announced device, a pull of it comes after. With `RecipientInv` an
announced device therefore has a pull queued or is a recipient that nothing queued
removes, which is what a new change needs; `OrderInv` gives that a response can only
bring the copy closer to the present content.

The assumptions used are those named in `ResourceSync`, and the ASSUME of each
of the last three theorems.

### 4.2 Preference reactions

`PreferenceReactorProofs` proves for every set of reactions and of handlers, both ways
of rebuilding, and any number of saves and failures: `ReactorTypeCorrect`;
`NoChangeIsForgotten`, which is `EveryChangeIsBuilt`; and `ProvidersStayInOrder`, which
is `ProvidersRebindInOrder`.

`ReactorInv` adds to the types that nothing was built from settings that did not
exist yet (`AgeInv`), that every event on the bus is a save and concerns a reaction
(`BusInv`), and what is owed (`OwedInv`): preferences newer than every finished
rebuild are on the bus, collected, or in a rebuild that has them or is about to read
them (`HasPrefs`); credentials have a handler waiting or are in such a rebuild
(`HasKeys`: the thread looks them up last, so also a reaction's rebuild may carry
them). For the order, `LockInv`: one handler is past the lock, and what it has built is
not older than what the last one attached. Which build stays attached is not proved: it
is false (section 3).

### 4.3 Attachments

`AttachmentFetchProofs` proves for every set of rows and ticks, any number of
chunks and every disturbance: `FetchTypeCorrect`; `ReadyRowsHaveBytes`, from an
invariant that adds that a tick about to mark its row ready has its file on disk
unless the row is gone, and that a finished reset left no row; and
`CallsAreAnsweredOnce`, the refinement of `FileCall`, from the fact that a tick
that saves has exactly the whole file.

### 4.4 Knowledge ingestion

`KnowledgeIngestProofs` proves for every set of paths, jobs and requests, any
number of versions and batches, that when "overlap" is not among the disturbances
`ReadyIsIndexed` and `UnsettledIsOwned` hold. `IngestInv` has five parts: a worker past
the lock holds its path's lock (`WorkInv`); ids in use were given out and belong
to one path each, as the id of a row, of the worker that is to write one, or of a
deletion under way (`IdInv`); the row a worker writes to is its own and says it is
not ready (`RowInv`); a worker at its n-th batch has written exactly the n - 1
before it (`PutInv`); nothing works while the server is down (`DownInv`).
`UnsettledIsOwned` adds two parts. `TaskInv`: a job whose task gathers says that it runs,
and a worker that is still at work under a task that is over belongs to a job with an
outcome that could not be written. `MarkInv`: the job that marked an unsettled row has
such an outcome, or answers for it (`Answers`): it asked for the path, says that it runs
and, while it gathers, has its worker where it writes that row. "catalog" and "reuse" are
allowed in both theorems.

`KnowledgeTypeCorrect` allows every disturbance, "overlap" too. Its hard conjunct is
the range of document ids, a number the model bounds by the number of workers: an id
is given out once per worker at most. The proof counts: `Fresh` is the set of workers
that have not been given one yet, and `CountInv` says that the last id and the size
of `Fresh` together stay within the bound (`GivenStep` is the one action where both
move). This is what `FiniteAssumption` is for, finitely many jobs and paths.

### 4.5 Pairing

`PairingProofs` proves for every set of attempts, all disturbances and any bounds:

* `PairingTypeCorrect`.
* `CodesPairOnce` and `PairedAppsAreApproved`. Neither is inductive, since both
  speak of apps that have read their answer. `Given(a)` covers the answer on the
  gateway's socket and in the server's queue as well, and `PairInv` says that the
  request in hand is the first of the queue and its row has its code
  (`HandInv`); only attempts that have asked have a row (`AskedInv`); who was given
  an approval has the row of its code, and that code is neither the current one nor
  in hand (`GivenInv`); no two were given one for the same code (`OnceInv`). The
  code is consumed before the answer is sent, so a crash between the two writes
  can leave a row without an answer, never two answers for a code.
* `ApprovalsAreNotStranded`, with `SocketInv`: open sockets are remembered by the
  gateway, and no request belongs to a session that has not begun. An attempt
  becomes undisturbed only by forwarding its request, and has no row then.

### 4.6 Plugin channels

`PluginChannelProofs` proves for every set of sockets, all disturbances and any
number of messages: `ChannelTypeCorrect`, `EntriesAreLive`,
`PluginsAreConfiguredFirst` and `StoppedPluginsAreMeant`. `ChannelInv` adds to the
properties that an unused socket has carried nothing and has no handler, and that a
registration under way is of the socket the plugin has, or has lost without a
successor (`HandlerInv`: this is where the redial delay of `Connect` matters); that the
socket the process has is not closed at the server's end, a process told to stop goes
with it, and a server that is down leaves none (`SocketInv`); that a stop read
or under way means deactivate is still waiting to kill, or the server is being stopped
(`StopInv`); that the process the registry names was configured or has a configure in
front of every message (`ConfigureInv`).

### 4.7 Message history

`HistorySyncProofs` proves, for every set of flows and of times, page size, number of
writers, number of microseconds to a millisecond and of those to a second, and every
disturbance: `HistoryTypeCorrect`; `GhostsAreGone`, which is `NoGhosts`;
`NoMessageIsSkipped`, which is `NothingSkipped`; and `PullsAreComplete`. No hypothesis
spaces the messages: what a cursor covers too early is the exception the properties
make (`late`). The invariant has four parts.

* `LogInv`: rows have times of their own, which no worker holds any more.
* `ResetInv`: neither the mirror nor any page under way holds a message from before
  the clear the device has applied, and, between a reset's two writes, from before
  the clear that reset is for.
* `SeenInv`: the rows a pull has seen have given up their writer, so a row inserted
  during a pull is not among them.
* `HistoryInv`: for the stored cursor and for each pull, what lies behind it, of the rows
  that are `Owed` (not late). A cursor covers no more than some row's does (`Reached`),
  and a position is that of a row or the stored cursor (`PositionInv`): hence a row
  inserted now and covered is late. Everything owed behind a position is mirrored
  (`AskedInv`); everything owed is mirrored, on the page or beyond it and its cursor
  (`Beyond`, `GotInv`: this is where a page must be the oldest rows after the position,
  and where the text order matters); everything owed behind the cursor about to be stored
  is mirrored (`MirroredTo`).

A page is the first rows of a finite set and a cursor the greatest of a set, so some
lemmas are about finite sets of numbers: a greatest element exists
(`MaxOfFinite`, from well-founded induction on subsets), and what `Oldest` takes is
below what it leaves. Two more
are about times: `Division`, by a divisor that is a constant, and `CoversItself`, a
cursor covers the row it was made of.

### 4.8 Memory ingest

`MemoryIngestProofs` proves for any number of turns, any window sizes and bounds:

* `MemoryTypeCorrect`, with every disturbance, overlapping passes too. `Advance`
  writes the position of a message, so this needs that each planned turn has begun
  and has its message (`PlanInv`, `LogInv`).
* `WindowsHold`: what `Windows` computes for every list of messages, size, and
  forced or not: complete exchanges only, in order, none twice, and none left out
  before one that is taken. `Grouping` is a recursive function; that it is what its
  equations say (`GroupingSteps`) and what its k-th value holds (`GroupingHolds`)
  are inductions on k, made over the set of the k for which the statement holds
  (`Induction`, from the well-founded order on finite subsets), since the library's
  induction takes an operator.
* `LaterTurnsAreNotSkipped` and `OnlyAnInterruptionTellsTwice`, that is
  `LaterTurnsAreKept` and `TwiceOnlyIfInterrupted`, when "overlap" is not among the
  disturbances; with it both are false (section 3). The turns a first watermark is set
  past are left out of the first one, since the code does skip them (`memory_first`).

The invariant of the last two, `MemoryInv`, was run through TLC first. One pass is at
work at a time, and none while a run or another turn's reply is on its way
(`SerialInv`); a stored reply directly follows its message and a
message being answered is the last row (`AgentInv`). A pass goes by the watermark as
it is, and plans only what lies beyond it, unless a clear has deleted everything the
pass could write (`WatermarkInv`, `Wiped`): that a clear can come in the middle is why
neither property is inductive by itself. A turn told more often than passes were
interrupted is deleted, behind the watermark, or in the window just added, and none
still to be added is (`TwiceInv`); no answered turn up to a planned one is left out of
the plan (`SkipInv`); and what the watermark has passed beyond the first one is told,
while a message being answered is never passed (`ToldInv`).

### 4.9 Model-checked only

Liveness (`Converges`, `RequestIsAnswered`, `ChangesReachARebuild`,
`RegistryFollowsPlugin`, `FlowsEnd`, `EndsUpReady`, `LaterTurnsEndUpTold`,
`WorkSettles`), which needs fairness and ENABLED. Every invariant and every
action property of the passing runs is proved, under the hypotheses named above.

## 5. What is abstracted, and what is not modelled

* Except in `PluginChannel`, where it can die, the outbound worker is taken to
  be alive.
* In `ResourceSync` requests are served in the order they arrive. The code starts
  a task for each and these run to the end without an await for the resources
  modelled, so tasks created in order finish in order.
* One logical resource, one channel, one conversation at a time: those of the
  code share queues and databases but no state that matters here. Documents
  share the catalog, so `KnowledgeIngest` has several.
* The app's version store loading at its start, logout in `ResourceSync`, the
  photo pull, requests frozen at a teardown and replayed.
* JSON-RPC calls from the server to a plugin with their pending answers
  (`probe_channel`), and configuration pushed to a connected plugin.
* Backoff delays, nonces, signatures, names, texts and log output.
* Two codes with the same digits; two plugins or desktops at once.
* Retrieval, ranking, the knowledge graph, evaluation, speech, vision and image
  generation: calls to models and to third-party stores, with local state that
  nothing else touches.
* Catalogues, credentials, characters, prompts, preferences' schema: validated,
  sequential file access.
* The command lines, the HTTP API, the admin frontend, the app's widgets and its
  generated database classes: thin layers over what is modelled, or generated.

The models cover a small part of the repository's lines: most of it is in the last
four groups.

## 6. What is left

1. `RequestClient`: pending, timeout, late response and replay across
   connections for plain requests.
2. `GatewayRegistry`: roles, authentication, the registry's lock held over a
   close handshake, the desktop state file.
3. Proofs: none of the safety properties the runs check is left. What a later
   version of the code could add is a `StaleHasCause` for the mirror: as the code
   is, TLC violates it there (`rs_steady` with `ApplyMode = "mirror"`), because
   pulls overtake each other and the rows of the slower one are written last; and
   `NoGhosts` stated with the clears that overlap, if the app serializes its flows.
