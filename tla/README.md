# label-hub: a verification project

TLA+ models of [label-hub](../src/README.md), a service that receives labels
from D365 over a webhook, holds or prints them on network printers, and can be
managed by a central control plane. The models are checked with TLC on small
instances; the properties that matter most are proved with TLAPS for every value
of the constants.

`PROJECT.json` lists the components, the runs, the mutants that show that each
checked property can fail, the lines of source behind every definition, the
findings, the hazards and the theorems.

## The system

| Component | State it keeps | Operations | Correct when |
|---|---|---|---|
| **Print queue** (`state.rs`, `routes/inbound.rs`, `routes/jobs.rs`, `routes/mod.rs`, `printer.rs`) | `pending`, `history` in memory; `jobs.json` | webhook, release, reprint, dismiss, restart | a job is in one list; what was answered with 200 is on disk; history tells what was printed; no label is dropped or printed twice unnoticed; every request is answered |
| **Configuration sync** (`agent.rs`, `state.rs`, `routes/settings.rs`, `routes/printers.rs`; control: `node_api.rs`, `dash.rs`) | row of `node_config`; printers, settings, secret, URL and version in memory; `config.json`, `printers.json`, `settings.json`; reported version | edit on the dashboard, heartbeat, pull, refresh, apply, console edits, restart | the node runs one version, whole; it never goes back; `config.json` follows memory unless two are written at a time or the disk fails; without drift node and control plane agree; the node gets there in the end |
| **Enrollment** (`agent.rs`, `state.rs`; control: `node_api.rs`) | tokens and nodes in the database; credentials in memory and `node.json` | request, lookup, transaction, answer, retry | the credentials of a hub are known and its own; a token makes one node, but for requests that overlap; every hub has credentials in the end, or its token is spent |
| **Live queue** (`routes/jobs.rs`, `web/receiving-labels.html`) | broadcast channel; the page's list | connect (backlog), events, lag, reload | a page with nothing on its way shows what is queued, or a known cause hides it |
| **Printer profiles** (`routes/printers.rs`, `routes/mod.rs`) | printers in memory; `printers.json` | upsert, remove, lookup | an edit changes where its own name leads; what is listed is what labels find |
| **Inbound gate** (`routes/inbound.rs`) | none; reads secret and printers | authenticate, filter by site, parse, look up | a label is refused for a cause: neither a rotated secret nor an edit or a restart in between is one for a sender that is up to date |
| **.env editor** (`routes/settings.rs`, `web/app.js`, `config.rs`, `main.rs`) | `.env`, `.env.tmp`; the form of each page | load, edit, save, stop, start | a save changes what the operator changed; comments and other lines survive |
| **Receiving labels** (`web/receiving-labels.html`, `routes/d365.rs`, `routes/receiving_labels.rs`, `d365_client.rs`) | boxes, table and lists of the page | load an order, apply a receipt, edit counts, print | a label has its order's number, and as many are printed as were received |
| **D365 client** (`d365_client.rs`) | token, entity and date-field caches | get token, resolve, query | a cached value is valid when used; the searches settle on what the instance serves |
| **Lifecycle** (`main.rs`, `routes/settings.rs`) | `update_running`; spawned tasks; `update.sh`; the systemd unit | restart, update, shutdown, crash | one update at a time; the flag is released; the node comes back |
| **Dashboard** (control: `dash.rs`, `auth.rs`) | users' sites, tokens, events, audit | list, edit, token, test print | users see their sites |
| Preview, event feed, mDNS, deployment scripts | none of their own | calls to outside services | not modelled: I/O |

How they interact: every HTTP request is a tokio task; all tasks of a node share
one `Mutex<Store>`, held for short sections and released before anything slow (a
send to a printer, an answer) and before the save that follows a change. Files
are written whole, to a temporary file that is renamed. Consoles hear of changes
through a broadcast channel. The agent is one more task, which talks HTTP to the
control plane; the control plane's handlers share a database, and its dashboard
can make a node pull at once by calling the node's refresh route.

What is hard, and seldom tested (there are no tests of these paths): state cloned
under the lock and used after a send that takes up to 20 s; a change, its save and
its answer that are three steps; handlers that are cancelled when their client
goes away; a stop at any point; errors reported after the effect; limits that
drop data; configurations that overtake each other; answers lost after a commit;
forms and tables that are older than what they are about.
`hazards` in `PROJECT.json` has them all, each at its line.

## Modules

    JobQueue ........... the print queue of a node
      JobQueueProofs ... its theorems, both refinements included
      JobQueueLedger ... JobQueue implements JobLedger
      JobQueueChanges .. JobQueue implements QueueChanges
      MCJobQueue, MCJobQueueLedger ... instances for TLC
    JobLedger .......... what the queue promises its callers, abstractly
    QueueChanges ....... what the rest of a node sees of the queue
      Console .......... the pages that show it, composed with it
        ConsoleProofs, MCConsole
    ConfigSync ......... from the desired configuration to memory and files
      ConfigSyncProofs, MCConfigSync
    Enrollment ......... from a token to credentials
      MCEnrollment
    D365Cache .......... the caches of the D365 client
      D365CacheProofs, MCD365Cache
    Lifecycle .......... restarts and updates of the process
      MCLifecycle
      NodeLifeProofs ... the theorems of Enrollment and Lifecycle
    EnvEditor .......... the settings form, put_env and the start that reads .env
      EnvEditorProofs, MCEnvEditor
    PrinterRegistry .... the list of printers and its operators (no state)
    PrinterDirectory ... what the list promises: names that lead to addresses
    InboundGate ........ a label's way into the node; extends PrinterRegistry and
                         implements PrinterDirectory
      InboundGateProofs, MCInboundGate
    Receiving .......... labels for received goods
      ReceivingProofs, MCReceiving

An operator whose comment starts with "Mutant of" is a plausible bug of the
operator named there; no specification uses it.

### JobQueue

`pending`, `history` (newest first, as `insert(0, ..)` keeps them), `printers`
and `auto_print` are `Store`; `disk` is `jobs.json`. `handler[r]` is the task of a
request: where it is, the job it cloned or built, the printer it was told to use
and the result of its send. An action is what a task does between two points
where another task can get in:

| Actions | Code |
|---|---|
| `InboundReceive`, `InboundReject`, `InboundMode`, `InboundHold` | `inbound::handle`: first lookup of the printer; 422 branch; reading `auto_print`; holding the job |
| `ReleaseFind`, `ReprintFind` | `print_job`: finding and cloning the job |
| `Resolve`, `SendOk`, `SendErr`, `SendLateErr` | `send_to_printer`, `send_zpl`: second lookup; sent; failed; failed after the printer had it all |
| `RecordInbound`, `RecordRelease`, `RecordReprint`, `RecordFailure` | the critical section after the send |
| `Dismiss` | `dismiss_job`: its one critical section |
| `Save` | `save_jobs`: truncate both lists and write the file, or fail to |
| `Reply` | the answer: `acked` remembers those with 200 |
| `Hangup`, `Restart`, `Reconfigure` | the client goes away at a point where the handler waits (for the mutex or the socket); the process stops and `AppState::new` reads the file; printers or settings change |

A label is the id of the job that carried it first, a printer is a name as
`find_printer` tells names apart. `delivered`, `acked` and `evicted` are not in
the code: they record what went out to printers, what was answered with 200 and
what a truncation dropped. `Faults` switches crashes, hang-ups, late errors and
disk errors on; "disk" also stands for a file that cannot be parsed.

**JobLedger** is the promise without the mechanism: stages of jobs in memory and
on disk, and the set of jobs whose caller has a 200. A flush writes everything
and may drop jobs, a restart falls back to the disk, and a promise needs the job
on disk. `JobQueueLedger` reads the stages off the lists and shows that every
behaviour of `JobQueue` is one of the ledger.

**QueueChanges** is what the rest of a node sees of the queue: the set of queued
ids, and per handler the change it has made and not announced yet. `Hold`, `File`
and `Fail` change the queue, `Save` may drop jobs, `Announce` is the broadcast;
`Mishaps` switches truncations, cancelled handlers and restarts on.
`JobQueueChanges` reads both off `JobQueue` (`AnnouncementOf` is the event that a
handler will broadcast) and shows that the print queue does nothing else. So the console below needs one abstract handler
with four steps instead of the fifteen actions of the real ones.

### Console

A page (`receiving-labels.html`) learns the queue in two ways, from the event
stream and from `GET /api/jobs`, and nothing orders one against the other.

| Actions | Code |
|---|---|
| `AnnounceToPages` | `broadcast`, after the save: into the ring of every subscribed stream, whose oldest message goes when it is full |
| `SaveUnannounced`, `CancelUnannounced` | a truncation and a cancelled handler, of which no page hears |
| `RestartAndDisconnect`, `Disconnect` | streams end; the browser's EventSource connects again |
| `Open`, `Refresh`, `LoadServed`, `LoadArrives`, `LoadFails` | `DOMContentLoaded`, the Refresh button, `loadQueue` and `list_pending`; answers arrive in any order |
| `EventsBacklog`, `EventsSubscribe` | the two halves of `events`: the copy under the lock, and the subscription after it |
| `Receive` | `es.onmessage`, one branch per type (`Applied`); an error reloads the list |

`rows` is the set of ids in `queueJobs`: their order, and a job shown twice because
it was in the backlog and announced afterwards, are left out, and so are messages
about settings. `load` has a slot for every reload that a page has under way (`Fetch`):
a click, the start of the page and a `job_error` each take a free one. `Capacity` stands for the ring of the channel (256 messages). `doubt`
is not in the code: it collects, since a page's last backlog, the ids of which the
page may have a wrong idea, each for a reason that the definitions `Unheard`,
`Skipped`, `TooLate`, `Contradicted`, and the two unannounced actions name.

### ConfigSync

The row of `node_config` is the last element of `issued`, whose earlier elements
are its former values. What came with version v carries the number v; 0 is the
node's own value (`.env`, or an edit on the console) in memory, and an empty value
in a configuration. A configuration replaced by equal printers or settings is
therefore not told from a change, which only makes mixtures visible that would
otherwise be hidden. `pc[p]` is where a puller is: the agent's loop or a task of
the refresh route.

| Actions | Code |
|---|---|
| `UpdateConfig` | `dash::update_config`, one UPDATE; its push is a `RefreshNow` |
| `HeartbeatSend`, `HeartbeatServed`, `HeartbeatFails` | `heartbeat_and_sync` and the control plane's `heartbeat`; only an error of the connection and a 401 skip the pull |
| `RefreshNow`, `PullServed`, `PullFails` | `refresh_now`, `pull_config`, `get_config` |
| `Apply` | the critical section of `apply_config`: version check and `apply_config_to_store` |
| `StageCache`, `RenameCache` | `write_json` of `config.json`, with no lock held, through the one `config.tmp` |
| `SaveFile` | `save_printers`, `save_settings`: what memory has by then |
| `ConsoleEdit`, `ConsoleSave` | `printers::upsert`, `remove`, `settings::put` |
| `HangupRefresh`, `HangupEdit`, `Restart` | cancelled handlers; `AppState::new` |

An empty secret or URL in a configuration keeps the value in force
(`apply_config_to_store`): a URL that the dashboard clears stays on the node,
though versions agree and no drift is shown, and `RunsOneVersion` allows for it.

The first configuration of a node comes with the answer to its enrollment and goes
through the same `apply_config`: it is a pull of version 1 by the agent here.
`write_json` reports no error to anybody: what fails is logged, and the handler goes
on. So `StageCache`, `RenameCache`, `SaveFile` and `ConsoleSave` may fail (`DiskError`),
and a `Restart` may find a file unreadable, which then counts as none.

Three causes leave `config.json` behind memory, or make a start not have it, and each
shows when the next restart comes before the next configuration:

- Two configurations overlap. `apply_config` compares and changes memory under the
  lock and writes `config.json` after it, so that the agent's version 1 and a
  refresh's version 2 can reach the disk in the other order: memory runs 2, the file
  keeps 1. `raced` remembers that the configuration in force was applied while another
  was still being written.
- The write fails, for any reason of the disk's, or the rename finds `config.tmp`
  taken by another writer.
- The start cannot read the file.

`failed` remembers the last two. Neither ghost is in the code, and both are cleared by
the next configuration that is applied. `CacheFollows` says that there is no other
cause; in particular a handler that is cancelled does not leave the file behind,
because `write_json` awaits nothing.

Two writers that overlap on `config.tmp` leave the content of either, or one that does
not parse (`Torn`).

### Enrollment

A request has a handler of its own in the control plane, and a hub that waits for its
answer, or no longer does.

| Actions | Code |
|---|---|
| `SendEnroll` | `agent::run` and `enroll`: a hub without credentials posts its token |
| `Select`, `SelectNone` | the lookup; a query that fails counts as no token |
| `Insert`, `InsertFails` | the transaction: its three statements and the commit; begin, an INSERT or the commit fails: 500 |
| `UpdateFails` | the third statement, the UPDATE that spends the token, fails: its error is thrown away (`node_api.rs` 74-80), and Postgres answers the commit of the failed transaction with a rollback and no error: 200 |
| `CommitUnheard` | the commit is done, and the connection to the database breaks before it says so: 500 |
| `Granted`, `Refused` | the hub reads the answer; `set_creds`, whose write of `node.json` may fail; the sleep before the next try |
| `Break`, `Abandon` | the connection breaks at any point, or the answer does not parse; the handler goes on or is dropped |
| `Restart` | what `node.json` has, or nothing if it cannot be read |

`voided`, `lost` and `overlaps` are not in the code: the requests that were answered with
200 by `UpdateFails`, those whose answer did not arrive or was not kept, and the pairs
that had both looked the token up before either committed. A number of a request that
made no node is used again, so that retries are not bounded.

What the code does that its comments do not say: a hub that meets `UpdateFails` has
credentials of no node, is answered with 401 from then on and never enrolls again,
since it has credentials (`CredsAreKnown` names this failure as the only one that does
so); two requests with one token that overlap create a node each, though `proto` calls
the token one-time (`SpentOnce` confines it to these); and a hub whose answer is lost after
the commit is refused for ever (`EnrollsUnlessSpent`).

### D365Cache

A request for recent receipts goes through up to three searches, each exchange of
which starts with `get_token`. `req[r]` says which exchange it is at, which
candidate it tries, the entity and date field it has settled on, and how far
`get_token` is. No cache is locked during an exchange.

| Actions | Code |
|---|---|
| `Begin` | `get_recent_receipts`, `resolve_entity`: `.env`, cache, or the first candidate |
| `TokenHit`, `TokenMiss`, `TokenGranted` | `get_token`: the cached token, or a request for one, whose answer is counted from `now`, taken before the request |
| `Answered` with `BareProbe`, `FilteredProbe` | the two passes of `resolve_entity` |
| `Answered` with `FieldProbe`, `QueryAnswered` | `resolve_receipt_date_field`; the query |
| `Fails` | any answer that says nothing about what was asked: no connection, no token, 401, 429, 5xx; each search reacts in its own way |
| `Tick` | time |

`instance` is the world, fixed per behaviour: which entities serve receipts, how
they answer to a probe, which date fields they have, what `.env` pins. `failed`
is not in the code: it remembers whether any exchange has failed. An answer is
read and put into its cache in one step; the write of the `RwLock` after the
answer is an await that only delays. The token service is external: a lifetime
begins no earlier than the request, and a token whose answer has no `expires_in`
is taken to live for `Default` (3600 s in the code). An entity that the instance does not
have answers with an error status: `odata_raw` (169) reads a body that breaks off as an
empty one, so that a routing error sent with status 200, which `resolve_entity` (262)
looks for in the body, would be taken for an entity in that case. A probe of a field that
exists with another type counts as a failure.

### Lifecycle

A slot is a restart or an update: its spawned task (`task`), and the `update.sh` of
an update (`script`), which may outlive the process. `unit`, `again` and `proc` are
systemd and the process.

| Actions | Code |
|---|---|
| `RestartRequest`, `UpdateRequest` | `settings::restart`, `settings::update`: `update_running.swap(true)`, spawn |
| `RestartFires`, `RestartRefused`, `CommandReturns` | the spawned tasks: `sudo systemctl restart` after 2 s, `sudo update.sh`, the flag released on either arm |
| `ScriptReady`, `ScriptFails`, `ScriptStop`, `ScriptInstall`, `ScriptStart` | `update.sh`: everything up to the checked download; `systemctl stop`; `install`, which may fail; `systemctl start` |
| `Terminate`, `Exit` | SIGTERM and `shutdown_signal`; the end of `main`, by itself when the last connection closes or by systemd |
| `Stopped`, `AutoRestart`, `Crash`, `StartByHand` | systemd, `Restart=on-failure`, the host's operator |

Its `NodeInit`, `NodeNext` and so on have that prefix because `NodeLifeProofs` extends
`Enrollment` as well. systemd is external, and so is `sudo`. Where `sudo` opens no session, `update.sh` is
a process of the service (`scope = "service"`), and stopping the unit terminates
it: in this model it never gets from its `systemctl stop` to its `systemctl start`,
and the node stays down until somebody starts it. Hence no property says that
an update comes back from the moment it stops the unit: `InstalledReturns` begins
when the binary is installed. `label-hub.service` also sets `NoNewPrivileges`, with
which `sudo` refuses: `RestartRefused` and `ScriptFails`.

### EnvEditor

Pages load the form (`LoadEnv`, `LoadPrinters`: two requests, in any order), the
operator types, chooses or clears one setting and saves (`Save`); the handler merges
the body into what it reads and replaces the file. Both handlers take an `.env` that
they cannot read for an empty one (`settings.rs` 36-38, 78): for one byte that is not
UTF-8, for its permissions, or with no descriptor left. `LoadEnv` and `Save` therefore get
the file or nothing (`EnvRead`), at any time.

| Actions | Code |
|---|---|
| `Reload` | the page is opened again: an empty form |
| `LoadEnv`, `LoadPrinters` | `get_env` of what it could read, with its mask `***` (`Shown`) and the dropdown, which shows only the printers there are (`Selected`) |
| `Save` | `save` of `app.js` (`Posted`: every setting of the form), then the read of `put_env`, which may fail, and the merge into what it gave (`Merge`) |
| `OpenTmp`, `Write`, `WriteFails`, `Rename`, `RenameFails` | `put_env`: `fs::write` in its two system calls, and the rename |
| `Stop`, `Start` | the process ends; systemd starts it, and `main` binds the ports of the file or panics |

A handler's descriptor stays with the file when a rename moves it (`fd`): with two
handlers on one `.env.tmp`, one may write into what the other has already made
`.env`. `fresh`, `shared`, `unread` and `sure`, `edit` of a task are not in the code: they
say what a page knows, whether two handlers had the temporary file open at a time,
whether a save has taken a file for empty that was not, and what the operator changed.
What the model shows the code to do outside the
properties' conditions: a save whose handler cannot read `.env` leaves the form's values
only, without comments, other keys and every secret that the page kept with `***`;
a page whose load failed, or found a file that cannot be read, has blank boxes, and its save
clears every setting; a dropdown that lacks the default printer clears it on any
save; a secret box that was revealed and is empty clears the secret; of two
overlapping saves one is lost, and with a stop in between the rest of the file may
be lost too.

### PrinterRegistry, PrinterDirectory, InboundGate

A name is spelled as it is, in capitals or padded with blanks (`Spelling`): the
lookup trims and ignores case, `upsert` trims what it stores, `remove` ignores case
only, and a configuration of the control plane is stored as it comes.
`PrinterRegistry` has these operators on lists; `PrinterDirectory` is the promise: a
map from names to addresses, in which an edit changes one entry.

| Actions | Code |
|---|---|
| `UpdateConfig`, `ApplyConfig` | `dash::update_config`; `apply_config_to_store` with `config.json` |
| `UpsertPrinter`, `RemovePrinter` | `printers::upsert`, `remove` |
| `Restart` | `AppState::new`: the cache over `printers.json` and the secret of `.env` |
| `SetUpD365`, `SendLabel`, `TestPrint` | D365 with the secret that its administrator was given; `dash::test_print` with the secret of the row |
| `Authenticate`, `LookUp`, `Answer` | `inbound::handle`: secret, site, printer and body with one section of the lock; `find_printer` with another; the answer |

`ConfigSync` has the transport of a configuration; here the newest is applied at
some time, and no write or read of a file fails: `ConfigSync` has those that do. What follows the lookup is `JobQueue`. `edit` is not in the code.

### Receiving

The By PO tab fills in three steps that nothing holds together: the header when the
order arrives, the list of receipts and the lines when the receipts do or fail.
Nothing blocks the page in between.

| Actions | Code |
|---|---|
| `TypeOrder`, `LoadPo`, `OrderArrives`, `OrderFails` | `#poInput`; `loadPo` and `get_po` |
| `ReceiptsArrive`, `ReceiptsFail` | `loadPoReceipts` (which ignores an error) and, in the same task, `renderPoLines` |
| `Choose`, `ApplyReceiptQty`, `QtyArrives`, `QtyFails` | `#poReceiptSel`, `applyReceiptQty`, `get_receipt` |
| `EnterCount`, `SetAllQty` | the count boxes, "Set All", "Clear All" |
| `LoadReceipt` | `loadReceipt` of the other tab, whose order is the number on a label when the box is empty |

Printing changes nothing on the page nor in the node, and is not an action: `PoLabels`
and `ReceiptLabels` are what a click prints in a state (`printLabels`, and the
clamp of `receiving_labels::print`), and `LabelsFit` is an invariant about them, true
or false of a click at any moment. `doubt` (of the box against the table), `stale` (of
the list of receipts) and `sure` (of a count) are not in the code; they name the
causes for which labels may be wrong. A count taken from a receipt is checked where
the receipt has the item on one line: with two lines the tab counts the last one
only, and an order with two lines of an item gets the whole quantity on each.
Orders and receipts do not change while the page is open. The limit of 100 receipts
in the list is not modelled, that of 250 lines is (`TopLines`).

## Runs

Every property of a passing run has a mutant in `PROJECT.json` that breaks it
under the same configuration.

| Run | Instance | Shows |
|---|---|---|
| `queue_faults` | 2 handlers, 2 jobs, queue of 1, history of 2; crash, failing write, unreadable file | types; one list per job, in memory and on disk; history claims no print that did not happen |
| `queue_ledger` | 2 handlers, 2 jobs, lists of 1; crash, hang-up, late error | `JobQueue` implements `JobLedger`; what was answered with 200 is on disk; jobs leave the queue for a cause |
| `queue_reliable` | 2 handlers, 2 jobs, queue of 1, history of 4, 2 deliveries per label; no fault, fair | every delivery has its entry, reprints and concurrent releases of one job included; every request is answered; `JobQueue` implements `QueueChanges` |
| `console_page` | 1 page, 2 handlers, 2 jobs, a channel of 1 message, 2 reloads at a time; truncation, cancelled handler, restart | a page with nothing on its way is wrong about a job only for one of the named causes, each of which a new stream repairs |
| `config_overlap` | agent and 1 refresh, 2 versions, 1 restart, 1 console edit, 1 error of the disk, fair | one version at a time, only forward; `config.json` follows memory unless two were written at a time or the disk failed; the node gets the desired version and drift ends |
| `enroll_faults` | 2 hubs with one token, 3 requests, 1 break, 1 restart, failing statements and files, fair | credentials are known and a hub's own but for one failure; a token is spent once but for overlapping requests; a hub has credentials in the end unless its token was spent |
| `d365_caches` | 2 requests, 3 candidates, 2 date fields, 4 instances, 5 ticks | a cached token is good when taken; the searches find the first entity and field unless an exchange failed, and settle on a served one even then |
| `lifecycle_restart` | 3 slots, both scopes, fair | one restart or update at a time; the flag is released; a restart and an installed update come back |
| `env_edits` | 2 pages, 2 saves, one secret, printer and port, which is taken; failing reads and writes, stops | the lines outside the form stay unless two handlers had the temporary file or one could not read `.env`; a save that no other overlaps and that can read `.env` changes the one setting that was edited |
| `inbound_gate` | 2 names in 3 spellings, 2 addresses, 2 secrets, 2 versions, 1 restart | a label is refused for a cause; what the console lists is what labels find; the list implements a directory |
| `receiving_labels` | 2 orders, 3 receipts, 2 loads and 1 fetch at a time, 2 lines per answer, at most 2 labels | labels have their order's number, a count of their order's receipt, and as many as it says |

One run finds a violation, of a property that a comment of the repository states
(`findings` in `PROJECT.json`): `queue_dismiss_race`, in which a job dismissed while its
release is being sent is printed, and history has it twice.

Bounds. Two handlers are enough for the races of this code: each is between one
task's clone and another's change of the same job, or between two writers. Two
jobs and a queue of one make every truncation happen; two deliveries per label
let a reprint and a double release happen (`queue_reliable`; with faults a
second delivery makes the state space too large, and one is enough for a label
that was printed and not recorded, or recorded and not printed). `queue_faults`
leaves out hang-ups, which stop one handler where a crash stops all of them, and
late errors; `queue_ledger` has both. Handlers are symmetric in the runs without liveness. One page is enough, since pages do not affect each other. With a
channel of one message a page lags as soon as two announcements are under way, and
two reloads can overtake each other. One
printer name is enough because it can be configured or not at every step. Two
versions make one answer overtake another; one error of the disk, at any write or read,
is enough since each alone shows in the property. `MaxJobs`, `MaxCopies`, `Fetch`, `MaxVersion`, `MaxRestarts`,
`MaxEdits`, `MaxErrors`, `MaxRequests`, `MaxBreaks`, `MaxSaves` and `MaxTime` are the bounds on counters. The four
instances of `d365_caches` serve receipts under a later candidate that needs the
second pass, under the last without a date field, not at all, and with both names
pinned; five ticks are room for a token (3 or 2, margin 1) to be renewed while an
older request for one is under way. Three slots let a script that outlived a crash
meet a restart and another update. Two saves are enough for one to overlap another
or to follow one that failed, and one value of each kind is told from an empty and
from a masked one; `Entered` and `Named` of `inbound_gate` give every spelling to some
name and the other address to one. The secrets there are symmetric. In
`receiving_labels` one order has an item twice and more lines than are asked for, one
receipt an item twice and one more of an item than is printed; one fetch is enough
because a later one replaces what an earlier one filled in. Reads of `.env` fail without a
bound. Deadlock is checked except in Enrollment, where a hub that has credentials sends no more requests.

Fairness. `queue_reliable` assumes weak fairness of each handler's next step and
nothing of the clients: tokio runs ready tasks, the mutex is fair, and both
halves of a send have a timeout (5 s and 15 s), so a printer that accepts nothing
is no excuse. `config_overlap` assumes weak fairness of the agent's local steps
and strong fairness of its two exchanges (the control plane answers again and
again, not always); nothing is assumed of refreshes or of the console. The HTTP
client has no timeout, so a connection that stays open and silent would stop the
agent: that is outside this model. `enroll_faults` assumes weak fairness of the
hub's own steps and of a handler's next step or end, and strong fairness of some lookup
and of some transaction that succeed: the database fails at times, not always.
Connections break a bounded number of times. What the code then reaches is
`EnrollsUnlessSpent`: from some time on a hub has credentials, or its token was spent by
another hub or on an answer that it did not get or keep. `lifecycle_restart` assumes weak
fairness of systemd, of the spawned tasks and of the script's commands (each ends,
well or not), and nothing of requests, crashes or the operator. `env_edits` has no
liveness and assumes nothing.

## Proofs

Every invariant and every action property of the passing runs, and each of the three
refinements, is proved for all values of the constants, but for the
hypotheses named here. Types are proved for every component (`TypeCorrect`,
`ConsoleTypeCorrect`, `GateTypeCorrect`, `NodeTypeCorrect`).

**The queue** (`JobQueueProofs`), for every number of handlers, printers, jobs and
limits:

- `TypeCorrect`: the invariant adds that a handler's job fits the step it
  is at (what is about to be filed in history is not "queued").
- `NeverInTwoLists`: a job is in one list, in memory and on disk, with every
  fault. The property is not inductive: the invariant `ListInv` adds that ids in
  memory and in the handlers were drawn already, that a fresh id is in no list,
  that a new job is in no list until its handler files it, and that no two
  handlers hold the same new job. `RecordRelease` needs no more, since it removes
  the id from the queue as it adds it to history.
- `AcknowledgedIsDurable`: unless writes fail, what was answered with 200 is on
  disk or was dropped by a truncation. `DurableInv` adds that jobs in the file are
  in memory or evicted as well, that a closed job stays closed in memory, and
  that between its save and its answer a handler's job is on disk.
- `LeavesForCause`: `StepsOfQueue` says what any step does to the lists (nothing, one
  job enters, one job is filed, or it is a save, an answer or a restart), and
  `EvictedInv` adds that no handler is about to file an id that was dropped before. The
  hypothesis that jobs.json can be read is needed: `AppState::new` starts with
  empty lists when it cannot.
- `QueueImplementsLedger`, `ClosedStaysClosed`: with the same hypothesis, since a failing
  write is only logged, `JobQueue` implements `JobLedger`. A release may file a
  job that is no longer in the queue, because another handler has filed or
  truncated it meanwhile, so `LedgerInv` adds that such a job is known
  (`ReleasedKnown`): the ledger may then not take it for a new one.
- `HistoryIsTruthful`, `PrintsAreRecorded`: for a finite number of handlers, since
  these count. Every step of a handler leaves deliveries, printed entries
  and handlers about to file one alone, moves one delivery to a handler, or moves it
  from the handler to an entry (`PrintSteps`); `StepBalances` counts that. For the first,
  `TruthInv` adds the same of jobs.json, which a restart brings back. The second supposes that there is no crash, no hang-up and no late error:
  each loses a delivery in the code, and `queue_faults` has the first.
- `QueueImplementsChanges`: `JobQueue` implements
  `QueueChanges`, with every fault. Every action of a handler is a change of the
  queue that its announcement tells, a save, an announcement, or a stutter. That a
  job is held once, and that filing a new job does not take another from the
  queue, comes from `ListInv`.

**The pages** (`ConsoleProofs`), for every number of pages, handlers, jobs and reloads and
every capacity of the channel: `PageIsWrongForCause`. `WrongForCause` speaks of pages
with nothing on its way and is far from inductive. `InDoubtIfWrong` says of every page
with a stream, and of every job, that the job is in doubt, or that a handler has
still to announce a change of it, or that the page will end up right about it
(`Right`): of the messages in its stream, in their order, the last that mentions the
job says what is true of it, or, if none does, the rows have it right; and the same
with the list of every answer under way in place of the rows. `GoneIsGone` adds that
a job about to be announced as gone is not queued, and `StreamsOK` that a backlog comes
first and that the channel holds what its capacity allows. The lemmas `Ends...` say
what an append, a skip and a receipt do to that.

**The gate** (`InboundGateProofs`), for lists of any length:

- `ListedPrintersAreFound`: with clean names from the control plane, the list always
  has one printer per name and none that is padded (`ListInv`).
- `LabelsAreRefusedForCause`: of one version there is one secret, in the row, at D365,
  in the node and on a label under way (`RowInv`), and the node runs with the
  secret of its configuration if that has one (`InForce`).
- `PrintersAreADirectory`: `upsert` changes where its own name leads (`UpsertBinds`), and
  so does `remove` (`RemovalFrees`), which drops every match and keeps the order of
  the others (`RemovedKeeps`). The first match decides where a name leads, so that
  the order matters.

**Configurations** (`ConfigSyncProofs`), for every number of refresh tasks, versions and
restarts:

- `OneVersionAtATime`, `NeverBackwards`: from the invariant that the cache, its
  temporary file and every answer hold a configuration as it was issued under
  its number, and that a puller about to apply has one.
- `CacheFollowsMemory`: `CacheInv` adds that, unless `raced` or `failed`, at most one
  puller is about to write, that it holds the version in force, and that what is in
  `config.tmp` while it renames is that version. No write is supposed to succeed: a
  failing one sets `failed`, which the next configuration clears.

**Enrollment and restarts** (`NodeLifeProofs`):

- `CredentialsAreKnown`, for all hubs and tokens, from the invariant that an awaited
  request is the hub's own and not over, and that a granted one has its node or is
  `voided`.
- `TokenSpentOnce`, for any number of requests: `SpentInv` adds that a token of a node is
  marked as used, and that `overlaps` has every pair of requests with one token that
  have found it unused and are not over, or have made a node (`Live`). A number that is
  used again takes its pairs with it (`Closed`), and none of them was of two nodes.
- `AdmitsOne`, for any number of slots. The flag alone does not carry it, since a crash
  clears it; the invariant adds that the flag is set while anything is under way, and
  that a script has its task, which is where `scope = "service"` comes in.

**The D365 client** (`D365CacheProofs`), for any number of requests, candidates, fields
and lifetimes:

- `CachedTokensLive`: the end of the cached token as the node counts it is never
  after its real end. The invariant carries that over an exchange by the time at
  which it began.
- `SettlesOnServed`, `FiltersFit`: from the invariant that the cached date field of
  an entity is one that the entity has, and so is the one a request has taken
  with it, wherever another request has changed the caches since.
- `SearchesFindFirst`: `SearchInv` adds that, while nothing has failed, what a search has
  passed over is nothing it should have found, and that a search for a field is
  for the entity that the searches for one find (`Proper`).

**The editor of .env** (`EnvEditorProofs`), for all pages, values and numbers of saves:
`KeepsTheRest` and
`ChangesTheSetting`, from the invariant that, unless `shared` or `unread`, one handler at most has
the temporary file open and what it merged keeps the lines outside the form
(`RestInv`), that the boxes of a page that is `fresh` show the file (`FreshInv`), and
that a task that is `sure` is alone and has the file with its own setting changed
(`SureInv`).

**Labels** (`ReceivingProofs`), for all orders, receipts, loads and fetches:
`LabelsAlwaysFit`. The
invariant adds that with nothing in doubt a load under way is the only one and of
what is in the box (`BoxInv`), that a list that is not stale is the table's
(`ListInv`), and what each fetch and each row owe to their receipt (`FetchInv`,
`RowInv`). That the last of some lines exists, which `ByItem` takes for granted, is
`LastOfSome`.

Only model-checked: liveness, which is out of the prover's reach (`RequestsAnswered`,
`Converges`, `EnrollsUnlessSpent`, `FlagReleased`, `RestartReturns`, `InstalledReturns`),
and the violation that `queue_dismiss_race` finds.

## Not modelled

What a label or a printer contains, HTTP and TLS, who may call which route, the
timing of heartbeats, the wording of answers, the files that two overlapping
`update.sh` share; a second process on the same files; a loss of power, after which
a file that was renamed may be empty because nothing calls fsync. Requests that are
answered with 4xx before they touch the queue are not handlers of `JobQueue`. A job
id is never drawn twice (UUID v4).

Of the components: preview and the D365 passthrough, vendor, product and inspect
routes are calls to an outside service without state; the print event feed is a table
that nothing reads back; user accounts, site roles and token creation of the
dashboard are plain rows of a database; mDNS and the scripts that build images touch
no state of the system. A query of D365 by number is `Receiving`, by date `D365Cache`.

## Plan

1. The descriptions of a receiving table (`enrichDescs`, in batches) against a table
   that has been replaced.
2. The dashboard's two editors of one configuration: the later save wins whole.
3. Proofs about the abstract specifications themselves: what `QueueChanges`,
   `JobLedger` and `PrinterDirectory` promise follows from them alone.
