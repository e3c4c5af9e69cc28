# LabKeeper in TLA+

LabKeeper is a homelab control plane: a **Portal** (a React SPA with OIDC), a
**Server** (a Go HTTP API over one SQL database, and a mutual-TLS WebSocket hub)
and **Agents** (Go processes on the managed machines, which dial the Server).
This directory models the parts of it that run concurrently, fail half-way or
look at state that others change, checks them with TLC on small instances and
proves the most important results with TLAPS for instances of every size.

All paths below are those of the repository; `PROJECT.json` maps every
definition to the lines it stands for.

## 1. The system

| Component | State | Operations | What makes it hard |
|---|---|---|---|
| Agent hub (`internal/inventory/hub.go`) | `Hub.agents`: fingerprint -> connection; per connection a table of shells | accept, register, read loop, disconnect, `OpenShell` | one goroutine per socket, replaced sockets that end late |
| Inventory (`internal/inventory/hosts.service.go`, `repositories`) | table `hosts` | upsert, heartbeat, offline, Portal create / update / delete, restart sweep | read whole row, change, write **all** columns, no transaction |
| Probe loop (`probe.go`, `probe_address.go`) | none of its own | list targets, probe, apply | writes results seconds after the list was read |
| Agent (`cmd/agent/main.go`) | one link, retry count | dial, hello, heartbeat, reconnect | restarts and reconnects on its own |
| Agent shells (`cmd/agent/shell.go`) | PTYs by session id | open, data, resize, close, `closeAll` | three goroutines per PTY |
| Console (`internal/terminal`) | tickets in memory; sockets | resolve path, mint, consume, bridge | tickets race, expire, die with the process; Host changes between mint and use |
| Sites, catalogue (`internal/site`, migrations) | tables `sites`, `hosts`, `credentials` | CRUD | checks and writes are separate statements; foreign keys depend on the connection |
| Credential vault (`internal/credentials`) | table `credentials` | create, update, delete, use by SSH | values that must fit each other, partial updates |
| PKI (`internal/pki`) | six files in a temporary directory | ensure, load | two processes share them, kills between two writes |
| Discovery (`internal/discovery`) | none after the answer | scan a CIDR | worker pool, bounded channel, deadline |
| Portal session (`web/src/lib/oidc.ts`, `api.ts`) | `sessionStorage`, in-flight promises | login, callback, refresh, 401 retry, logout | tasks interleave at every `await`; navigation is asynchronous |
| Console tab (`HostTerminal.tsx`) | one effect run, one socket, mode, status | ask for a ticket, connect, switch path, reconnect | the effect is disposed at any `await`; events of old sockets |
| Credentials page (`CredentialsPage`, `CredentialList`, `CredentialForm`) | list, form | list, generate, type, save, delete | fields stay open during requests; blank, cleared and typed differ |
| Host page (`HostDetail`, `HostForm`) | row, form, loading, error | load, poll, test, edit, delete | one instance for every Host; answers in any order |
| Tree (`SidebarTree`, `lib/inventoryTree.ts`) | Sites, Hosts of the expanded ones | load, poll, expand, reveal | loads overlap and read each Site at its own time |
| Site page (`SiteDetail`, `SiteForm`, `HostForm`) | Site, mode | load, edit, add, discover, delete | reloads under what is open; one instance for every Site and `/sites/new` |
| Discover panel (`DiscoveryPanel.tsx`) | networks, candidates, adds | scan, add | adds answered under the next scan's list |
| Other views (`LabKeeperDetail`, theme, buttons) | none that matters | - | rendering |
| Token validation (`internal/portalauth`), `crypto`, `health`, wiring | key cache / none | validate, seal, ping | pure or external |

How they meet. The Portal calls the API (JWT); the API and the hub's handlers
write the same rows; the hub answers `OpenShell` for the Console, which
`internal/terminal` calls with the ticket's path; the Agent's one WebSocket carries
heartbeats and all shells; the probe loop and `MarkAgentOffline` share the column
`online`; the Server and the Agent share the PKI directory when they run on one
machine; Hosts refer to Sites and credentials through foreign keys. Within the Portal
every view that changes something calls `bumpRefresh`, on which the tree, the Host
page and the Site page load again.

What makes each correct, in a sentence: presence follows the socket and never
contradicts itself; the hub serves the newest socket; a Console ends on both
sides whatever fails; a ticket opens one session; references resolve; a stored key
and its passphrase fit; Server and Agent accept each other; a scan is complete or
honestly partial; a tab refreshes once, logs in with the state it sent, and is
logged out when the user says so; a page shows the Host or Site of its URL and nothing
older than the tab's own last change, keeps what is open under a reload, and the
Console on screen is the only one there is.

## 2. Modules

| Module | Models | Checked by | Proofs |
|---|---|---|---|
| `AgentPresence` | hub, inventory writers, probe loop, restart | `MCAgentPresence` | `AgentPresenceProofs` |
| `AgentShells` | `OpenShell`, shells of a connection, browser bridge, Agent PTYs | `MCAgentShells` | `AgentShellsProofs` |
| `OneTimeTickets` | the promise of a ticket (abstract) | refined by `TerminalTickets` | - |
| `TerminalTickets` | `ticketStore` and its handlers | through `HostConsole` | `HostConsoleProofs` |
| `HostConsole` (extends `TerminalTickets`) | the Console tab against the ticket table | `MCHostConsole` | `HostConsoleProofs` |
| `OidcSession` | one tab's session | `MCOidcSession` | `OidcSessionProofs` |
| `CredentialVault` | one credential in the Server | through `CredentialForm` | `CatalogProofs` |
| `CredentialForm` (extends `CredentialVault`) | the Credentials page against the vault | `MCCredentialForm` | `CatalogProofs` |
| `PkiAssets` | the shared PKI directory | `MCPkiAssets` | `PkiAssetsProofs` |
| `Catalog` | Sites, Hosts, credentials and their references | `MCCatalog` | `CatalogProofs` |
| `ScanPool` | one Discovery scan in the Server | through `DiscoveryPanel` | `SitePageProofs` |
| `DiscoveryPanel` (extends `ScanPool`) | the Discover panel over a sequence of scans | `MCDiscoveryPanel` | `SitePageProofs` |
| `HostPage` | the Host page and its edit form | itself | `HostPageProofs` |
| `SidebarTree` | the tree | through `SitePage` | `SitePageProofs` |
| `SitePage` (extends `SidebarTree`) | the Site page, its forms and its panel, beside the tree | itself | `SitePageProofs` |

The `MC` modules hold only symmetry sets, definitions of constants and ranges.
Definitions commented "Mutant of" are variants with a plausible bug; no
specification uses them. They show that the property they are paired with in
`PROJECT.json` really depends on the code.

### AgentPresence

`rows` is the table; `hub` is `Hub.agents`; a record of `conns` is a socket with its
handler (`phase` is where the goroutine stands, `held` the row it has read and will
write back). `portal`, `sweep` and `targets` are the same for a Portal request, for
`MarkAllAgentsOffline` and for the probe loop. Every database call is one step, so
between a read and its write anything else may happen. The exit path runs the
deferred calls in the order of the code: `MarkAgentOffline`, then `shutdown` and
`unregisterAgent`. The last write of a missing row changes nothing, as
`Select("*").Updates` does. A row keeps: its owner, `agent_online`, `online`, whether
there is an operator address and whether the reported IPs hold one that can be
probed. `Crash` ends the process: handlers, Portal requests and the hub's map go,
the table stays. The Server starts again through `BootClear`, `BootList`,
`BootSweep` and `BootServe`.
The modules of the API are registered before the Hub's start hook
(`server/main.go`, `inventory/module.go`), so `ApiUp` lets a Portal request in from the
start of the process on. `straddled` remembers that an edit had a row with `agent_online`
in hand when `BootClear` ran; no action reads it.

### AgentShells

One Agent, several links in time, several Consoles. `down` and `up` are the two FIFO
directions of a WebSocket. `RegisterLock` .. `RegisterEnd` is the critical section of
`registerAgent` under `h.mu`, inside which the older link is shut down shell by shell
(`Drain` and `ShutdownOne`, both of which take that link's `conn.mu`). `link.busy` is the read loop of a link standing in
`pipe.Write` until the Console reads or closes the pipe. `Lookup`, `Insert`, `WriteOpen`
and `Opened / Refused / GiveUp` are `OpenShell`; the verdict is the first value put into
the channel of one place. `AgentOpen`, `PtyOutput`, `PtyExit` and `CloseShell` are the
Agent's reader and the two goroutines of a PTY. Input and resize are one message.

No write of the Server has a deadline, so any may block. `link.full` says that writes to
the Agent block; `Block` sets and clears it at any time, and `Cut` clears it, as a write
on a broken link fails. While it is set, whoever writes holds `conn.mu`, and every use of
the connection's table waits for it (`ConnFree`): `Insert`, `WriteOpen`, input, the read
loop's lookups, a teardown and the shutdown of the link. A teardown is one step, at the
moment its write gets through. `deaf` are the Consoles whose bridge stands in a write to
the browser: `ReadOutput` may put one there, `BrowserReads` or `Leave` ends it. The writes
of the Agent wait for nothing but the Server's read loop, and queue up in `up`.

### TerminalTickets, OneTimeTickets and HostConsole

`Mint` and `Consume` are the whole of `mint` and `consume`, the purge included. Both read
the clock twice; the second reading may be later, and each takes it from `Later`.
A ticket in the model remembers what became of it: `unminted`, `stored` or `gone`.
`Restart` empties the table and drops the sockets. `HostChanges` changes what the
Console sees of a Host at any time. `TerminalTickets!Refinement` maps the table to
`OneTimeTickets`: `stored` is open, `gone` is closed, and the holders are the sockets
that have the ticket.

`HostConsole` puts the component of the Portal on top. Run k of its effect sends
request k and opens socket k; `runs[k].pc` is where `connect()` stands. `Effect` is the
effect of the component with the `Cleanup` of its last run; `console.run` is the run
that is not disposed, `console.ws` is `wsRef`. `Polled` brings a changed Host, which
runs the effect again only if `anyAvailable` changes. A disposed run notices when its
next answer comes (`Opens`, `ConnectFails`, `OnOpen`, `OnClose`). `SessionExpires` is the
`SessionExpiredError` that `connect()` swallows: the status stays "connecting" while the
browser is sent to the login, and `ShownIsTrue` says so. `Stranger` presents a
ticket it has seen from another client.

### OidcSession

An action is the code between two `await`s that really wait. `refreshInFlight` is
`inFlight`; a call that awaits it has `on` set to the call whose exchange it is.
Assigning `window.location` sets `target` and the page keeps running until `Unload`.
`Logout` clears the session and waits for `discover()`, `LogoutGoes` is the redirect; other
tasks may run between the two.
`startLogin` waits for the digest of `crypto.subtle` where the browser has it (in a
secure context), which is why `GoLogin` may come after other tasks. The IdP gives each
refresh token once; a used one is `spent`, one whose answer was lost is `lost`.

### CredentialVault

`row` is the stored credential and `edit` the rows on their way to it. `Edited` is the
body of `Update` between the read and the write: secret, passphrase and become method
in the order of the code. `SSHAuth` records in `dialled` what a Console would get.
`LockOf` says which passphrase opens a key.

### CredentialForm

`page` is what `CredentialsPage` and its list have, `form` the fields with `busy` for the
request that disables the buttons, `call` the save under way with the fields it was built
from. `FormRequest` is `handleSubmit`: a blank field is absent, a cleared one empty, a typed
one sent. `Open`, the field actions, `Generate`, `Submit` and `Cancel` are the operator;
`GenerateAnswered` tells the effect of a form that was opened to generate from the
button. The Server's half is `CreateRow`, `UpdateReadFor` and `UpdateWrite` of the vault;
`Others` writes the same row from elsewhere; `call.seen` is a history of the rows
stored since the save was sent.

### PkiAssets

A generation is what one run of `EnsureAssets` makes. Each of the six files is truncated
and then written (`Truncate`, `Encode`); `assetsValid` parses the three certificates,
wants none of them near its end, and looks at the keys only with `stat`; whether the CA
signed the leaves it does not ask. `Age` lets
the certificates of a generation near their end. `Together` allows a start while the
other process is starting.

### Catalog

`req` is a request that has made its checks and will make its one write. `FkOn` is the
setting of the connection a statement happens to run on: `NewDB` runs the pragma once, on
one connection of a pool that has no limit. Two histories say when a reference may be lost:
`crossed` has the Sites that were being deleted while a Host was written into them, and the
Credentials deleted while a request had a Host in hand that links to them; `kept` has the
Credentials whose deletion no foreign key saw. The ids of rows are used
once (`used`), as UUIDs are, so a run stops when they are used up; that is why
`CatalogReferences` does not look for deadlock.

### ScanPool and DiscoveryPanel

An address is a number of `Width` bits. `PoolStarts` is a request: what
`validateScanCIDR` refuses is answered at once (`ScanStarted`), the rest is masked and its
addresses are fed to the pool (`SendJob`, or `Cut` when the deadline wins the `select`).
`Return` waits for the workers, and sorts the candidates by the text of their address
(`Sorted` puts each at its `Place`, the number of those that do not come after it), unless
the scan was cut. `Networks` says what answers where. A probe that the deadline overtakes
answers nothing.

`DiscoveryPanel` runs one scan after the other on the same pool. `Scan` is `handleScan` up
to the Server's read of the known addresses; `ScanAnswered` sets the list, and is where an
answer without candidates makes the next render throw. `adds` are the requests of
`handleAdd`, which survive the list they were clicked in; `rows` counts the Hosts that have an
address.

### HostPage

`db` is the row of each Host, of which only a count of writes is kept (`version`), so
that older and newer can be told apart. `page` is the state of `HostDetail`; `loads` are the
`load()` calls of the effect that are not cancelled, `calls` the requests that nothing
cancels: `handleRefresh`, `handleDelete` and the form's `handleSubmit`. `here` and `form` say
whether the page and the form that made the call are still mounted. `Rerun` is the effect on
`[hostId, refreshKey]` with its cleanup, `Bump` is `bumpRefresh`, `Render` what a commit does
to a form that is rendered no more. `told` is the version of the last change whose answer
the tab has had.

### SidebarTree and SitePage

`tree` is the state of the component; `listLoad` the load of the Sites, `hostLoads` the
calls of `loadHosts`, each of which hears from its Sites one at a time (`ServeHosts`) and
shows them all together (`ShowHosts`) or none (`HostsFail`). `Revealed` expands the Site
of the Host in the URL. `SitePage` adds the route, the page with its mode, what its effect
loads, and the requests of its forms, its panel and its Delete button; each answer bumps the
tree (`TreeBumped`) and the page (`Effect`). `SiteChanged` is the comparison with
`loadedSiteIdRef` that decides whether a load closes what is open; the answer to a form
closes it too, and a late one whatever is open by then (`SiteSaved`, `HostAdded`). `fields` is the Site
an open `SiteForm` took its initial fields from.

A step of `HostPage` and `SitePage` is the continuation of a promise with the commit and the
effects it causes: React applies what one callback sets together.

## 3. Runs

Every run ends within five minutes with two workers.

| Run | Module | Instance | Shows |
|---|---|---|---|
| `PresenceSafety` | `MCAgentPresence` | 1 Agent, 2 sockets, 2 rows, 1 Portal request, 1 crash | table and hub stay consistent, across a restart too; only an edit that straddles the start of the Hub tears `agent_online` and `online` apart |
| `PresenceLiveness` | `MCAgentPresence` | 2 sockets, 1 row, 1 Portal request, 1 failing call | presence comes back, dropped links are released |
| `PresenceDeleted` | `MCAgentPresence` | 1 socket, 2 rows, 1 Portal request, 1 failing call | an Agent whose Host is deleted under it is enrolled again and shown connected |
| `Shells` | `MCAgentShells` | 2 links, 1 Console, 2 outputs, 1 input | no orphan PTY and no leaked entry (`NothingLeftBehind`), no Console on a dead link; an open is answered unless the writes of its link block for ever; `h.mu` comes back; the read loop is freed and Consoles end, unless a browser never reads and never leaves |
| `Tickets` | `MCHostConsole` | 2 runs of the effect, 2 tickets, TTL 1, clock to 2, 1 restart, 1 change of the row | one live socket, the one on screen; lifetime kept; the table implements `OneTimeTickets` |
| `Session` | `MCOidcSession` | 2 calls, 3 refresh tokens, 3 logins, page mounted twice | one refresh, one code, every call ends |
| `Vault` | `MCCredentialForm` | 2 clients, 2 keys (one with a passphrase, one generated), 1 phrase, 4 changes of fields, 2 forms, 1 request of another client | values of a row fit, the key shown is the key stored, a blank field is written as some row of the time of the save had it |
| `Pki` | `MCPkiAssets` | 4 generations, 2 killed starts | what a start without kills checked or wrote can be loaded; processes on what the directory holds accept each other, kills or not; no start comes up on an old certificate |
| `CatalogReferences` | `MCCatalog` | 2 Sites, 1 credential, 2 Hosts, 1 Agent, 2 requests | whether or not a connection enforces foreign keys, a Host outlives its Site only in a race or in the Default Site, its link the credential only in a race or without SET NULL |
| `Scan` | `MCDiscoveryPanel` | 4-bit addresses, 2 workers, channel of 2, 2 scans, 2 adds | a full answer is complete and a cut one true, the list offers no address that its scan or an add answered since then knew, every scan returns |
| `HostPage` | `HostPage` | 2 Hosts, 1 write each, 1 poll and 2 requests in flight | the Host of the URL, never older than the last save, no endless loading |
| `SitePage` | `SitePage` | 2 Sites, 1 write each, 2 loads of Hosts, 1 failure, 1 request, 3 clicks | the Site of the URL, what is open stays, own changes stay in the tree, the tree settles |

`ScanPrefixes.cfg` (`MCDiscoveryPanel`) is one scan of every prefix of four addresses, the
smallest and the largest among them, over three networks; `ShellsSafety.cfg`
(`MCAgentShells`) is the safety properties of `Shells` with two Consoles and one output
message. Both hold and are kept beside the regular runs. The inductive invariants
`TableInvariant`, `PresenceInvariant`, `ShellInvariant`, `ReferenceInvariant`,
`TicketInvariant`, `ConsoleInvariant`, `FormInvariant`, `LoginInvariant`,
`AssetsInvariant`, `PageInvariant`, `SiteInvariant`, `PoolInvariant` and `PanelInvariant`
and the type invariants are not properties of runs: their conjuncts that matter are, and
the proofs establish the whole.

Why the bounds are enough. The races are between two parties: the replaced and the
new socket, the request that read and the one that writes, the call that refreshes and
the one that joins, the answer for the last page and that for the next, the disposed run of an
effect and the new one. One write per row is enough to tell before from after, and one
failure to break a chain of loads; three clicks open a page, open something in it and go
on. Four changes of fields in two forms are enough to store a key with its
passphrase and then to edit it. Two row ids let a Host be deleted and
enrolled again. A clock of 2 with a lifetime of 1 reaches every
order of mint, purge and expiry. Four bits of address have room for a network that is
refused, the largest that is not, one with usable addresses, a /31 and a /32. Four
generations allow two replacements after a first start by each side. The bounds are the constants named
`Max...`, in the guards of the actions they bound; the proofs do without values for them. Symmetry is used for interchangeable
ids in runs without liveness properties only.

Deadlock is checked except where the system really stops or its bounds do: all Console
sessions finished (`Shells`), runs and tickets used (`Tickets`), forms and requests used
(`Vault`), panel closed or crashed (`Scan`), clicks used (`SitePage`), and the ids used up
(`CatalogReferences`).

### Fairness

- `AgentPresence`: weak fairness of the boot steps, of each handler, of an Agent's
  heartbeat ticker and of the second half of a Portal update: goroutines that can run
  do run, and a dead peer is noticed at last through TCP keepalive, which Go's listener
  switches on. No link need drop, no operator need act, no process need crash; the
  probe loop needs no fairness.
- `AgentShells`: weak fairness of the Server's goroutines alone: each link's handler, the
  steps of `OpenShell`, whose timer makes `GiveUp` possible, and the bridge. Nothing is
  asked of the Agent, the network or a browser: no link need be cut or take messages
  again, no browser need read or leave. Where a property needs it, it says so itself:
  `WritesEnd(l)`, writes to that link do not block for ever, and `BrowsersRead`, no bridge
  stands for ever in a write to its browser.
- `OidcSession`: a request ends with an answer or an error and the event loop runs
  what is ready. Nothing says that a navigation ends.
- `PkiAssets`: a start that has begun goes on (weak), and a process that is down and
  may start again and again is started (strong: an operator or a supervisor restarts
  it, but never is there one moment at which starting stays possible, as the other
  process may be starting).
- `DiscoveryPanel`: the handler and the workers of the pool run. The deadline need never be
  met, and nothing is asked of the operator.
- `HostPage`: a load with the spinner gets an answer or an error at last. Polls, saves and
  the operator have no fairness.
- `SitePage`: the tree's timer runs, requests for each Site are answered again and again,
  and loads whose Sites have answered are shown. Writes and failures are bounded, so that
  "when nobody changes anything any more" comes about.

### Where the code and its documents part

Each line is a property that says what a document, a comment, a message or a name in the
repository promises and that TLC refutes. They are kept as configurations beside the
runs, to be run by hand (`tlc -config <name>.cfg <module>`); they become regular runs
when the code changes to keep the promise. A `*Promises` configuration names
several: TLC stops at the first it refutes, so keep one line to see the trace of one.

| Configuration, property | Module | Promise | What the code does |
|---|---|---|---|
| `PresencePromises`, `PresenceTracksSocket` | `MCAgentPresence` | `agent_online` tracks presence (README) | the exit of a replaced socket clears the flag of the new one until its next heartbeat |
| `PresencePromises`, `NoPresenceWithoutSocket` | `MCAgentPresence` | on disconnect it clears (README) | an edit that read the row earlier writes it back |
| `PresencePromises`, `OnlineHasObserver` | `MCAgentPresence` | the probe loop owns `online` (README, comment) | a Host without an address is probed no more and stays online |
| `PresencePromises`, `AgentOnlineImpliesOnline` | `MCAgentPresence` | a Host whose Agent is connected is online (README) | an edit read before `ClearAllAgentOnline` puts `agent_online` back, and the sweep clears `online` under it |
| `CatalogPromises`, `AgentKeepsLabel` | `MCCatalog` | the Agent only fills `hostname` | its full-row write undoes an edit of the name |
| `SessionPromises`, `CallbackFindsItsLogin` | `MCOidcSession` | "start OIDC login again" | a second expired call removes the pending login of the first one's redirect |
| `SessionPromises`, `LogoutEndsSession` | `MCOidcSession` | logout returns to `/login` | a refresh that was in flight stores the session again |
| `ShellsPromises`, `OpenTimesOut` | `MCAgentShells` | "agent shell open timed out" (`hub.go`) | the write of `shell_open` stands before the timer and has no deadline, nor has the wait for `conn.mu` |
| `ShellsPromises`, `ReadLoopNeverHeld` | `MCAgentShells` | heartbeats tell that the Agent is there (README), and come behind a Console's output | a browser that neither reads nor leaves holds the read loop, and with it the heartbeats |
| `FormPromises`, `KeyAlwaysParses` | `MCCredentialForm` | the passphrase is validated against the stored key | clearing it is not; the key cannot be used any more |
| `FormPromises`, `GeneratedKeySaves` | `MCCredentialForm` | "Creates a key pair here so you can save the private key in the vault" (`CredentialForm.tsx`) | over a key with a passphrase the generated one, which has none, is sent without clearing that passphrase and refused |
| `FormPromises`, `BlankKeepsLatest` | `MCCredentialForm` | "leave blank to keep" (`CredentialForm.tsx`) | what another client stored between the Server's read and its write of every column is overwritten, blank field or not; the become method is sent from the form's copy, which may be older |
| `PkiTogether`, `StartedTogetherTalk` | `MCPkiAssets` | the first start makes one CA | two first starts at once make two |
| `PkiCrash`, `StartsAtLast` | `MCPkiAssets` | the same | a start killed while it writes a key leaves a directory no later start repairs |
| `PkiRotation`, `AgentReconnects` | `MCPkiAssets` | the Agent reconnects | not after the Server regenerated the assets: its TLS configuration is loaded once |
| `CatalogPromises`, `HostBelongsToSite` | `MCCatalog` | a Host belongs to a Site | foreign keys are on in one connection of the pool |
| `CatalogPromises`, `CredentialLinkHolds` | `MCCatalog` | `ON DELETE SET NULL` (migration) | the same: on another connection the link of the Host stays |
| `CatalogPromises`, `AgentEnrolled` | `MCCatalog` | Default Site for Agent upserts | it can be deleted, and then no Agent is enrolled |
| `HostPagePromises`, `TypedTextKept` | `HostPage` | the timer does not poll while the form is open (`HostDetail.tsx`) | a poll that left before, and the answer of Testar Conexao, still replace the row, and the form takes its fields from it |
| `HostPagePromises`, `DetailShowsError` | `HostPage` | "detail pane shows the error" (`SidebarTree.tsx`) | with the form of the Host before still open, a Host that cannot be loaded shows that form |
| `NewFormIsBlank`, `NewFormIsBlank` | `SitePage` | `/sites/new` adds a Site | from an open edit form React keeps the instance, and the fields of the other Site |
| `PanelPromises`, `AddedOnce` | `MCDiscoveryPanel` | a candidate in the inventory is marked | one added while the next scan runs is offered again by that scan's list |
| `PanelPromises`, `EmptyScanIsShown` | `MCDiscoveryPanel` | "Scan finished — no hosts responded" (`DiscoveryPanel.tsx`) | a scan without candidates answers `null`, whose length cannot be read |

## 4. Proofs

All are safety results for every value of the constants. What they assume is the `ASSUME`s
of the modules (finite sets of ids, ids that are not among them, the bounds are numbers,
and in `ScanPool` the arithmetic of powers of two that the provers lack,
`PowersAssumption`, which TLC evaluates) and, for the PKI, `~Together`: Server and Agent are
not started at the same moment, and section 3 shows what happens when they are.

**Presence** (`AgentPresenceProofs`). `TypeCorrect` is by cases on the actions.
`HubServed` is inductive with it, and `NewestKeepsSlot` follows step by step. Neither
"one row per fingerprint" nor "deleted stays deleted" is inductive alone: a write that is
pending could carry another owner or recreate a row. `TableInvariant` adds what is true of
rows **in flight** (`Faithful`): the row exists or existed, and the owner written back is
the one the row has. From it `TableCorrect`, `OneRow` and `Deleted` follow. For
`agent_online => online` the flight matters again: `PresenceInvariant` says that pending
rows are consistent too, that no handler is at work while the Server starts, and that from
`BootClear` on neither the table, nor what the sweep will write, nor an edit claims presence,
so that the sweep has nothing to tear. All that is said unless an edit has straddled
`BootClear`: such an edit does put `agent_online` back, and `BootSweep` then clears `online`
alone. `PresencePaired` needs no hypothesis on when the API starts.

**Shells** (`AgentShellsProofs`). None of the three invariants of the run `Shells` is
inductive: each depends on what is still in the two queues of a link. `ShellInvariant`
says how the fields of a link and of a Console go together (`LinkStages`, `ShellStages`),
and then for every message in flight what its arrival will find:
- a Console that works is in the table its read loop serves, or is already among the
  `victims` of a handler that empties a table (`Attended`, `Victims`), which gives
  `NoConsoleOnDeadLink`;
- output for a Console without a verdict has its `shell_opened` in front of it
  (`UpMessages`), also when it is sent only later (`PtyAnnounced`); this gives
  `BlocksOnlyOnOpened`;
- on the link that holds the hub's slot the `shell_close` of a Console that was torn down
  is behind its `shell_open` and in flight as long as its PTY lives (`ClosesFollow`), from
  which, with `ShellStages`, `NothingLeftBehind` follows.

The actions are sorted by what they touch: links only, the emptying of a table
(`Drain`), a teardown (whose `shell_close` and entry go in one step), a Console's own
steps, the Agent's. Lemmas say for each sort which conjuncts it leaves alone, and for the
queues what taking the first message or appending one does to "in front of" and "behind".
`TypeOK` of the module bounds the sum of the output of all PTYs, which is a fold over
their set; the proof has numbers without that bound. The invariant was checked by TLC on
the instance of `ShellsSafety.cfg`, and with three links, before it was proved. Writes that
block change nothing in the argument: they only delay steps.

**Tickets and the Console tab** (`HostConsoleProofs`). `TicketInvariant`: a ticket a socket
has is out of the table, and no second socket has it. `TableRefinesOneTime` shows that the
initial state maps to an initial one and that each action maps to `Issue`, `Grant`, `Lapse`
or a stutter. For `LifetimeKept` a second invariant, `GoneForCause`, remembers why a
ticket is gone: used, past its end, or the Server restarted. `ConsoleIsTicketClient` shows
that `SpecConsole` implements `Spec` of the table, so that all this holds under the tab
too (`ConsoleRefinesOneTime`). `ConsoleInvariant` relates the run on screen to its request,
ticket and socket at each stage of `connect()`: a run that is not on screen is one whose
cleanup has been done, so it closes what it opens. Its conjuncts `OneLiveSocket` and
`ShowsItsRun` give `OneSocketOnScreen` and `ConsoleTellsTruth`.

**Session** (`OidcSessionProofs`). `SessionInvariant`, which the run checks, is inductive: the
call in `refreshInFlight` is the one whose exchange runs, and who waits waits for it.
`NoConcurrentReplay`, the requirement behind it, follows from it and is proved. `OneLogin` needs `LoginInvariant`: a code has been
sent only if a mount of the callback page has taken it.

**Vault and Credentials page** (`CatalogProofs`, which holds what is stored).
`VaultInvariant` speaks of the stored row and of those in flight; a write copies one to the other. `PairFits` and `PublicHalf`
are its parts. `VaultBehindForm` shows that every step of the page with the Server is a
step of the vault. `FormInvariant` adds that a public key on screen belongs to the private key
in the field (or to the stored one, when the field is blank), in the form and in the fields
that a save under way was built from, and that the row the Server is about to write has
the public key that was shown with it. `CopiedKey` is a step property of that invariant;
For `BlankIsKept` it says that the row about to be written has the blank fields of one of
the rows in `call.seen`, a history of what was stored since the save was sent: `FormRequest`
and `Edited` leave them alone field by field in the row that the Server read, and that row
is in `call.seen` whoever stored it, before the save or during it.

**PKI** (`PkiAssetsProofs`), from `~Together`: one process starts at a time. Without killed
starts it is plain that the directory is whole; with them the proof rests on the order in
which the files are written. `AssetsInvariant` says that what is missing is missing to the
end (`MissingToTheEnd`), and that a directory of several generations gives itself away by
its last certificate or its last key (`MixedIsUnfinished`), until the writer has
written that certificate (`UnfinishedUntilWritten`). So whatever `assetsValid` accepts has
certificates of one generation that last (`LoadsWhole`), which gives `AssetsWork` and
`NoOldCertificate`; `DirectoryIsWhole` adds that no start was killed. `NoOldCertificate` is
the safety half of the property `StartsWell`.

**Host page** (`HostPageProofs`). That the pane shows the Host of the URL, and nothing older
than the last save, is not inductive: a load that has its row but not yet the name of the
Site will show that row later, and a load that has been answered but not shown may be
older than a save. `PageInvariant` says that each load that still counts was asked for the
Host of the URL and carries nothing older than what the tab was told (`LoadsAreCurrent`),
that what was told is in the past of the rows (`ToldIsPast`), and that answers to
requests are too (`AnswersArePast`). Steps that neither bring a row nor tell of a change
are `Quiet` and handled by one lemma; the rest start over with a load that is not answered
yet (`BumpIsSafe`) or leave the page (`UnmountIsSafe`). The mutants show what carries the
argument: without the cleanup of the effect, or without the bump after a save, both fail.

**Catalogue** (`CatalogProofs`). What can be relied on is what the Server checks itself, for
a connection of the pool may enforce no foreign key. `ReferenceInvariant` says that a request
may write what it has checked, since what has gone in the meantime has been crossed by the
deletion (`Grounded`, `Linked`), and that a Site about to be deleted either has no Host or was
crossed. `SiteLostInRace` and `LinkLostInRace` are its parts: a Site is lost to a race only,
apart from the Default Site, in which `UpsertFromAgent` puts Hosts without a look; a
Credential also where its deletion does not reach the Hosts.

**Site page and tree** (`SitePageProofs`). `SiteInvariant` says that every load of the page
that may still write was asked for the Site of the URL (`LoadsAreTheUrls`), that a page
which neither loads nor failed has loaded that Site and that nothing is open over a page
that has loaded nothing (`Settled`), and that what a load of the tree has heard so far is
not older than what the tab was told (`LoadsAreCurrent`), which holds because a bump starts
every load over. `SiteIsTheUrls` follows from `Settled`. `TreeShowsOwnChanges` is a step
property: a load shows only what it heard, and `Distinct`, by which no two answers are of
one write, tells the call that is answered from the others. `OpenOverReloads` goes through
the actions: a reload keeps the mode since `SiteChanged` compares with the Site that was
loaded, so only `Close` or an answer can close. The proof found a case that the run with
its one request at a time had not reached: the answer of a `SiteForm` of `/sites/new`, when
the operator has gone to the new Site through the tree before it comes, replaces the page
and so closes what was opened there. `OpenedStays` names it now.

**Scan** (`SitePageProofs`). `AnswerAlwaysRight` has two parts that are about data.
`HostsAreUsable`: for every prefix that is let through, `expandHosts` lists each usable
address of the network once, at least one and no more than the limit, so that
`scanCIDR`'s own tests of that are never met; it rests on facts about
remainders (`Divided`, `Remainder`, `Multiples`), on `MaskedIsNetwork`, and on
`NetworkIsInterval`, by which the addresses that agree in their first bits are an interval.
`SortedIsSorted`: candidates with different addresses have different places, an injection
of 1..n into itself is onto, so sorting loses and repeats nothing. The rest is
`PoolInvariant`, which follows an address through the pool: it is still to be sent, queued,
with one worker or among the candidates, never in two of these (`Apart`), always of the
network (`InNetwork`), reported with what it answers (`Truth`), and before the deadline
never lost (`NothingLost`). `WorkersEnd` says that a worker leaves only at the deadline or
when the channel is closed and empty; with `PoolShape` it makes the empty places of
`NothingLost` empty when the scan returns. A step of a worker
that lets go of nothing is handled by one lemma (`WorkerGoesOn`). The number of workers,
the size of the channel and the width of addresses are any.

**Discover panel** (`SitePageProofs`). `PanelInvariant` adds that each add under way keeps its
button disabled, whatever list is on screen (`AddsApart`), and that a row without the mark
is of an address that answered and that neither the scan nor an add since then found
(`ListIsNew`): this is stronger than `OfferedOnce`, which excepts addresses being added, and
inductive. It needs `Truth` where the answer becomes the list, and that no step of the pool
changes the network. `OffersAreNew` follows.

Only model-checked:
- everything about liveness, fairness and ENABLED (`PresenceLiveness`, `PresenceDeleted`,
  the temporal properties of `Shells`, `EveryCallSettles`, `StartsUnlessKilled` of `StartsWell`, `ScanReturns`, `LoadingEnds`,
  `TreeSettles`): the prover has no rules for them;
- the bound of `TypeOK` on the output of PTYs in `AgentShells`.

## 5. Not modelled

- `LabKeeperDetail`, the theme, buttons, the tabs and copy keys of the Host page, and the
  mounting of the application: rendering without state that others see.
- `portalauth`: validation of one token against a cached key set; no protocol of its own
  but the cache, which is planned.
- `crypto`, `sha256.ts`: functions of their input.
- Bytes: terminal data, xterm, PTY sizes, PEM, JSON, names, timestamps, texts of errors.
- SSH itself and host keys (`bridgeSSH` is one outcome of `Bridge`).
- Renaming Sites, their `discovery_enabled` flag (it hides the Discover key), unique names;
  interface enumeration and reverse DNS of a scan.
- Health, wiring, container files, migrations as a procedure.
- The wire order in which two dials of an Agent register, writes of the Agent that block
  for another reason than the Server's read loop, and the start of a PTY that overlaps
  `closeAll`.
- In `HostPage`: the Site's name and the form's list of credentials, bumps from views of
  another page that are still under way, and a session that expires (it leaves the page, as
  `Leave` does). What another tab deletes shows as requests that fail.
- In `CredentialForm`: leaving the page during a request, and React's second mount in
  development. An answer is lost only once the Server is done with the request.
- In `DiscoveryPanel`: a click on Scan and the Server's read of the known addresses are one
  step, so an add never comes between the two.

## 6. Plan

1. Done: the core (presence, shells, tickets), the session, the vault, the PKI, the
   catalogue and the scan; the views of the Portal over them: Console tab, Credentials page,
   Host page, tree with the Site page, Discover panel; proofs of presence, shells, tickets
   with the Console tab, session, vault with the Credentials page, PKI, catalogue, Host
   page, Site page with the tree, scan and Discover panel. Every invariant and action
   property that a run checks is proved.
2. Next, more of the system: the key cache of `portalauth`, the Agent's backoff, Site
   updates and the enabled flag of Discovery, and two tabs that share one inventory.
3. An abstract specification of presence (a register per Agent: connected or not, with a
   bounded delay of one heartbeat), and `AgentPresence` shown to implement the part that holds.
4. Proofs that are left: liveness, when a prover can follow it; the bound on the output of
   all PTYs in `AgentShells`, which is an induction over a fold.
