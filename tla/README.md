# Verification of anafpy

TLA+ models of the parts of anafpy whose correctness depends on the order in
which things happen: the two-step filing gate, the life of the OAuth tokens, the
keyring store that holds them, the SPV cookie session; and, around these, the
clients and tools: report requests, message listings, waiting for documents, the
installer, the public and BNR clients, browser logins, the declaration portal, and
the arithmetic of invoices. TLC checks each model on small instances; TLAPS proves
the main invariants for every value of the constants.

All paths below are relative to `src/anafpy/` of the repository (written
`src/src/anafpy/` in `PROJECT.json`).

## The system

anafpy is a set of asyncio clients for ANAF (the Romanian tax authority) and
BNR (the national bank), a CLI, and a local MCP server whose tools call the
clients. There is no server of its own: state lives in the process, in the OS
credential store, in files under `~/.anafpy`, and at ANAF.

| Component | State | Operations | Interacts with | What makes it correct |
|---|---|---|---|---|
| Filing gate (`mcp/gate.py`, `mcp/*/tools.py`) | signing key and `TokenLedger` of the process; the document on disk | prepare, submit (`run_submit`, `declaratie_submit`) | ANAF upload, portal session, the user's file | only what was reviewed is filed; an approval is good for one upload; answers are true |
| Token provider (`auth/provider.py`) | `asyncio.Lock` | `access_token`, `force_refresh`, 401 retry | token store, ANAF token endpoint | no rotation lost or wasted; refreshes single-flight |
| Token stores (`auth/store.py`, `_store.py`) | keyring entries; a JSON file | `save`, `load`, `clear` | other processes on the same store | a load sees one set, whole |
| Login/logout (`auth/browser.py`, `auth/callback.py`, `cli/main.py`, `mcp/login.py`) | the listener's result, an authorization code | `browser_login`, `finish_login`, `auth_logout` | browser, token endpoint, store | a login's outcome is reported once; the store is what the user last asked for |
| SPV client (`spv/`) | rotating session cookies in a file | `login`, `list_messages`, `request_report`, `wait_for_report` | curl and a smart card; other processes | cookies never go backwards; a report is requested once a day and waited for |
| e-Factura client (`efactura/client.py`) | none | upload, status, list, download, `upload_and_wait` | transport | a listing misses and repeats nothing; a timeout never claims a verdict |
| e-Transport, authoring (`etransport/`, `efactura/authoring/`) | none | building, validating, reading documents | | totals, conditional rules, round trip |
| Transport (`_transport/`) | none | requests, `poll_until`, the curl chain | all clients | errors stay in the hierarchy; deadlines hold |
| DUK wrapper and installer (`declaratii/duk.py`, `install.py`) | jars and `manifest` in a directory | install, validate, render | ANAF's feed, a JVM | the manifest never claims a version that is not there |
| Signing (`declaratii/signing.py`, `pdfsign.py`) | none | sign | OS key stores | |
| Portal upload and status (`declaratii/upload.py`, `status.py`, `nr_evid.py`) | cookie jar | probe, upload, status, payment number | gate | an unrecognised answer is UNKNOWN |
| Public and BNR clients (`public/`, `bnr/`) | request pacer; document caches | lookups, rates | | requests are spaced; the rate is the one in force on the date |

Hard behaviours: interleaved coroutines at every `await`; several processes on
one store without a shared lock; uploads that are not idempotent and whose
answers may be lost; tokens that ANAF honours once; crashes between a remote
effect and the local save; clocks that run between a check and its use. Each
is listed under `hazards` in `PROJECT.json` at the line where it bites.

## Modules

| Module | What it is |
|---|---|
| `FilingGate` | the gate and both submit flows, with ANAF, the portal, files, time and restarts |
| `ApprovalContract` | what a human approval is good for; `FilingGate` implements it |
| `FilingGateProofs` | `GateInv` inductive, the gate's properties, the refinement |
| `MCFilingGate` | the instance for TLC |
| `TokenLifecycle` | providers of several processes, logins, logouts, ANAF's token endpoint |
| `TokenLifecycleProofs` | `TokenInv` inductive and the properties |
| `MCTokenLifecycle` | two instances: two processes; one process |
| `KeyringStore` | `save` / `clear` / `load` as loops of keyring calls |
| `TokenRegister` | the atomic store that `TokenLifecycle` assumes |
| `KeyringStoreProofs` | `StoreInv` and `WholeInv` inductive; one entry per set implements the register |
| `MCKeyringStore` | sets of three entries and of one; sets that all fit in one |
| `SpvSession` | the SPV cookie session: calls, redirects, rotations, logins, logouts of several processes |
| `SpvSessionProofs` | `SessionInv` inductive; one process: `LoopInv`, `VersionInv` |
| `MCSpvSession` | calls of one process; of two |
| `DukInstall` | the installer: feed, manifest, files; several installs, crashes |
| `ReportRequests` | `spv_cerere` and its same-day duplicate guard |
| `MessageListing` | `list_messages`: window, clock correction, offset paging |
| `DocumentWait` | `poll_until` under `upload_and_wait` and `spv_asteapta_raport`, which saves a file |
| `PublicRequests` | the request pacer and the answers of the public client |
| `BnrRates` | `get_rates`: documents, caches, shared fetches |
| `LoginAttempts` | `browser_login` on the callback listener and its threads |
| `PortalSession` | the portal client's cookie jar: curl logins, probes, uploads |
| `InvoiceTotals` | the amounts of an authored invoice: computed, rendered, read, judged |
| `MCClients` | one instance of these nine, of which a behaviour takes the steps of one |
| `DukInstallProofs` | `DukInv` and `ConvergeInv` inductive; the installer's properties |
| `ToolProofs` | `LoginInv`, `PortalInv`, `ReportInv` and `WaitInv` inductive; the properties of `LoginAttempts`, `PortalSession`, `ReportRequests` and `DocumentWait` |
| `ClientProofs` | `PacerInv`, `ListInv`, `BnrInv` and `InvoiceInv` inductive; the properties of `PublicRequests`, `MessageListing`, `BnrRates` and `InvoiceTotals` |
| `MCClientsProofs` | each of the nine behaves in `MCClients` as it does alone; what was proved of them holds there |

### FilingGate

State: `clock` is `time.time()`; `boot` names the server process and with it
the per-process signing key (`mcp/config.py`); `disk` is the file behind the
path; `issued` the tokens ever returned; `used` the `TokenLedger`; `jar` and
`session` the portal cookies and whether the portal still honours them;
`pc`, `tok`, `body` one submit call each; `wire`, `verdict`, `filed` what ANAF
has been sent and has decided, and what was lost on the way. A token *is* its claims: two prepares of the
same document in the same second give the same JWT, as in the code, which puts
no nonce into it. A digest stands for the bytes it digests.

Actions follow the code between two awaits. `run_submit` awaits nothing
between `verify_token` and the upload, but the clock runs: `XmlVerify` and
`XmlRedeem` are two steps with only the environment in between (`LoopFree`
keeps other coroutines out). `declaratie_submit` awaits the file read and the
portal probe: `PortalRead`, `PortalVerify`, `PortalRedeem` have any other call
in between. `Redeem` is `TokenLedger.consume` (prune, test, add) and nothing
else. What follows it is awaited: `Send` puts the upload on the wire once
`AnafAuth` has an access token and the connection is up; `SendFails` is
everything that can end the call before that - nobody is logged in, the refresh
token has lapsed, the token endpoint or the connection fails. The answer is
`Answered` (ANAF's own verdict, or the portal's redirect), `UploadFails`, or, for
an XML upload, `Unrecognised`: neither an index nor errors, which the clients turn
into errors of a result that is not accepted. The environment may rewrite the
file, kill the session, lose an upload, process it after the call gave up, and
restart the server at any point.

Left out: the preview's content, the wording of refusals, the status and
download tools (reads).

### TokenLifecycle

A token set is its generation, in the order ANAF issued it. `parent`, `root`
and `buyer` are ANAF's books; `expired` and `lapsed` say how far access and
refresh tokens are too old (they age in order); `store` is the shared
`TokenStore`; `saved`, `current`, `rejected` are history for the properties.
Requests run `AnafAuth.async_auth_flow`: `AccessToken`, the API's answer
(`Answered` or `Unauthorized`), `ForceRefresh`, one retry. The `asyncio.Lock`
is per process; `load` runs in the stretch that takes the lock, so a request
that refreshes nothing never holds it across an await. `Rotate` is the token
endpoint: it honours a refresh token once, and may do so after the sender gave
up. `ExchangeCode` / `FinishLogin` and `Logout` take no lock, as in the code.
`GiveUp` stands for every exception and cancellation, `Crash` for the end of a
process.

The store is one register here. `KeyringStore` shows when that is true; the
JSON store replaces its file by a rename, which readers see wholly or not at
all.

ANAF's one-time refresh tokens are an assumption about an external service,
taken from `DESIGN.md` (section on token rotation) and from how the code
persists every new set.

### KeyringStore

`save` writes the chunks of a set to `username`, `username#1`, ... and then
deletes stale entries until it finds none; `clear` runs the same deleting loop
from entry 0; `load` reads entries until there is none and parses the joined
text. Every keyring call is one atomic step; between two calls another process
runs, or the operation breaks off (`KeyringError`, or the end of the process).
Entry *i* only ever holds chunk *i* of some set, so the set's name stands for
the text. `Outcomes` is the parser: a text that does not end where a set ends
never parses; a text spliced from two sets, cut inside their token strings,
may parse. `settled`, `calm` and `whole` are history: what the last write stored if it
ran alone to its end; whether an operation has run alone so far; whether every
write so far has.

### SpvSession

| Code | Model |
|---|---|
| the session file | `store`: a cookie set and the login it is dated by (`established`) |
| cookie set | the login that minted it and a version; every `Set-Cookie` of the APM is the session's next version |
| `SpvSessionProvider.cookies`, the start of `async_auth_flow` | `Send`, or `NoSession` when nothing is stored |
| the Cookie header the http client stamped, `pop`, `set_cookie_header` | `CookieHeader`, over `clientJar` |
| the redirect loop | `Hop`, `Bounce` (login wall, off the host), `ExceedHops` (the `else`) |
| an answer, `rotated` up to its comparison | `Answer` |
| `rotated`'s save, which may fail | `SaveRotation` |
| a network failure and `_get_retrying` | `LoseConnection`, then `Send` again |
| `login`: the handshake ends, the save | `Bootstrap`, `SaveLogin` (`spv_login` saves through a provider of its own, with a lock of its own) |
| `anafpy spv logout` | `Logout` |

A process has one event loop, and the store's I/O is synchronous: between the
load and the save of `rotated` no other step of the process runs (`Free`), but
another process may. No await lies inside the provider's lock, so the lock
never makes anyone wait and is not modelled. The APM is external: it may answer
with or without a rotated set, redirect, or bounce, whatever version of a
session's cookies it is sent. A handshake that fails changes nothing. How
`rotated` finds cookies equal to those stored cannot happen from the flow,
which calls it only with a changed set.

### DukInstall

One action per file operation of `DukInstaller.install`: `FetchFeed`,
`LoadManifest`, `NextFile` / `NextForm` (which decide by hash and by claim),
`Place` (download and `os.replace`), `TruncateManifest` and `SaveManifest` (the
manifest is opened for writing before it is written), `Fail` at any of them.
The contents of a file are the version they belong to; `Upload` and `List` are
ANAF, which replaces a file before it lists its version. The SAF-T form is the
one whose version the feed does not list. `settled` is history: what an install
that ran alone has covered.

### ReportRequests, DocumentWait

`ReportRequests` is `spv_cerere` between its awaits: the guard (`Reuse`), the
request on its way (`Request`), the log written when it returns (`LogEntry`,
with the day read *before* the await). ANAF files what it receives, perhaps
after the call gave up; a restart loses the log. `met` remembers that two calls
with the same parameters overlapped.

`DocumentWait` is `poll_until`: read, compare with the deadline, pause. Under it
run `upload_and_wait` (the upload, then the status) and `spv_asteapta_raport`
(the inbox, then `write_artifact`: `checked` is between the last look at the
target and the open, `open` between the open and the end of the write).

### MessageListing

One walk over a mailbox that ANAF indexes late and forgets after its retention
span, in either order, with or without a page count. The window is cut from this
machine's clock, and ANAF judges it by its own. Its fault may quote that clock
(`momentul requestului = ...`), from which the walk corrects itself once, on
whatever page it is (`Correct`); or it may not, and is raised (`WindowFault`). Which
of ANAF's faults quote the clock is left open: the start-side one has not been seen
to (`docs/anaf-reference/efactura/api.md:173`). `SkewIsAbsorbed` says which
disagreement of clocks, and which duration of a walk, the two margins cover without
a correction, and that after one only the start margin's worth of time can fail the
walk.

### PublicRequests, BnrRates

`_RequestPacer` is a fair lock, `_earliest` and a sleep under the lock; a call
may be cancelled anywhere. The second half turns what comes back - a payload, the
firewall's page, a register's "no data", anything else, under a status - into a
result or an error.

`BnrRates` reads the plan of documents for a day from the calendar (`paths`),
caches live documents for `_LIVE_TTL` and closed ones for ever, and shares a
fetch between the lookups that want the same path. BNR publishes at most one set
a day, by an hour of the day, and regenerates the year archives once a day, by that
hour too: an archive reaches the close of yesterday, or before that hour perhaps of
the day before (`Regenerated`, `Served`). So an archive that is fetched, and cached
for ever, in the first hours of a year may lack the set of the last day of the one
before. `FreshEnough` and `NoOlderAnswer` hold of every other set, and name this
exception (`LastOfYear`); without it TLC finds both violated in this instance.

### LoginAttempts, PortalSession

A redirect is handled by a thread of its own: `Store` (the result), `Show` (the
page), `ReleaseWaiter` (the event) are separate steps, with the waiter's time-out,
its read and the closing of the listener in between. Two attempts contend for
the port; a tab may bring the redirect of either, twice or late.

`PortalSession` names a session by the login that made it. A request carries the
jar it left with; an answer writes its own cookies into the jar, whatever was
installed meanwhile. `run_chain` is the login: three curl processes, the last
with the certificate prompt, killed with the call. The token gate itself is
`FilingGate`'s; here only "spent before the upload" is kept.

### InvoiceTotals

`compute_vat_breakdown`, the totals of BR-CO-10..16, the render that writes
them, the reader that makes what was computed explicit, and the sums of
`rules.py`, over integers: amounts in cents, exact nets in tenths, `round2` half
away from zero. An initial state is a document; the steps evaluate its breakdown
(`BreakDown`) and its totals (`AddUp`), render or refuse it, and read it back.

| Code | Model |
|---|---|
| `_group_amounts` | `Groups`, `AmountOf` |
| `compute_vat_breakdown`, `effective_vat_breakdown` | `ComputedEntry`, `Completed`, `Breakdown` |
| `compute_totals`, `effective_totals` | `ComputedTotals`, `Effective`, together `TotalsOf` |
| `category_rules`, `breakdown_rules`, `totals_rules`, `validate` | `PresenceFindings`, `EntryFindings`, `SumFindings` and `FormulaFindings`, `Accepted` |
| `_tax_totals`, `_monetary_total`, the lines of `build_invoice` | `WithZeros`, `Rendered` |
| `_vat_breakdown`, `_totals`, the lines of `read_invoice` | `ReadDocument` |

These are operators on a document, not on the state, so that one can speak of
rendering a document that was never rendered, as the proofs do.

## Runs

| Run | Instance | Shows |
|---|---|---|
| `gate` | 2 calls, 1 XML kind and the portal, 2 documents, 2 taxpayers, TTL 1, clock to 1, 1 restart, 1 token; symmetric calls and documents | type correctness, `FiledWasReviewed`, `OneUploadPerLiveApproval`, `NoSilentBurn`, `AnswersAreTrue`, and that the gate implements `ApprovalContract` (190 thousand states) |
| `gate_replay` | the same | **violation** of `FilesAtMostOnce` |
| `tokens` | 2 processes, 2 + 1 requests, 3 token sets, 1 lapsed; the two requests of one process are symmetric | `BehindOnlyByAccident`, `RotationsJustified`, `RefusedOnlyByRace` |
| `tokens_end` | 1 process, 2 requests, 3 token sets; fair | `EveryRequestEnds` |
| `tokens_clobber` | as `tokens` | **violation** of `StoreFollowsUser` |
| `keyring` | 2 processes; two sets of 3 entries, one of 1 | `SettledIsLoaded`, `NothingLeftBehind` |
| `keyring_single` | 2 processes, 3 sets of one entry | `ImplementsRegister` |
| `keyring_mixed` | as `keyring` | **violation** of `NeverMixed` |
| `spv` | 1 process, 2 calls of 2 attempts, 2 hops, 2 logins, 3 versions | `CookiesOfTheirLogin`, `WireCarriesSession`, `RotationKeepsSession`, `StoreAdvances` |
| `spv_clobber` | 2 processes, 1 call each, 1 attempt, 2 versions | **violation** of `LoginNotClobbered` |
| `spv_hops` | as `spv` | **violation** of `RefusedBeyondBound` |
| `clients` | `MCClients.cfg`, below | the 21 properties of the nine client modules, listed below |

`clients` is one run for nine models: they share no state, `active` says whose
steps a behaviour takes, so the state space is the sum of theirs (1.6 million
states) and not the product.

| Module | Instance | Properties |
|---|---|---|
| `DukInstall` | 2 installs, one of the default targets and one of named forms; the core, one form, SAF-T, a file each; 2 versions | `ClaimsAreTrue`, `InstallConverges`, `SettledStays` |
| `ReportRequests` | 3 calls with the same parameters, 2 days, 2 starts of the server | `ReusedWasFiledToday`, `RepeatsAreExplained` |
| `MessageListing` | 3 messages, pages of 2, at most 2 pages; retention 3; clocks two margins apart, either way | `NothingSkipped`, `SkewIsAbsorbed` |
| `DocumentWait` | 2 calls on one path: two reports, or a report and an upload; budget 2, pauses and reads of at most 1 | `PollsWithinBudget`, `FoundInTime`, `NeverReplaced` |
| `PublicRequests` | 3 requests, interval 2 | `Spaced`, `NoSlotWasted` |
| `BnrRates` | 2 lookups, one of the days 0 and 1, one of the days 1 and 2 (`Asked`); days of 2 ticks, years of 2 days, the ten-day file holding 2 sets and reaching 1 day back; from the second day (`FirstTime` 2) to the fourth (`LastTime` 6) | `FreshEnough`, `NoOlderAnswer` |
| `LoginAttempts` | 2 attempts, 2 tabs | `OnlyOwnRedirects`, `ListenerReleased` |
| `PortalSession` | 2 logins, 2 probes or submissions | `BurntOnlyByRace`, `NoStrayPrompt` |
| `InvoiceTotals` | documents of 1 or 2 lines, at most one allowance and one charge (`MaxParts` 1), at most 2 stated breakdown entries (`MaxEntries`), of 4 lines, 2 parts, 3 entries and 4 sets of stated totals | `ComputedAddsUp`, `RoundTrips` |

`TypeOK` of the run is the type invariant of the active module.

### Why the bounds are enough

*Gate.* Every property is about one approval and at most two calls that present
it, so two calls and one issued token meet every order of verify, redeem,
upload and answer; two documents and two taxpayers are what a swap needs; with
TTL 1 the token is live at 0 and expired at 1, so every check falls on either
side; one restart gives an old and a new key. Deadlock is checked: the file can
always be rewritten.

*Tokens.* Three sets allow a login, its rotation and a rotation of that, or two
logins and a rotation of either: a lost rotation and one more, or a rotation
that races a login. Two requests of one process contend for its lock while a
third, of another process, ignores it. `MaxLapsed` 1 makes the first refresh
token unusable while a later one is not. The system really stops here: each
request is made once and ANAF's sets run out, so deadlock is not checked in
these runs.

*Keyring.* A set of three entries has a first, a middle and a last one; two of
that length splice to a text that ends well, the short one leaves stale entries
behind. The state is finite without any other bound: operations repeat for
ever.

*SPV.* Two calls are what a race of rotations needs, the retry lets a call start
a second time from what the other one saved; two logins are an old session and
a fresh one, and three versions are what two calls get from one start. The code
allows eight hops and three attempts; two of each have a first, a middle and a
last one. Calls and logins run out, so deadlock is not checked.

*Clients.* Time, calls or versions run out in each of them, so deadlock is not
checked either.

- Installs: two versions are a stale and a current one, and a third state is no
  file; two installs, each any number of times, are a race, and one alone is the
  repair. A unit of one file suffices for the claims: files of a unit are
  written one by one under one claim, which is what a second unit shows too.
- Reports: the third call is the one that trusts, or not, what the two before it
  left in the log; two days have one midnight, two starts one restart.
- Listing: three messages on pages of two have a boundary that moves; a skew of
  two margins is beyond what a margin absorbs, at either end: it needs the
  correction, and fails the walk where the fault quotes nothing.
- Waiting: a budget of two pauses has a first and a last read; the second call
  is the one that creates the file in between.
- Pacer: three requests are one that sleeps, one behind it, and one that arrives
  after a cancellation.
- BNR: the run begins on the last day of year 0 (day 1), so that a lookup may read
  its archive after New Year, when it is closed but not yet regenerated, and ends on
  the day on which day 1 is out of the ten-day file's reach and only that archive
  answers for it. Day 2, the first of the next year, is the one whose set no answer
  may miss; both lookups ask for day 1, so they overlap on a day and share its
  fetches. The ten-day file holds less than the two years do.
- Logins: a second attempt and a second tab are what a mixed-up redirect
  needs: a code and an error, or two codes, for one listener or for two. The
  theorems cover any number.
- Portal: one login is replaced by another while a probe and a submission are
  under way.
- Invoices: two lines of one group, or of two; nets of either sign with a half
  cent, an allowance and a charge, and totals stated rightly, wrongly or not at
  all. The theorems cover any number of each.

### Fairness

`tokens_end` assumes weak fairness per request: the event loop runs a coroutine
that can run (`asyncio` is fair to ready tasks, and the lock wakes its
waiters), and httpx ends every wait for an answer by its timeout (`GiveUp` of a
refreshing request, `Answered` or `Unauthorized` of a sent one). Nothing is
assumed of ANAF's token endpoint, of the user, of logins or of crashes. The
properties of `clients` are safety properties and need no fairness:
`InstallConverges` states recovery as an invariant, of what holds when an
undisturbed install has ended.

### What the violations show

* `gate_replay`: `TokenLedger.consume` forgets entries past their expiry before
  it looks for the token. A call that verified its token in time and redeems it
  a moment late is let through although the token is spent; in
  `declaratie_submit` the moment is a whole portal probe. Both uploads are
  processed. `OneUploadPerLiveApproval` is what does hold.
* `tokens_clobber`: a refresh in flight saves its answer without comparing the
  store with what it loaded, over another process's logout or login.
* `keyring_mixed`: chunks are overwritten one by one, without a generation
  mark. `SettledIsLoaded` is what does hold.
* `spv_clobber`: `rotated` compares before it saves, but the two are separate
  file operations and its lock is of one process: the login that another process
  (`anafpy spv login`) saves in between is lost. `RotationKeepsSession` is what
  does hold in one process.
* `spv_hops`: the loop looks at a response at the start of an iteration, so the
  answer to the last allowed hop is never looked at: the bound is one less than
  `_MAX_REDIRECT_HOPS` says.

### What the models allow

No property forbids these; the models show them where a reader of the code would
not expect them.

- `KeyringTokenStore.clear`: it stops at the first missing entry. A clear that
  broke off behind entry 0 leaves such a gap, and every later clear ends well and
  leaves the chunks behind it in the credential store. `NothingLeftBehind` therefore
  speaks of stores on which no write has broken off or overlapped another.
- `spv_cerere`: of two concurrent calls both file the report; the guard is
  checked before the await. `RepeatsAreExplained` says when a repeat goes out.
- `list_messages`: a correction on a page behind the first keeps the page number
  and moves the window; a message on the boundary may be missed (`shifted`).
- `poll_until`: "timeout seconds in total" is exceeded by up to a pause and a
  read (`PollsWithinBudget`). A report may leave the days that the inbox lists
  between two reads of one poll (`FoundInTime`).
- The SAF-T form: not in the feed, so once installed it is never found stale;
  naming it does not refresh it.
- The pacer spaces the moments at which requests are *released*; what the network
  does to them behind that is outside.
- The portal: "a lapsed login costs nothing" holds up to the probe; a session
  that lapses or is replaced between probe and upload costs the approval
  (`BurntOnlyByRace`). An answer to an old probe may overwrite a session
  installed since.
- `write_artifact` lets `OSError` out past `except AnafError`; a report that was
  delivered is then not named in the answer.
- The token is consumed before `AnafAuth` looks for an access token. A user who is
  not logged in, or whose refresh token has lapsed, spends an approval on an upload
  that never leaves (`SendFails`). `gate.py` spares the approval from one such
  deterministic error only, the missing client credentials. The user is told that
  the outcome is unknown and the token spent, which is what `NoSilentBurn` demands;
  that nothing was sent he is not told.
- An XML upload that is answered with neither an index nor errors (`Unrecognised`)
  is a result that is not accepted, which the submit tools word as "ANAF rejected
  the document at submission", while ANAF may have it. `AnswersAreTrue` speaks of
  the definite answers, those that rest on what ANAF or the portal said, and leaves
  this one out. The declaration tool answers UNKNOWN in the same place.
- `list_messages(days=60)`: a machine whose clock is behind ANAF's by more than the
  start margin, five minutes, or a walk that takes that long, fails at the start
  side. If that fault quotes no clock, as none has been seen to, nothing corrects it.
- `get_rates`: a closed archive fetched in the first hours of a year may lack the
  set of the last day of the year before, and is kept until the process ends. Once
  that day is out of the ten-day file's reach, the archive answers it with an earlier
  set, also where it had been answered rightly before.
- BT-107 or BT-108 stated in a document without allowances or charges is compared
  with nothing.

## Proofs

The eight `*Proofs` modules prove, for every number of processes, calls,
documents, token sets, files, tabs, and every bound:

*Gate.* `GateInv` is inductive. The properties alone are not: one upload per
live approval needs that the ledger still remembers every token redeemed while
it lived (`LedgerRemembers`), which needs that a call past verification holds
a checked token of its own process (`TokensChecked`), across pruning and
restarts; true answers, and approvals not spent in silence, need the accounts of
wire, verdict and filing (`UploadsAccounted`): whoever got an answer has sent its
upload, and what ANAF decided is what was answered. Every step has one of eight
shapes (`StepShape`: nothing of a call, a call gives up, advances, spends its token,
sends, ends, its upload leaves the wire, a restart); each conjunct is proved shape by
shape. `GateImplementsContract` maps every step to
a step of `ApprovalContract` or a stutter. Assumptions: the named ASSUMEs of
`FilingGate` (markers differ, a path has a name, bounds are numbers).

*Tokens.* `TokenInv`: only saved sets are ever rotated (`Ancestry`); a request
that refreshes holds its process's lock and its answer is an unsaved child of
what it sent (`Pending`); a bought and unsaved set waits at its buyer or its
buyer failed (`Unsaved`); no successor of the stored set was saved (`NotBehind`).
From these follow `BehindOnlyByAccident`, `RotationsJustified` and
`RefusedOnlyByRace`.

*Keyring.* `StoreInv` says what the entries hold during a write that runs alone
(`Written`), after it (`Settled`), and what a calm load has read of them
(`Calm`). From it follows `SettledIsLoaded`, for every way to cut sets into
entries; the type invariant is part of it, and is proved without a run of its own.
`OneEntryIsRegister` proves that with one entry per set the store
implements `TokenRegister`: a write takes effect at its first call that changes
something, a load at its first call.

`NothingLeftBehind` is about the entries that no load reaches: as long as no write
has broken off or overlapped another (`whole`), the last one leaves what it wrote
and nothing else. The deleting loops look no further than the first missing entry,
so the invariant `WholeInv` says that there is no gap in front of an entry behind
the point a write has reached (`NoGapFrom`), and nothing stale before it.

*SPV.* `SessionInv`: a call in flight holds cookies of the session it started
from, sends what it holds, and has loaded the date of their login (`CallHolds`).
`CookiesOfTheirLogin` is not inductive without it, since a save writes what was
loaded and received in earlier steps. It and `WireCarriesSession` are proved for
any number of processes. The other two theorems assume one process (`Alone`),
as `spv_clobber` shows they must: `LoopInv` says that who saves is alone and
finds the store as its call read it, `VersionInv` that the APM's counters are
ahead of every stored or held set and that a session waiting to be saved was
never stored.

*Installer.* `DukInv`: a recorded or remembered manifest is `Consistent` - a hash
it holds is of contents no older than its claim, and nothing in it is ahead of the
download host - and each install's memory agrees with where it is
(`JobHolds`): the file at hand is of the unit at hand, what was downloaded is not
older than what was listed. `ClaimsAreTrue` is not inductive because the next
manifest is written from memory, after others may have written theirs: the
invariant has to speak of every manifest in memory. `ConvergeInv` adds, on top of
it, what an install that nobody disturbed has behind it: base files, files of the
form at hand and finished forms are whole, recorded and not older than the feed
lists them (`Converging`); and that an install which starts later passes by what is
settled (`PassesBy`). `InstallConverges` and `SettledStays` follow; neither is
inductive alone, since the manifest that makes a unit current is in memory until
the install saves it. Assumptions: `DukUnits`, `DukBound`.

*Reports.* `ReportInv`: a log entry names a filing of that call, with these
parameters, on that day or a later one (`EntryHolds`); of two overlapping calls
both know (`Meet`); a known filing is remembered until midnight or a restart
(`Remembered`). From it follow `ReusedWasFiledToday` and `RepeatsAreExplained`.

*Waits.* `WaitInv`: a pause and a read end before their bounds, and the pause
before the last read began within the budget (`OnTime`); a read that has missed its
document ran before it came or after it had left the window (`MissedFor`).
`FoundInTime` is not inductive without the second, because the answer is given a
step after the read. `NeverReplaced` is an action property: every step is one that
leaves the path, creates the file, or belongs to a call past its check. Assumption:
a wait is not named like a state of the path (`WaitsAreNoContents`).

*Pacer.* `PacerInv`: a call is in the line at most once, in order of arrival, and
only its head sleeps (`InLine`); `_earliest` is one interval past the last send
(`Due`). `NoSlotWasted` needs the order: when the head leaves, sent or cancelled,
the next one is held against its own arrival, which must not be before the one who
left.

*Listing.* `ListInv`: every message that was there when the walk began and is not
yet yielded has at least as many messages of the window ahead of it as were
asked for by the pages so far (`NotPassed`) - whatever is indexed meanwhile only
adds to those ahead; and a `days` window was cut from this machine's clock when the
walk began, or from ANAF's when it was corrected (`Cut`), from which `SkewIsAbsorbed`
is arithmetic on the two margins. The step from a page to the next is a counting argument on the
message's position (`NthMessage`, `PageTurns`).

*Exchange rates.* `BnrInv` says what a document tells of (`Tells`): beside
today's file no set is later, beside the ten-day file every other set is earlier than
all of its own, and no set of an archive's year is missing from it. Every document
may be served without a set up to a last moment (`Out`): until the set is published,
for an archive until the regeneration on the day after. A document being fetched, or
kept live, tells of every set that was out a fetch, and a lifetime, before its bound
(`FetchHolds`, `CacheHolds`); a closed one of every set but its year's last
(`DocumentHolds`, `LastOfYear`). The plan of documents makes this suffice: an archive
is read only for a day that is over by two, when its regeneration is past, because
the ten-day file answers every later one (`PendingHolds`). So whoever reads a
document finds in it the sets it must tell of (`MustTell`, `OldEnough`), and with the
order of the plan (`PlanFacts`) `FreshEnough` and `NoOlderAnswer` follow. Assumptions:
`BnrBounds`, `AskedDays`; `TenDaysBridge`, that the ten-day file reaches over the day
an archive lags behind; and `ExpiresByMidnight`: what is published just after 13:00
is a document's lifetime and a fetch old by midnight. Were it not, a lookup could
answer a day's late set from today's file, and a lookup of the same day after midnight
miss it in a ten-day file cached before it.

*Logins.* `LoginInv`: what a listener stores came with its own state
(`OwnResults`), and a thread that is about to release the waiter has stored
before (`ThreadHolds`), so the waiter never wakes to nothing.

*Portal.* `PortalInv`: a curl runs only at the step its call waits for, and only
behind steps that ended well (`LoginHolds`); a submission past its probe carries
a session that the portal still honours, or has been marked lapsed (`UseHolds`).

*Invoice.* `InvoiceInv`: the entries and totals at hand are functions of the
document (`Breakdown`, `TotalsOf`), and a document that is rendered, or was read
back, is judged and written as one evaluation of it says (`Rendering`). The
properties are then about two evaluations that the state never holds together.

- `RoundTrips`: `ReadAgain` shows that what is read back has the same groups and
  amounts (`SameGroups`), the same entries but for amounts that were rendered as
  zero (`WhatIsRead`), hence the same effective totals and the same findings
  (`SameVerdict`). The last needs that reading does not turn an entry without an
  amount, which the rules flag, into one they accept: such an entry matches no
  group, and is flagged for that too.
- `ComputedAddsUp`: the breakdown adds the amounts of each group and then the
  groups, the totals add the lines and the parts. `SumByGroup` says that both
  orders give one sum, `TaxableSum` that the taxable amounts are the exclusive
  total; each tax is off by at most half a cent (`TaxIsClose`); with these every
  rule finds nothing (`AddsIsAccepted`).

Both rest on a small theory of sums (`SumDefined` to `SumByGroup`): the fold of
the community modules obeys its recursion and does not depend on the order it
takes elements in. The prover cannot use the library's induction theorems, so
these proofs look at the least set, by cardinality, for which the claim would
fail (`LeastSet`). Assumption: `InvoiceChoices`, what the data classes of
`models.py` accept - amounts are numbers or unset, a taxed category has a rate and
the others have none, an author's entry has a reason exactly where its category
needs one.

*All clients together.* `MCClients` is nine specifications in one. `EachAsAlone`
proves that each behaves there as it does by itself, whichever is active, so every
theorem about one of them is a theorem about the specification that TLC runs:
`ClientTypes` is its `TypeOK`, `ClientsKeepTheirWord` the other twenty properties.
The constants may be any that satisfy the ASSUMEs of the nine modules.

Only model-checked: `EveryRequestEnds`, as liveness under fairness is beyond the
prover. Every invariant and every other action property of a passing run is a
theorem. What ANAF, the portal, the OS keyring, curl and PyJWT do is assumed as
modelled.

## Not modelled, and the plan

`PROJECT.json` lists every component with its status. Most lines of the package
are generated bindings (the UBL, e-Transport and BNR schemas, the code lists):
data classes without behaviour, of which nothing can be checked but that they are
what the generator wrote. Of the rest, these are left out:

- e-Transport: the client makes single requests and keeps nothing; the validity
  window and the conditional field rules are stateless functions of one
  document; the transport card is layout.
- The invoice rules on parties, references and texts, the categories B and O
  (which exclude others), a second currency for the VAT.
- The reading of the portal's result page, of the SPV status page and of the
  DUK verdict (`duk.py`): grammars of pages and files that others write.
- The payment number and its check digits: text arithmetic on one input.
- Signing: what a signing call that was abandoned does is up to the operating
  system's key store; the signature's bytes are I/O.
- Certificate enumeration, the CLI's and the server's wording, configuration,
  prompts and reference texts.

Hazards in `PROJECT.json` without a property say why.
