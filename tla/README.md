# TLA+ verification of the SafePrompt Agent

The SafePrompt Agent is a Rust workspace that stands between people (or tools)
and AI services on one machine. It scans what is sent and what comes back
against a live policy, and allows, warns about, redacts or blocks it. This
directory models its concurrent and stateful core in TLA+, checks small
instances with TLC, and proves the main safety properties with TLAPS for every
value of the parameters. Paths in this file are relative to `src/`.

## 1. Inventory

| Component | State | Operations | Hard behaviour |
|---|---|---|---|
| **Live policy store** (`crates/inspector`, `crates/policy`, `crates/local_api/src/console.html`) | `policy` and `provenance`, two `RwLock`s; each console tab's copy of the policy | console Apply / Pause / Resume (GET, change, POST the whole document), `apply_local_policy_edit`, `apply_synced_policy`, `inspect` under the read lock | two locks taken in different patterns, stale copies in tabs, pause that must end |
| **Streaming scan** (`crates/proxy`, `scan_streaming_response`) | buffer, held-back tail, upstream state | chunk, flush, redact, block, end, error | cut positions depend on chunking; policy changes mid-stream; buffer arithmetic |
| **Request gate** (`crates/local_api`) | nonce cache, fixed-window budget, clocks | `request_authorized`, `verify_signed_request`, `NonceCache::check_and_record`, `RateLimiter::allow` | racing handlers, late and repeated delivery, two clocks, window boundaries |
| **Watchdog** (`apps/watchdog`, `crates/updater`, `crates/integrity`) | child, `service_running`, stored notification, shutdown channel, binary and manifest on disk, `status.json` | verify, spawn, `select!`, kill, sleep; check / download / apply update; write status | three tasks, crash, reboot, check-then-use of a file, everything eventually |
| **Restart limiter** (`apps/watchdog`) | queue of restart instants | `record_and_next_delay` | instants that underflow after boot, off-by-one at the limit |
| **Audit log** (`crates/storage`, `apps/service`) | `audit_events` table, secret file, secret in memory, retention loop, relay | provision or read the secret, open, save, query, purge, enforce the cap, fetch unsynced, mark synced | crash between steps, stale counts, half-marked batches, lost answers, undecryptable rows |
| **Local API handlers** (`crates/local_api`) | heartbeat file, per-request verdict, the console's page of the history | inspect text, answers and files, second opinion of a language model, heartbeat, history | read-modify-write of a JSON file; several policy reads in one verdict; hang-ups; pages over a table that moves |
| **Inspection** (`crates/inspector`, `pii`, `secrets`, `prompt`, `guardrails`, `response`) | none (pure) | detectors, keyword scan, masking of text and JSON | overlapping findings, offsets into another text, what masking leaves behind |
| **Policy, risk and rules** (`crates/policy`, `crates/risk`, `crates/rules`, `crates/common`) | none (pure) | `evaluate`, `evaluate_with_context`, `score`, `active_findings` | precedence of actions, overrides, wrap-around, what a switched-off category still does |
| **Reverse proxy and MCP firewall** (`crates/proxy`, `crates/mcp_api`, `crates/providers_api`) | per-request stage, verdicts, audit sinks | scan request (plain, multipart), route, forward, scan or stream the response, audit, decide tool calls | policy changes between awaits, hang-ups, early returns that skip a scan or an event |
| **CONNECT proxy** (`crates/connect_proxy`) | tunnels, buffered bytes of both sides | sniff the host, intercept or relay, chained proxy, HTTP/1 framing, scan, refuse | framing of kept-alive tunnels, half-closed connections, clamped lengths |
| **File inspection** (`crates/file_inspector`, `crates/ocr`) | none | choose an extractor, read pages, fall back to OCR | name and signature disagree; what is left unread |
| **Service start-up, configuration, licensing** (`apps/service`, `crates/config`, `crates/licensing`, `crates/connect_proxy/src/ca*`) | files on disk, environment, clock, what the process has in memory | integrity, licence, configuration, CA key and certificate, listeners; the poll | crashes between two writes, files read while written, clock boundaries, restart loops |
| **Browser extension** (`browser-extension`) | pending verdicts, bypass flag, composer, registered sites | intercept a submit, fetch or XHR, ask, mask, resubmit; sync dynamic sites | time limits racing late verdicts, overlapping submits and syncs, worker stops |
| Metrics, logging, telemetry, cloud stubs, tray menus, platform stubs | – | – | user interface and pass-through |

How they interact. The service process wires one `Inspector` (policy store)
into the proxy, the CONNECT proxy and the local API; all of them call `inspect`
under the policy read lock and hand the resulting event to the audit storage.
The console edits the policy through the local API; a sync task outside this
repository calls `apply_synced_policy`, and a relay outside it calls
`unsynced_events` and `mark_synced`. The watchdog is a separate process that
starts the service, replaces its binary, and tells the tray through
`status.json`. The extension asks the local API, and the CONNECT proxy hands
what it intercepts to the same scan as the reverse proxy.

The modules are linked in two ways. *Shared definitions*: `PolicyEngine` and
`Verdicts` are what every enforcement point judges with (`ProxyPipeline`,
`LocalApi`, `ConnectTunnel`, `Extension`), `FileInspector` serves `LocalApi`,
`Detectors` serves `Inspection`, `Http1` serves `ConnectTunnel`, `Licensing`
serves `Service`. *Environments*: `ChangePolicy` of these modules is what
PolicyStore's writes look like to somebody who scans, Watchdog's `Wake` is the
end of the delay that RestartLimiter computes, Service's `Start` is what the
watchdog does, and the null answers of Extension are RequestGate's refusals.

What makes each component right:

* policy store: a verdict uses one policy, no older than what has been
  answered; edits neither overlap nor block for ever; provenance tells the
  truth; a pause ends;
* streaming scan: nothing is lost, reordered or delivered after containment;
  a secret is judged whole; the stream ends;
* request gate: a signed request is not accepted again and again; the budget
  holds under races;
* watchdog: one service beside those it let go of, only the pinned one, and it comes back, is
  updated, stops, and is reported truthfully;
* restart limiter: backs off exactly when the service restarts too often;
* audit log: marked events were accepted; stored events can be read; retention
  deletes what it must and nothing more; saved events are relayed;
* inspection and policy engine: the verdict is the worst that was asked for and
  findings appended to others never make it milder; masking removes what was found, and only it;
* proxy, local API, CONNECT proxy, extension: nothing the policy guards crosses
  unjudged, against its verdict, or without a record or notice; messages stay
  whole and in step; everybody gets an answer;
* service: the root devices trust stays, the licence and the configuration mean
  what they say, and it stays down only for a reason somebody can see.

## 2. Modules and how they correspond to the code

`PROJECT.json` maps every definition to its lines. Data is abstract (a secret
is a span of positions, a binary its version, a row its key); control is kept.
A definition whose comment begins with *Mutant* is a plausible mistake in the
definition after it; no run uses it, and TLC refutes a property when it is put
in that definition's place.

**PolicyStore** – one action per statement that takes a lock. A console edit
(`EditLock`, `EditWritePolicy`, `EditWriteProvenance`) holds the provenance
lock across both writes; the sync (`SyncReadProvenance`, `SyncWritePolicy`,
`SyncWriteProvenance`) takes each lock for one statement; a request holds the
read lock from `InspectStart` to `InspectFinish`, or is answered at once while
paused. A click (`ApplyForm`, `SetPause`, `ResumeProtection`) takes the copy it
will post; `SetPause` picks any of the buttons' lengths, `ApplyJson` posts what
was typed in the raw JSON editor, any end of a pause included, which the Agent
stores as it is. `chosen` and `latest` record the ends somebody chose. Central
documents carry no pause. History variables `crossed` and `raced` mark the two windows between the
sync's locks, `provOf` the write provenance describes, `returned`/`floor` what
had been answered when a scan began.

**StreamScan** – one action per result of `upstream.next()` (`Chunk`,
`UpstreamEnd`, `UpstreamError`, and `Finish` for the poll after the end), each
with the whole rest of the loop iteration: `flush_len`, scan, enforcement,
redaction. `Replaced` is `apply_redactions`: findings are replaced one after
the other, so those replaced never overlap and one that overlaps them keeps the
rest of its text; the order is the detectors' and left open. Each window is
decoded on its own by `from_utf8_lossy`, which turns a character divided by a
cut into U+FFFD when the window is redacted; positions do not show that.
`ClientGone` drops the stream; `ChangePolicy` is a policy write
between two scans.

**RequestGate** – `Receive` (Origin, signature, timestamp), `CheckAndRecord`
(under the nonce mutex), `Allow` (under the budget mutex), `Answer`; any worker
may receive any request that was ever signed, at any time and repeatedly.
`now` is the monotonic clock of cache and budget, `wall` the one timestamps are
compared with; `SetClock` moves only the latter. `signed` says whether a shared
secret is configured.

**Watchdog** – the supervision loop (`VerifyOk` … `Wake`, one action per branch
of the loop and of `select!`), the update task (`CheckForUpdate` …
`ApplyUpdate`, `UpdateFails`), the status writer, and their environment:
crashes, stop requests, releases, a swapped file, a reboot, the death and
restart of the watchdog itself. `update_ready` is Tokio's `Notify`: one stored
permit. The child is not `kill_on_drop`: `WaitFails` and `ExitWithoutKill` are
the branches where `wait` (and `kill`) return an error and the loop goes on with
the child possibly alive, `WatchdogDies` leaves it behind as well; `orphans`
counts services nobody waits for, `lost` how often one was left since boot. `gap` records that the file changed
between `verify_service_binary_before_spawn` and `spawn`.

**RestartLimiter** – `record_and_next_delay` in discrete time with the
`checked_sub(window).unwrap_or(now)` fallback: `Floor` is the earliest instant
the platform can represent.

**AuditLog** – every SQL statement is one action; provisioning the secret is
three (`BootProvision`, `ProvisionCreate`, `ProvisionWrite`) so that a crash
can fall between them. `Restart` loses memory and keeps files and table. The
relay is external: its order (fetch, upload, mark) is inferred from the storage
calls and their comments.

**PolicyEngine, Verdicts** – the shared judgement. `PolicyEngine` has actions,
default policies, risk `score` (32-bit products wrap at `U32Max`), rule
conditions as syntax trees in post-order, `evaluate_with_context`,
`category_action`, `active_findings`. `Verdicts` is `Inspector::inspect` as its
callers see it: a text is the set of categories found in it, and `Guarded(p, c)`
says that policy `p` lets category `c` through neither as it is nor at all.

**Detectors, Inspection** – one level below: a text is a sequence of atoms, a
pattern a sequence of atom classes with boundaries, gates and a replacement;
`to_lowercase` may lengthen or shorten a text (`Shifts`), and the keyword scan,
which cuts the original at offsets of the lower-cased text, then panics when it
runs past the end, and may panic when an offset lies inside a character
(`keyword_scan_may_panic`: the model keeps both outcomes, as bytes are below
it); a body is plain or JSON with leaves. An action of `Inspection` is one call
(`inspect`, `inspect_response`) on one body under one policy and context, or the
panic of the keyword scan.

**Filtering** – `Iterator::filter` as a recursive function on sequences, for
the detectors' positions, `active_findings` and the history's query. The
library's `SelectSeq` has no definition that TLAPS can reason from.

**Gatekeeper, ProxyPipeline** – `Gatekeeper` is the abstract specification:
items are held, get one verdict, and are then released or refused as the
verdict says. `ProxyPipeline` has one action per stage between two awaits
(`ScanBody`, `ScanField`, `Save`, `Send`, `Upstream…`, `Deliver`, the MCP
stages) with `HangUp` at each of them, and implements `Gatekeeper` twice, by
`INSTANCE … WITH`: for what leaves (`PromptsGated`) and for what comes back
(`AnswersGated`). The firewall engine is behind a trait: a constant.

**FileInspector, LocalApi** – a file has a name, a signature, a format, a text
layer, pages, and what its bytes show when they are taken for text (`raw`). `LocalApi` has one action per await of `inspect_file_request`
and `inspect`, the heartbeat as read, truncate, write, and a console that pages
through `ui_audit_recent`.

**Http1, ConnectTunnel** – a connection is a sequence of tokens (start, length,
chunk marks, data units, blank lines); the headers of a message that matter, its
length and `chunked`, are a set. `read_message` and `write_message` are
operators on it. What the clamp of a body over the limit leaves unread is read
as the lines of the next head: `start_line` keeps those units as its `spill`, a
unit that ends in an empty line (`break`) ends that head, and bytes that are no
text fail the read (`Legible`). `ConnectTunnel` is `handle_connection`, the
relay and the loop of `intercept_and_scan`, with both peers sending and closing
at will. A unit is a plain field, a file of a type or a piece of text; the
policy reads of one multipart scan (one per file, one for the text) are one
step, `ScanRequest`, while a policy may change between any two steps.

**Licensing, Service** – `verify` and `grace_status` read a clock that moves
between them. `Service` is `main()`: one action per step that touches a file,
with crashes, editors, administrators and port thieves between; then the poll.
A write that fails (`disk.failing`), an address that does not parse
(`env.misset`) and a listener that cannot come up (`taken`: its port is in use
or its TLS files do not load) end the process, as every `?` of `main` does.

**Extension** – a page is one thread, so an action is what runs between two
awaits: of a submission (`Press`, `ResumeSubmit`, `Resubmit`), of a request
(`PageSends`, `ResumeSend`), of its answer (`SiteReplies`, `ResumeReply`). A
question is in `mail` until the Agent, a failure or nobody answers; `Timeout`
may fire at any time. A body is asked about as a text, as one file or file by
file (`ByFile`, `Packed`, `Unseen`), and a masked file takes the place of all
entries of its key (`gone`). Two calls of `syncDynamicSites` run statement by
statement in a worker that may be stopped. Reading a file's bytes is one step
with the question about it.

Each `MC…` module defines the instances the configurations use; each
`…Proofs` module holds the theorems of one part of the system: PolicyStoreProofs
also those about Inspection, ServiceProofs those about AuditLog, LocalApiProofs those about RequestGate,
ProxyPipelineProofs those about StreamScan, WatchdogProofs those about
RestartLimiter.

## 3. Runs

Each run checks a few conjunctions of named parts, the first of them with the
module's `TypeOK`; the comment on each part says what it is about, and each
part has a mutant in the module that TLC refutes it with.

| Run | Shows | Bounds, and why they are enough |
|---|---|---|
| `PolicyStore` | `VerdictsFollowPolicy` (`EditsExclusive`, `ReadsAreFresh`, `OnePolicyPerVerdict`), `ProvenanceHonest` (`ProvenanceExact`, `OverwriteWarned`: precisely when provenance and the warning are wrong), `PauseExpires`, `EditsComplete` | 2 tabs, 1 request, 2 posts, 1 synced document, clock 0..1, pauses of 1 and 2 ticks and a typed end of 4 (a short pause after a longer one, in either tab): two edits and a sync are the fewest that can overlap pairwise on both locks with a reader in between; safety is proved without bounds |
| `StreamScan` | `CutsExact` (`HoldsBackTail`, `DeliveredIsPrefix`, `TailJudgedWhole`), `ContainedNeverLeaks`, `StreamTerminates` | bodies up to 6 bytes, hold-back 2, every pair of secrets (overlapping ones included, one of them perhaps without a replacement), every chunking: three windows of the hold-back's length, so a secret can lie before, across, after and over a cut |
| `RequestGate` | `BurstBounded`, `ReplaysAreSpaced` | 2 workers, 2 nonces, window 2, budget 1, skew 1, one clock change, clock 0..4: two full windows, with a race at every boundary |
| `Watchdog` | `OnePinnedService` (`OneChild`: one service, and one more for each that was let go of; `FlagFollowsLoop`, `RunsPinnedUnlessReplaced`), `SupervisionLive` (`ServiceRecovers`, `UpdatePickedUp`, `ShutdownHonoured`), `StatusConverges` | 3 versions (an update on top of an update), 1 swap, 1 reboot, 1 child left running since boot, any number of deaths and restarts of the watchdog, with and without manifest |
| `RestartLimiter` | `LimiterSound` (`LimitExact`, `NoFalseBackoff`, `RestartRateBounded`) | limit 2, window 6, delays 1/3/2 (the backoff half a window, as in the code), 18 ticks from boot: three windows, the first of them inside the underflow |
| `AuditLog` | `ProvisionedRowsReadable`, `NothingDeletedEarly`, `RetentionEnforced`, `EventuallyRelayed` | 1 agent, 2 events, cap 1, 2 generated secrets and one operator's: one row over the cap, a batch that can be half marked, and a secret that could be lost and generated anew |
| `Inspection` | `VerdictSound` (`VerdictIsWorst`, `MoreFindingsNeverMilder`, `HistoryAloneNeverHigh`, `FootprintOnlyThroughRules`), `MaskingExact` (`KeywordCutExact`, `OnlyFindingsMasked`, `SnippetsGone`, `MaskedOrExplained`) | 62 000 states: every kind of gate, boundary and replacement, pairs of overlapping findings, repeated values, JSON with numbers, texts that lower-casing lengthens or shortens, policies with and without rules, counters up to the wrap-around (`U32Max` 255 keeps the boundary and shrinks the numbers) |
| `ProxyPipeline` | `PromptsGated`, `AnswersGated` (refinements), `RecordExact` (`CrossedIsOnRecord`, `RecordTellsOutcome`), `GuardedOnlyInExemptParts`, `HandlerAnswers` | 758 000 states: a chat request and a tool call side by side, one policy change at any await, every outcome of the upstream, each sink present or absent. Requests share only policy and sinks, so two show every interference |
| `LocalApi` | `GuardedNeverEscapes` (`GuardedStaysIn`, `PicturesAreRead`, `MaskedFilesArePlain`, `VerifierSeesNoGuarded`), `HistoryComplete` (`AnswersAreOnRecord`, `PagesMissNothing`), `LoneBeatLands` | 639 000 states: two scans and two policy changes, files of every format under right and wrong names, a document under the name of a text among them; three heartbeats (a lone one beside two that overlap) from an absent, torn or old file; pages of 1 and 2 rows over 3 to 5 events |
| `Service` | `TrustKept` (`RootStable`, `PublishedRootIsServed`), `LicenceHonoured` (`LicensedWhenStarted`, `BorrowedTimeIsAnnounced`), `ConfigurationAccounted` (`RetentionIsChosen`, `DriftIsWarned`), `ReloadConverges`, `StaysDownOnlyForCause` | 506 000 states: 2 crashes, 2 changes of the surroundings, days 0..3 with licences that expire, are in grace and run out of lease inside them; scenarios for the CA with writes that fail, the licence, the configuration, the bind addresses, the ports and TLS files |
| `ConnectTunnel` | `MessagesStayWhole` (`AnswersStayPaired`, `RequestsStayWhole`, `WrittenReadsBack`, `RelayedUntouched`), `GuardedStaysInTunnel`, `RequestsGetAnswers` | 425 000 states: scripts of up to 2 requests of every framing (length, chunked, none, cut, longer than the limit of 2 units with what is over readable, unreadable or ending in an empty line), forms with fields and inspected, exempt, blocked, unreadable files and a malformed part, one policy change, listed and unlisted hosts, direct and chained |
| `Extension` | `GuardedCrossesOpenly` (`GuardedLeavesOpenly`, `GuardedAnswersAreWithheld`), `NoMoreMessagesThanSubmits`, `RequestsSettle`, `ListedSitesStayCovered`, `SitesConverge` | 275 000 states: two submissions with two edits between them and every fate of the click; one request of every form by every way that treats it differently (files of one key, a `Request`'s text, compressed JSON by XHR), or two at once, with late, null and missing answers; two syncs, one edit of the list, one refusal, failure or stop |

Deadlock checking is off where the system really may stop: a stream that has
ended, a watchdog told to exit, a clock or a script at its end.

### Disagreements

TLC refutes each of these definitions when it takes the place of the module's
properties in the module's own configuration. Each states a sentence of the
repository that the code does not keep; a property of the run states what holds
instead.

| Definition | The sentence | What the counterexample shows |
|---|---|---|
| `PolicyStore!ProvenanceDescribesPolicy` | provenance is "Always updated together with `policy` (never written to independently)" (`crates/inspector/src/lib.rs:127`) | an edit between the sync's two writes stays in force under central provenance; `ProvenanceExact` has the boundary |
| `PolicyStore!ScansLetWritesPass` | "the lock is held only for the duration of one evaluate, not per-request" (`crates/inspector/src/lib.rs:275`), so a write need not wait for a scan, and a call in flight that has not reached `evaluate` uses the new policy | `inspect` takes the read guard before its detectors run and keeps it past `evaluate` to `active_findings` (`crates/inspector/src/lib.rs:427-438`): a write waits for the whole scan; `VerdictsFollowPolicy` |
| `PolicyStore!LatestChoiceHolds` | "resuming must bring back real detection, not leave it paused" (`crates/local_api/src/lib.rs:2362`) | the other tab's Apply posts its older copy, and the pause that was resumed or shortened is back at its older, longer end; `PauseExpires` |
| `StreamScan!ShortMatchJudgedWhole` | "a match split across two upstream chunks still lands inside one scan window" (`crates/proxy/src/lib.rs:34`) | the flush boundary itself divides a secret shorter than `HOLD_BACK_BYTES`; `TailJudgedWhole` is what remains |
| `StreamScan!RedactedLeaveNothing` | "Applies every finding's `redacted_replacement` to `text`" (`crates/common/src/lib.rs:179`) | of two overlapping findings the one replaced first takes the other's snippet apart, which is then not found; `ContainedNeverLeaks` says what is left at most |
| `RequestGate!AcceptedOnce` | the window is also "how long a nonce is remembered to block a verbatim replay within that window" (`crates/local_api/src/lib.rs:469`) | cache entries live while `age < 60 s`, timestamps pass while `age <= 60 s`: at exactly one window a request is accepted twice; `ReplaysAreSpaced` |
| `Watchdog!UpdateSurvivesManifest` | the notification makes the loop "restart the child and pick up the new binary" (`apps/watchdog/src/main.rs:219`) | `apply_update` does not touch the integrity manifest, so with a manifest an update is refused at every later spawn; `RunsPinnedUnlessReplaced` |
| `AuditLog!RetentionSurvivesRestarts` | the purge loop runs "so the database doesn't grow forever" (`apps/service/src/main.rs:590`) | the loop sleeps 24 hours of uptime before its first purge; restarted within that time it never purges; `RetentionEnforced` |
| `AuditLog!RowsReadable` | an operator "explicitly owns and can rotate this secret" (`apps/service/src/main.rs:610`) | after a rotation of the secret one old row makes every query fail; `ProvisionedRowsReadable` |
| `Inspection!MrzMaskedWhole` | "Masks the *entire* two-line block" (`crates/pii/src/lib.rs:500`) | a value of the same lines found earlier (a name, a number) is replaced first, and the block is then not found as a whole; `MaskedOrExplained` |
| `Inspection!DisabledNeverEvaluated` | "a disabled category's findings are filtered out before `PolicyEngine::evaluate` ever sees them" (`crates/policy/src/lib.rs:115`) | `inspect` evaluates all findings and filters afterwards (`crates/inspector/src/lib.rs:432-438`): a category that is off still raises the risk score and makes rules match; `FootprintOnlyThroughRules` |
| `LocalApi!HistoryNewestFirst` | "Newest-first (query_events returns oldest-first)" (`crates/local_api/src/lib.rs:1262`) | `query_events` already returns "most recent first" (`crates/storage/src/lib.rs:266`); reversed once more, the first page shows the oldest |
| `LocalApi!MaskedFilesAreText` | for the redactable extensions, what `extract_text` returns is "a lossless read, not a structural extraction" (`crates/local_api/src/lib.rs:884`), and a spoofed extension "just fails to parse and comes back `Unsupported`" (`crates/file_inspector/src/lib.rs:90`) | bytes of any format under the name of a text are read by `from_utf8_lossy`; if what they show is masked, the document is replaced by it; `MaskedFilesArePlain` says which bytes may be replaced, and by what |
| `LocalApi!VerifierNeverSeesFindings` | the verifier "never gets a chance to see whatever text local detection redacted/blocked" (`crates/local_api/src/lib.rs:645`) | with `unmaskable_file_action` Allow, Redact on a file that cannot be masked becomes Allow before the verifier is asked (`crates/local_api/src/lib.rs:858-876`), and the text goes to it whole; `VerifierSeesNoGuarded` has this as its one exception |
| `Service!EnvironmentWins` | every field of the file "can still be overridden by its historical `SAFEPROMPT_*` env var" (`crates/config/src/lib.rs:30`) | the override is applied at the start only (`apps/service/src/main.rs:175-187`); when the file's retention changes, `spawn_hot_reload` stores it over the environment's; `RetentionIsChosen` and `ReloadConverges` accept either |
| `ConnectTunnel!ReframedAsLength` | "always re-framing as Content-Length on write, so the writer side never needs to emit chunked at all" (`crates/connect_proxy/src/http1.rs:3`) | `write_message` replaces the length and keeps `Transfer-Encoding: chunked`; a chunked message goes on with a header its body does not follow |
| `ConnectTunnel!BodiesAreFullyBuffered` | "a proxy is free to re-frame between the two as long as it fully buffers, which we already do for scanning" (`crates/connect_proxy/src/http1.rs:4`) | a Content-Length over the limit is clamped to it (`crates/connect_proxy/src/http1.rs:86`); the rest of the body is read as the next start line and headers and forwarded as such, unscanned. `GuardedStaysInTunnel` excludes it for bodies within the limit |
| `ConnectTunnel!CutMessagesAreErrors` | "A connection that closes mid-message still surfaces as an `Err`" (`crates/connect_proxy/src/http1.rs:34`) | `read_line` at the end of the connection returns an empty line, which ends the headers: a request cut off inside them is forwarded as a whole one without a body; `RequestsStayWhole` allows just this |
| `ConnectTunnel!RelayLosesNothing` | "everything else is an opaque byte relay" (`crates/connect_proxy/src/server.rs:4`) | `connect_via_upstream_proxy` gives up its reader with `into_inner` (`crates/connect_proxy/src/server.rs:149`) and loses what came right behind the other proxy's answer; `RelayedUntouched` allows no other loss |
| `Extension!OtherEntriesAreUntouched` | a masked file "replaces just this entry -- other clean files/fields are untouched" (`browser-extension/src/main-world-interceptor.js:344`) | `FormData.set` puts it in the place of every entry of its key: a clean file picked in the same field leaves the form unsent and unannounced; `GuardedLeavesOpenly` is about the entries that are sent |

Other observations the models make visible, without a property of their own:

* while the integrity check or the spawn keeps failing, the loop never polls
  the shutdown channel; `ShutdownHonoured` and `ServiceRecovers` are therefore
  stated for an Agent without a manifest;
* the update task replaces the binary of a running child and notifies
  afterwards (`crates/updater/src/lib.rs:11` describes the opposite order);
* an error of `child.wait()` is taken for the child's end
  (`apps/watchdog/src/main.rs:433`), and a watchdog that dies leaves its child
  running: the next spawn then starts a second service beside it (`OneChild`
  counts these cases), which nothing stops but its own end or a reboot;
* the last `status.json` of a stopped watchdog may say *protected* for ever;
* a finding inserted before a severer one of its category lowers the risk score,
  since `repeat_decay` counts in scan order (`crates/risk/src/lib.rs:229-235`);
  `MoreFindingsNeverMilder` is about findings appended;
* during the first window after boot on a platform whose clock starts there,
  `unwrap_or(now)` empties the history and a crash loop is not slowed;
* Pause and Resume post a whole policy fetched earlier, so they undo an edit
  another tab makes in between; the local version counter continues from the
  central version;
* a request refused with 429 has used its nonce, and is refused with 403 if it
  is sent again as it was;
* with several Agents on one Postgres server, each enforcing the cap deletes
  the excess it counted, and rows of another Agent's provisioned secret make
  queries fail; the run and `RowsStayReadable` are about one Agent per table;
* a crash between creating and filling the audit secret leaves an empty file,
  after which the Agent runs without persistence until somebody removes it; the
  CA key has the same window, for a crash and for a write that fails, and then
  keeps the service down; a root certificate that cannot be written keeps it
  down too, the local proxy included, which does not need it;
* two heartbeats that overlap lose one entry or leave a torn file until the
  next one;
* a policy rule for `.jpeg` or `.tiff` files is passed by, since the sniffed
  type is `jpg` or `tif`; a word split over two runs of a `.docx` is not seen,
  nor pages after the limit;
* the provider path of the proxy reads its upstream without a limit, and no
  upstream has a time limit, nor has a sink of the audit trail
  (`crates/proxy/src/lib.rs:203-209`, `255-262`): `HandlerAnswers` ends at the
  wait for either;
* two service processes on one data directory may each write a CA key;
* in the extension, a list refused with 403 or 429 counts as an empty one and
  takes every dynamic site away (`background.js:210`; only an unreachable Agent
  leaves them alone, hence the exception in `ListedSitesStayCovered`);
* setText replaces what the user typed during the scan; a second Enter during
  the scan of a message that is then masked inserts and sends it again; the
  toast says *redacted* also if the composer could not be changed;
* a file judged Warn or Audit is sent without a toast, and of several toasts
  about one form only the last is shown;
* compressed JSON in an XHR is asked about as `upload.bin`, in which the Agent
  finds nothing (`browser-extension/src/main-world-interceptor.js:1084`);
* text fields of a form, JSON in a `Request` object, compressed telemetry,
  nested fields beside a top-level one, and the answers to all but text and
  form requests are not scanned in the page (`Looked` names what is).

## 4. Fairness

* PolicyStore: handlers, the sync's statements and scans that have begun go on
  (weak); the policy write lock is not starved by readers (strong), as
  `std::sync::RwLock` queues new readers behind a waiting writer. Users, the
  clock and the arrival of documents owe nothing.
* StreamScan: only the poll after the upstream's end (weak). The upstream may
  stay silent for ever.
* Watchdog: each step of the loop (weak); `select!` polls its ready branches in
  random order, so a branch that is ready again and again is taken (strong);
  spawning does not fail for ever (strong). Crashes, failing waits, deaths and
  restarts of the watchdog, releases, requests: none; the properties end at the
  watchdog's death (`Dead`).
* AuditLog: time passes (strong) and ready tasks run; the database, the network
  and the disk do not fail for ever (strong on the statements that may fail);
  nobody has to restart or save. `RetentionEnforced` and `EventuallyRelayed`
  assume, in the formula, that the Agent eventually stays up and persisting.

* ProxyPipeline: the handler is scheduled (weak, on its own steps). The
  upstream, the client and the configured sinks owe nothing: `persist_event`
  awaits the database (perhaps on another machine) and the SIEM before the
  answer, and nothing in the code bounds these waits.
* Service: a process that is down is started again (the watchdog), its start
  goes on, and the poll ticks (weak each). Crashes are bounded, editors, clocks
  and ports owe nothing.
* ConnectTunnel: the proxy's steps, and an upstream that eventually closes or
  answers (weak): it has no time limit either. The client owes nothing.
* Extension: the page's event loop runs something that is ready, timers
  included, and the alarm comes again (weak, one condition each). The Agent,
  the site and the user owe nothing.

RequestGate, RestartLimiter, Inspection and LocalApi state safety only.

## 5. Proofs

All theorems hold for every value of the constants under the `ASSUME`s of the
modules. What these assume: bounds are naturals, windows, delays and limits are
positive; backing off is not quicker than the ordinary delay
(`DelayAssumption`: 30 s and 1 s in the code); an operator's secret is not one
of the numbers that stand for generated ones; the actions of a policy are among
the six of the enum (`WellTyped`, cited by `PoliciesAssumption` and
`WorkloadsAssumption`); requests, answers, files and licences of the scenarios
are of the types the code parses them into; a blank page holds no text, a
plain text shows what is in it, and bytes that parse as a picture or a PDF do
not begin with the other's signature (`FileAssumption`); a request without framing has no body and a body is a
sequence of units (`ScriptsAssumption`, `RepliesAssumption`); the vocabulary is
closed under lower-casing and JSON escapes, a regular expression matches no
empty text, and only the keyword scan reports custom keywords
(`VocabularyAssumption`, `RegexAssumption`, `ScannerAssumption`); the console
asks for at least one row. TLC evaluates each of them in a run.

Names such as `GateInit`, `LimiterInit`, `StreamInit` and `AuditInit` are
prefixed because one module proves about two components of one process.

* **VerdictsProofs** has the lemmas that the enforcement points share:
  `WorstIsWorst` (a CHOOSE over the order of actions), `InspectTypes`,
  `InspectGuards` (a guarded category is denied, or masked and no longer in the
  sanitized text) and `InspectNothing`; and what the proofs about data rest on.
  The library's induction theorems take an operator as a parameter, which no
  installed prover instantiates. `LeastElement` gets induction from
  well-foundedness of finite subsets instead, and `UpTo`, `AllBefore`,
  `Recursion` and `ByAppending` state it with the *set* of numbers or
  sequences that satisfy the claim: a recursive function then has its defining
  equation, and what holds of it can be shown element by element. `FilterType`,
  `FilterAppend`, `FilterElements`, `FilterConcat` say what `Filter` leaves.
* **PolicyStoreProofs.** `TypeCorrect`, `ProvenanceIsExact`,
  `OverwritesAreWarned`, `EditsAreExclusive`, `ReadsStayFresh`,
  `VerdictsUseOnePolicy`, `PausesExpire`. Exactness of provenance is not
  inductive: it needs which write is pending in each place between the locks –
  the owner of the provenance lock (`EditsExclusive`), what an edit or sync in
  its window has written, and what the store looks like once settled. Freshness
  needs that every returned write is at most the current one; that a pause in
  force was chosen needs it of every copy in every form and every request on
  its way.

  About Inspection, for any policy, vocabulary, body and risk context:
  `VerdictsAreSound`, `MaskingIsExact`. The invariant (`AnswerInv`) is short, an
  answer is the decision about the findings of its body and what is forwarded
  is `apply_redactions` of it; the work is in what the operators compute. *The
  verdict*: the score is a sum over the findings in order plus at most 40 for
  the context (`ScoreIsSum`), so it grows with every finding appended and stays below the
  High band without one; leaves of a rule's condition, and with them every node
  but `Not`, keep holding when findings are added (`NodeDepends`,
  `ConditionGrows`); the worst of a larger set is no milder (`WorstGrows`); and
  the active findings ask for what all findings ask for (`ActiveAsk`), so that
  only the matched rules can tell the two apart. *The masking*: `replace` is
  characterised by what becomes of the text from each position on
  (`ReplaceDefined`), and by induction from the end keeps every atom the snippet
  has not (`ReplaceKeeps`), makes no snippet stand that did not stand before
  unless the replacement has something of it (`ReplaceAddsNone`), keeps
  occurrences of another snippet whole and takes its own out
  (`ReplaceKeepsCovered`, `ReplaceTakesCovered`); `redact_string` repeats it
  finding by finding (`RedactKeeps`, `RedactRemoves`, `RedactTakesCovered`).
  That raw findings are pieces of the text comes from the detectors: `scan`
  yields what its patterns match (`ScanIsSequence`, `ScanWellFound`), and the
  keyword scan cuts exactly the keyword unless lower-casing has changed a length
  (`LowerUnshifted`, `KeywordPanics`, `KeywordWellFound`).
* **ProxyPipelineProofs.** `PromptsAreGated` and `AnswersAreGated`: the
  refinement `Spec => Out!Spec` and `Spec => In!Spec`. The step proof needs
  `StageInv`: at each stage, which verdicts exist, that they are actions of the
  policy engine, that nothing has been sent before its stage, and that a
  handler past its enforcement has a verdict that passes. Every action then is
  a Gatekeeper step for its own request and a stutter for the others.
  `CrossingsAreOnRecord`, `RecordsTellOutcome` and `RecordsAreExact` add
  `TrailInv`: what the sinks hold of a request at each stage, and that every
  event tells the verdict of its leg. `GuardedStaysExempt` adds `TextInv`: the
  fields of an upload scanned so far cover exactly the parts before the one in
  hand, and what is sent is what was scanned, with the exempt parts; some
  policy that was live judged each of them (`HandledInv`). `TypeCorrect` has
  that a request has a status exactly when its handler answered.
  About the streaming scan: `StreamTypeCorrect` (no negative buffer),
  `TailIsHeldBack`, `DeliveryIsPrefix`, `ContainedSecretsNeverLeak`,
  `TailIsJudgedWhole`, strengthened by: windows lie at or before `flushed`, so
  that a later window cannot deliver what an earlier one contained.
  `ReplacedOrOverlapped`: what a redaction leaves of a finding lies beside
  another one it overlaps, which was replaced whole.
* **LocalApiProofs.** About the gate: `GateTypeCorrect` (budget never
  overspent), `ReplaysStaySpaced` from `Remembered` (a nonce accepted less than
  a window ago is still in the cache), and `BurstsAreBounded`: in no span of
  one window, wherever it begins, are more than twice the budget admitted. That
  is not inductive; `BudgetInv` splits what was admitted at the start of the
  current window: the counter has counted all of the later part, and what of
  the earlier part can lie in a span that reaches the present is one budget at
  most. About the handlers: `HandlersKeepTheirPlace` (`HandlerInv`: at each
  await, which policies were live, what was found under one of them, and what
  of it is about to be shown), `TypeCorrect`, `NothingGuardedEscapes`;
  `LoneBeatsLand` from `BeatInv` (a heartbeat without company is the only one
  between its read and its write, and the file of the latest stays as it wrote
  it); `AnswersLeaveARecord` from `RecordInv`. `HistoryIsComplete` adds
  `PagingInv`: what matched when the tab was opened is the first K rows that
  match now, those up to the end of the page have been seen, and after the last
  page K lies behind it. Filtering a longer table lengthens the result at the
  newer end (`MatchingGrows`), and reversing twice is no reversal
  (`TwiceBackwards`), so pages keep their rows while events arrive.
* **WatchdogProofs.** `TypeCorrect`, `NeverTwoChildren`, `FlagIsExact`
  (mutually inductive: `LoopInv` has where the loop may be while its child is
  alive, and that every orphan was let go of), `PinnedUnlessReplaced`, strengthened by the same
  statement for the moment between check and spawn; together
  `AlwaysOnePinnedService`. About the limiter: `LimiterTypeCorrect`,
  `LimitIsExact`, `BackoffIsJustified` from `QueueInv` (what the queue contains
  relative to all restarts), and `CrashLoopIsBounded` from two more: when the
  service runs again the delay has passed since every recorded restart
  (`SpacingInv`), and the restarts after a cutoff reach as far as their number
  calls for, each but the first having waited for the delay due to the ones
  before it (`RateInv`). `LimiterIsSound` gathers them.
* **ServiceProofs.** `RootIsStable`, `PublishedIsServed` and `TrustIsKept`
  from `RootsInv`: while no key is on disk no device trusts one and no
  certificate there is meant to last; once one is, whatever persists, in
  memory, in the certificate file or in the devices' trust, carries that key;
  and past `write_cert` the certificate on disk is the process's own. `LicenceIsHonoured` from `LicenceInv` (what the
  start verified, on a clock that has moved on since), `ConfigurationIsAccounted`
  from `ConfigInv` (who stated the value that is held, also if reading failed
  since). All rest on `Shaped` and `DiskInv`, the types that survive a crash;
  `UpInv` has the listeners for `TypeCorrect`.
  About the audit trail: `AuditTypeCorrect` (with finiteness of the table),
  `MarkedWasAccepted` (strengthened by: a batch about to be marked was
  accepted), and for one Agent per table `RowsStayReadable` (strengthened by: a
  provisioned secret, in memory or behind a row, is the one in the file) and
  `RetentionIsMeasured`, the action property `NothingDeletedEarly`. The count,
  the selection and each DELETE are separate statements with saves and marks
  between them; `CapInv` carries what is left: after the count the table has
  `max_events` rows beside the excess, after the selection it has that many
  beside the victims, rows keep ids of their own.
* **ExtensionProofs.** `SitesStayCovered` from `SiteInv` (what a sync that was
  overtaken still knows of the list), `GuardedCrosses` from `TasksInv` (a task
  that has come to a part has a verdict of a live policy, or was opened for
  want of one, on every part before it, one that has left the form included;
  an answer in the mail reaches only the
  task it was asked for), and `SubmitsSendOnce` from `DebtInv`, an accounting:
  each press pays for one submission and one message, and an open submission
  has not spent its message yet. Every action has a lemma of its own.
* **ConnectTunnelProofs.** `TypeCorrect` and `AnswersArePaired` from `PairInv`,
  which counts answers and forwarded requests at each place of the loop.
  `GuardedIsContained` (`GuardedStaysInTunnel`) from `CleanInv`: the policy in
  force is one that may judge the message in hand, the verdict on a request is
  that of such a policy also if it changed before the dial, and one of them
  lets every part through that was written; `ForwardedIsClean` and
  `AnsweredIsClean` are the lemmas about text, forms and masked messages. That
  no head holds a part of a body follows from `WholeIsForwarded`.
  `UnlistedIsNeverRead`:
  a host that no policy lists is only relayed. `MessagesAreWhole` gathers four.
  *Written messages read back* (`SizeInv`): what `write_message` produces,
  `read_message` returns, header by header and unit by unit, for bodies within
  the limit (`WireReadsBack`). *Requests stay whole* (`WholeIsForwarded`): the
  script of a client makes one stream of tokens; `StreamInv` says where the
  tunnel is in it (`Position`: what has arrived is the stream up to b, what is
  unread lies between the last request read and b), `ReadsOneRequest` that a
  read takes exactly one request off, or its head alone when the client hung up
  inside it, and `SendsOne` that what is sent on is that request or its masked
  form. *Relayed bytes are untouched* (`RelayIsTransparent`): what has arrived
  is what was sent, and of the server's first words at most one is missing
  behind a chained proxy (`DownInv`). The pairing is `AnswersArePaired`.

Where a run checks a conjunction of parts, a last theorem gathers theirs.

Proving has corrected the models in two places. A CASE whose guards overlap is
not read from the top in TLA+, as a `match` is in Rust. The definitions that
were written so (`Delivered`, `band`, `verify`, `grace_status`,
`read_chunked_body`, `read_to_end`, `file_toast`, `questions`) are nested IFs
now. TLC had taken the first guard that holds, so no run changed. And a text
whose lower-case form is as long as itself may still have moved offsets, one
character growing while another shrinks: the failed proof of `KeywordCutExact`
led to `Shifts`, to the panic inside a character, and to texts of that kind in
the run.

Only model-checked:

* all liveness: `EditsComplete`, `StreamTerminates`, `SupervisionLive`,
  `StatusConverges`, `RetentionEnforced`, `EventuallyRelayed`, `HandlerAnswers`,
  `ReloadConverges`, `StaysDownOnlyForCause`, `RequestsGetAnswers`,
  `RequestsSettle`, `SitesConverge` (fairness and ENABLED are out of the
  prover's reach);
* the refutations of §3 (*Disagreements*), which are counterexamples;
* `NothingDeletedEarly` and `ProvisionedRowsReadable` with several Agents on one
  table are false, as §3 says.

## 6. Plan

Modelled: every component with state of its own; proved: every safety property
a run checks, invariants and action properties alike. Next:

1. For PolicyStore and AuditLog, abstract specifications of their own (one
   policy that is replaced at once; a table without statements in between),
   with the detailed modules shown to implement them as ProxyPipeline is.
2. The tray's own state, and the console's other pages.

## 7. Not modelled, and why

What a regular expression or a checksum accepts, the parsing of document
formats and the neural networks are constants: the models are about what is
done with their results. Cryptography and TLS are perfect: a signature is a
predicate, a key decrypts exactly its rows, a leaf certificate is served for
the host. Licences are issued elsewhere. The MCP firewall's engine and the
providers' translations are behind traits; their results are inputs. Export
formats, console rendering, toasts, the popup, tray menus, metrics, logging,
telemetry and cloud and platform stubs change no state a property could be
about. The sync, the relay and the control plane are not in the repository;
only their calls into it are modelled.
