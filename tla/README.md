# CCSM in TLA+

A verification project for the Claude Code Session Manager (Go, `src/`): TLA+
modules of the parts whose correctness depends on interleavings, failures and
restarts, TLC configurations that check them on small instances, and TLAPS
proofs of what matters most for every instance. Line numbers below are those of
the source files at the modelled commit.

## 1. The system

CCSM is a web server that drives interactive Claude Code sessions, each in a
tmux session of the host. Commands reach the **host executor**
(`internal/host/host.go`) in process (`internal/direct`) or through **ccsm-agent**
(`cmd/ccsm-agent`), an HTTP server on a Unix socket called by
`internal/agent`. The executor keeps no session registry: tmux, `/proc`, the
transcripts and `settings.json` are the state, and every request reads them
again. Requests are goroutines; nothing orders two of them except where a mutex is
named below.

| Component | State | Operations | Interacts with | What must hold |
|---|---|---|---|---|
| Settings staging and session lifecycle (`host.go` 559-996, 2194-2305, 4081-4168) | `settings.json` (global, truncated then written), tmux sessions, transcripts | claudeNew (with or without a profile), claudeResume, tmuxKill, sessionRc, claudeProfile with relaunch | Claude Code resolves its credentials from `settings.json` at its first turn; the Remote Control bridge exists only under the bootstrap profile | the profile last chosen comes back, on every path; RC steps run under the bootstrap profile; recovery does not lose sessions |
| Pane input (`host.go` 126, 3356-3783, 4172-4412) | a mutex per session *name* (`sendMu`); the TUI's readline and dialogs | sessionSend, sessionChoice, claudeRename, renameWhenIdle, sessionRc, checkStartup, tmuxRename | other requests, the phone and the user type into the same pane | lines of two requests never merge; a choice confirms the option asked for |
| Agent singleton (`ccsm-agent/main.go` 37-135) | the socket file | dial, remove, bind, listen | systemd restarts it; the web server dials the path | one agent serves, and it is the one the path names |
| Turn watcher and event hub (`watcher.go`, `events.go`) | per session: last message notified, idle streak, last dialog; a channel of 16 per browser | poll every 4 s: list, status (three looks at the pane), notify; subscribe, broadcast | reads the executor; the audit log broadcasts too | each turn and each dialog announced once, not before it is over |
| Login gate (`internal/auth`, `server.go` 278-466) | sessions, limiter per address, TOTP replay guard, each under a mutex | login, code, logout | reads the users under `cfgMu` | one code, one session; failures add up over both factors |
| Users and configuration (`server.go` 682-1352, `internal/config`) | live config under `cfgMu`, `config.yaml`, pending enrolments | users, enrolment, PATCH, write-back by temp file and rename, or in place over a mount | a restart loads the file | the file follows the live config; nobody is locked out |
| Voice prompt store (`internal/voice/prompt.go`) | `versions.json`, one file per version, the old scheme's files; **no lock** | load, save, save over, rename, activate, delete, migration by the first reader | the voice rewriter loads the prompt in force | list and files agree; nothing saved is lost |
| Permission-mode wheel (`host.go` 3040-3058, 3785-3977) | wheel per profile, under `modeMu`; the mode and footer of each TUI | discover the wheel, go to a mode, undo a failed walk | Shift+Tab into the pane under the send lock; `settings.json` names the profile | the mode reported is the mode reached; the wheel is cached whole; a request ends |
| Chat reconstruction (`host.go` 1802-1902, 2655-2914, `fts.go` 160-185, `ChatStream`) | none (a fold over transcript lines); the browser's last frame | merge queued messages, drains, snapshots; cap and number; history view, download, text for the search | the transcript is appended out of order | nothing twice, lost or swapped, in any view; numbers keep their meaning |
| Terminal size, redraw cooldown (`host.go` 4002-4063) | time of the last Ctrl+L per name, in the memory of the agent | resize, redraw | the send lock; agents come and go under it; `tmuxRename` | two Ctrl+L are never close enough to run /clear |
| Agent client and handler (`agent/client.go`, `ccsm-agent/main.go` 147-182) | none | dial, post, execute, answer | a call is abandoned after 35 s and goes on in the agent | executed by the agent the path names, at most once |
| Conversation catalogue (`host.go` 1533-1585, 1654-1800, 1919-2014, 4414-4455; `fts.go`) | the text cache of the search, under its mutex; one sidecar file per conversation | list, search, filter the archived and the alive, save a sidecar | transcripts are written by Claude Code and replaced by Syncthing; `ps` says which are alive | a cached search is true; what is alive is listed; a sidecar is what was last saved |
| Metrics, listings of profiles and projects (`host.go`) | none | read-only | | not modelled |
| Other handlers, streams, audit log, voice providers, web UI, CLI | none, or append-only | validation and forwarding | | not modelled (section 7) |

The hard behaviours: staged requests last tens of seconds and overlap; the file
write is not atomic; the agent and the server are killed and restarted; panes are
shared with people; state is read, waited upon and used; locks are per name and
names change; a status is several looks at a moving target; two files, or a file
and memory, are updated one after the other; keys are pressed blind, on what was
read off a screen; a log is read that is not in order; a cache is filed under what a
directory listing said, with what the file held later.

## 2. Modules

An action is a stretch of a handler between two points at which another
goroutine, the Claude process or a person can act; its control point is
`op[o].pc`. `MC*` modules add symmetry and the example data only. Operators
commented *Mutant* are faulty versions of the definition that follows; nothing in
the specifications uses them: they show that each property can fail.

**ProfileStaging** - `settings` is the content of `settings.json`: a catalog
profile, an edit, `Torn` (after `O_TRUNC`), or `Garbled` (two writes overlapped).
`Apply`/`EndWrite` are the two halves of `os.WriteFile` in `applyProfile`;
`Launch`, `Spawn`, `SpawnFails`, `WaitEnds` are `lanzarConStaging` around
`newSession`, `checkStartup` and `waitRCBridgeSettled`; `KillRead`/`Kill` are
`tmuxKill`; `ResCheck` `claudeResumeAs`; `RcSend`/`RcDecide` `sessionRc`;
`Switched`/`RelaunchNext` `claudeProfile` and `relaunchLiveSessions`. Claude Code
and the user are environment actions: turns (which fix a session's credentials),
dialogs, the bridge coming and going, exits, sessions started by hand.
Histories: `wanted` (the profile last chosen), `author` (why the file was last
written), `hurt` (a crash or failed write since the last choice); `clashed` and `landed` (who
writes at the moment and has been overlapped, and what was written last by a write that
overlapped none).
**ProfileRegister** is its abstract specification: a register that only a choice
changes. `Register` in ProfileStaging is the refinement mapping: while a request
stages, the profile in force is the one it owes.

**PaneInput** - panes with a readline, the pty's unread text, a dialog and its
cursor; requests type text, Enter, arrows, Escape, as separate steps, under
`lock[name]` or, as `sessionRc` (`ClearInput`, `NotBusy`) and `checkStartup`
(`Look`) do, without it. `Move` is `tmuxRename`. The phone answers dialogs and
starts turns. `pane[p].outside` remembers of the turn in progress whether it was started
without the lock. The lock is one per *name*: what is stated of a request is stated as
long as nobody renames its session, or gives its name to another (`KeepsName`).

**AgentSingleton** - the path names the socket of a process, alive or not; `Dial`,
`Remove`, `Bind`, `Listen` of several starting processes interleave with crashes
and restarts.

**AgentResize** EXTENDS AgentSingleton: the requests that the running agents execute,
for the one command whose safety depends on an agent's memory. `Reaches` is the
client's dial, `SessionResize` the handler up to its nudge, `Lock`, `Skip`, `Pass`,
`Store`, `Send` are `nudgeRedraw`, `TmuxRename` moves a session to another name, `Tick`
is a second. A request that waits for the lock may belong to a client long gone: nothing
tells. `Die` is `Crash` with what an agent takes along: its requests, its locks
and its cooldowns, which start from nothing in the next one.

**TurnWatcher** - `List`, `Forget`, the three looks of `sessionStatus`
(`LookWaiting`, `LookAssistant`, `LookWorking`) and `Watch`; the hub's
`Broadcast`, `Subscribe`, `Receive`, `Unsubscribe`; the sessions, transcripts and
dialogs as environment. What the watcher remembers is kept by name until a poll has
missed the name, and everything is forgotten when an error of tmux empties the listing
(`tmuxList`) or the server restarts; `Takes` notes, where a session opens or is renamed, that it
took a name still remembered (`looks.retaken`), and `LooksSound` says that this has not happened,
that no session was gone in the middle of a status, and that none was primed from a look
that missed its messages (`lastAssistant` gives none when it cannot read them).
`state[s].told` is the dialog announced last, while every sample has found its question open.

**Accounts** - login, code, enrolment, users, PATCH and write-back. Each critical
section (`cfgMu`, `enrollMu`, limiter, replay guard, session store) is an action;
`cfgMu` is held over the write-back, so `CfgFree` guards whoever takes it. The
write is `Replace`: a temporary file and its rename, or over a bind mount truncation
and then `Fill`. A complete login is `Reset` (the limiter) and then `Open` (the session), after
`Promote` if it took a code; a confirm reads the pending secret (`StartConfirm`), verifies
a code of it (`Verify`) and sets it (`SetSecret`), three steps. Browsers are outside the LAN, each with its own address; all settings
other than users are one value, `addr`. A wrong password or code is a choice of
the handler's check. Histories: `proven` (the secrets whose codes a user has shown),
`accepted` and `replayed` (codes that opened or confirmed something, and whether one
opened a session again), `overtaken` (users enrolled anew before a disable had forgotten
their codes), `wrong` (the failures since a complete login), `ahead`.

**PromptStore** - `ReadMeta`, the migration (`Scan` per archive, `CopyOld`,
`DropOld`, `KeepMeta`), and the operations, split between their file operations. A
write is a temporary file and a rename, so it happens or it fails
(`WriteFails`, `MigrationFails`); `Crash` may fall anywhere.

**ModeWheel** - `Lock`, `WheelFor`, `ReadDistance`, `Press`, `BlindPress` and
`BlindLook` are `sessionMode`; `Calibrate`, `CalibrateWaiting`, `WalkStart`, `WalkPress`, `WalkLook`
`discoverModeWheel`; `RestoreLook`, `RestorePress` `restoreMode`. Every press and
every look is a step of its own. A look at the pane yields a badge (`Badges`): the
mode, nothing (footer wrapped, session gone), or, when a dialog is open, whatever
its text resembles; a dialog also takes the key. Sessions may run under another
account than the active profile's. Histories per request: `moved`, `misled`,
`covered`, and `known`, the profile whose wheel it goes by, if the walk that found it
can be trusted; `suspect`, the profiles whose wheel was filed by a walk that cannot be.

**ChatDedup** - `Entries` sorts the displayed lines (`ByTime` is the stable sort, one line
at a time), `buildChatTurns` folds them by functions of one line (`add`, `append`,
`flushPending`, `Drained`); `Numbered` is the cap of `sessionChat`. Both loops are `Folded`,
the value after each element. What is folded is not any sequence of lines but any
file Claude Code can have written: actions for prompts, enqueues, drains, attachments,
replies and snapshots, some of them through a buffer that lags behind. Two histories are the
reference: `log`, every displayed line in the order of the timestamps, and `said`, which of them
belong to one message. `Conversation` is what is said in them by the lines that the file holds.
`Looks` is a tick of `ChatStream`. `conversationGet`, `conversationExport` and
`conversationFullTextJoined` are the other readers of a transcript: two share the fold,
the search's does without it.

**Catalogue** - `ListFiles` (`convFiles`), `Ps` and `Mods` (the two looks of
`aliveConversations`), then per file `ReadMeta`, `Match`, `Show` or `Hide`, and `EndList`
with its pruning are `conversationsList`; `Match` is one critical section of the cache, and
includes the read of the file. `StartSet`, `OpenTmp`, `WriteTmp`, `Rename` are
`conversationMetaSet`: the temporary file is a file of its own, shared by its writers, and
a descriptor follows it when another writer renames it (`Renamed`). Claude Code,
Syncthing and the clock are the environment. Histories inside a listing say what it
owes: `had`, `could` (the words were there, throughout or at some time), `live`. `swapped` has
the conversations put back to a version under whose time and size another text is cached
(one that there has been, or another that happens to share them).

## 3. Runs

Every run is exhaustive within its bounds. `CHECK_DEADLOCK FALSE` where the
system may stop: each request is made at most once, or at most so often.

| Run | Instance | Shows |
|---|---|---|
| `staging_serial` | one request at a time, 2 sessions, 2 conversations, 2 profiles; one spawn failure, failed write or agent crash | `EndsInRequestedState`, `StagedUnderBoot`, refinement of ProfileRegister |
| `staging_recovery` | 3 profiles (two with credentials of their own), one failed spawn | `RecoveryReopens`, `NoStaleCredentials` |
| `staging_concurrent` | 2 requests interleaved, dialogs, one failed spawn, failed write or crash, weak fairness of started requests | `NoOrphanStaging`, `FileWhole`, `RequestsReturn` |
| `pane` | 3 requests of 7 kinds, 1 pane, 2 names, 2 dialogs | `LockedLinesWhole`, `SentMeansSubmitted`, `ChoiceConfirms`, `RenameWaitsForIdle`, `HolderRuns` |
| `agent` | 2 processes, 2 crashes; 2 resizes in flight, 1 session, 2 names, a cooldown of 3 s | `ListenersReachable`, `SettledKeepsPath`, `ComesUp`, `NeverCleared` |
| `watch_turns` | 1 session, 2 messages, 2 dialogs of one question or of two, footer flicker | `SeenTurns`, `TurnsAnnounced`, `DialogsAnnounced`, `NoDialogSwallowed` |
| `watch_sessions` | 2 names, renames, closes, resumes, agent errors, empty listings, unreadable transcripts, server restarts, 2 browsers with a channel of 1 each | `NoDuplicateTurn`, `HubDelivers` |
| `accounts` | 2 requests, 2 users, 1 browser, 2 secrets, 2 TOTP periods, 5 requests in all (4 if nobody has a second factor at the start), 1 fault, blocked at 2 failures | `SomeUser`, `SecretProven`, `CodeOnce`, `FileFollows`, `EveryFailureCounts` |
| `prompts` | 1 writer and 1 reader, 2 archives and an override, 5 numbers, 4 requests, 2 faults | `ListedHasContent`, `SavedStays`, `LegacyKept`, `InForceKept` |
| `modes` | 2 requests, 1 session, 2 accounts (wheels of 2 and 3 modes), 2 events out of 7 kinds, fairness of the requests | `CachedIsReal`, `ModeReached`, `RequestEnds` |
| `chat` | 6 lines in the file and on their way to it, 2 texts, 2 snapshots a message, the last 2 messages shown | `ChatIsConversation`, `IndexStable` |
| `catalogue` | 2 requests, 1 conversation of up to 2 lines, 2 ticks, 6 requests, failures and changes around them in all | `SearchTrue`, `LiveShown`, `SidecarWhole` |

**Why the bounds are enough.** The hazards need two actors: two requests in
flight (one staging and one choosing; one typing and one typing; one enrolling and
one disabling), or one request and a fault. `pane` has three so that a lock
holder, a waiter and a request without the lock meet. Two sessions let a
recovery find its conversation open elsewhere; three profiles let a switch leave one
alternate credential for another. Two names let a session move away from its
lock, and another take its name. A second request of a kind follows a first
one that ended, so retries are covered. Two archives and an override are the
least with a gap (a broken archive) and a renumbering. `MaxFails` is 2 rather
than 5, and a channel holds 1 event rather than 16: what is checked is the
boundary, not its place; two browsers, so that an event is dropped for one and reaches
the other. In `accounts` a run may start with a user who has a second factor or with none, so that
two enrolments of one user can overlap within two secrets. `modes` has one session, whose second request uses what the first
cached; that two walks in different sessions under one profile file one after the other needs
two sessions and three requests, which the theorems of section 5 cover (and an instance with
one account, one press by somebody else and eight million states, checked apart). The wheel assumed is longer
than one account's and equal to the other's; a walk of 4 presses (`maxModeCycle`,
12 in the code) can complete, repeat or run out; two events allow a dialog to open and
close within one request. In `chat` six lines (seven, when the last action writes two) hold a prompt, a reply in two
snapshots, and a queued message with its drain, or two queued messages of one text; two
messages shown rather than 200, so that the cut moves. In `agent` two processes suffice
for a race, and one session with two names for a rename there and back; the cooldown is
3 ticks, of which the danger window takes 1 and a key's delay up to 1. In `catalogue` a
conversation is searched by itself, so one is enough; what meets are two requests (two
searches that share the cache, a listing and a save, two saves), and six events are enough
to fill the cache, change the file within the same tick, and search again while a third
thing happens. A session's ending, a transcript quiet for a minute, a failed `ps`, a
failed write and the death of the agent count as events.

Where a safety property is proved (section 5), the bounds only decide how soon TLC finds a
mistake. They were too small more than once, and it was the attempt at a proof that showed
it: a code used twice takes a fifth request in `accounts`, a rename under the
holder of a lock matters with a fourth request or a second pane in `pane`, and a name taken
from the watcher's memory with a second conversation in `watch_sessions`. The
properties now say what excuses these (`overtaken`, `KeepsName`, `LooksSound`), and
section 4 what the code does.

**Fairness.** `staging_concurrent`: weak fairness of each request's next step -
goroutines run, sleeps and polls end - but not of a wait while a dialog is open, which the
code prolongs without bound (`host.go:872`); `RequestsReturn` promises a return once
dialogs do not stay open. `agent`:
weak fairness of a started process, strong fairness of systemd's restarts (a
process may be refused many times while another is up), and none of the requests it
executes: `ComesUp` does not depend on them. `watch_turns`: weak
fairness of the poll loop, which sleeps and looks for as long as the server lives; announcements
are promised only of what stays until it is seen. `modes`: weak fairness of each request's next
step, presses and sleeps of half a second. No fairness is assumed of Claude
Code or of people.

**Provisos inside properties.** A property that the code keeps only under a condition
states it: `hurt` (a crash or failed write while staging leaves the bootstrap profile
until the next choice, and nothing in the code repairs it earlier); `landed` (the writes
overlapped, or the last one failed); `raced`; `blind`
(text typed while no readline was reading, which `ensureTextReadyWithin`
allows after its deadline); `KeepsName` (nobody renames the session of a request, or
gives away its name); `looks.lost`, `looks.retaken`, `covered`, `missed` (a look that hit
another session, a name taken from the watcher's memory, a dialog, or a flickering
footer); `TakenFor` (a dialog that repeats the question announced last, no sample having found
none open in between); `overtaken` (enrolled anew before a disable forgot the codes); `ahead` (`PATCH` and failed
writes leave the live configuration ahead of the file); `Serial` in PromptStore;
`moved`, `misled`, `covered`, `suspect` and `GoesBy` in ModeWheel (somebody else
changed the mode, a dialog was read for a badge or took a key, the wheel gone by is
another account's); `late`, `eaten` and `WrittenLate` in ChatDedup (a message drained
after a later reply began, a text attached and then said again, a line that reached the file late); `swapped` in Catalogue (see section 2)
and `met` (two saves of one sidecar overlapped and none has run alone since). The cooldown of a redraw is not kept when a session is
renamed or the agent restarts: `NeverCleared` is of one agent and one name.
The provisos are histories of what happened, never assumptions that it does not.

## 4. What the code does otherwise than it says

### Divergences seen and not run

Found while modelling. Some can be reproduced by weakening a proviso, the rest
by stating the quoted line as a property:

* `lanzarConStaging` restores the profile it read before a wait of many seconds, over
  whatever another request wrote meanwhile, and a request that starts during
  another's staging takes the bootstrap profile for the active one. `host.go:819`: "Always
  restore the target profile (even on failure) so the global settings end in the requested
  state". (`EndsInRequestedState` with `Serial = FALSE` and two requests; `ImplementsRegister`
  and `NoStaleCredentials` fall with it.)
* Two agents that dial before either listens both bind, the second after unlinking
  the first's socket; both serve, against `docs/architecture.md:50` "This
  guarantees a single agent deployment per host even if systemd restarts race".
  (`ListenersReachable` without `~raced`. The one that is left without a path serves on,
  unreached; the one that has it keeps it, `SettledKeepsPath`.)
* With `config.yaml` bind-mounted, as `docker-compose.example.yml:19` does, the
  rename fails with EBUSY and the file is truncated and written in place
  (`server.go:741`): a crash in between leaves a file the server cannot start from,
  against `docs/security.md:65` "so a crash can never leave a half-written config".
  (The invariant `up` in Accounts.)
* A wheel that could not be walked is assumed to be the standard one: on an account
  without some of its modes, `sessionMode` counts presses on a wheel that is not
  there and reports a mode that was not reached, since it does not look after the
  last press (`host.go:3962`). (`ModeReached` without `GoesBy`.) The wheel walked is
  filed under the active profile, though the session may run under another account,
  and a walk during which somebody pressed Shift+Tab is filed all the same, for the life of
  the process, against `host.go:3875` "distances derived from it are correct
  for any account". (`CachedIsReal` without `suspect`.)
* A queued message that drains after a reply began since it was queued is shown
  twice: the reply has flushed the enqueue by then (`host.go:2742`). `host.go:2699`:
  "The enqueue is dropped when its text later arrives as a real user line, so the
  message shows once". (`late`.) A text attached to a turn and then said
  again to the idle session is shown once only (`eaten`).
* `sessionRc` looks at `paneWorking` once (`host.go:4097`) and kills many seconds
  later: a turn that starts in the wait is lost, against `host.go:4095` "auto-recovery
  must not kill a session that's working".
* Recovery kills a session whose conversation has no transcript and cannot resume
  it (`RecoveryReopens` quantifies over `transcripts` for that reason). Nor does it bring
  back a conversation that `activeSessionUsingConv` (`host.go:4182`) finds in another session with the
  bridge on, which a session started by hand can seem to be: its conversation is a guess. The kill
  comes first, the check (`host.go:690`) after it. (`RecoveryReopens` with `"byHand"` in `Env`.)
* `claudeProfile` learns the outgoing credentials from `settings.json` (`host.go:910`,
  "best effort"). After a write that failed half-way the file has none to show, so the next
  choice relaunches nobody, and the sessions of the profile before keep its key
  (`host.go:907` "so none is left running on stale auth"). (`NoStaleCredentials` with
  `"write"` in `Faults`, once the undamaged file is back.)
* `sessionRc` types `/remote-control` without the send lock; its text can join
  the line of a message being sent (`LockedLinesWhole` is of lines whose typists
  all take the lock). A rename while the lock is held has the same effect, since
  the next request locks another name (`host.go:126`): its text joins the line of the holder,
  a message reported as sent is wiped, and a choice or the automatic /rename land in
  another session that has taken the name. (Any property of `pane` without `KeepsName`.)
* The watcher's memory is kept by session name and given up when a poll misses the name
  (`watcher.go:77` "dropped or renamed: re-arm"). A session that takes the name before
  that - renamed to one just closed, say - is not re-armed: it inherits the
  streak and the last message of the other, so that a message already announced is
  announced again, or a turn is too early. (`NoDuplicateTurn` and `SeenTurns` without
  `looks.retaken`, with two conversations.)
* Disabling the second factor releases `cfgMu` before it forgets the user's codes
  (`server.go:1336-1348`). A new enrolment confirmed in between (`server.go:1312`) has
  its code recorded and then forgotten, and the same code opens a session, against
  `totp.go:142`, where a code is used once. (`CodeOnce` without `overtaken`.)
* A dialog that opens between the readiness check and the typing takes the text
  unread (`blind`), against the aim stated at `host.go:3427`; the startup dialogs may be
  answered twice when another request types while a session boots.
* Overlapping writes can leave `settings.json` a mixture (`Garbled`), while
  `docs/security.md:64` has the validation of profiles guarantee that it is never
  half-written.
* Of two dialogs with the same question in a row, the second is not announced when no sample
  falls between them (`watcher.go:114`), against `watcher.go:103`, where two different dialogs
  in one poll window are told apart; every command approval asks the same question.
  (`NoDialogSwallowed` and `DialogsAnnounced` without `TakenFor`.)
* Any error of tmux is taken for its way to say that it has no session (`host.go:399-402`), so one
  failed listing makes the watcher forget every session. It primes them again with
  what it finds: a turn that has ended meanwhile is never announced. (`"fails"` in `Env` of
  `watch_turns`, and `TurnsAnnounced`.) One that is primed while its transcript cannot be read
  remembers no message, and announces the old one again (`watcher.go:94`; `looks.lost`).
* A search files the text it read under the time and size it listed (`fts.go:197-204`). If the
  transcript was replaced between the two, and is later put back with its old time - by Syncthing
  or from a backup - searches answer with the text that replaced it, for as long as
  the agent lives and the file stays so, against `fts.go:187` "match re-indexes the conversation when its file
  changed". (`SearchTrue` without `swapped`.)
* A prompt that begins or ends in white space is shown twice if it drains from the queue:
  the enqueue is trimmed (`host.go:2678`), the user line is not, and they are matched by text.
* A dialog that covers the status word long enough makes a running turn look
  finished (`covered`).
* Two Ctrl+L within the danger window do reach a session if it is renamed, or the agent
  restarted, in between (`host.go:4030` "running /clear instead of two redraws" is what
  the cooldown is for). (`NeverCleared` without the agent and the name.)
* One transcript that disappears between the listing and its turn fails a whole search with
  a 500 (`host.go:1719`), where a listing passes over it. Two saves of one sidecar that
  overlap can leave it empty or garbled, to be read as if nothing had been noted: its
  temporary file has one name for all writers (`host.go:2009`; `SidecarWhole` without `met`).
* The usage metrics add up tokens and messages per transcript line
  (`host.go:2147`), though the snapshots of one message are lines of their own
  with one id (`host.go:2704`).
* A configuration without voice providers is not normalised at all (`config.go:335`), so a
  selection that was left dangling while voice was off makes the next start
  fail once `PATCH` has turned voice on; the comment at `config.go:323` promises repair of
  what "points at something that no longer exists".
* `PATCH` of the `rc` settings changes the configuration only: the host executor copied
  them at its start (`host.go:171`), against `server.go:833` "write to cfg + host struct".
* A `PATCH` rejected at one field leaves the fields before it in force,
  against `docs/architecture.md:234` "An invalid value returns 400 and nothing is written".
* The migration removes `rewrite.md` whether or not its copy was written
  (`prompt.go:417`), and a crash right after that removal puts the original in force.

## 5. Proofs

Each theorem below holds for every value of the constants that satisfies the named
assumptions of its module.

**ProfileStagingProofs.** `TypeOK` is not inductive: what `EndWrite` goes on with
is decided when the write begins. `ControlInv` says, per control point, which
locals are set (a staged request carries the profile it owes, a restore writes
it, `wait` has a session). `RequestType`, `StartAdvances`, `StepAdvances` show
that every step takes a request's record to one the control point allows;
`EndWriteRecord` and `EndWriteSettings` isolate the shared second half of a write.
From there:

* `TypeCorrect` - `Spec => []TypeOK`.
* `StagingOwed`, `SoleWriteLands` - `NoOrphanStaging` and `FileWhole`, for any
  number of concurrent requests and faults, from `SafeInv` (types, control, the two themselves,
  and `WriterAlone`: a write that has overlapped none still has its own truncation
  before it, so what it puts there is not mixed with anything).
* `SerialRequestedState`, `SerialStagedUnderBoot` - with `Serial`, from
  `SerialInv`, which adds `OneRequest` (one request in flight; truncated while it
  writes, bootstrap while it stages) and `KeepsChoice` (what it carries is what was
  last chosen). Without `Serial` both are false (section 4).
* `SerialImplementsRegister` - with `Serial`, `ImplementsRegister`, by initial state and step.
  `AskedIs` and `InForceIs` say what a user of the register sees of one request's record;
  a step then asks, commits or damages, or is a stutter. It is where two facts about
  one file meet: the profile in force is the one *owed* while a request stages, and the
  one *asked before* while another writes its choice.
* `SerialRecoveryReopens` - with `Serial` and no session started by hand, `RecoveryReopens`. `CarriesInv`
  says which requests come to a control point and with which conversation, `NamesHeld`
  that nobody takes the name of the session a recovery has killed; so the resume finds no
  other session using the conversation, and a name to open it under. Why nobody may start
  sessions by hand is in section 4.
* `CleanCredentials` - under `CleanSwitching`, `NoStaleCredentials`. `CredInv`: a session has
  the credentials of the profile last chosen, or none, or was spared, or a switch
  will come to it (`Pending`, or it is about to list the sessions and knows the credentials
  they are on). `CleanSwitching` is one request at a time; no `claudeNewWith`, which changes
  the profile and relaunches nobody; no failed write and no crash (section 4); and a
  bootstrap profile without credentials of its own, which is what
  `docs/architecture.md:379` calls a clean profile. Spawns may fail, sessions may be started
  by hand, exit or work.

Frame lemmas (`StepFrame`, `ApplyPoint`, `RestorePoint`, `StepCreds`, `EnvironmentCreds`) say once
what a kind of step does to the settings, to a record and to the sessions.

**AgentProofs**, of AgentSingleton and AgentResize. `AgentInv`: while no start has overlapped another, at most
one process is starting, nobody serves once it is past its dial, and who serves
owns the path. `OneAgentReached` (`ListenersReachable`) follows. `SettledKept` (`SettledKeepsPath`) needs
no such condition: who would take the path over must remove the file first, and nobody is about to.

`RedrawsApart` (`NeverCleared`) is from `ResizeInv`: who is past the lock holds it, so
one request per agent and name is between its look and its key; while it is about to
type, the cooldown noted has run for at most `MaxDelay`; and what is left of the
danger window after a session's last Ctrl+L is, for the agent and the name it came from,
less than what is left of the cooldown. The passage of time (`Tick`) takes from both sides.

**TranscriptProofs**, of Catalogue and of ChatDedup, the two modules that are about what is made
of the transcripts. Of Catalogue, for any number of requests and of conversations, where the run has
one conversation. `Types` adds to `TypeOK` that a listing knows the time and size of every
file it has still to look at. From there, each with the strengthening it is inductive under:

* `SearchesTrue` - `SearchTrue`. `SearchInv`: of each file a listing has still to look at,
  both the text there is and the text cached under the key it was listed with answer what
  is owed; and an entry with the key of the file that is there holds its text, which is
  what a listing that comes in later starts from - both but for the conversations
  `swapped`. A transcript may become anything at any time, an earlier version included.
* `AliveListed` - `LiveShown`. `LiveInv`: what is owed is still being written until `ps` has
  answered, then found by `ps` or recent, then in `alive`.
* `SidecarsWhole` - `SidecarWhole`. `SaveInv`: a save that no other overlaps has the
  temporary file to itself, empty and then complete.

Frame lemmas (`ListingFrame`, `SavingFrame`, `AroundFrame`) say once what a kind of step
leaves alone.

Of ChatDedup, for any texts, any cap and transcripts of any length: `ChatIsAlwaysConversation`
(`ChatIsConversation`) and `IndexIsAlwaysStable` (`IndexStable`), both from `ChatInv`, which has
three parts:

* `WellWritten` - what Claude Code has written. A displayed line is in the file or in the
  buffer, once; the enqueues are all in the file, and of the others the file has the
  earlier ones (`InFile`). A timestamp is a line's place in the log (`Stamped`); a message has
  its lines in order, a user's one of them, an assistant's all with one id (`Messages`).
* `ReadWell` - while no message was taken late or eaten, reading the log up to *any* line,
  and the enqueues behind it, gives the turns that those lines hold of the conversation
  (`Agree`): that is what a file may look like, since only lines other than enqueues lag. It
  takes all those readings together to be inductive, since a flush makes the next of them the one
  that is read. Of the reading of the whole log there is more (`Link`): the
  message being written is the last turn, so a snapshot finds it; and what waits in
  `pending` is what was attached, then what is queued and was not passed (`Queued`), so that a
  drain finds its own enqueue first among those of its text.
* `ClientTold` - what the browser has is the conversation that its look held, numbered.

A new line changes the readings that keep it, by a turn at the end (`AddEnqueue`,
`AddMessage`), by the text of the last turn (`AddSnapshot`) or not at all (`AddDrain`, which
moves a turn from `pending` to `turns` and leaves `Flat`, their concatenation); what is told changes likewise
(`ToldMessage`, `ToldSnapshot`, `ToldLine`). `FileTells` goes from the log to the file:
the sorted lines are the log without what is still in the buffer (`EntriesAre`,
`HeldIsKept`), and to read them is to read the log and leave those out (`ReadsKept`). For the numbers,
`LooksAhead` and `ToldPrefix`: unless a line came late, what was told at one look is, message
by message, a prefix of what is told at the next, so a place stays a message's place.

What a fold yields is shown with a function of the places (`Steps`, `Reads`, `Hears`): there is one
(`FoldExists`), and what holds of its value at 0 and from each place to the next holds of the last.
That induction (`Induction`, on a set of numbers) rests on the least number principle, which
the library has for the natural numbers (`NatLessThanWellFounded`) and needs no
operator parameter.

**AccountsProofs.** `Types` is inductive by itself (it says what a request at each control
point carries). From there:

* `FailuresCount` - `EveryFailureCounts`: the limiter's count is the number of failures
  since a complete login, whoever shares it.
* `CodesOnce` - `CodeOnce`. `Remembered`: the last period the replay guard has of a user is no
  earlier than that of any code accepted under the secret in force, unless the user is
  `overtaken`; it is preserved because `Use` asks and records in one critical section.
* `UsersRemain` - `SomeUser`, of the live configuration, of the file, and of what a request
  that is writing is about to put into the file.
* `SecretsProven` - `SecretProven`. `SetProven`: what a confirm is about to set is a
  secret whose code it has checked; `MayHave` says who may hold a secret at all.
* `FileIsLive` - `FileFollows`: with nobody writing and nothing failed, the two are equal.

**PromptStoreProofs.** The store has no lock, so all four are of one writer at a time
(`Serial`). `SerialInv` is `OneWriter`, `Control` (what a writer at each point has done and
still owes: numbers found by the scan, the copy of the override, the new
`versions.json`) and `Kept` (what was saved, archived or applied is where the list, or the writer's
record, says). `ListedHaveContent`, `SavesStay`, `LegacyStays` and `InForceStay`
follow; readers, failures and crashes may fall anywhere.

**PaneInputProofs.** `Inv` has a part for each property and each rests on those before it:

* `LockInv` - who has a lock is at a point where it holds it, and the reverse. `HoldersRun`
  (`HolderRuns`) follows.
* `Names` - sessions have names of their own, and a request that keeps its name has one
  session.
* `LinesInv` - a line in a readline, or unread in the pty, that has a request which holds
  its lock in it is that request's alone. `LinesWhole` (`LockedLinesWhole`) follows. It needs the
  lock and the names, since a second typist would have to hold the same lock.
* `Waits` - the delayed /rename at its last look; `RenameWaits` (`RenameWaitsForIdle`).
* `Sent` - a request that typed its text has it in the line of its session until it is
  submitted; `SentSubmitted` (`SentMeansSubmitted`).
* `AimInv` - the arrows still to be pressed take the cursor from where it is to the option wanted,
  as long as the dialog is the one that was read and nobody else presses;
  `ChoicesConfirm` (`ChoiceConfirms`).

`Evolves` names the ten things that can happen to a pane, `Advances` and `LockStep` those
that can happen to a request and a lock; the parts are then proved from these
and not from thirty actions.

**TurnWatcherProofs.** `Base` is what holds whatever happens to names: types, one session
per conversation, what `lastAssistant` is, no message of a turn to come, and two parts that give
theorems at once:

* `Delivery` - the events in a channel and those received are those broadcast since the
  subscription, or the channel was full. `Delivers` (`HubDelivers`).
* `DialogTold` - the dialog remembered, `told`, was announced and has the question remembered. `DialogsTold` (`NoDialogSwallowed`),
  without a condition on the questions, the sessions or their names: a dialog sampled has been
  announced, or `TakenFor` one that was.

The others hold while `LooksSound`:

* `Turns` - what is remembered under a name is how far the conversation that runs there has been
  announced (`Remembered`), and so it is with the sample in hand (`Sampled`).
  `AnnouncedOnce` (`NoDuplicateTurn`).
* `Samples` - a session whose last sample was idle is idle, or has the excuse of a dialog or
  a flicker (`Idled`, `SampledIdle`); a turn that is about to be announced is over
  (`Settled`); and if it was seen working and idle before, the message sampled is its last (`Ripe`:
  nobody says anything between two samples of an idle pane without the second being
  of a later turn). What was announced was so (`Verdicts`). `SeenTurnsEnd` (`SeenTurns`).

`Typed` proves `TypeOK` with what the types leave out (`Ranges`). Again the steps are grouped
first (`Evolves`, `HubStep`, `Quiet`, `LookedAt`, `Adds`) and the parts proved per group.

**ModeWheelProofs.** For any number of sessions and requests and wheels of any length; three theorems
from one invariant, `WheelInv`:

* of a walk that nobody moved or misled, what was seen is a stretch of the session's wheel
  (`Stretch`), and the session is in its last mode; between a press and its look it may be one further,
  unless a dialog took the key (`WalkSound`). A press away, the stretch meets a new mode and grows, or meets its
  beginning, and then it is the whole wheel (`StretchGoesOn`, `StretchCloses`). So `WheelsCachedWhole`
  (`CachedIsReal`).
* of a request that nobody disturbed and whose wheel is its session's, what is left of the count is
  the way from the mode there is to the target (`Remains`, in `WaySound`; `DistanceRemains`,
  `PressRemains`). With what the cache and the request know of the wheels they have (`CacheSound`,
  `known`), `ModesReached` (`ModeReached`).
* who is busy has the lock of its session (`Locked`), so no other request presses there.

`Typed` is `TypeOK` with what it leaves open: a request past its lock has its session, its
target and, from the choice of a wheel on, its profile (`ControlOf`), and the lock. The lemmas on wheels are of places, `1..Len(w)`, in turns of less than
two (`Remainder`, `Succ`, `Turn`), which keeps the arithmetic linear; that a stretch
grows by one mode at a time is a fact about steps, so it needs no induction over the sequence.
The proof corrected the model: `GoesBy` asked whether the cache could be trusted when
a request *ends*, but a second walk may have replaced the wheel it took; now the request keeps
what was known when it took it.

The strengthenings `ControlInv`, `OneRequest`, `KeepsChoice`, `CarriesInv`, `NamesHeld`, `CredInv`, `SearchInv`, `LiveInv`,
`SaveInv`, `Remembered`, `SetProven`, the parts of `SerialInv`, `LinesInv`, `Sent`, `AimInv`, `Turns`, `Samples` and `WheelInv` were checked by TLC on the instances above, or on parts of
larger ones, before they were proved.

Only model-checked: the liveness properties (`RequestsReturn`, `ComesUp`,
`TurnsAnnounced`, `DialogsAnnounced`, `RequestEnds`) - fairness and ENABLED are out of the
prover's reach. Every other property that a run checks is a theorem, under the assumptions
named above where it is not true without them.

## 6. Abstractions worth knowing

* Times are order: a poll, a sleep or a deadline may end at any moment. Intervals
  (a 35 s client timeout, 4 s polls) are not represented.
* Reading of panes, transcripts and `/proc` yields its result at once; a wrong
  reading is modelled where the code guards against one (footer flicker, dialogs
  over the status word, a session started by hand that has no conversation id).
* One `settings.json` per host, catalog profiles distinct in content. A failed write of it has
  truncated it; an open that fails before that changes nothing and is left out.
* A conversation id is in use or not; names are atoms, so normalisation of names
  (`internal/sessionname`) is not visible.
* Accounts: builtin authentication, no two browsers behind one address, handlers'
  rejections without effect left out (they change nothing). Administration may come
  from the LAN, which needs no session, so it is not guarded by one. No user has an empty
  name; a login without one fails and is not counted (`server.go:320`), so it is left out.
* ModeWheel: a key and the look after it are half a second apart in the code; here any
  event may fall between them. The modes are three, and a session's account does not
  change while it lives. `ensurePaneReady` gives up silently and so guards nothing.
* TurnWatcher: a look that cannot read the transcript finds no message; one that
  succeeds finds the last one.
* ChatDedup: lines have distinct timestamps; commands in the queue and metadata lines,
  which are not displayed, are left out, and a snapshot's text is its number. Texts have no white space
  around them (section 4). Of an assistant message a view is compared by role and text, as views
  carry no ids. That
  queue lines reach the file ahead of earlier user lines is what the comment at
  `host.go:2764` reports of Claude Code. Of `ChatStream`'s fingerprint only the
  transcript's size is here.
* AgentResize: seconds are ticks; a key arrives within `MaxDelay` of the time noted, which
  `ResizeAssumption` bounds by what the cooldown has over the danger window (3 s and
  2 s in the code). A connection the client keeps open may reach an agent that the path
  no longer names; `NeverCleared` is of one agent, so it does not depend on it. A resize that fails in tmux ends before its nudge and changes nothing.
* Catalogue: a transcript's text is whether it has the words searched, which a line may
  add and only a replacement takes away; of a sidecar only "archived" is kept. No
  note has the words searched, so the second look at the notes (`host.go:1721`) finds nothing. A failing `ps`
  means that nothing is alive, so `LiveShown` promises nothing to that listing. The pages of a
  list, its order, and the filters that are functions of one file are left out.
* PromptStore: reads of an existing file succeed. (A failing read of
  `versions.json` starts a migration, `prompt.go:322`.) Contents are atoms that
  parse or do not, and an empty `rewrite.md`, which nothing removes or reads, counts as none; names and times of versions are left out.

## 7. Not modelled

Metrics and the listings of profiles and projects read and add up; what they show is a
function of files that other components write. Voice transcription and rewriting call a
provider and hand back its answer. The validation of each setting (voice providers and models
included) is a function of one request and the configuration, under `cfgMu`; in Accounts all
settings other than users are one value. HTTP handlers and streams not named above validate
and forward; the direct executor is a call. The audit log appends under one mutex.
Session names are a string function. The web UI is a client, and the models let
requests come in any order. `scripts/`, `e2e/` and deployment files carry no state.

## 8. Plan

Order of work, most important behaviour first; done items in the sections above.

1. ProfileStaging with ProfileRegister, and its proofs - done.
2. PaneInput, AgentSingleton, TurnWatcher, and their proofs - done.
3. Accounts, PromptStore, and their proofs - done.
4. ModeWheel and ChatDedup, with their proofs - done.
5. AgentResize and Catalogue (proved), the other readers of a transcript in ChatDedup - done.
6. Proxy authentication and several clients behind one address in Accounts;
   overlapping writers in PromptStore, if a promise about them is made; the voice half of
   `PATCH`, with its catalogue of providers and the repair at the next start.

The number of runs is kept at a dozen: a new question joins a run, or takes the
place of the one that says least by then.
