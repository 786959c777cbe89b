# Lockie in TLA+

Lockie keeps secrets out of the context of coding agents. Hooks of the agent
(Claude Code, Cursor) send every prompt, tool input and tool output to a
background daemon. The daemon replaces the secrets it detects by placeholders
such as `STRIPE_KEY_1` (*redaction*) and puts the secrets back into tool inputs
(*rehydration*). It also stores named secrets (*aliases*) in
`~/.lockie/aliases.json` and writes an audit log of its redactions.

This directory holds TLA+ models of that program, the TLC configurations that
check them on small instances, and TLAPS proofs about them.

## Inventory

| part | source | state it keeps | operations |
|---|---|---|---|
| hook handlers, session registry | `daemon/handlers.go`, `protocol.go` | map session id -> `*Session` | `session.start`, `session.stop`, `hook.prompt`, `hook.pre_tool`, `hook.post_tool`, `health` |
| session placeholder map | `placeholder/` | `byLiteral`, `byName`, `counters` | `PlaceholderFor`, `ResolveAlias` |
| substituter | `substitute/` | none | `Redact`, `Rehydrate` (two passes) |
| audit log | `audit/` | a file of JSON lines | `Append`, `Read` |
| alias store, memory | `store/memory/` | `values`, `hashes`, `aliases` | `PutValue`, `DeleteValue`, `PutAlias`, `DeleteAlias`, lookups, `Export`, `Replace` |
| alias store, disk | `store/disk/` | `aliases.json`, `aliases.json.tmp` | the same, each followed by `persist`; `Open`, `Close` |
| alias handlers | `daemon/alias_handlers.go` | none | `alias.add`, `alias.list`, `alias.get`, `alias.forget` |
| server | `daemon/server.go` | listener, socket path, tracked connections | `Start`, `Stop`, accept loop, one goroutine per connection |
| daemon process | `cli/daemon.go`, `daemon/store.go`, `socket.go` | the process, its store | start in foreground or detached, stop by SIGTERM |
| client, launcher | `daemon/ipc.go`, `launcher.go` | one connection | `Call` with a deadline, `EnsureRunning` |
| detector | `detect/` | none | `Scan`, overlap resolution, keyword window |
| hook command | `cli/hook.go` | none | one process per hook event: start the session, then one hook call |
| agent adapters | `agent/` | the host's settings file | decode and encode events; `Install`, `Uninstall` |
| alias and audit commands, build | rest of `cli/`, `config/`, `scripts/` | none | one daemon call each |

How they interact: the host starts one `lockie hook` process per event; it
makes sure a daemon runs (launcher), sends `session.start` and the hook request
over a Unix socket, and prints the answer. The server runs one goroutine per
connection; all of them share the handler, and through it the registry, the
sessions, the audit log and the store, each with a lock of its own. No lock
spans a request. The daemon may stop or die at any time; sessions are lost
then, the store and the audit log are read back.

What makes each part correct:

* registry and sessions: one session object per id while it lives, one name per
  secret, one secret per name, nothing of a session after its stop;
* substituter and handlers: what a client was shown rehydrates to what it
  replaced, in full, and never to another session's secret; every redaction is
  audited before it is shown;
* alias store: aliases never dangle, secrets are stored once, unused ones are
  collected, acknowledged changes survive a restart, a crash never leaves a
  file that cannot be loaded;
* server and daemon process: one daemon serves, requests are answered, a new
  daemon does not undo what the old one acknowledged;
* detector and substituter on a text: the findings kept are in order and apart and
  do not depend on the order of the detectors; a random run near a keyword is
  hidden whole; rehydration gives the text back. That nothing found stays in the
  text, and that redaction is idempotent, as `substitute.go` says, is not so (see
  below);
* hook command and adapters: the host's event is decoded and answered in the
  host's own form, with no secret in a decoded field, and a name the host was told
  becomes its secret again in a later tool input;
* hook installation: installing and removing hooks leaves the user's settings
  alone and wires each hook once or not at all.

What is hard about it: requests of several hook processes interleave between any
two critical sections; a session may be stopped, or the daemon restarted, under
a request in flight; handlers of aliases make several store calls with no lock
around them; each save may fail or be cut off; two daemons may meet at a socket; a
hook process makes two calls, and the daemon may die or be replaced between them;
rules of the detector overlap, and a placeholder is itself text that the detector
and the placeholder pattern read; the settings file has other writers.
`PROJECT.json` lists these hazards with their lines.

## Modules

| module | models | state and actions |
|---|---|---|
| `GoMaps` | Go's maps | partial functions, put and delete |
| `GoSlices` | the loop that copies what it keeps of a slice | `Filter`, a recursive function |
| `SessionMap` | `placeholder.Session` | a record per session; each method runs under the session's mutex and is one operator |
| `HookSessions` | handlers, registry, sessions, audit log | one `pc` per connection; one action per critical section |
| `AliasMap` | what the alias store promises | a map, the snapshot being saved, the durable snapshot |
| `AliasStore` | memory store, disk store, alias handlers | one `pc` per goroutine; one action per store call, and per step of `persist` |
| `DaemonLifecycle` | daemon processes, the socket path, the commands that find or launch a daemon | one `pc` per process and per command; one action per system call on the path, and per step of a call |
| `Redaction` | detector, substituter and placeholder pattern on one text | one action per round of a loop of `resolveOverlaps` and `Redact`; `Rehydrate` is an operator |
| `HookCommand` | hook processes, both adapters, the daemon's answers, the audit log | one `pc` per process; one action per call, the daemon serves a request in one |
| `HookSettings` | install and uninstall of both adapters over one settings file | one `pc` per command; one action per system call on the file |
| `MC...` | | symmetry sets, events and sessions for TLC |
| `GoSlicesProofs` | | induction over numbers and sequences, and what `Filter` returns |
| `SessionMapProofs` | | lemmas about `SessionMap`, cited by two of the next |
| `HookSessionsProofs`, `HookCommandProofs`, `RedactionProofs`, `AliasStoreProofs`, `DaemonLifecycleProofs`, `HookSettingsProofs` | | theorems about the module of that name |

### HookSessions

A payload is reduced to what the handlers act on. For a redacting request that
is the list of findings, each a secret and the prefix of the rule that found it;
for `hook.pre_tool` the list of candidate placeholders in the tool input, chosen
freely among the names of the bound, minted or not. A name `PREFIX_n` is the pair
of prefix and number.

| action | code |
|---|---|
| `Receive` | `serveConn` decodes a request, `Dispatch` |
| `LookupHit`, `LookupMiss` | `getOrCreate` under the read lock |
| `RecheckHit`, `Create` | `getOrCreate` under the write lock |
| `Redact` | one `PlaceholderFor` call of `Substituter.Redact` |
| `RecordRedactions`, `RecordRedactionsFails` | `audit.Append`, complete or failing after `n` lines |
| `FindRegistered` | one `ResolveAlias` call of `Rehydrate`'s first pass |
| `Resolve` | one `ResolveAlias` call of the second pass |
| `SessionStop` | `sessionRegistry.drop` |
| `Answer` | `setResult` or `setError`, `writeResponse` |
| `Restart` | the daemon ends, whatever its goroutines are at, and a new one starts |

The handlers run `Redact` over each output field and `Rehydrate` over each string
of the tool input in turn. The model runs them over one list: between any two
session calls other goroutines may take steps anyway, and since a session's names
never go away, looking a candidate up earlier or later in the second pass gives
the same outcomes. What is around a finding in its text is `Redaction`'s, how the
fields of a tool's answer are taken apart and put together `HookCommand`'s; there
the same handlers are one step.

Ghost variables record what no variable of the program holds: which session id
and which *epoch* of it (how often the id has lost its session) an object was made
for, what was shown to clients, which secrets a session was sent, and which shown
placeholders a tool input refers to.

### AliasStore

A mutating method of `disk.Store` is two critical sections: the method of
`memory.Store`, and `persist` under the disk store's mutex. The handlers call
several such methods. So `alias.add` is `PutValue...`, save, `PutAlias...`, save,
and `alias.forget` is `GetAlias`, `DeleteAlias...`, save, `ListRefs`,
`DeleteValue...`, save; a save is `Lock`, `Export`, `WriteTmp`, `Rename`, of which
the last two may fail (`PersistFails`). A write that is cut off leaves `tmp`
partial: a `tmp` that is absent or cut off is `NoDocument`, and `Restart` ignores
it in either case, as `load` does. The thread `Main` is
`runDaemonForeground` with its deferred `st.Close()`.

A value id is a number never handed out before (`NewValueID` is random); sha256
is injective. `ver` counts the mutations of memory, so a snapshot carries how much
it has seen; `need` and `acked` say which of them a client was told are done.

`AliasStore` implements `AliasMap`: the map of `AliasMap` is each alias's secret,
`saving` the snapshots exported and not yet renamed, `durable` the file. Value ids,
the hash index, dedup, values without alias and the handlers' positions are
hidden. `AliasMap` lets at most one snapshot be on its way and commits exactly it:
the mutex of `afterMutate` and the order Export, write, rename are what makes
`AliasStore` do so.

### DaemonLifecycle

Several processes run `runDaemonForeground` around one socket path and one
`aliases.json`, and commands find or launch them. Every system call on the path is
an action of its own, since between any two of them another process may act.

| action | code |
|---|---|
| `Start`, `Spawn` | `lockie daemon start --foreground`, by hand or by `spawnDaemon` |
| `Load` | `OpenStore` |
| `Stat`, `Dial`, `Remove` | the three calls of `removeStaleSocket` |
| `Bind`, `Listen` | `net.Listen` |
| `Chmod`, `ChmodFails` | the rest of `Server.Start` |
| `AcceptFails` | `acceptLoop` returns, the listener stays |
| `Signal`, `CloseListener`, `Sweep`, `Wait`, `Unlink` | SIGTERM and `Server.Stop` |
| `Close` | the deferred `st.Close()`, on every path out of `runDaemonForeground` |
| `Kill` | SIGKILL, a crash, or SIGTERM before `signal.Notify` |
| `Begin`, `DialHit`, `SpawnFails`, `PollTimeout` | `EnsureRunning` |
| `Connect`, `CallTimeout` | `ensureConn` and the deadline of `Call` |
| `Accept`, `TrackConn`, `Serve`, `Save`, `Reply` | `acceptLoop`, `trackConn`, `serveConn` with the handler of `alias.add` |

A command registers one alias, named by the number of the call. The store is what
`AliasMap` promises of it: memory, and a file that a save replaces as a whole by all
of memory. Three facts about Unix sockets and Go's `net` package come from outside
the repository: `net.Listen` binds and listens in two calls; `connect` succeeds from
`listen` to the listener's close, whether anybody accepts or not; the listener's
`Close` unlinks the path it was made with, whoever has bound it since. A socket
whose process is gone is `Stale`.

`shared` records that two processes had the store open at once, `dirty` that a
process was killed, `acked` what commands were told is registered, `cut` why a
request in a handler has lost its client.

### Redaction

One payload goes through `Redact`, in a session that earlier payloads may have left
names in.

| action | code |
|---|---|
| `Detect` | `Engine.Scan`: the findings of all rules, overlaps included |
| `Place` | one round of the loop in `resolveOverlaps` |
| `Resolved` | its sort by start |
| `Rewrite` | one finding in `Substituter.Redact`, with `PlaceholderFor` |
| `Finish` | the copy of the tail |

`Matches` is the placeholder pattern's `FindAllIndex`, `Spans` is
`findRegisteredPlaceholders`, `Rehydrate` the method of that name. A text is a
sequence of symbols, each counted as one byte: `ghp`, `xox` and `eyJ` are the letters
tokens begin with, `r` a letter of something random, ` password=` a keyword, and the
others are themselves. The rules' regular expressions are written out over these
(`GithubEnds`, `SlackEnds`, `JwtEnds`, `CandidateEnds`), with their numbers as
constants, scaled down in the runs: 36 characters of a GitHub token are one, 10 to 200
of a Slack token one to three, a run has two characters instead of 20, and the window
is 6 bytes. `FindAll` is `FindAllIndex` for patterns of which at most one match is
taken from each start. Placeholders are written out, with prefixes of two equal
letters and binary numbers.

GitHub stands for the rules that end with `\b` (Stripe, AWS, Google too), Slack for
those that stop after 200 characters wherever that is (Anthropic too). A Google key
that ends with `-` before a word character, which ends at a `\b` of another kind, is
not modelled.

What the model shows beside its properties: `entropy.go:66` says that every named
rule wins over the entropy detector where they overlap, which holds for findings of
one length only, as a longer run goes first. Around a JWT an overlapping run may
be hidden in part only, which `RunsHidden` leaves out. A token that is cut off after
200 characters and goes on with a digit, or with another token, does not come back,
since its placeholder is then read as another or as part of one, and neither does a
Slack token with `_` and digits behind it; `RoundTrip` leaves these out (`EndsClear`).

### HookCommand

The host starts processes, several at a time; each handles one event. A string of an
event is a secret which the detector finds whole, a placeholder name, `Plain` or
`Empty`; `IsEvent` says which shapes JSON and the hosts allow.

| action | code |
|---|---|
| `Fire` | the host starts `lockie hook ...` |
| `Begin` | `resolveAgent`, `DecodeEvent`, `hookClient` with `EnsureRunning` |
| `ensureSession` | the call of `session.start`; for session-stop its only call |
| `StartAnswered` | the id in its answer, and the hook call |
| `PrintAnswer` | `EncodeResponse` with the merge into the tool's answer, printed |
| `CallFails` | a deadline, or the daemon's end |
| `ServeStart`, `ServeStop` | the handlers of these methods |
| `ServeHook` | `handleHook...` in one step, with `recordRedactions` |
| `Kill` | the daemon dies, also in the middle of `Append` |

The log is the sequence of its writes, each whole, without its newline (`bare`) or
cut within the line; `Readable` is what `Read` accepts. A process that fails prints
nothing, so the host goes on with what it had: redaction fails open.

`age` and `life` say which life of a session a name was told in; `due` is what a
tool input has to become. Some consequences of the code that the properties are
worded around:

* `fileContent` beside a `content` that is not empty is not examined. If `content`
  or any other field is redacted, both take what the daemon made of `content`
  (`claudecode/event.go`, `mergeToolOutput`), and where only `fileContent` was, a
  `content` is added (see below);
* Cursor's adapter does not know `fileContent`, and its answer has one string, the
  first of those it redacted or passed;
* a tool's answer that is a list or holds nested objects is not examined;
* a Cursor event without a session id is not recognised unless `LOCKIE_AGENT` says
  whose it is;
* once the daemon has died, a name told before may stand for another secret;
* a line cut off in the log, which only a failing write leaves in the model, makes
  `lockie audit` fail for the whole file, although `audit/log.go:57` says that
  partial writes are avoided.

### HookSettings

Documents are abstract: top-level keys by their presence, hook keys with lists of
entries, of which Lockie's are marked; `Other` is a value of an unexpected type.

| action | code |
|---|---|
| `Install`, `Uninstall` | `loadSettings`, `mergeInstall` or `mergeUninstall` |
| `EndsEarly` | a file that is no JSON; `--dry-run` |
| `CreateTemp`, `Fill`, `Rename`, `WriteFails` | `writeSettingsAtomic` |
| `RemoveFile`, `RemoveFails` | the removal of an empty document |
| `Crash` | the command is killed |
| `Save` | the user or the host saves the file |

The temporary file has a name of its own in each process (`os.CreateTemp`). `mine`
is the user's part of the file as last saved; `raced` says that a command wrote over
a save it had not read. Only then can the user's part be lost, which `UserKept`
shows. Install replaces a value of an unexpected type under a hook key, and
uninstall drops lists the user left empty: `UserPart` counts neither as the user's.
Cursor's uninstall keeps the `version` that install added, so a file that held
nothing but Lockie's is not removed, although `cursor/cursor.go:138-142` says so.
A temporary file stays behind after a kill, and after a failing removal, whose error
`cleanup` discards (`claudecode/settings.go:125`); nothing reads it, so the model
forgets it.

## Runs

| run | instance | shows |
|---|---|---|
| `hook_race` | 2 connections, 2 session ids, 2 secrets, 1 prefix, payloads up to 2, 3 requests by all methods but `hook.post_tool`, whose control is that of `hook.prompt`, 1 stop or restart, 1 failing append | `TypeOK`, `ShownResolves`, `RehydratesShown`, `ShownIsAudited`, `OwnSecretsOnly`, `OneNamePerLiteral`, `NoMintCollision`, and `IndInv` |
| `alias_race` | 2 connections, 2 keys, 2 secrets, 3 requests, 1 failure, 2 crashes; symmetric in all three sets, as every property treats their members alike and none is a liveness property | `TypeOK`, `RefIntegrity`, `ContentAddressed`, `FileLoadable`, `AckedDurable`, `ImplementsAliasMap`, `KeysIndependent`, and `IndInv` |
| `alias_live` | 2 connections, 1 key, 1 secret, 3 requests, 1 failure, 1 crash, fairness | `Answered` |
| `alias_collect` | 2 connections, 1 key, 2 secrets, 3 requests | `ForgetCollects` is violated |
| `life_race` | 2 processes, 1 command at a time, 2 calls, 3 starts, 1 stop, 1 kill, 1 failing call, fairness | `TypeOK`, `NoSocketLeft`, `AckedUnlessShared`, `IndInv`, `CallEnds`, `AloneServes` |
| `life_lost` | 2 processes, 1 command | `RegisteredStays` is violated |
| `hook_events` | 1 session id, 2 secrets, 3 hooks, 2 at once, 1 kill, 1 failing write; every shape of a tool's answer with up to 2 fields as the only event, and 4 events in every sequence | `TypeOK`, `SeenClean`, `FieldsKept`, `ToolGetsSecret`, `AuditTold` |
| `hook_shape` | the same instance | `ShapeKept` is violated |
| `redact_text` | 11 pieces, payloads of up to 4, 3 sessions before | `TypeOK`, `Accepted`, `Determined`, `RunsHidden`, `RoundTrip`, `LongestMatch` |
| `redact_hidden` | 3 pieces, payloads of up to 3 | `Hidden` is violated |
| `redact_again` | 3 pieces, payloads of up to 3 | `Idempotent` is violated |
| `settings_race` | 2 processes, 1 user entry, 2 hook keys, 3 commands, 1 save, 1 failure, 1 crash, both hosts, files of every shape | `TypeOK`, `UserKept`, `WiredAsOne`, `InstallTwice`, `UninstallUndoes`, `FileWhole` |

Why the bounds are enough. The races of a session are between two goroutines at
two critical sections; a third request is needed to look at what they left. Two
secrets and two session ids are the fewest that can be confused, two findings in one
payload the fewest for which a batch can be half done. One epoch more than the
first distinguishes before and after. Every property of that run is proved
for all bounds besides. In the store, sharing needs two keys, dedup
needs two adds of one secret, the stale value id three requests. Around the
socket, the races are of a process that starts with one that starts or stops, and
the third start is the one that finds what they left. `life_race` is kept to one
command at a time for the sake of liveness; the invariants are proved for any number
of commands. A hook that redacts, one that
stops the session or meets the dead daemon, and one whose tool gets the name are
three; what a merge does depends on two fields at most (`content` and
`fileContent`). Four pieces hold a keyword, a separator, a token and what
follows it, or two tokens with what is between and behind; the session before makes
two-digit numbers happen. The order of lengths of overlapping tokens, on which much
depends, goes either way within the scaled numbers. On the settings file the races are of two writers, and the third
command finds what they left. Every bound is a
CONSTANT with `Max` in its name and stands as a guard in the action it bounds
(`Payloads` for `MaxPieces`, `Events` and `LoneEvents` in `Fire`);
`Objects` bounds the session objects ever allocated.

### What the violated runs say

* `ForgetCollects` (`daemon/alias_handlers.go:104`): `alias.forget` remembers the
  value id it read before it deletes the alias. If an `alias.add` puts another
  secret under the same name in between, forget deletes the new alias, collects the
  old value, and the new secret stays in `aliases.json` with no alias to it.
* `RegisteredStays` (`cli/daemon.go:112`): `lockie daemon start` beside a running
  daemon loads `aliases.json`, finds the daemon, and writes back on its way out
  what it loaded. An alias registered in between is lost. `AckedUnlessShared`,
  which holds, says that this needs two processes with the store open.
* `ShapeKept` (`claudecode/event.go:190`): the comment at 27-28 says that the tool's
  answer keeps its shape. An answer with `fileContent` and no `content` comes back
  with a `content`. `FieldsKept`, which holds, says that no field is lost and none
  gets another's text.
* `Hidden` (`detect/priority.go:36`): of two findings that overlap the shorter is
  dropped whole. A Slack token is taken as far as letters, digits and `-` go, so it
  may run into the `ghp` of a GitHub token: if the Slack token is the longer one, what
  is behind `ghp` stays in the text, if the GitHub token is, the Slack token's front.
  `RunsHidden`, which holds, says that a random run with a keyword near it is hidden
  whole all the same.
* `Idempotent` (`substitute/substitute.go:108`): the comment at 74-77 says that
  redacted text has no further findings, as no rule's pattern meets a placeholder.
  The entropy detector looks at keywords before a run, and `TOKEN` and `SECRET` are
  keywords: a placeholder put before a run that had none near it makes the run a
  finding of the next pass.

The models also reach states that the code's comments do not expect and that no run
is spent on:

* a daemon restart in the middle of a session forgets its names, and the next
  redactions hand the same names to other secrets (`placeholder/mint.go:16`);
* two processes dial a dead socket, the first removes it and binds its own, the
  second removes that one: both serve, one can be reached (`daemon/server.go:127`);
* the listener's `Close` has unlinked the path before `Stop` waits, so `Stop` may
  remove a successor's socket (`daemon/server.go:160`);
* `Stop` closes the connections before it waits for their handlers, so an answer is
  lost though the request is done (`daemon/server.go:144`).

## Fairness

`alias_live` and `life_race` assume it. In `life_race`, processes and commands
that can take a step do (weak fairness of each); nobody has to start a daemon or a
command, to send a signal, or to fail, and a start may end in a failing `chmod` or
with a kill, which `AloneServes` allows for. A process that is starved for ever would be
an operating system's fault. In `alias_live`, a goroutine that can run does run: weak fairness of
each handler and of each save. `sync.Mutex` hands the lock to a waiter that has
starved for a millisecond, which is strong fairness of each `Lock`. Clients need
not send anything, saves need not succeed, and crashes are allowed at any time: a
crash answers nobody but ends the requests under way.

## Proofs

Every invariant and action property of the passing runs is a theorem, and so is the
refinement of `AliasMap`. Each proof is for all values of the constants that satisfy
the named assumptions of the module, where a run checks one instance.

`HookSessionsProofs` proves for any sets of connections, session ids, secrets and
prefixes and any bounds, from the assumptions on the constants alone (nil is no
object, an error is no name and no literal, bounds are naturals): `TypeCorrect`,
`ShownResolvesHolds`, `OneNamePerLiteralHolds`, `OwnSecretsOnlyHolds`,
`NoMintCollisionHolds`, `RehydratesShownHolds` and `ShownIsAuditedHolds`.

None of these is inductive. `IndInv` is, and `hook_race` checks it with TLC too:

* `ControlInv`: which requests can be at which `pc`, and how much of their answer
  is written there;
* `OwnerInv`: the registry holds, for each live id, the one object made for the
  id's current epoch. This is where the second lookup of `getOrCreate` counts;
* `HolderInv`: a goroutine past `getOrCreate` holds an object made for the id of
  its request;
* `HeapInv`: in each session, `byLiteral` and `byName` are inverse to each other
  and no name is ahead of its prefix's counter. So a fresh name is free;
* `RedactedInv`, `ShownInv`: what is about to be shown, or was shown, resolves in
  the object it was minted in. Sessions only grow, so it stays so;
* `SecretInv`: an object knows only secrets that were sent to its id and epoch.

The last two theorems add an invariant each. `AuditedInv`: while no write of the log
has failed, the redactions of an answer that is about to leave are in the log.
`RehydratedInv`: a name that a tool input refers to and that its session was shown
is bound in the object the request holds, since that object is the one that minted
it; the first pass finds it (`FindRehydrated`) and the second writes its secret
(`ResolveRehydrated`).

`SessionMapProofs` has the lemmas about the session map that this module and
`HookCommandProofs` share: `MintSound` and `PlaceholderForSound` say that a call
keeps it consistent, keeps every name it had, and binds the literal to the name it
returns. The step of the induction has one lemma per action.

`HookCommandProofs` proves `SeenCleanHolds`, `FieldsKeptHolds` and
`ToolGetsSecretHolds` for any events and any number of hooks and kills, from the
assumptions that events have a shape JSON allows, that no string is a secret and a
name at once and that `S` is a prefix. Its `IndInv` has a part for the processes
(`ProcInv`, `PcInv`), for the requests and answers on their way (`PendingInv`,
`StartedInv`, `ReplyInv`), for the daemon (`DaemonInv`), for what hosts were told
(`ShownInv`: a name told in some life of a session stands for its secret as long as
that life lasts), and for what is printed (`PrintedInv`: it is the encoding of a right
answer). `RedactedSound`, `RedactOutputSound`, `DecodedField` and `MergedField` follow
a field from the host's answer to the daemon and back, `OutputHidden` and
`OutputKept` put the fields together, `DueFound` is the way of a name into a tool.

`TypeCorrect` and `AuditToldHolds` take a second invariant beside that one. `TypeInv`
has the types of what is on its way. `LogInv` says that, while no write has failed,
every write in the log is a whole line, and there is one (`HasLine`) for each name
an answer carries or a host was told: the daemon appends before it answers, and
a line is never taken back (`LinesStay`, `BoundsGrow`). `lockie audit` then finds it:
it goes through the log with the loop of `Filter`, which keeps what it is to keep, for
sequences of any length (`FilterHas`).

`AliasStoreProofs` proves `StoreTyped`, `RefIntegrityHolds`, `ContentAddressedHolds`,
`FileLoadableHolds`, `AckedDurableHolds`, `KeysIndependentHolds` and the refinement
`StoreImplementsMap`, for any connections, keys, secrets and bounds; it assumes that
`Main` is no connection, `None` nothing else, and the bounds are naturals. Its `IndInv`, which `alias_race`
checks too, adds to the properties:

* `IdsInv`: every value id in use was handed out, so the next one is free;
* `SnapshotInv`: the file and each exported snapshot could become the store;
* `MutexInv`: the lock's owner alone is between `Lock` and the rename, and what it is
  about to rename is what it exported;
* `RequestInv`: a handler at work has a request that fits its `pc`;
* `SavedInv`: a save holds all that its thread has changed and no less than the file,
  and a handler past its last save finds its changes in the file.

`KeysIndependentHolds` needs `HeldInv` besides: the value id an `alias.add` holds
still stands for its secret, unless it was collected. In the refinement, `PutAlias` and `DeleteAlias` are `Set` and
`Unset`, `Export` is `Snapshot`, `Rename` is `Commit`, `PersistFails` is `Abort`,
`Restart` is `Crash`, and every other step is hidden.

`RedactionProofs` proves `SpecAccepted` and `SpecDetermined` for payloads of any
length, any lengths of the rules, any window and any session before. `FindAllEnds` says of
`FindAllIndex` that each match ends where the pattern lets it (by induction on its
rounds, `FindAllRounds`), and `FindingSpan` and `ScanSpan` that findings are spans of
the payload. The invariant says of the loop in
`resolveOverlaps` that the findings kept come before those to be looked at
(`KeptFirst`), do not overlap (`KeptApart`), and beat every finding that was dropped
(`DroppedBeaten`); and of `Redact` that what is left to replace lies ahead of what
is copied (`TodoAhead`). The order `less` is asymmetric, so a finding that comes
later never replaces a kept one.

`RunsHiddenHolds` is about the rules. What a rule other than that for JWTs matches
are characters a run may have (`InCandidateClass`), and a run goes as far as its
characters do, so a match that overlaps a run lies within it (`RunHoldsAll`). It is
then no longer than the run: if it wins, it is the run.

`TypeCorrect` adds `TypeInv`: the session stays sound through `PlaceholderFor`
(`NamedSound`, from `SessionMapProofs`), numerals are digits (`NumeralType`), so what
is written is a text. `LongestMatchHolds` and `RoundTripHolds` are about the way back:

* `MatchesAre`: matches that lie apart and cover every start of a match are what
  `FindAllIndex` returns, with `GreedyOne` for the one match a start has; and
  `NoPattern`: a text without matches has no part that the pattern meets;
* `RehydrateBy`: `Rehydrate` puts together one piece per character;
* `NameInjective`: no two placeholders are written alike, since no two numbers are
  (`NumeralInjective`);
* `NameGreedy`: a placeholder that no character of the pattern follows is a match up
  to its end. With a digit behind it the match goes on, hence `LongestMatch`;
* `Stands`: a text is another one with parts replaced by placeholders that name
  them, with characters outside of the pattern on both sides. `StandsCovered`: if
  the other text has no matches, the placeholders are all there are;
  `StandsRehydrates`: so rehydrating gives the other text;
* `BackInv`, the invariant: what `Redact` has written stands for what it has read.
  `StandsGap` and `StandsName` are its two ways to go on; `FreeBefore` and
  `FreeAhead` say why no character of the pattern touches a placeholder: what a rule
  finds begins at a boundary, and behind it is what `EndsClear` asks for.

`RoundTripHolds` is for payloads of any length and a session with any names, but for
the texts `RoundTrip` leaves out: those with the look of a placeholder in them, and
those in which a replaced token is followed at once by another or by a character a
placeholder may have.

`HookSettingsProofs` proves all of `HookSettings`, `TypeCorrect`, `UserKeptHolds`,
`WiredAsOneHolds`, `InstallTwiceHolds`, `UninstallUndoesHolds` and
`FileWholeHolds`, for any hooks, keys, entries, documents and numbers of
commands, failures and kills. `ValuesAssumption` says that the four values beside
documents differ from each other and from what they stand beside. The hook tables of
both hosts are the code's, and `SpecsApart` computes what is used of them: no two
hooks share a key. Most of the proof is about `mergeInstall` and `mergeUninstall`:
`Installed` and `Uninstalled` say what is under each key after them, and
`InstallKeeps`, `UninstallKeeps`, `InstalledTwice`, `UninstallClears`,
`UndoneUntouched`, `InstallWires` and `UninstallWires` what follows. `IndInv`:

* `FileInv`: the file is absent, blank, broken or a document; as loaded it is wired as
  one; and unless a command raced with a save, it has the user's part as last saved;
* `ProcsInv`: what is about to replace the file is a whole document, wired as one,
  and if it was made from the last save it has the user's part;
* `CountInv`: the count of saves is a number.

A save by the user or the host may move, add or drop entries of the user's, and
`SavesWired` says that it leaves Lockie's as wired as they were.

`GoSlicesProofs` has what these inductions rest on: a set of numbers that holds 0
and each successor is all of them (`SetInduction`, from the library's least elements
of well-founded relations), and the same for sequences (`SeqInduction`). Both speak of
sets, which the provers can instantiate, instead of predicates, which they cannot. A
recursive function is first shown to exist on every prefix, then reasoned about.

`DaemonLifecycleProofs` proves `LifecycleTyped`, `NoSocketLeftHolds` and
`AckedUnlessSharedHolds` for any sets of processes and commands and any numbers of
calls, starts, stops, kills and failures, from two assumptions (`None` and `Stale`
are no process, bounds are naturals). Its `IndInv`, which `life_race` checks too:

* `SocketInv`: until its listener is closed, a socket names a process that has it
  open; a process past `CloseListener` is named by no path, because the listener's
  `Close` unlinks the path, whoever bound it;
* `CommandInv`: a command in a call is connected to a process that has opened the
  store;
* `StoreInv`: while no store has been shared, at most one process has it open, its
  memory holds all of the file, and a request past its save is in the file. So
  both a save and the deferred `Close` keep every acknowledged alias.

## Only model-checked, and not modelled

Model-checked only: liveness (`Answered`, `CallEnds`, `AloneServes`), which the prover
does not do, and the runs that expect a violation.

Not modelled:

* the regular expressions and the entropy themselves, and `ScanStream`, which no
  handler calls;
* `readLine` with its size limit of 4 MiB. All that depends on it is which error
  ends a connection;
* two processes that write one `aliases.json.tmp`: `DaemonLifecycle` replaces the
  file as a whole;
* a disk that loses what was not synced (`store/disk/disk.go:38` says that the store
  fsyncs, but no call syncs), which a model would only restate;
* the time filter of `lockie audit`, the scopes and the detection of hosts, and
  everything that only prints or wires commands together.

## Plan

What is left, in this order:

1. Two processes' saves through one `aliases.json.tmp`, as a detailed form of the
   saves of `DaemonLifecycle`.
2. A map from names to secrets per life of a session, as the abstract specification
   of `HookSessions` and of the daemon in `HookCommand`.
3. `FrameReader` for `readLine` over chunks.
