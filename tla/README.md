# WarrenVPN in TLA+

A verification project for WarrenVPN, an OpenVPN front end for Linux: a root daemon
(`warrenvpnd`) on the system D-Bus, a command line client (`warrenvpnctl`) and a GTK client
(`warrenvpn`). The modules here model the daemon's kill-switch, the life of its connections,
the store its configurations are kept in, the DNS of a tunnel, the authentication dialogue with
the clients, and the texts that are read and written on the way; TLC checks them on small
instances and TLAPS proves the safety for every instance. Paths like
`warrenvpnd/src/connection.rs` are below `src/crates/`.

## 1. The system

### Components

| Part | State it keeps | Operations | Correct when |
|---|---|---|---|
| Kill-switch rules, `warrenvpn-core/src/killswitch.rs` | none (a function) | `build_ruleset`, `teardown_ruleset` | the rule set lets out the union of what the armed connections may reach, and nothing else |
| Kill-switch manager, `warrenvpnd/src/killswitch.rs` | map connection id → allowance, behind a mutex; the nft table in the kernel | `arm_connecting`, `arm_connected`, `disarm`, `recover` | map and table change together; the end of one tunnel never opens another's protection; an answer "armed" is true |
| Connections, `warrenvpnd/src/connection.rs`, `main.rs` | `active` list, one `ConnState`, child process, management socket and relay task per connection | `StartConnection`, `Disconnect`, `RecoverNetwork`, relay | protection that was promised stands; no process is lost; what was asked to end ends and leaves nothing behind |
| logind handler, `warrenvpnd/src/logind.rs` | a snapshot of `active` while it walks it | `PrepareForShutdown` | every registered connection is told to stop |
| Tunnel DNS, `warrenvpn-core/src/dns.rs`, `warrenvpnd/src/dns.rs`, `packaging/scripts/warrenvpn-updown` | the environment file; per-link settings in systemd-resolved; `dns_ifindex` | up helper, `apply`, `revert` | the link holds the current session's DNS, and nothing after the end |
| Client sessions: `provide_credentials`, `warrenvpn-cli`, `warrenvpn-gui` | `pending_auth`; each client's queue of signals, open dialogs, keyring | `AuthRequest`, `ProvideCredentials`, `warrenvpnctl connect` | a question is answered by what was given for it, once; the command reports the end it sees |
| Configuration store, `warrenvpn-core/src/store.rs` | a directory per configuration: shadow copy and metadata | install, list, get, sanitized, remove | what is installed stays until it is removed, what is removed stays away, and no half-written file is ever read |
| Configuration classifier, `ovpn-config` | none | tokenizer, `is_safe` | the verdict judges every line that is read of a text, and an option by its name, however that is spelled |
| Management line reader, `read_capped_line` in `warrenvpnd/src/connection.rs` | `buf` and `overflow` of the current line | one call per line | a line is read as it was sent, or dropped whole |
| Management protocol, `warrenvpn-core/src/management.rs` | none | parsing, escaping, base64, challenges | what one side writes is what the other reads |
| System units, `packaging/systemd`, `packaging/nft` | none | restart on failure, boot recovery | a crash keeps the block, a boot clears it before the daemon arms anything |
| polkit, D-Bus policies, icons, manuals, scripts | – | – | not behaviour of this kind |

### How they interact

A client calls `StartConnection`. With the kill-switch option the daemon resolves the
configuration's servers and arms a *connect-phase* allowance (DNS and those servers) before it
spawns OpenVPN; it waits for OpenVPN's management socket, registers a Connection object and
starts a relay task. The relay turns each management line into a property change or a signal;
at every `CONNECTED` it reads the file the up helper left, configures DNS with three calls to
systemd-resolved, and replaces the allowance by a *tunnel lock* (the tunnel device and the one
server endpoint). When OpenVPN closes the socket, or a read of it fails, the relay reverts DNS,
decides from `killswitch_armed` and `expected_disconnect` whether the allowance stays, waits for
the child and removes the object. All relays, launches and `RecoverNetwork` share the kill-switch manager,
whose mutex is held across an `nft` process. The kernel table survives the daemon.

### What is hard here

* tasks of several connections interleave at every `await`, and share one nft table;
* each nft run, spawn, DNS call and file operation, and each read or write of the management
  socket, may fail, halfway through a handler;
* OpenVPN is another process: it restarts, rewrites its file, asks again or dies between any
  two steps of the relay;
* two clients may answer the same question; the question may have changed meanwhile;
* calls on the store run at the same time without a lock, and `StartConnection` waits for a
  user at a polkit prompt between reading a configuration and running it;
* the daemon's map is lost in a crash, the kernel's table is not.

## 2. Modules

| Module | Models | Lines of the source |
|---|---|---|
| `KillSwitchRules` | allowances, the rule set as the sets its lines enumerate, the verdict on a packet | `warrenvpn-core/src/killswitch.rs` |
| `KillSwitchTable` | **abstract specification**: every operation of the manager takes effect at once on map and table | `warrenvpnd/src/killswitch.rs` |
| `KillSwitch` | the manager in detail: callers, the mutex and its queue, the nft process, crashes, reboots; `ImplementsAtomic` is the refinement | `warrenvpnd/src/killswitch.rs`, the units |
| `VpnDaemon` | connections: launch, relay, end, Disconnect, RecoverNetwork, logind, crashes; composed with `KillSwitchTable` | `connection.rs`, `main.rs`, `logind.rs` |
| `TunnelDns` | up and down helper, environment file, parsing, systemd-resolved | `connection.rs:410-555, 596-599, 631-708`, both `dns.rs`, `warrenvpn-updown` |
| `Session` | prompts, `pending_auth`, signals, `warrenvpnctl connect`, the GUI's dialogs and saved credentials | `connection.rs:112-169, 426-584`, both clients |
| `StoreTable` | **abstract specification**: a table of configurations, each with a text that never changes and a label | `store.rs`, its interface |
| `Store` | the store file operation by file operation, and the Manager's methods on it; `ImplementsTable` is the refinement | `store.rs`, `main.rs:53-278, 351-378` |
| `LineReader` | the chunked reader of the management channel | `connection.rs:592-629` |
| `Characters` | the characters that the texts tell apart, and a text cut at its line ends | `ovpn-config/src/options.rs:24` |
| `Management`, `OptionFile`, `StoreText` | pure functions on texts: quoting, base64, challenges; tokenizer and verdict; metadata and the sanitized copy | `management.rs:138-358`, `ovpn-config/src/lib.rs:44-343`, `store.rs:187-277` |
| `Conversions` | the line reader together with the pure functions: one input is chosen, and the properties say what becomes of it | |
| `KillSwitchRules_proofs`, `KillSwitch_proofs`, `VpnDaemon_proofs`, `TunnelDns_proofs`, `Session_proofs`, `Store_proofs` | theorems about these modules | |
| `Text_proofs` | theorems about `LineReader`, `Management` and, in its second part, `OptionFile` and `StoreText`; about all of `Conversions` | |
| `FoldLemmas` | induction over numbers and sequences, and what `FoldLeft` computes | |
| `MC*` | constants for TLC; in `MCText` the inputs of the pure functions | |

### State and actions against the code

**KillSwitchRules.** The script is an accept-list under a drop policy, so the order of its lines
is irrelevant and a table is a record of sets: `dns` (the two port-53 lines, present while any
allowance is connecting), `devs`, `hosts` (candidate servers), `peers` (locked endpoints).
`Buildable` is `build_ruleset` returning `Some`: one device name `is_valid_ifname` refuses makes
the whole set unbuildable. `Grants` says what an allowance is meant to open, `Accepts` what the
installed chains do with a packet; DHCP, loopback and established forwarded packets are `Baseline`.
DHCP is one service here, so a mix of its client and server ports is not told apart.

**KillSwitch.** `queue` is the FIFO queue of `tokio::sync::Mutex`, `holder` its owner. A call
enters (`StartNft`), changes the map, and runs one nft script; `NftExits` commits it or not (nft
applies a script as one transaction, so a non-zero exit leaves the table as it was) and answers.
`SkipNft` is a disarm of a connection that has no entry, or a rebuild that no script can express.
`Crash` may come at any point: the nft child that is running finishes before systemd starts a
new daemon, because the unit's control group must be empty first. `Reboot` is
`warrenvpn-recover.service`, ordered before the daemon.

**VpnDaemon.** `stage` is where the task that owns the connection is (`launch_and_attach` up to
"attached", then `relay`); `armed`, `expected` and `snapshot` are `killswitch_armed`,
`expected_disconnect` and the value of it the relay read at the end of the stream. `proc`,
`lines`, `env` and `peer` belong to OpenVPN and its helper. A `CONNECTED` line is handled in the
steps the code has: the line and the file are read, DNS is done, the kill-switch is locked. A
connection id is random and never reused; an id that is "idle" and has no allowance stands for the
next fresh one, so no counter is needed. The relay's loop ends with the process (`StreamEnds`) or at
a failing read while OpenVPN runs on (`ChannelBreaks`): then unread lines are lost, what is written to
the socket later binds OpenVPN to nothing (`Deaf`), the allowance is kept or withdrawn (`DecideLock`),
and only then is the child waited for (`Unregister`). State strings, byte counts, logs and web logins
change nothing a property of this module looks at. The relay's early return when its object is not found is
unreachable: the object was registered just before. With `persist-tun` the helper does not run
again, so `Establish` may leave `env` as it was.

**TunnelDns.** The helper writes a temporary file line by line and renames it, as `--up` when the
tunnel is there and as `--down`, with the values it was told before, when it was closed
(`DownHelperEnds`); `Environment` is
the map `read_env_map` makes of it, in which a variable OpenVPN did not set is *present and empty*;
`Orders` are the orders a hash map may yield the options in; the device's index is looked up after
the file was read, when the name may already belong to the next session's device. `FailingCalls`
are the calls systemd-resolved may refuse, `RevertLink` among them. The relay ends with the stream
(`Reverts`) or at a failing read (`ReadFails`), with or without OpenVPN; either way it reverts once,
and a refusal is only logged.

**Session.** `pending` is `pending_auth`. `ProvideCredentials` has the two critical sections of
the code, taking the prompt and writing the reply. What a client typed is known by the kind of
the request it saw, and the reply by the realm that was pending. `follow_connection` handles one
signal at a time, reads the State property anew, and does nothing while its user types.
OpenVPN may count bytes at any time (`CountsBytes`), and every count is announced like a change of
state (`RelayCount`); the two signals of one line are one here, as the command treats them alike.
The channel works until OpenVPN's end; how the relay deals with one that breaks is in `VpnDaemon`.
The GUI answers from the keyring when there is no challenge, and otherwise opens a dialog.
OpenVPN takes a reply that fits its question and drops another.

**Store.** One instance is one user's directory. `dirs` and `file` are what is on disk: a
directory per id with `config`, `meta` and their temporary names. A call is a record of where it
is; a step is one system call: `MakesDirectory`, then for each of the two files `OpensTemp`,
`WritesTemp`, `RenamesTemp`. `Unlinks` is one file of `remove_dir_all`, in any order, and
`RemovesDirectory` fails if a file appeared after the directory was read. A list is `read_dir` (one
system call for a directory of this size), then `exists` (`LooksUp`) and `read_meta`
(`ReadsMeta`) per id. An `exists` that fails counts as a no (`LookupFails`), metadata that cannot be
read as none, which is unsafe and named like the id (`MetaFails`), and only a directory that cannot be
read fails the call (`ListFails`). `StartConnection` uses the file four times: `get`, `ReadsConfig` for the
verdict, `ResolvesRemotes` for the kill-switch, `OpenVpnReads` when OpenVPN opens it.
A failure may come at any file operation and a crash between any two. A path is on one file
system and a rename is atomic. `given`, `published`, `answered`, `touched` and `gone`, and a list's `must` and
`failed`, are history for the properties. `random_id` draws 128 bits, so an id is fresh. Power loss, which may lose a
rename in a directory that was not synced, is not modelled.

**LineReader.** `sent` is the whole channel, `filled` what the buffered reader has of it and
`taken` what the calls have consumed, so a chunk is `sent[taken+1..filled]`. `buf` and `overflow`
are the locals of `read_capped_line`; `line` remembers where the returned bytes stood. `MaxLine`
is the code's `MAX_MGMT_LINE`.

**Characters, Management, OptionFile, StoreText.** Texts are sequences of characters, a character
is a number, and fixed words are one character. `Lexed` is OpenVPN's `parse_line`, the other end of
`escape_mgmt_value`, and an external definition. `Skip`, `TokenEnd`, `ParseLine` and `Unquote` keep
the control of the tokenizer, its one odd comment rule included. A loop over the characters that
remembers a mode is a fold (`Mode`, `UnquoteState`, `JoinState`, `SanitizeState`), a loop that
advances an index is a recursive function of the index (`Skips`, `Tokens`). The lists of names
are constants: which names are unsafe is data. `sanitize_config` sees a line as a tag or not; lines
are told apart no further.

**Conversions** has a set `Samples` of inputs, typed by `SampleAssumption`: texts of any length
without the word or separator that would end the field they stand in (`Entry`, `Realm`,
`Lacking`). So a value with a line end is not a value a client's entry yields, and a realm holds
no quote. `Utf8` are the byte sequences `String::from_utf8` accepts. With a dynamic challenge the
relay looks at nothing else of a report, and neither does `ReadsDynamic`: the daemon may read a
static challenge out of the same line, if a state identifier ends in `SC`, without any effect. A
`Pair` is any two texts, which are put one above the other. An `Option` is a name of letters that mean
nothing to the tokenizer, each spelled bare, escaped, quoted or after a joint, any text above it, and
whatever follows it, beginning with white space or a line end. What the verdict should be is said of
`LinesRead`, the lines left after joining: where a text ends in a backslash (`EndsOpen`), its last
line and the first one below are one line (`LinesReadOfBoth`), comments included. `Rows` are configurations as
`sanitize_config` sees them, `Names` any display name: what is read back of one has spaces for its
line ends.

## 3. Runs

| Run | Instance | Question |
|---|---|---|
| `manager_safety` | 2 callers, 2 connections, a device name no rule set may hold, nft failures, crashes (603 202 states) | map and table agree, the atomic specification is implemented |
| `manager_liveness` | 3 callers, 1 connection | every call is answered |
| `daemon_safety` | 2 connections, always with kill-switch and helper, 1 unread line each (1.62 M states up to symmetry) | protection stands and outlives a drop; nothing outlives an orderly end |
| `daemon_options` | 1 connection, all options and outcomes, one invalid device | it ends when asked and never stays up unarmed, unless its channel breaks; it is reaped when dead |
| `session_command` | `warrenvpnctl connect` alone, 3 prompts, 2 queued lines | questions are answered, ends are reported |
| `session_clients` | command and GUI, `auth-retry`, 2 prompts | no prompt gets two replies |
| `tunnel_dns` | 3 sessions' options, 3 devices or a persistent one, 2 queued lines, refused first calls and reverts (286 647 states) | DNS settles on the current session, nothing is left |
| `store` | 2 calls at a time, 2 configurations, a safe and an unsafe text, failures and crashes (1.19 M states up to symmetry) | files stay whole, installed stays, removed stays away, a list lacks only what could not be read, what runs is what was classified; the abstract table is implemented |
| `text_conversions` | channels of up to 6 bytes in chunks of up to 3, a cap of 2; samples of credentials, challenges, pairs of configurations, spellings of names, block lists and display names (129 564 states) | each conversion means the same to its writer and its reader |
| `never_connected`, `auth_retry`, `ipv6_endpoint` | small | what the repository says and the code does not (section 6) |

**Bounds.** Two connections are enough for every interplay through the shared map: one changes
it while the other relies on it. A third caller in `manager_liveness` makes the queue matter. One
unread management line (`MaxLines`) lets OpenVPN be one event ahead of the relay, two let a whole
reconnection pass it by. `MaxPrompts` = 3 covers a passphrase, a refused login and the question
after it. `MaxLinks` = 3 lets the relay be two devices behind. The counters exist only in
guards and in no property. `daemon_safety` fixes the DNS outcome, which `daemon_options` varies.
Two calls at once meet in every pair of methods, and a second id lets a list
see one configuration while another comes or goes; a third call would meet the files in no new
state, as every step is about one id. A cap of two bytes, chunks of three and channels of six put a
line end before, at and after the cap and on either side of every chunk boundary. Base64 is
checked at each length modulo three with bytes that set the first and the last bit of a group.
Pairs of texts of two characters hold every pair of characters of the tokenizer, on one line and
on two, with a backslash or a comment where the texts meet. The texts are short because the theorems are about every length.

**Deadlock** is checked in the manager and daemon runs. A session or a tunnel ends for good with
its process, and a channel when it is closed, so those configurations say `CHECK_DEADLOCK FALSE`.
The store's calls never block each other.

**Fairness.** tokio polls ready tasks, so launches, relays, calls and the logind loop are weakly
fair; `wait_for_socket` gives up after 200 polls of 50 ms, so a launch ends either way; nft reads
a short script from a pipe and exits; OpenVPN obeys `signal SIGTERM` and reads its socket; the
user of `warrenvpnctl` answers a question on the terminal. Nothing is assumed of servers, crashes,
restarts, calls, or the user of the GUI, and nothing of an OpenVPN whose relay stopped reading:
`DisconnectCompletes` and `NeverRunsUnarmed` except a connection that is `Severed` from its process. The liveness properties are `CallsAnswered`,
`DisconnectCompletes`, `NeverRunsUnarmed`, `DeadIsReaped`, `QuestionsAnswered` and
`ExitEndsFollow`.

## 4. Proofs

TLAPS proves, for any number of connections, callers, servers, devices, addresses and unread
lines, from the named assumptions of the modules only:

* `RulesetIsUnion` (about `Ruleset` and `Accepts`): what a table lets out is the baseline and the
  union of its allowances' grants.
* For `KillSwitch`: `TypeOK`, `EgressIsUnion`, `NeverOpensAnother`, `ArmedIsInstalled`, and
  `ImplementsAtomic`, the refinement of `KillSwitchTable`. The invariant `IInv` adds to the types
  that the mutex queue holds each waiting task once and never the holder (`QueueInv`), that while
  nft runs its script is the one of the map already changed and that map differs from the one
  before by exactly the holder's operation (`NftInv`), and that with the mutex free the kernel
  enforces the map, if the last change took effect (`SyncInv`). `NftInv` is what makes the
  refinement go through: the operation's effect becomes visible in one step, when nft exits.
* For `VpnDaemon`: `TypeOK`, `ShieldHolds`, `OrderlyEndLeavesNothing`, `NoOrphanProcess`,
  `LockFollowsHelper`, `LockOutlivesDrop`. `IInv` adds to the types which stages go with
  which states of process, map and flags (`StageInv`) and that a relay which has no unread
  `CONNECTED` works with what is in the file (`FollowInv`). `ShieldHolds` is inductive on top of
  these. One lemma per action shows that it keeps `IInv`, most of them by showing that the
  action leaves the table and the shielded connections alone (`QuietShield`).
* For `TunnelDns`: `ReadsWholeFile`, and `NothingLeft` when systemd-resolved refuses none but the
  first of the three calls and the revert. `FilesInv` says that the environment file and the relay's copy are whole;
  `OnlyTheirs` that a link with settings is the tunnel's present one, and that the relay has
  remembered it or is between the first call and the last: what a restart takes away needs no
  revert, and what stays is reverted or was refused to be. A refused second call breaks it, which is
  why the theorem assumes there is none (section 6). `TypeOK` and `DnsSettles` hold without that
  assumption. `Parsed` says what
  `parse_foreign_options` makes of any list: the servers and domains in it, each once; so any two
  orders of a hash map agree on the sets (`OrdersAgree`). `Settled` says what the relay carries
  from step to step is of the session whose file it read, and that a link it worked on since
  holds that much of it.
* For `Session`: `TypeOK`, `NoPromptAnsweredTwice` and `FailureMeansEnd`. The strengthening `OnceInv` says that a
  prompt that can still be answered is in one place only, an unread line, `pending_auth` or one
  call that has taken it, and that nothing was written for it yet. It is why
  `ProvideCredentials` may take and write in two critical sections: taking moves the prompt,
  whatever the other clients do. `EndInv`, for the command, says that a state, an unread state line
  or an object that is gone tells of the end only when OpenVPN is ending; what is left is the command
  that reads an empty state of a connection there is (section 6), which `FailureMeansEnd`
  names. `UnansweredStaysPending` is proved
  for one client and without `auth-retry`, which is the instance TLC checks it on: with a second
  client another's reply may use the question up, and the run `auth_retry` is the counterexample
  with retries. `AskInv` follows the one question there is: it is unread, offered to the client, taken
  up by a call or replied to, never two of these, and while there is none no prompt is anywhere.
* For `Store`: all six safety properties of its run and `ImplementsTable`. `IInv` is the
  conjunction of the properties with what makes them inductive: an id that was never drawn has no
  directory and no file (`IdOK`), at most one install works on an id (`Unique`), and for each call
  where it is fits what is on disk (`CallsOK`): an install past its first rename works on the
  metadata of a published id and renames only what is wholly written, a removal is of an id
  somebody asked to remove, a list keeps each id it must still show in `todo`, `found`, `out` or
  `failed`, and a start has read the text that was handed in and reads the same again or nothing. The
  refinement follows step by step: the rename of the shadow copy is the table's `Put`, the rename
  of the metadata and its unlinking are `Label`, the unlinking of the shadow copy is `Drop`, and
  every other step leaves the table alone.
* For `LineReader`: `TypeOK` and `ReadsAsSent`. `Progress` says that `buf` is the line so far, from
  `start` to `taken`, unless it was longer than the cap; then it is empty and `overflow` is set.
* For `Management`, about texts of every length: OpenVPN lexes a command into the realm and value
  it was made of (`CommandIsRead`); decoding undoes encoding (`Base64RoundTrip`); dynamic and static
  challenges and the reply to a static one are read as they were written (`DynamicChallengeIsRead`,
  `StaticChallengeIsRead`, `ReplyIsRead`). `CredentialsArrive` and `ChallengesAreRead` follow for
  every set of samples. A quoted value is lexed by induction over its characters: after each of
  them the lexer is within quotes and its token is the value so far. Base64 goes group by
  group, with the arithmetic of `Sextets` and `Octets` once for three bytes.
* For `StoreText`, about texts of every length: what `MetaFile` writes is read back
  (`MetadataIsReadBack`), because `EncodeMetaValue` leaves no line end in a name, so the file has the
  two lines it was given and no third that could pass for a verdict. `SecretsAreOmitted` says which lines
  `SanitizeConfig` shows: those not `Hidden`, each at its place. `Hidden` is declarative, a line is
  hidden by a block opened before it that no line between closes, and recursive only in that a
  hidden tag opens nothing; the induction over the prefixes of the text shows that the fold skips
  after a prefix exactly when its last line is hidden by the block it remembers.
* For `OptionFile`, about texts of every length: `VerdictIsThatOfTheLines` says of any text above any
  other that it is safe exactly when each of their lines is (`LinesReadOfBoth`). Joining and cutting
  are folds, and what a fold does from a line end on does not depend on what came before it, but for
  one bit, whether a backslash came last: then the first line below continues the last one above
  (`LinesRunOn`, `JoinedRunsOn`), whether that is a comment or not. `SpellingMakesNoDifference` says
  what the verdict on a configuration with an option in it is, for any text above, any spelling and
  anything that follows: the text above must be safe, the option must be by its name, and the lines
  below must be. Two clauses of it are the code's exceptions: below a backslash the option's line is
  judged as the end of the line above, and a `dns-updown` is judged by its parameter only if it stands
  there as such. By induction over the letters the tokenizer's mode is "plain" after each of them and
  no white space stands outside quotes, so the first token is the whole spelling; and `Unquote` of it
  is the name, because each letter adds itself to what is read. The comment rules do not apply, as
  the name begins with a letter, a quote or a backslash.
* `MetadataIsRead`, `SanitizedOmitsSecrets`, `VerdictIsByLine` and `SpellingIsIrrelevant` follow
  from these four for every set of samples.
* `FoldLemmas` are what the theorems on texts rest on. The theorems of the library on induction and
  on recursion take an operator as a parameter, which the provers cannot instantiate. Stated
  with the *set* of the numbers or sequences that have the property, induction can be, and
  follows from `WFMin`. `RecursionExists` is the same for a recursive function: if the value at an
  index is determined by those at the smaller ones, there is a function with these values;
  without it nothing could be said of the tokenizer's `Skips` and `Tokens`, or of `Hidden`.

`VpnDaemon` uses the atomic table where the code uses the manager with its mutex; `Refinement`
is what justifies that.

Every safety invariant and every refinement a passing run checks is stated by a theorem, two of
them under a further assumption which is named above (`NothingLeft`, `UnansweredStaysPending`).
Model-checked only: liveness, `QuestionsAnswered` and `ExitEndsFollow` among it, since fairness and
`ENABLED` are outside the prover's reach.

## 5. Not modelled, and the plan

What is left, in this order:

1. The lists the graphical client draws, and its settings file.
2. State and byte-count lines of the management channel, field by field.

Left out for good: polkit's answer (a refused call changes nothing) except where `Store` has it
between reading and running, D-Bus bus access, logs, layout, the list of command-line arguments
(unit-tested in place), web login (a URL that is shown), icons, manuals and packaging data.

## 6. What the models found

Each of these is a run that TLC must find violated.

* **never_connected** – the stream ends before the first `CONNECTED`: `killswitch_armed` is still
  false, so the allowance is withdrawn though nobody asked for the end (`connection.rs:556-566`;
  the comment at 275-277 and `docs/ARCHITECTURE.md:202` say otherwise).
* **auth_retry** – an answer to the report of a failed login uses up the question that followed
  it (`connection.rs:123`).
* **ipv6_endpoint** – the helper's empty `trusted_ip=` hides `trusted_ip6`, so a kill-switch
  connection to an IPv6 server is always torn down (`connection.rs:693`).

Seen while modelling, without a run of their own; the property named is what does hold:

* the relay's loop ends at any read error, so "Socket closed: OpenVPN exited."
  (`connection.rs:549`) need not be so: after a Disconnect the allowance is withdrawn (566) while
  OpenVPN runs, and the child is waited for later (571) (`LockOutlivesDrop`);
* the command reads the state at every change of a property and takes an empty one for the end
  (`warrenvpn-cli/src/main.rs:249`), although it should follow the connection "until it reaches
  CONNECTED or exits" (189-190): byte counts before the first state make it report a failure.
  They are on before the hold is released (`connection.rs:405`); that a state comes first is up to
  OpenVPN, and nothing in the daemon or the command waits for it (`FailureMeansEnd`);
* a link configured in part is not remembered for the end (`warrenvpnd/src/dns.rs:47-55`,
  `connection.rs:446-461`), so on a device that outlives OpenVPN the side effects are not "undone
  on teardown" (`connection.rs:410`): `NothingLeft` holds while, of the three calls, only the first
  may fail;
* a configuration whose lookup fails is left out of a list that succeeds (`store.rs:144`), though
  it is of "all installed configurations" (116) (`ListMissesOnlyUnread`);
* lines are joined before comments are recognised (`ovpn-config/src/lib.rs:255`), so a "comment to
  end of line" (67) that ends in a backslash takes the next line with it, and its verdict
  (`VerdictIsByLine`);
* `dns-updown` is compared as written, not unquoted as other names are (`ovpn-config/src/lib.rs:322`),
  against the comment at 330-333 (`SpellingIsIrrelevant`);
* after an unexpected drop the kept allowance belongs to an id no later connection has, so
  reconnecting and disconnecting in order leaves egress blocked until `RecoverNetwork`
  (`connection.rs:560`, whose comment says a reconnect ends it);
* a launch that fails after arming leaves its connect-phase allowance in the union, DNS and its
  servers open and everything else blocked (`connection.rs:278-321`);
* a locked table admits one server, so a reconnecting OpenVPN cannot reach the other `remote`s
  of its configuration (`connection.rs:441`);
* a failed re-arm clears `killswitch_armed`, and the end that follows withdraws the earlier lock
  (`connection.rs:472, 556`): `ShieldHolds` therefore speaks of connections whose own last arm
  succeeded;
* `warrenvpnctl connect` waits for ever when OpenVPN dies without announcing it
  (`warrenvpn-cli/src/main.rs:219`);
* the GUI answers a failed login with the saved values again, without a dialog, and keeps a
  key's passphrase in the field of the login's password (`warrenvpn-gui/src/main.rs:560, 682`);
* name servers reach systemd-resolved in arbitrary order (`connection.rs:658`), and on a
  persistent device a session that pushes no DNS keeps its predecessor's (`connection.rs:665`);
* a relay that lost its channel waits without a limit for an OpenVPN nobody can tell to end, and its
  connection stays registered (`connection.rs:571`); a revert that is refused is not tried again
  (`connection.rs:552`);
* an install whose metadata cannot be written fails, but leaves a configuration that is listed
  under its id and as unsafe; one that fails earlier leaves a directory, and a write that fails
  a temporary file, whose id no client ever learns (`store.rs:91-94, 245-247`);
* two removals at once, or one that meets an install's rename, depend on how `remove_dir_all`
  treats a file that vanished: the model takes the current standard library, which skips it; with
  an older one the error is `NotFound`, which `remove` reports as done (`store.rs:167`).
