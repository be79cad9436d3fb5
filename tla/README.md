# A TLA+ verification of felica-rs

felica-rs is a Rust library for FeliCa cards. It has three layers:

* **drivers** (`src/driver`, `src/transport`, `src/clf`): USB and network access
  to contactless readers: Port-100, Port-400 (PC/SC), RC-S956, RC-S320 and a
  remote reader over TCP;
* **the FeliCa Standard client** (`src/felica_standard/api`, `secure`, `command`,
  `response`, `keys.rs`): commands, batching, timeouts, mutual authentication,
  encrypted exchanges, key files;
* **an emulated card** (`src/felica_standard/emulator`): Systems, Areas,
  Services, block stores and the card's side of the same protocols.

This directory models the parts that keep state and whose mistakes would not
show in a unit test, checks them with TLC on small instances and proves the
central properties with TLAPS for every instance. Source paths below are
relative to the repository root; a path without a leading directory is under
`src/`.

## 1. Inventory

| Component | State | Operations | Properties that make it correct | Module |
|---|---|---|---|---|
| Emulated card, `felica_standard/emulator/{mod,system}.rs` | Systems, the active code; per System the Mode, pending authentication, session | `add_system`, `set_active_system`, `power_off`, every command of `handle_frame` | Mode and secrets agree; a session never survives a change of System; no secure command runs twice; keyed Services stay behind authentication; table 4-1 | `EmulatedCard`, `CardModes` |
| Emulator loop, `examples/emulate.rs` | the card and the listening reader | listen, serve, power off | a card that comes back into a field answers | `EmulatorHost` |
| Block writes, `emulator/{blocks,system}.rs` | one block store per Service Number | `validate_block_element`, `apply_block_writes`, purse and cyclic rules | atomic lists; no money created; retries harmless; rings keep their order; overlap Services do not lend each other rights | `Blocks`, `Purse`, `BlockStore` |
| Area and Service tree, `emulator/structure.rs` | tree of Areas and Services with shared stores | `add_area`, `add_service`, `sync_overlapping_services` | ranges nest; one kind and one store per overlap group | `AreaTree` |
| Client secure session, `api/secure_ops.rs`, `secure/{mod,des}.rs` | context: counter, transaction ID, key, nodes | `mutual_authentication`, encrypted exchange | an answer belongs to the command that was sent; counters stay together; sessions are fresh | `SecureMessaging` |
| Client API, `api/*.rs`, `type3.rs` | polled target, context | polling over bitrates; every operation with its bounds, timeout and judgement of the answer | results belong to their calls; no timeout before the card's promise; completed writes are not reported as refused | `ReaderApi` |
| Keys, `felica_standard/keys.rs` | key table | load, `resolve`, derive for both schemes | reader and card derive the same keys | `KeyStore` |
| Codecs, `command/`, `response/`, `payload.rs`, `types.rs` | none | parse and serialise every variant | the two directions agree | `Wire`, `Commands`, `Responses`, `Codec` |
| Port-100 as initiator, `driver/port100/{chipset,discovery}` | what the driver believes the reader is configured to | settings, detection, `transceive` | an exchange runs under the settings its operation asked for although known settings are skipped | `Port100Config` |
| Port-100 as target, `discovery/target.rs`, `dep.rs` | pending answer, deadlines, link rate | four listen calls, DEP activation | the right peer is answered, an initiator is found, loops end | `Listen` |
| Port-400 device, `driver/port400/device`, `pcsc` | transparent session, RF speeds, bit framing | open, close, detect, speeds, exchange | the reader is given back as found; beliefs are true, it can be reopened | `Port400Device`, `Tlv` |
| Port-400 activation, `device/activation.rs` | cascade level, UID, rates | anticollision, select, RATS/PPS, ATTRIB | the card is selected whole, both ends use one rate | `Activation`, `Iso14443` |
| Port-400 ISO-DEP, `device/iso_dep.rs` | block numbers, budgets | chaining, R(NAK), WTX, S(IFS) | payloads and answers arrive once and whole; the loop ends | `IsoDep`, `Iso14443` |
| Host links, `driver/io.rs`, `{port100,rcs956,rcs320}`, `pcsc/ccid.rs` | command in flight, read buffer, sequence number | send, read ACK and answer, recover | answers stay in step with commands, commands end | `HostLink` |
| Frame formats, `driver/framing.rs`, `*/frame.rs`, `rcs320/device.rs` | none | build, parse | damage is noticed, but for three confusions of the length's form | `Framing` |
| Remote driver and server, `driver/remote.rs`, `examples/remote_server.rs` | TCP stream; threads and a mutex around the reader | request and response lines | an answer belongs to its request, no request is done twice | `Remote` |
| AES v2 session, `secure/v2_aes.rs`; DES and AES, `secure/primitives.rs`; USB, `transport/`, `reader.rs`; `examples/dump*.rs` | | | | none, see section 7 |

**How they interact.** The client calls `transceive` of a driver with a frame and
a timeout; a driver turns it into commands to the reader chip, which exchanges
frames with a card. The emulator's `handle_frame` is the card at the other end
of that exchange, and `emulate.rs` puts it behind a listening Port-100. Calls are
synchronous and the library starts no threads, so the concurrency is between
the host, the reader firmware and the card (a message is lost or late, the
other side has acted on it, and this side decides from a state that may be out of
date) and, in the remote server, between the threads of its clients.

**What is hard here.** Frames that are lost, repeated or late; state cached on
one side of a link (Port-100 record, Port-400 session and speeds, transaction
counters, ISO-DEP block numbers); resources that outlive a selection; several
steps of which one fails; arithmetic at the edge of a field; retries of work
already done; loops that must end. `PROJECT.json` lists each at its line under
`hazards`, with the properties that guard it.

## 2. Modules

A component has one module, its theorems a module `*_proofs`. The MC modules give
values to constants. Five of them (`MCBlocks`, `MCPort100`, `MCPort400`, `MCLinks`,
`MCClient`) hold several components that belong to one device or
layer: the variable `part`, chosen in `RunInit` and never changed, says which
component a behaviour is of, and the variables of the others rest. A property of
such a run is the conjunction of the named properties of its component's module
(its `TypeOK` among them) for the behaviours of that part. Assumptions of
instantiated modules are evaluated by `ASSUME Inst!XAssumption`.

### EmulatedCard, CardModes

One variable per field: `count` and `active` are `systems.len()` and
`active_system`; `mode`, `pending`, `session` are the fields of each
`EmulatedSystem`; `reply` is what `handle_frame` returned, reduced to its kind, the
System that answered and the Services whose blocks were reached. `executed` is a
history of the secure commands that ran. There is one action per host call and
per kind of command. The selection `system_index_for_idm` performs before a
command looks at its System (and which persists even if the command is then
ignored) is part of each action. `Inquiry` stands for the five read-only
commands that any Mode answers. Cryptography is symbolic: `random_2` is a number
the card never draws twice, a frame opens under the key it was closed with only,
which stands for decryption plus the eight-byte MAC check; `random_1` is a pair
so that two authentications can share their transaction ID and still differ.
Selection by System Code means the first System with that code, as the code's
`find` does; the theorems that need distinct codes say so (`DistinctCodes`).
`CardModes` is the abstract Mode machine of table 4-1, which the card refines.

### EmulatorHost

Composes the card with the loop of `emulate.rs`: build, listen (a poll of nobody
starts over after a second), serve commands until no response or no frame, then
`power_off` and listen again.

### SecureMessaging

Adds the reader to the card. `net` holds every frame ever sent and nothing is
removed from it, so a frame may arrive late, twice, in any order or never.
`mutual_authentication` is three steps, `encrypted_command_exchange` two. Any of
them may end in `Fail`, which keeps the context, as the early returns do. The
card may be polled, reset or switched off by others in between.

### Blocks, Purse, BlockStore

A block is the record of the fields the rules look at; the width of the purse
fields is `SignedMax` (2^31 - 1 in the code), the arithmetic is done on unbounded
integers as the code does it in `i64`, and `WriteValue` is the conversion back to
four bytes. `BlockStore` follows `apply_block_writes`: validate all elements, stage
one copy per Service Number, apply runs in order, commit all or nothing. `Purse` is
one block with its Service's limit, `property`; `BlockStore` the stores of a System
(`StoreInit`, `StoreNext`). `MCBlocks` extends both.

### AreaTree

Areas are made on their own, filled, and moved below another Area or below
Area 0; a Service is inserted into a draft, into Area 0, or through
`root_area_mut`. A tree is the sequence of its nodes in depth-first order with
their depths, which is the order every function of `structure.rs` visits.
`add_service` inserts first and links overlap Services afterwards, as the code
does, so a refused insertion leaves its node behind. `MCCard` explores it
beside the card, as the part "tree".

### ReaderApi

Polling over several bitrates and every operation of `FelicaStandard`, each as
bounds, timeout from the card's PMm, one exchange, judgement of the answer. Time is
counted in carrier cycles. An answer carries the number of its call as history.
Cards come and go, packets are lost or late by one call, slow cards exceed their
PMm by one millisecond.

### KeyStore

The file is read line by line, the keys of a card are resolved, the keys of an
authentication derived, and proved to a card that derives its own from the
lists it is sent. A key is its algorithm and name, a derived key the sequence of
keys that were chained.

### Wire, Commands, Responses, Codec

Every command and response variant has two layouts, one transcribed from its
serialiser, one from its parser, over common fields (`Wire`); the layouts are
written separately, so that the two directions can disagree. `Codec` sends every
message, as it is or changed in one place (cut, extended, one byte replaced), and
parses what arrives.

### Port100Config, Listen, Framing, Tlv

`Port100Config`: `initiator_bitrate` and `initiator_protocol` are the driver's
record, `rf` and `registers` the reader's. A command to the reader succeeds, is
refused, or (`Lossy`) is carried out although its answer never arrives. The
reader's reaction to an RF change is any register content, since the driver
assumes nothing about it.
`Listen`: one target exchange of the chipset per step; the initiator keeps to its
protocol, answers it misses, frames lost and frames of others are counted as
disturbances. `Framing`: the three SOF formats, with one damaged byte at every place.
`Tlv`: the Port-400's TLV responses, whole and cut short.

### Port400Device, Activation, IsoDep, Iso14443

`Port400Device`: a driver operation is several reader commands, each of which may be
carried out, be refused, or be carried out with its reply lost, so an operation is
the set of worlds it may end in. History: `found`, the speeds of the reader when it
was opened; `asked`, the protocols whose speed the caller set; `calm`, that since then
no command failed without a reason (`faults`) and the reader was not changed without
the driver's knowledge (`Disturbances`: a bit framing set by hand, a reset of the
reader, a session that idled out). Until something goes wrong the operations of
`Operations` are explored, then those of `Afterwards`.
`Activation`: one step per frame, the card silent or a byte changed.
`IsoDep`: one step per block; replies are lost, stale or garbled. A payload is an
identity and a length, a block the slice of it that it carries, so that "once, in order
and without a gap" can be said of the blocks the card took. `Iso14443` has the
pure parts: block encoding, frame sizes, waiting times, rates. Readers and cards are
external and modelled from how the driver uses them.

### HostLink, Remote

`HostLink` is the exchange of one command with each of the four readers: write,
ACK, answer, timeouts, recovery with its ACK and its drain. A command's identity is
history; the drivers see its code and, for CCID, a sequence number. The reader is
external; `orderly`, chosen at the start, says whether it acknowledges within the ACK
timeout, stops when it is told to and sends nothing but frames.
`Remote` is the client, the server's thread per connection and the mutex around
the reader, with connections that break and clients that write lines of their own.

## 3. Runs

| Run | Module | Expected |
|---|---|---|
| `card` | `MCCard`: the emulated card, alone and in the loop of `emulate.rs`; building its tree | pass |
| `messaging` | `MCSecureMessaging`: reader and card over a bad link | pass |
| `blocks` | `MCBlocks`: purse with and without a limit, block lists | pass |
| `port100` | `MCPort100`: initiator, target, frame formats, TLV fields | pass |
| `port400` | `MCPort400`: device with faults and crashes, activation, ISO-DEP | pass |
| `links` | `MCLinks`: host links, sequence wrap, orderly readers, remote driver | pass |
| `client` | `MCClient`: client API, keys, packets | pass |
| `cyclic_overflow`, `port100_lossy`, `iso_dep_retry`, `port400_speeds`, `client_warnings` | the same modules under another cfg | violated, section 4 |

What the properties say:

* **card**: `ModeConsistent`: Mode 0, 1, 2 hold exactly the secrets they should,
  Mode 3 is unreachable because every register command is refused. `NoReplay`: a
  repeated Authentication2, a change of System or a replayed frame never lets a
  secure command run again under its key. `AccessAuthorised`: blocks of a keyed
  Service are reached only through the list its session authenticated.
  `SwitchDropsSession`, `IgnoredIsHarmless`: a System that becomes active has no
  session, a command without an answer changed nothing. `PollsAreAnswered`: however
  a session ended, the listening card answers a poll for any of its Systems.
  `ImplementsTable41`: every step is one of `CardModes` or a stutter. The tree:
  `RangesNest`: every node lies in all Areas above it, although each insertion is
  checked against one parent. `AcceptedOverlapsShare`: after an accepted insertion
  all Services of a number share a store and a kind. `RegisteredKeepsItsBlocks`: no
  later insertion, refused ones included, resizes the store of a registered Service.
* **messaging**: `AnswerMatches`: the client never takes a late answer for another
  command's, although the only correlation is the transaction number.
  `CounterLead`: after a lost answer the card is at most one number ahead.
  `SessionsAreFresh`: overlapping authentications do not end in one session.
* **blocks**: `RetryIsHarmless`, `ResendIsHarmless`: a write whose answer was lost
  may be sent again (for lists: when each purse block appears once and each ring
  in one run). `ResultWithinLimits`, `ValueNeverMinted`: purse arithmetic.
  `AllOrNothing`: a list is atomic (`NothingOnFailure`), equals its parts one after
  the other (`CommandIsSequential`), is what a Read returns (`WrittenIsRead`) and
  keeps the layout of the stores. `ChangeIsAuthorised`, `RingKeepsOrder`.
* **port100**: `RecordIsTrue`, `ExchangeIsConfigured`: skipping settings is sound
  while answers arrive. `RightPeerIsAnswered`: a target answers the frame it just
  received at that frame's rate, and reports the link the initiator set up.
  `InitiatorIsFound`: an undisturbed initiator is found unless it leaves or time
  runs out. `FormatsAreFaithful`: frames and TLV fields survive, and one damaged byte
  goes unnoticed exactly where it turns one form of the length into the other.
* **port400**: while a device is `calm`, `ReaderGivenBack`: close and drop restore
  speeds and end the session, and `BeliefIsTrue`: cached speed, saved speeds, bit
  framing and `session_open` match the reader. `OpenRecovers`: after faults and
  crashes a device can be opened again.
  `CardIsActivated`: an answering card is found, reported cards have all their
  cascade levels selected, and both ends use one rate. `ExchangeDelivers`: a
  successful exchange delivered its payload once and in order and returns the
  whole answer. `ExchangeEnds` (liveness).
* **links**: `AnswersStayInStep`: an answer lags behind its command by no more than
  the exchanges that failed; a CCID answer is its own across the wrap of the
  sequence number, while the frames under way, the packets unread and the faults are
  no more than the sequence numbers; a Port-100 command that succeeds has its own
  answer from an orderly reader, however the commands before it ended. `RequestIsDoneOnce`: the remote driver's answers are for its
  requests and none is done twice. `CommandEnds` (liveness): commands, remote calls
  and the threads of clients that left.
* **client**: `ResultIsOwn`: a call returns its own command's result, does not time
  out before the card's promise, asks for no more than a packet holds.
  `ChangeIsReported`: whichever operations a card answers with SF1 = FFh and the
  warning 71h, a change reported refused was refused, one reported done was done, and
  in between is only an answer that lacks the result its operation takes out of it.
  `PollingFindsTheBest`: a card in the field is found, in whatever slot it answers, at
  the highest of the requested bitrates that it has. `KeysAgree`: from file to
  authentication, reader and card derive the same key exactly when every key
  that counts is right. `PacketsAgree`: what is serialised is parsed to the same
  message, what was parsed can be forwarded, an accepted plain packet is the one
  the serialiser writes, and read bounds are exact.

### Bounds

* `card`: two Systems that share the high byte of their codes (wildcard polling
  has a choice), two draws of `random_2`, transaction numbers up to 5: a session
  that is repeated, replaced and exhausted. `messaging`: numbers up to 4, which is
  two commands, a lost answer and an overflow. The tree in `card`: four nodes, two
  drafts at a time, ranges and codes for each reason to refuse; its behaviours are
  beside the card's, not interleaved with them, since nothing adds nodes to a card
  in use.
* purse: three-bit fields; the rules compare and add, so the edges of the range
  matter, and the theorems cover every width. Stores: random, ring of two, purse,
  under eight codes; lists of up to three elements ("store, other, store").
* `Listen`: five exchanges of time, two disturbances, five DEP frames.
  `Port100Config`: two rates, two keys, three operations. `Tlv`: three fields.
* `Port400Device`: one fault, two openings, so that a second device meets whatever
  the first left; the caller sets one speed; after the fault four operations, among them
  those that reopen the session; every disturbance and every operation
  while `calm`. Readers are found with both directions of Type F alike or mixed. Type B keeps its speed exactly as
  Type A does and is left out. `Activation`: one fault per detection. `IsoDep`: two
  exchanges, one loss, payloads of no byte and of two blocks, answers of up to five
  blocks and longer than the driver's buffer; duplicates, S(IFS) and S(DESELECT) are
  bounded by `MaxLosses` because the code has no budget for them, so that
  `ExchangeEnds` is about the budgets for R(NAK) and WTX and not about a card that
  repeats them for ever.
* `HostLink`: a backlog of two commands, two unread packets, one fault, and `SeqMod` 5
  (256 in the code), the least number for which a CCID answer is always its own; with
  4 `OwnAnswer` fails. Six commands, so that the sequence number wraps. `Remote`: two
  requests per client, one broken connection.
* `ReaderApi`: two calls, one fault, a prompt card with the PMm of a real one and a
  slow one. `KeyStore`: a base of three lines and up to three more. `Codec`:
  packets up to 48 bytes are altered, longer ones sent as they are, among them
  the longest.

### Fairness

Weak fairness of the driver's, card's, server's and loop's own steps and of
deadlines: every wait of the drivers has a timeout, so time passing is what
ends it. `IsoDep`: the driver's and the card's steps, a reply that does not come being the
driver's timeout.
`HostLink`: the driver and its deadlines; for an orderly reader, whose ACK is waited
for, nothing is claimed, because that would take fairness of the reader. `Remote`: each
server thread and each client. `std::sync::Mutex` is not fair; weak fairness of a
thread is enough because the other clients' requests are bounded, and a thread
can be kept waiting by clients that never pause.

Deadlock is checked except in `card` and `port100`, where a behaviour may stop: the
emulation ends, a tree is complete, listening returns to its caller.

## 4. Findings

1. **AFh is per run, not per command** (`cyclic_overflow`).
   `felica_standard/emulator/blocks.rs:208` documents AFh for "Writing more blocks to one
   cyclic service in a single command than the service owns". `apply_block_writes`
   compares each run of consecutive elements with the ring on its own, so
   [ring, other, ring] on a ring of one block is accepted and its first
   generation is lost at once.
2. **A lost answer leaves a wrong record** (`port100_lossy`).
   `driver/port100/chipset.rs:56` says the record holds values "the reader is known to
   hold" and line 275 that the recorded bitrate "is the speed every exchange runs
   at". When the reader carries out a command whose answer is lost, the record
   keeps the old values and a later operation skips what it needs to send.
3. **After a failed ISO-DEP exchange the next may return the old answer**
   (`iso_dep_retry`). `iso_dep_exchange` puts the session back as it stood; the card
   may have advanced. The next payload then has a number the card has seen, the
   card repeats its last answer, and the exchange succeeds with it.
4. **set_fixed_rf_speed forgets the speed it replaced** (`port400_speeds`). On any
   error of `pin_rf_speed`, also after the new speed was written, the saved speed
   is dropped and `close` leaves the reader changed
   (`driver/port400/device/mod.rs:572`).
5. **A completed registration may be reported as an error** (`client_warnings`).
   `api/mod.rs:108` says of the warning 71h "Products may pair it with either `SF1 =
   00h` or `SF1 = FFh`; both combinations are therefore accepted so a caller is not
   invited to repeat a completed write". The parser takes a result out of an answer
   only with SF1 = 00h (`response/parse.rs:867`, `:827`), and `register_issue_id` and
   `register_service` call `require_result` (`api/secure_ops.rs:799`, `:892`), so
   that FFh/71h gives the `Protocol` error although the card registered.

### Further observations

The modules define further properties, which no run checks because the code does
not keep them or does so only in an environment the runs do not assume. To check
one, name it in its MC module and cfg, under the instance given here.

* `AreaTree`: `NoMixedOverlap` and `CodesAreUnique` fail: `add_service` inserts
  before it checks, so a Service that `structure.rs:355` says "is rejected here"
  stays in the tree after the error, and nothing refuses a code that is already
  there. `ServiceInItsArea` fails: a Service may be put into an Area while a
  child Area's range contains its code (`structure.rs:255`). `root_area_mut` bypasses
  linking until the next `add_*`; `total_block_count` counts overlaps twice.
* `IsoDep`, `ChainingGoesOn` with `Numbering = "own"`: the driver expects an R(ACK)
  with the complement of its own block number (`iso_dep.rs:135`). A card that numbers
  R-blocks as ISO/IEC 14443-4 has it, by its own current number, answers with the
  same number, and every chained payload ends in "R-Block NR mismatch". The runs
  use cards that number as the driver expects.
* `HostLink`: `TimeoutCancels` fails: of the two ways the RC-S956 exchange times
  out, only the one at the top of the loop sends the cancelling ACK
  (`rcs956/chipset.rs:270`); the read below it (line 275) returns without.
  `RecoveredClean` fails: an answer that crosses the cancelling ACK and arrives after
  the drain is left in the pipe (`io.rs:76`), and recovery after a missing ACK does not
  drain (`port100/chipset.rs:513`). The next command reads what is left and takes it
  if its code is the same; `AnswerLag` bounds how far behind that can get.
* `Port400Device`: `calm` is needed. Once a command has failed,
  `SessionGivenBack` fails (an error on the way out leaves the
  session the comment at `device/mod.rs:924` is about), and so do
  `CacheIsTrue`, when a set-speed reply is lost, and `WholeBytesAreWhole`:
  `modified_bit_framing` is cleared before the reset is known to have been carried
  out (`pcsc/mod.rs:739`). `ReopeningEndsIsoDep` fails: the ISO-DEP
  session goes on across a reopening that "power cycles the RF field"
  (`device/mod.rs:616`). `detect_type_f` and `detect_type_v` leave a stale ISO-DEP
  session; a `set_rf_speed` of the caller after a 424F detection is undone by close;
  after a reader reset every RF speed command fails until reopened.
* `Activation`: `UidIsWhole` fails: `uid.clear()` at every cascade level
  (`activation.rs:106`) leaves the last part of a seven- or ten-byte UID, where the
  module doc says the UID becomes "visible to the caller". TA of the ATS is read as
  a rate code rather than as the set of rates it is. `detect_type_a_low_level`
  always sends RATS.
* `Listen`: `ReportedRateIsTrue` fails: the target built after a PSL carries the
  activation bitrate (`discovery/target.rs:561`), where `clf/targets.rs:154` speaks of
  the negotiated ones. DEP activation waits 1000 ms per frame whatever the caller's
  timeout.
* `EmulatorHost`: `EmulationGoesOn` fails: an error of
  `send_response_receive_command` leaves `main` through `?` (`examples/emulate.rs:73`)
  before the `power_off` the comment below it describes.
* `Remote`: `AnswerIsOwn` fails with `MaxHuge` 1 (`RequestIsDoneOnce` speaks of the
  behaviours before such a line): a line longer than the limit is
  refused half read (`remote.rs:29`) and its rest is taken for the next answer. The
  server does not isolate sessions of its clients; blank lines are not answered.
* `ReaderApi`: the IDm of a response is not compared, so a late plain answer to the same
  operation is taken; `request_specification_version` returns `Ok(None)` on FFh/71h.
* `KeyStore`: `LoadEnds` fails with a line that cannot be read and stays so: only a
  warning is collected and the reader is asked again (`keys.rs:217`), where line 195
  says "Only I/O failures are fatal". A target whose Areas have DES keys only while
  its Services have both gives `MixedAlgorithm`.
* `Codec`: `PaddingGrows` fails: `secure/mod.rs:49` says padding always appends,
  `primitives.rs:45` leaves an aligned payload alone; both ends do the same.
  `RequestBlockInformation` with more than 32 entries is accepted by the parser
  and refused by the serialiser; `SearchServiceCode` of Service FFFFh reads as the end
  of the list.
* Framing: three damages of the length pass every check (`MarkerIsLost`). With byte 5
  of a Port-100 frame FF -> 01 a payload of 252 bytes always, a longer one when the
  checksum and the postamble happen to fit, reads as one of 255 that starts with the
  length pair and its checksum; with byte 4 FF -> 01 one whose length pair sums to zero
  (511 bytes, say) reads as one byte; with byte 5 of an RC-S956 frame 01 -> FF a
  payload of 255 bytes that starts 00 FC 04 reads as the 252 behind them. An ACK and a frame in one packet are read
  as the ACK. TLV: responses without a status are accepted, a trailing byte and
  fields behind an unknown tag are not read.

## 5. Proofs

TLAPS proves, for every value of the constants that satisfies the named
assumptions:

* **`SecureMessaging_proofs`**, first the card and its host: `TypeOK`, `ModeConsistent`, `NoReplay`,
  `AccessAuthorised`, `SwitchDropsSession`, `IgnoredIsHarmless` and
  `ImplementsTable41`. The inductive invariant is the conjunction of the type of
  the state, `ModeConsistent`, `KeysDrawn` (every key in a pending authentication,
  a session or the history has been drawn), `KeysDistinct` (two Systems never hold
  one key), `CounterAhead` (a live session's counter is beyond every number executed
  under its key) and `NoReplay`. `NoReplay` alone is not inductive: that a new
  command has a larger number than every earlier one under its key is what
  `CounterAhead` says, and that it holds when a session starts from 0 needs
  `KeysDrawn` and `KeysDistinct` together with the fact that a repeat carries its
  counter over. A further part states that a System that has not been added yet
  is in Mode 0. `SwitchDropsSession` and `ImplementsTable41` additionally assume
  `DistinctCodes`. For `EmulatorHost`, `PollsAreAnswered` for any
  number of Systems: while the host listens, every System is in Mode 0, because a
  session ends in `power_off`.
* **`Blocks_proofs`**: for one purse block the type invariant, limits, conservation of
  value and harmless retries, from lemmas that describe each of the three operations.
  For the stores of a System, for any Services that keep the overlap rule, any
  sizes and any lists: `AllOrNothing` (with `StoreTypeOK`, `WrittenIsRead`),
  `ChangeIsAuthorised`, `RingKeepsOrder` and `ResendIsHarmless`. A command is the fold of
  a step over its list. `StagedTrace` unfolds the recursive function of `Staged` into a
  sequence of stores, one per element, each the result of `Apply` on the one before; what
  holds of every store of that sequence is shown with the least-number principle for
  sets of numbers (`LeastOf`, `InductionOn`), which takes a set where the library's
  induction takes an operator. Per step: the type and the sizes stay (`Typed`), only the
  store of the element changes, a ring is shifted (`Shifted`). `CommandIsSequential` compares
  the sequence of the whole list with those of its parts (`SameInFirst`, `SameInSecond`):
  a step looks back only as far as its cyclic run, which the cut does not divide.
  `ResendIsHarmless` compares the sequence of the first sending with that of the second
  (`Again`): where an element has been done, the second sequence already has what the
  first one ended with, because no later element touches that block or ring.
* **`Port400Device_proofs`**: `ReaderGivenBack`, `BeliefIsTrue` and `OpenRecovers`, for
  every reader, any order of operations, faults and openings. A program is the set of
  worlds it may end in; `Serves` (and `Keeps`, for programs that write no speed) says of
  two worlds that faults only add up and that without a new one a `Good` world stays
  good. Both are reflexive and transitive, so that an operation is a chain of its
  commands. `CommandEnds` is the fact they rest on: without a fault a command has one
  outcome (`Expected`). The programs that leave a good world on the way, ending and
  restarting the session (`EndEnds`, `StartEnds`) around a speed command
  (`SpeedCommandEnds`), are described by the world they end in. `Good` is more than the
  properties: what is saved for a protocol is the speed found, *or* nothing is saved and
  the speed found is still in place (`SavedFor`); a short framing is one the driver knows
  of (`Sound`). The invariant `IInv` adds that between openings no driver state is left
  (`Newborn`), from which `new` makes a good world whatever the reader holds.
* **`Port100Config_proofs`**: `RecordIsTrue` and `ExchangeIsConfigured` when no
  answer is lost. The invariant adds `Progress`: at each stage of an operation,
  which part of what it asked for is already recorded.
* **`AreaTree_proofs`**: `RangesNest` and `AcceptedOverlapsShare` for trees of any
  size and depth, and `TreeIsGood`. The invariant is the type of the state,
  `RangesNest`, the same for every draft (a subtree that nests on its own is moved
  as a whole), and `AcceptedOverlapsShare`. Lemmas say where the nodes of a tree are
  after a subtree was pushed into it, that a push keeps it nested, and that linking
  changes stores only.
* **`SecureMessaging_proofs`**, reader and card: `SessionsAreFresh`, `CounterLead` and `AnswerMatches`,
  over a link that keeps every frame for ever. The composition takes only steps of the
  card alone (`MessagingContainsCard`), so the card's invariant is available. On top of
  it `ChallengesAreOwn` says that the card answers only values of `random_1` the reader
  drew, each time with a new key, so that a key names the `random_1` it was drawn for;
  `InstalledOnce` that the `random_1` of the authentication in progress has not led to a
  session yet; `NumbersAreOwn` that the numbers under a key were given out by the one
  session of that key, each to one command, and that its counter is not behind them;
  `AnswersAreOwn` that the card's counter and its answers come from those commands. That
  is why a comparison with the counter is enough to tell a late answer.
  `ContextAssumption` (`None` is no context) is the `Option` of the code.
* **`IsoDep_proofs`**: `ExchangeDelivers`, for payloads and answers of any length, any
  link parameters and any number of refusals, extensions, lost and repeated replies,
  with a card that numbers its acknowledgements as the driver expects
  (`Numbering = "next"`; section 4 has the other kind). Lemmas about the slices say that
  a block is never longer than what is left and never empty before the end
  (`ChunkFits`), and that a payload of which one more block arrives goes on without a gap
  (`EndsStarts`, `EndsGoesOn`). What makes the property hold is `InStep`: while no exchange
  has failed, the two sides are in one of three relations. The card has what comes
  before the driver's frame (`Sending`), has the frame as well and waits for more
  (`Chained`), or has the whole payload and is at a block of its answer that the driver
  has or expects next (`Answered`); between exchanges they rest. Each relation fixes
  the block numbers of both sides, and `ReplyFits` that a reply which moves the driver
  on is the card's current block: a stale one has the other number. The driver's
  thirteen steps are first classified (`DriverDoes`): it fails, sends a block without
  having moved, takes a block of the answer, or moves on in the payload.
* **`Links_proofs`**, the host links: `AnswersStayInStep`, for all four drivers and any
  number of commands, packets under way and faults. The invariant is the type, the stages
  of an exchange (`ExchangeOf`), that commands and answers under way are in the order they
  were written (`InOrder`), and that what is unread and behind has been paid for by
  exchanges that failed (`LagPaid`). For CCID a `Window` bounds how old a packet
  under way can be; numbers less than `SeqMod` apart differ modulo `SeqMod`, which
  gives `OwnAnswer` if `MaxBacklog + MaxPipe + MaxFaults <= SeqMod`. For an orderly
  Port-100, `Recovered` says what can still be under way at each stage, and that
  nothing is when a recovery ends. Each driver action is first classified (it goes on,
  fails or succeeds, and reads no packet or one), so that the invariants are shown for
  the classes instead of for each action.
  The remote driver: `RequestIsDoneOnce`, for any number of clients of either kind,
  requests and broken connections. The invariant says, per driver, that its request is
  in one place at most: on its way up, in the server's thread, or answered on its way
  down (`RequestOf`), how often the reader has done it in each of these places
  (`WorkOf`), and what the call in progress will read (`CallOf`). It holds until an
  answer exceeds the limit of `read_line_bounded`.
* **`ReaderApi_proofs`**: `ResultIsOwn`, `ChangeIsReported` and
  `PollingFindsTheBest`, for any cards, PMm bytes, requests, lists of bitrates, losses
  and number of calls. Three lemmas carry the arithmetic: the timeout in whole
  milliseconds is not shorter than what the card promises, for every PMm byte,
  operation and accepted number of entries (`PromiseIsCovered`); what is accepted, and
  its answer, fits into a packet (`Answerable`); a poll waits for all its slots
  (`SlotsAreCovered`). `OrderedBitrates` says that the bitrates tried are all the
  requested ones, sorted: ranks are an injection into as many numbers, so each is
  taken. The invariant says that the answer on the air belongs to the call in progress
  and tells what the card did (`Exchange`), that an answer left over is an earlier one
  of a slow card (`Leftover`), and that while nothing is lost the bitrates of the card
  in the field are still among those left (`Untried`). `ChangeIsReported` is
  proved for every set of operations whose warning comes with SF1 = FFh.
  `ReaderAssumption` says that a FeliCa card has no bitrates besides 212F and 424F.

Only model-checked: all liveness properties (`ExchangeEnds`, `CommandEnds`), which rest
on fairness; `Wire` and `Tlv`, where lists are processed by recursive
functions, so that a proof has to carry its own induction; `Listen`,
`Activation` and `KeyStore`, so far. `Port400Device` while it is not `calm`
is explored with one fault; what holds then is `OpenRecovers` and the types. `IsoDep`
with `Numbering = "own"` has no theorem: there a chained payload fails.

## 6. Modelling limits

* `Listen`: a PSL request for a rate index of 3 or more.
* `HostLink`: a packet is a whole frame.
* `Remote`: a panic that poisons the mutex.
* `ReaderApi`: late answers during polling; what an answer carries besides its
  number of entries.
* `SecureMessaging`: `set_authenticated_context` (the caller vouches for the
  context) and key zeroization (no observable state).
* `Port100Config`: the receive tuning, which is attempted once and whose failures
  are ignored.

## 7. Not modelled

* **AES v2 secure messaging** (`secure/v2_aes.rs`): the emulator does not implement
  its card side, so only one half of the protocol is in the repository. Its key
  derivation is in `KeyStore` and its packet layouts are in `Codec`.
* **DES and AES primitives**: pure conversions; the repository's known-answer
  tests fit them better.
* **USB transfers and reader selection** (`transport/`, `reader.rs`): I/O.
* **RC-S956** discovery and RF configuration, **RC-S320** start-up, **Port-400**
  diagnosis, firmware update, MIFARE and RFFE parameter access: they pass one
  command through each.
* **`examples/dump.rs`, `dump_suica.rs`**: programs that call the client API and
  print; they keep no state of their own beyond what they print.
* Formatting, logging, error wording.

## 8. Plan

1. Proofs: the peer of `Listen`; the cascade of `Activation`; the keys of `KeyStore`.
2. The AES v2 session as a second instance of the secure exchange, with an
   external card.
3. RC-S956 discovery and RC-S320 start-up; the node walk of `dump.rs`.
