# pairlink: TLA+ models, checks and proofs

pairlink connects a program on a PC (a *host*) with phones (*devices*) through a
hub. The hub hands out one-time pairing codes, keeps which devices are bound to
which host, and forwards frames between bound peers over WebSockets; the peers
agree on end-to-end keys and try to reach each other directly over UDP. This
directory holds TLA+ models of that system, the TLC configurations that check
them, and TLAPS proofs. Paths below are relative to the repository root, Go
files to `src/`.

- [1. The system](#1-the-system)
- [2. Modules and how they correspond to the code](#2-modules-and-how-they-correspond-to-the-code)
- [3. What each run checks](#3-what-each-run-checks)
- [4. Bounds, symmetry, deadlock](#4-bounds-symmetry-deadlock)
- [5. Fairness](#5-fairness)
- [6. What is proved](#6-what-is-proved)
- [7. Where the code and its documentation disagree](#7-where-the-code-and-its-documentation-disagree)
- [8. What is not modelled](#8-what-is-not-modelled)
- [9. Plan](#9-plan)
- [10. Running it](#10-running-it)

## 1. The system

| Component | Code | State it keeps | Operations |
|---|---|---|---|
| Store | `store/store.go`, `store/memory.go` | rows: hosts, pairings, bindings, traces | one method for each read or write, each under one mutex |
| SQLite store | `store/sqlite.go` | the same rows in a file; one pooled connection | the same methods, each a transaction that loads rows and saves them one by one |
| Control plane | `relay/hub.go` (handlers), `relay/admin.go`, `relay/label.go` | nothing between requests; a handler's locals between two store calls | issue token, register, create pairing, redeem, list, revoke, label frames |
| Relay | `relay/hub.go` (`handleWS`, `forward`, `ClosePeers`) | `h.conns`: public key to socket; read deadlines | upgrade, insert, forward, clean up, close all, presence |
| Path table | `relay/path.go` | `h.paths`: pair to last announced path and time | `observePath`, `LinkPath` |
| UDP endpoint | `relay/hub.go` (`ServeUDP`) | nothing | echo the observed address |
| Handshake and sessions | `client/conn.go`, `crypto/identity.go` | `c.pending`, `c.links`; counter and inbox of each link | `OpenInitiator`, `onHandshake`, `install`, `onDisco`, `onData`, `Send`, `Recv`, `Seal`, `Open` |
| Client socket | `client/ws.go`, `client/conn.go` (`Close`) | `c.ws`, `c.closed` | `connectWS`, `readWS`, `reconnect`, `keepAlive`, `dropWS`, `Close` |
| Path selection | `client/path.go`, `client/conn.go` | path, peer address and last pong of a link | `punchLoop`, `onPong`, `notePath`, `Send` |
| Client labels, REST | `client/labels.go`, `client/rest.go` | the last label | one frame or one request each |
| Wire formats | `protocol/*.go` | none | parse and format frames, offers, labels |
| QR | `qr/*.go` | the loop and parser variables of one decoding | encode (a library), walk the modules, de-interleave, parse segments |
| Processes | `cmd/pairlinkd`, `examples`, `demo` | configuration | start, stop |

How they interact:

- An HTTP request or a WebSocket runs on a goroutine of its own. The hub holds
  no lock across a handler: a handler is a sequence of store calls and of short
  sections under `h.mu`, and every other handler may run between two of them.
  The label frames of a host socket write the same host rows as `register`.
- The relay reads the bindings that the control plane writes, at the upgrade
  (ticket) and again for every frame (`forward`).
- A client has at least three goroutines: the reader, which also redials, the
  keep-alive, and the punch loop; the application's calls (`OpenInitiator`,
  `Send`, `Close`) come on others. `c.mu` and `c.wsMu` are each held for a
  moment.
- The messages of an application are sealed on whatever goroutine sends them and
  leave through the relay socket or as UDP datagrams. Two goroutines read, one
  the relay, the other UDP, and hand what they read to the same `handleFrame`. The
  clients here send handshakes and addresses by the relay only, so that of two such
  clients only the relay's reader installs links.
- Handshake frames of two clients travel through two sockets and the hub. Each
  hop keeps the order of one sender; whatever is on the way is lost when a
  socket drops.

What is hard, and what makes each part correct:

- *Control plane.* A redeem is four store calls (take the code, look for the
  host, count, write); several run at once, each may fail half way, and the code
  may run out meanwhile. Correct: a code becomes at most one binding, of the
  host that asked for it; a host stays within its limit. Registering is a read
  and a write with label frames in between. Correct: rows are never split, a
  token never stops authenticating, a label is never blanked.
- *Relay.* Sockets of one key replace each other while the handler of the older
  one unwinds; phones vanish without closing; `ClosePeers` runs at any point.
  Nobody closes the sockets of a pair whose binding is revoked. Correct: the table
  names exactly the sockets being served, presence ends, nobody hears an endpoint it
  was never bound to, and a revoked pair falls silent.
- *Handshake.* A handshake frame does not say what it answers. Frames are lost,
  clients restart, sessions are opened again. Correct: when the exchange has
  settled both ends hold the same keys, and where they need not, it is known which
  step of which client brought that about.
- *Sessions.* Goroutines seal under one counter, a restarted process counts from
  zero, links are replaced while a datagram is being opened, and an application
  may stop taking messages. Correct: no nonce serves twice under one key, an inbox
  holds its own session's messages, and the reader never stops.
- *SQLite.* A method saves several rows, statements fail, the process ends. Correct:
  every call is seen whole or not at all and every call ends.
- *QR.* One module too many in the map of reserved modules, one row too early in
  the walk, one group of digits without its zeros, and everything behind it is
  noise, in some versions only. Correct: what was encoded comes back.
- *Path selection.* Four goroutines store and announce the path of a link, the
  announcement is a second read, and both ends of a pair write the same entry of the
  hub. Correct: a dead direct path is left, the hub does not go on showing it, and
  while both ends stay on one path the hub ends up showing that one.
- *Client socket.* Three goroutines replace and close one pointer. Correct: no
  socket is lost, the client comes back, `Close` ends its goroutines. (What a dial
  that was answered while `Close` ran leaves behind is in section 7.)

`PROJECT.json` lists every hazard at its line with the properties that cover it.

## 2. Modules and how they correspond to the code

```
Store ──► ControlPlane ──► MCControlPlane        PairingPromise (abstract)
  │            └──────────── implements ───────────────┘
  │            └──► ControlPlaneProofs ◄── StoreProofs ◄── Store
  ├────► Relay ──► MCRelay
  │        └──► RelayProofs ◄── StoreProofs
  └────► StoreCalls ──► StorePromise (abstract)
             └──► SQLStore ── implements ──┘ ──► MCSQLStore
                     └──► SQLStoreProofs ◄── StoreProofs
Handshake ──► Session ──► MCSession
    │            └──► SessionProofs
    └──► MCHandshake
ClientSocket ──► MCClientSocket         PathSelect ──► MCPathSelect
    └──► ClientSocketProofs                 └──► PathSelectProofs
QRTables ──► QRDecode ──► MCQRDecode
                └──► QRDecodeProofs
```

**Store** has no variables. Each method of the store is one operator from the
rows before the call to the rows after it, because a method holds the mutex (or
the transaction) from its first line to its last. Rows are sequences in insertion
order, since the code scans in that order and takes the first match
(`hostIndex`, `BindingByPeers`). Codes, tickets and ids are fresh random values,
so a row is named by its position. `MatchingRows`, `MergeHost` and `PutHost` are
`hostIndex`, `mergeHost` and `PutHost`; `Redeemable` and `ConsumePairing` are the
two halves of `Memory.ConsumePairing`; `PutBinding` counts again and refuses.

**StoreCalls** adds the calls the control plane does not need (`NoteDeviceSeen`,
`SetDeviceLabels`, `AppendTrace`, the reads) and states what each call of the
interface may answer (`Answers`) and what it leaves behind (`Effect`), after
`store/memory.go`. **StorePromise** makes an abstract specification of them: a call
is asked, takes effect in one step or is refused, and is answered; a restart
forgets the calls and keeps the tables.

**SQLStore** is `store/sqlite.go`. `disk` is the file, `tx` what the open
transaction sees, `conn` who has the only connection of the pool:

| Code | Actions |
|---|---|
| a method is called and waits for the pool | `Call`, `Begin` |
| `loadHosts`, `loadBindings`, `First`, `Find`, and the checks on the rows | `Load` |
| each `tx.Save`, `tx.Create`, `tx.Exec` | `Save` |
| the end of `Transaction`, with or without an error | `Commit`, `Fail` |
| the method returns | `Return` |
| the hub's process ends and starts on the same file | `Crash` |

The two stores scan bindings in different orders: Memory in that of insertion,
SQLite by `created`. When a pair has several rows of different state, which one
decides `BindingByPeers` depends on the store, so the abstract store leaves it
open (`PeersAnswers`) and SQLStore takes the oldest. Bindings of one age are saved
in any order (`Loaded`): `loadBindings` orders by `created` and by nothing else.

**ControlPlane** has one *worker* for each request goroutine. `req[w]` is what the
handler's local variables hold between two store calls, so that each action is one
call with the branch that follows it:

| Handler | Actions |
|---|---|
| `IssueHostToken` (also the admin page's) | `IssueHostToken` |
| `handleRegister` | `RegisterRead`, `RegisterWrite` |
| `handleCreatePairing` | `CreatePairing`, `CreateWrite` |
| `handleRedeem` | `RedeemConsume`, `RedeemLookup`, `RedeemCount`, `RedeemBind` |
| `handleRevoke` | `RevokeAuth`, `RevokeList`, `RevokeApply` |
| `handleAdminRevoke` | `AdminRevoke` |
| `observeLabel` (host) | `HostLabel` |
| upgrade and clean-up of a host socket | `HostAttach`, `HostDetach` |
| the passage of `pairingTTL` | `Expire` |
| a store or entropy error at any call | `StoreFails` |

`online` is the set of host keys with a socket: all a redeem asks of the relay.
A host's socket keeps the key it had at the upgrade, so `HostLabel` writes under
a key that may meanwhile have been replaced, as the code does.

**PairingPromise** is the abstract specification: a code is live, then dead or
spent, and a spent code may become bound; a host has a number of bindings in
force, never above the limit. `ControlPlane!KeepsPromise` states that the rows and
handlers implement it under the mapping `CodeState` and `CountBindings`.

**Relay** cuts `handleWS` at each acquisition of `h.mu` and each store call;
`pc[s]` is where the goroutine of socket *s* stands:

| Code | Actions |
|---|---|
| `identifyWS`, `Upgrade` | `AcceptHost`, `AcceptDevice` |
| the host-present check of a device | `CheckHost` |
| insertion under `h.mu`, closing the older socket | `Insert` |
| `noteDeviceSeen` on arrival and departure | `ReadClock`, `NoteSeen` |
| the read loop and `forward` | `ReadFrame`, `WriteFrame`, `ReadError` |
| the deferred clean-up | `Remove` |
| `ClosePeers` | `ClosePeers`, `CloseOne` |
| the control plane, time, the network | `Bind`, `Revoke`, `Tick`, `ClientVanishes` |

`forward` looks the binding up under the store's lock, the socket under `h.mu`, and
writes under neither. The model has a step between the first look-up and the second,
where rows and sockets change. The read with its look-ups in the store is one step
(a frame that a revocation overtakes there could as well have been read later), and
so is finding the socket with the write (a socket never changes hands). `wrote` is a
history variable: the last frame that was written, with its sender and the owner
of the socket it was written to.

**Handshake** is the two clients and the two queues between them. `reader[n]` is
where `onHandshake` stands between its critical sections (looking at `c.pending`,
`install`, sending the addresses, sending the answer) and `opening[n]` is
`OpenInitiator` between storing its handshake and writing it. Before a responder
answers, `install` calls the application's `onLink` on the reader, which takes as long
as it likes: place `onLink`. Either process may end at any point (`Restart`), a
handshake under way or not. The keys are
abstracted to what the Diffie-Hellman terms decide: two sessions share keys exactly
when each holds the other's ephemeral and their roles differ (`Match`). The field
`by` of an ephemeral is for the properties only: on the wire an initiation and an
answer look the same, and no action reads it. Nor does one read `stray`, which
remembers that the process of an initiator ended while a handshake was under way and
that no session has been opened since.

**Session** extends Handshake with what is said over the links. Every step of
Handshake is a step of Session too, together with its effect on the links
(`InstallLink`, `SealDisco`, `OpenDisco`, `RestartProcess`; the others leave them
alone). `live[n]` has every link of the process by its session, also those that
`c.links` no longer names, because the application may keep them. `Link.Send` is
three steps: taking the counter under `Session.mu` (`TakeNumber`), sealing and
letting the mutex go (`Seal`), writing to the relay or to UDP (`WriteFrame`).
`onData` is one step on the relay's reader, which is the one that installs links,
and two on the UDP reader (`ReadDatagram`, `OpenDatagram`). `sealed` is a history
of what was sealed under which session and nonce; sealed addresses are message 0.

**QRTables** is the layout of a symbol as `reservedMap`, `alignCenters`, `eccBlocks`
and `deinterleave` have it, in closed form: `reservedMap` marks modules in loops,
the module names the rectangles. **QRDecode** reads one symbol: `Walk` is the loop
of `unmaskBitsPolarity`, `PutInOrder` is `packBytes` with `deinterleave`, and
`ReadMode`, `ReadCount`, `ReadChunk`, `EndSegment` are `parseBytePayload`. What the
encoder, a library, wrote (`Written`, `Encoded`) is stated after the QR standard, with
group sizes, widths and count fields of its own (`Groups`, `EncodeGroup`,
`StandardCountBits`), not after the decoder, so that a slip in the decoder cannot
cancel out. `Horner` reads digits in any base; the bits of a field and the groups of
digits are both of that kind.

**ClientSocket** is the socket of one client. `reader` and `keeper` are the places
of the two goroutines with the socket each holds in a local variable; `Close` is
two steps, the closing of `c.closed` and the closing of the socket it finds. A
socket may break *silently*: a blocked read does not notice, as the client sets
no read deadline, and only a failing keep-alive write does.

**PathSelect** is one client's link to a peer, the goroutines that store its path,
and the hub's entry for the pair, which the other end writes too:

| Code | Actions |
|---|---|
| `install` publishing a link, on the relay path | `Install` |
| `onPong`; a tick of `punchLoop`; of the keep-alive | `OnPong`, `PunchTick`, `KeepAlive` |
| `notePath`: its load, its store | `Compare`, `StorePath` |
| `announcePath`: the load and the write | `Announce` |
| an announcement written to no socket, lost with one, or of an unbound pair | `AnnouncementLost` |
| `observePath` for this end's announcements, and for the other's | `ObservePath`, `ObservePeer` |
| the age of the entry, `LinkPath` | `HubTick`, `LinkPath` |
| the socket drops or returns, the binding goes or returns | `HearingChanges` |
| the other end, which runs the same code | `PeerChanges`, `PeerFallsBack` |

A store after a comparison that saw no change is step `restore`: it may overwrite what
another goroutine stored in between, and it announces nothing. `at[g]` holds the link
goroutine *g* found, which `Install` may have replaced since. `coming` is the set of
paths this end has announced and the hub has not stored. It is a set because two
handlers, of an old socket and a new one, store in any order, and two goroutines of the
client write in any order. `peer` is the set of paths the other end may still store.
Of that end only this is kept: it announces any path while the network carries
packets, and some time after it stopped doing so, the relay alone, which is what
`FallsBack` says of this end. `age` is the age of the hub's entry in steps of its
clock, `MaxAge` being `PathFreshness`; a handler takes the time before the lock, so an
entry may be stored old, which is as if the clock ticked right after it.

**MC modules** add symmetry sets only. A definition marked *Mutant* in a module is
a variant of the definition after it with one plausible mistake; no specification
uses it. Putting it in place of the right one must make its property fail, which
shows that the property depends on that line of the code (`PROJECT.json`,
"mutants").

## 3. What each run checks

Runs that pass:

| Run | Module | Properties | States |
|---|---|---|---|
| `codes` | ControlPlane | `TypeOK`, `BindingLimit`, `OneBindingPerCode`, `OneRowPerToken`, `KeepsPromise`, `TokensStayValid`, `LabelNeverCleared` | 441,070 |
| `sockets` | Relay | `TypeOK`, `ServedPeerIsReachable`, `NoGhostPresence`, `OnlyPeersAreHeard`, `VanishedPeerGoesOffline`, `RevokedPairFallsSilent` (the last two liveness) | 399,414 |
| `handshake` | Handshake | `SettledSessionsMatch`, `AnswersGoUnanswered`, `SomeoneCanPunch`, `HandshakeCompletes` (liveness) | 5,666 |
| `session` | Session | `SessionTypeOK`, `NonceUsedOnce`, `LinkHearsItsOwn`, `ReaderKeepsReading` (liveness) | 262,362 |
| `client_socket` | ClientSocket | `TypeOK`, `NoSocketLeaks`, `StaysShut`, `ComesBack`, `CloseEndsGoroutines` (the last two liveness) | 20,610 |
| `path` | PathSelect | `TypeOK`, `FallsBack`, `NeverDirectForEver`, `HubAgrees` (liveness) | 288,060 |
| `qr` | QRDecode | `TypeOK`, `ReadsInWritingOrder`, `SymbolHoldsItsBlocks`, `BlocksInOrder`, `OfferComesBack` | 164,718 |
| `sql` | SQLStore | `TypeOK`, `KeepsStorePromise`, `LastConnectedAdvances`, `EveryCallEnds` (liveness) | 150,149 |

- `codes`: two requests at a time over two codes and a limit of one binding.
  The hub's own count is not what keeps the limit: two redeems can both see
  room, and the second `PutBinding` refuses. `KeepsPromise` also says that a code
  is never redeemed after it ran out and that a revoked binding does not free
  its code. Registrations of two keys and label frames race on the same rows.
- `sockets`: two sockets among two hosts and a device, with bindings that are revoked
  and made again. A newer socket of a host arrives while the handler of the older one
  unwinds; a device that vanished leaves the table. Two hosts can be connected that are
  bound to nobody, or one of which is bound to the device: whoever is behind a socket
  that is written to was at some time bound to the sender. Rows are never removed, so
  that a past binding counts; that a revocation ends what the two hear of each other is
  `RevokedPairFallsSilent`, also when both sockets stay connected.
- `handshake`: a device that opens sessions, one at a time, and a host, with up to four
  losses: sockets that drop, and processes of either that end at any point. Settled ends
  hold the same keys with one exception, which the property names. A device whose
  process ended after its initiation left answers the answer, because the new process
  waits for nothing; the two then answer each other's answers for as long as none is
  lost, both as responders. That lasts until the device opens a session anew
  (`stray`). `AnswersGoUnanswered` says that nothing else leads there.
- `session`: the same with messages: one drop or restart, four ephemeral keys (so that
  a session is replaced), two goroutines on each side that send, and inboxes of one
  message.
- `path`: two sessions of one peer. Announcements of two goroutines, of two sockets and
  of two ends are stored in any order or lost, and a store can be silent; that the
  keep-alive announces again is what makes the hub agree with the link in the end, and
  that entries expire is what stops it from showing a dead direct path when the socket
  never returns. While the two ends are on different paths the entry goes back and
  forth, as `docs/PROTOCOL.md:205` says, and `HubAgrees` promises nothing.
- `client_socket`: four sockets that break loudly or silently. A client that is
  closed may still get one socket, of a dial that had been answered
  (`close_reconnect`): nobody closes that one, and it is the one case `NoSocketLeaks`
  excepts. `StaysShut` says that a closed client gets a socket in no other way.
- `qr`: the layout properties hold for all 20 versions and all four levels, so
  they are complete. For the versions 9 and 10, between which the sizes of the
  count fields change, every text of up to three segments is parsed, with a
  payload that is cut by a codeword, exact, or padded, and with every choice of
  the prefixes that are offers themselves.
- `sql`: two callers with three calls between them, each any of 16 requests, on
  a new file and on one with rows; failures and crashes anywhere.

Runs that find a violation state what the repository says of itself and show an
execution of the code in which it fails; see section 7.

## 4. Bounds, symmetry, deadlock

Tokens, keys, devices, labels and workers are compared with each other and with
nothing else, so they are symmetric sets in `codes`. Symmetry is not used in runs
with liveness properties.

| Bound | Where | Why it is enough |
|---|---|---|
| `Worker` = 2 | ControlPlane | every property is broken by at most two requests that cross; all calls of both are interleaved, together with label frames, expiry and the admin's revocation. The proofs cover any number. |
| `MaxPairings` = 2, `MaxBindings` = 1 | ControlPlane | two codes race for the last place |
| `Token` = 1, `Pub` = 2 | `codes` | one token registers two keys in turn, and a label frame under the old key adds a row without a token. A second token that registers a key of the first one is, for any number, in the proofs of `OneRowPerToken` and `TokensStayValid` |
| `MaxRows` = 2, `MaxNow` = 2 | Relay | a binding to make, revoke and make again, or one with each host |
| `Sock` = 2, `Pub` = 2, `Device` = 1 | Relay | one socket to replace another, one for each end of a pair, or two of endpoints that were never bound. That a device's sockets replace each other while its hosts' do, for which one needs three and more, is in the proofs, which have any number |
| `Sock` = 4 | ClientSocket | a socket is dialled once; three replacements |
| `MaxLinks` = 2, `MaxAge` = 1 | PathSelect | one replacement; an entry can be kept fresh for ever (each announcement sets its age back before it is too old) or expire |
| `MaxEph` = 8, `MaxLoss` = 4 | `handshake` | a handshake uses two ephemerals. A process that ends in mid-handshake, two answers that are answered, the loss that ends this, and a session opened anew with losses of its own; the proofs have any number |
| `MaxEph` = 4, `MaxLoss` = 1 | `session` | a lost exchange, or one that is complete, and a repeated one. What the run checks is proved for any number |
| `MaxEph` = 5, `MaxLoss` = 0 | `answered_answer` | two initiations that cross, and the answers to both |
| `Worker` = 1 | `register_overwrites_label` | one request only, so that nothing but the label frame comes between its read and its write |
| `Room` = 1, `MaxSaid` = 2, `Sender` = 2 | Session | the second message finds the inbox full; two goroutines of one end take a number together |
| `MaxCalls` = 3, `TraceRetain` = 2, `MaxBindings` = 2 | SQLStore | two calls that cross and one more that sees the outcome; a trace that pushes out the oldest; a host at its limit |
| `MaxSegments` = 3, `MaxSlack` = 1 | QRDecode | an offer, a longer one and what is behind; the terminator whole, cut or missing. The proofs have any number of segments, of any text, and any slack |

Where the bound on `Sock` in ClientSocket ends the redials, `ComesBack` excuses
the client once all sockets have been dialled.

Deadlock is checked except where the system itself stops: `client_socket` and
`close_reconnect` (a closed client does nothing more), `session`, `handshake` and
`answered_answer` (a settled pair of clients with no more ephemerals is idle),
and `sql` (all calls made and answered).

## 5. Fairness

- *Relay*: weak fairness for each handler's own steps (a Go goroutine that can
  run does), and for a read that must fail: the socket was closed by the hub or
  its client is gone, so that the read deadline set before the read passes. No
  fairness is assumed of clients: no frame need ever arrive. `RevokedPairFallsSilent`
  needs no more than that a frame on its way is written.
- *Handshake*: a started `OpenInitiator` writes its frame and a reader keeps
  reading; for this the application's `onLink`, which runs on the reader, must return.
  Nothing makes an application open a session.
- *Session*: the same, each with its effect on the links, and a goroutine that
  holds `Session.mu` goes on (`Seal`): nothing blocks inside it. Nobody need call
  `Send` or `Recv`, and no datagram need arrive: `ReaderKeepsReading` says exactly
  that an application that never takes a message does not stop the reader.
- *SQLStore*: weak fairness for a call that has the connection, strong fairness
  for getting it: `database/sql` hands a connection that comes back to some
  caller that waits, so none is passed over for ever. A call may also fail at any time
  (its context ends), but nothing makes it fail: `EveryCallEnds` does not rest on it.
- *QRDecode* has only safety properties: its loops are bounded by the grid and
  the payload.
- *ClientSocket*: weak fairness for the two goroutines and a started `Close`;
  strong fairness for a dial that succeeds, because `readWS` retries for ever
  and a hub that always refuses is nobody's bug. That a write on a broken
  socket fails in the end is TCP's promise and is what `KeeperStep` assumes.
- *PathSelect*: weak fairness for the goroutines, for the ticks of the punch loop
  and the keep-alive, for the handler of the hub that stores what is not lost on its
  way, and for the hub's clock; once no packet arrives the last pong grows old, and the
  other end, which runs the same code, falls back too. No pong need arrive, the relay
  socket need not come back, and the other end need not announce anything.
- *ControlPlane* has only safety properties and no fairness: a request may stop
  at any call.

## 6. What is proved

TLAPS proves the theorems below for every value of the constants that their
assumptions allow: any number of requests, sockets, goroutines, rows, losses and
restarts. The bounds of section 4 are parameters of the proofs, not limits. The
assumptions on constants are named in the modules that declare them, and TLC
evaluates them in the runs. Where a theorem states a property of a run, the run
shows it on a small instance first; each inductive invariant was also checked by
TLC on the instance of its run before it was proved (those of the sessions and of the
SQLite store in a form TLC can evaluate, with quantifiers bounded and without the
type of the rows to be saved).

### Control plane (`ControlPlaneProofs`, on `StoreProofs`)

| Theorem | Statement |
|---|---|
| `TypeCorrect` | `Spec => []TypeOK` |
| `CodesBindOnce` | `Spec => []OneBindingPerCode` |
| `LimitHolds` | `Spec => []BindingLimit` |
| `TokensNameOneRow` | `Spec => []OneRowPerToken` |
| `TokensLast` | `Spec => TokensStayValid` |
| `LabelsLast` | `Spec => LabelNeverCleared` |
| `CodesKeepPromise` | `Spec => KeepsPromise`: ControlPlane implements PairingPromise |

Assumed: `NoneAssumption` (the empty field is not a token, key, device or label),
`MaxBindingsAssumption` (the limit is a positive number) and
`MaxPairingsAssumption`.

None of these is inductive by itself. A redeem that has taken its code writes a
binding three calls later, from the pairing row its code names: that this row
exists, was consumed, has no binding yet and belongs to no other redeem is a fact
about the request in flight (`CodesInFlight`). That a code with a binding stays
consumed (`BoundCodesConsumed`) is what keeps a second redeem from starting. A
registration writes back a row it read earlier, so its token must still be in the
table (`RegisteringKnown`): otherwise the write would append a second row. With
`TypeOK`, `OneBindingPerCode` and `OneRowPerToken` they form `IInv`. `BindingLimit`
is preserved under `IInv` because the store counts again in `PutBinding`; no
fact about the hub's own count is needed, so the proof also shows that the count
in `handleRedeem` is not what enforces the limit.

The refinement is proved step by step under `IInv`. What a code looks like from
outside depends on its row and on whether it has a binding (`CodeStates`); a store
call changes that of at most one code (`OneCodeBecomes`), so an action is one step
of PairingPromise or a stutter. The exact count after a binding is added or marked
revoked comes from `StoreProofs` (`CountAfterRevoke` and the lemmas before it).

`StoreProofs` states what each store call returns and preserves. Every scan takes
the first match, so `MinProperty` (a set of row numbers that is not empty has a
smallest one) is under all of them; counting needs the cardinality facts of
`FiniteSetTheorems`.

### SQLite store (`SQLStoreProofs`)

| Theorem | Statement |
|---|---|
| `TypeCorrect` | `Spec => []TypeOK` |
| `SeenAdvances` | `Spec => LastConnectedAdvances` |
| `CallsAreAtomic` | `Spec => KeepsStorePromise`: SQLStore implements StorePromise |

Assumed: `CallsAssumption` (the arguments have the types of the interface, and the
file was written by this store), `TraceRetainAssumption` and
`MaxBindingsAssumption` (the limits are positive), `MaxCallsAssumption`, and
`WorkerAssumption` with the `NoneAssumption` of Store (no caller is "nobody").

A call is many steps and must be one. The invariant says of the call whose
transaction is open that `tx` is still the file it began with, and of one that
saves that the rows of the file allow its answer (`Writable`) and that `tx` with
the rows of `todo` saved is exactly what the call is to leave in the file
(`Pending`). `Pending` has four cases, after what the methods write: nothing more,
one row, two rows (a trace that is added and one that is pushed out), or any number
of bindings in any order, of which those already saved are as they will be
(`BindingsLeft`). The rest of the argument is that `disk` does not change while a
transaction is open, because `TypeOK` gives the connection to one call at a time.
Committing is then the one abstract step, and failing or the end of the process
abandons `tx`.

### Relay (`RelayProofs`)

| Theorem | Statement |
|---|---|
| `RelayTypeCorrect` | `Spec => []TypeOK` |
| `ServedPeersAreReachable` | `Spec => []ServedPeerIsReachable` |
| `NoGhosts` | `Spec => []NoGhostPresence` |
| `FramesFromPeersOnly` | `Spec => []OnlyPeersAreHeard` |
| `RevokedStaysSilent` | for two endpoints `e` and `f`: `Spec => [](~OnItsWay(e, f) /\ []~InForce(e, f) => []~OnItsWay(e, f))` |
| `SeenMovesForward` | `Spec => LastSeenNeverMovesBack` |

The invariant (`Invariant`) joins the checked ones because each needs the others:
that a socket entering the table closes the one it replaces keeps
`ServedPeerIsReachable` only if the table named the served one before; that the
clean-up does not take out a newer socket needs `NoGhostPresence`, which says
whose key an entry is under. Two facts about handlers are added. `Identified`: a
handler past the upgrade knows its key, and one that forwards has a destination.
`ForwardsBetweenPeers`: the two ends of a frame in flight have a row in common.
The latter lasts because rows are added and marked and never removed (`PairsLast`).
`OnlyPeersAreHeard` speaks of the owner of the socket that was written to, not of the
destination that was asked for; that they are the same is `NoGhostPresence`. A row
revoked between the check and the write does not stop the frame, but it stops what is
read afterwards: `RevokedStaysSilent` is the safety half of `RevokedPairFallsSilent`,
and rests on `LookUpsNeedForce`: the first row of a pair, which decides, is one of its
rows.

### Sessions (`SessionProofs`)

| Theorem | Statement |
|---|---|
| `TypeCorrect` | `SpecSession => []SessionTypeOK` |
| `NoncesUsedOnce` | `SpecSession => []NonceUsedOnce` |
| `LinksHearTheirOwn` | `SpecSession => []LinkHearsItsOwn` |

These hold for every capacity of the inbox and whether or not the initiator waits.
Assumed: `NodeAssumption` (two clients, the initiators among them),
`BoundsAssumption`, `SessionAssumption` and `NoneAssumption`.

`NonceUsedOnce` is not inductive. A nonce could serve twice if a
counter were behind what was sealed (`CounterAhead`: of the link a process has for
a session, every nonce sealed under it is at most the counter, and below it while a
goroutine is between taking a number and sealing), if two goroutines were in that
place (`OneHolder`), or if a session came back after its link had gone in a
restart, with its counter at zero. The last is ruled out by the ephemerals: a
session that a reader is about to install has an ephemeral of its own end that no
link has used (`FreshKeys`), and whatever is pending, installed or sealed was made
before (`Known`). `LinkHearsItsOwn` follows from `Typed` and from each delivery
being to the link under whose session the frame was opened.

### Handshake (also in `SessionProofs`)

| Theorem | Statement |
|---|---|
| `SettledEndsMatch` | `OneAtATime => (SpecSession => []SettledSessionsMatch)` |
| `AnswersStayUnanswered` | `OneAtATime => (SpecSession => []AnswersGoUnanswered)` |
| `PunchingCanStart` | `OneAtATime => (SpecSession => []SomeoneCanPunch)` |

`OneAtATime` says that one client of the two opens sessions, and opens one only while
no handshake is under way. It restricts nothing else: either process may end at any
point. `client/conn.go:592` says which client opens (the device), and
`examples/echo/main.go` opens once, after it has dialled. The code does not enforce
that handshakes do not overlap; the run `answered_answer` shows what a second
`OpenInitiator` during a handshake does. The run `handshake` makes the same hypothesis
by its constants.

As long as the opener's process has not ended in mid-handshake (`~stray`), the
invariant (`Exchange`) says that a handshake is one token. It is nowhere, with
`OpenInitiator`, on its way to the other client as the only handshake frame there
is, with that client's reader, on its way back, or with the reader of the client
that opened (`OneToken`); and from its first place to its last but one that client
waits with the key it began with. So no frame can be taken for an answer to another. A
loss or the end of the other client's process destroys the token.

When the opener's process ends while there is a token, the token is astray: the new
process waits for nothing and answers what it should only have finished with. Of that
time the invariant (`Astray`) keeps only that nobody waits and that both clients are
responders, so that `SettledSessionsMatch` can name the exception. The next session is
opened when nothing is under way any more, and then there is one token again, whatever
links are left (`OpenStep`). `Course` is the two cases joined by `stray`.

`Agree` adds what is left when the token is gone: the two links match, or something
was lost and the other end has none, and without a loss the addresses of the opener
are still travelling or were opened. It is here that the order of the code matters: the
end that answers stores its link before it sends the answer, so the addresses that the
opener sends once it has the answer always find the link that opens them, whereas those
the other end sends before its answer never do.

### Client socket (`ClientSocketProofs`)

| Theorem | Statement |
|---|---|
| `TypeCorrect` | `Spec => []TypeOK` |
| `SocketsAreHeld` | `Spec => []NoSocketLeaks` |
| `CloseIsFinal` | `Spec => StaysShut` |
| `ShutOwnsNothing` | `Spec => [](Shut => [](~Connected /\ openEnd \subseteq {None, keeper.sock, reader.sock}))` |

Assumed: `SockAssumption` (the first socket is one, and "none" is not).

`NoSocketLeaks` follows from a stronger invariant without its exception
(`SocketsHeld`: every open socket is the current one or one in a goroutine's hands),
which rests on who may read what: the socket the reader reads is the current
one or has been closed (`ReadsCurrent`), because whoever takes it out of `c.ws` closes
it first. `Close` sets the flag before it takes the socket (`FlagFirst`), and the reader
asks for the flag before it dials: hence a client whose `Close` has returned with no
dial under way (`Shut`) stays as it is. The run `close_reconnect` shows that the
hypothesis is needed: a late dial stores its socket in `c.ws` after `Close`. To
`SocketsHeld` that socket is held, but no goroutine is left that would close it: it is
a leak, and `NoSocketLeaks` does not deny it but excepts it, by the condition that
`CloseClearsConnected` holds. `ShutOwnsNothing` is what is true of a closed client
otherwise: it has no socket that no goroutine is closing.

### Path (`PathSelectProofs`)

| Theorem | Statement |
|---|---|
| `TypeCorrect` | `Spec => []TypeOK` |
| `FallBackLasts` | `Spec => [](FallenBack => [](link # 0 => path[link] = "relay"))` |
| `HubForgetsDirect` | `Spec => [](DirectForgotten => [](LinkPath # "direct"))` |
| `AgreementLasts` | for a link `n` and a path `p`: `Spec => [](Agreed(n, p) /\ []InUse(n, p) => [](shown = p))` |

Assumed: `BoundsAssumption` (`MaxLinks` is a number and `MaxAge` a positive one).

They are the safety halves of the three liveness properties: each says that a good
state, once reached, is not left again, whatever crosses; that it is reached is the
other half, which TLC checks.

- `FallsBack`: once the direct path is dead, the newest link is on the relay and no
  goroutine is about to store anything else (`FallenBack`), no store that comes late,
  from a last pong or from a goroutine with a link that was replaced, makes a link in
  use direct again. It needs that a link not installed yet starts on the relay
  (`NewLinksRelayed`).
- `NeverDirectForEver`: when moreover the hub does not show the path as direct, no
  announcement that would say so is on its way and the other end has fallen back too
  (`DirectForgotten`), it does not show it as direct again. Older links may be on the
  direct path all the while: a goroutine that takes up a link takes the one in use.
- `HubAgrees`: when the hub shows the path of the link in use, no goroutine holds an
  older link and no other path is on its way (`Agreed`), it goes on showing it for as
  long as both ends keep that path (`InUse`). The other end's part is needed: either
  end overwrites the entry with its own path. `shown` is the path in it, which
  `LinkPath` stops giving out when the entry is too old.

### QR decoder (`QRDecodeProofs`)

| Theorem | Statement |
|---|---|
| `TypeCorrect` | `Spec => []TypeOK` |
| `WalksInOrder` | `Spec => []ReadsInWritingOrder` |
| `WalkCoversTheGrid` | `Spec => [](stage # "walk" => 2 * walk.k = Side(ver) * (Side(ver) - 1))` |
| `BlocksComeInOrder` | `Spec => []BlocksInOrder` |
| `ParserStands` | `Spec => []ParserInv` |
| `OffersComeBack` | `Spec => []OfferComesBack` |

Assumed: `SegmentAssumption`. A segment has one of the three modes, only characters of
that mode, at least one of them and no more than its count field can hold: the encoder
writes no others, as it chooses the mode by the characters and a version in which
the text has room. Any number of segments may follow one another, the payload may be
cut or padded by any number of codewords, and any set of prefixes may be offers.

*The parser.* `OfferComesBack` speaks of the end of the parsing. The invariant
(`ParserInv`) says where the parser stands at every step: at the start of a field that
the encoder wrote, with the text in front of that field as its output (`AtMode`, and
its like for the other stages). A step then reads the next field. That needs what a field
gives back: the value of the bits of a number is the number, when it fits
their width; the digits that `Chars` takes from the value of a group are those of the
group, for one, two and three digits and for one and two characters; and a group has the
width that the parser expects for the characters that are left. When the payload was cut
the parser stops in front of a field that is not whole, or in the padding, where
four zero bits, or fewer than four bits, end the reading.

*The walk.* `WalkInv` (by `InColumn`) ties the position to the number *k* of rows read: the pair of
columns is `k \div n`, the row in it `k % n` from above or below by the parity
of the pair, and the timing column moves the pairs to its left by one. `Turn` takes
the position of *k* to that of *k* + 1.

*The blocks.* The tables differ by version and level, but each has its short blocks before
its long ones, longer by one (`Shape`), which is computed from the tables. For such
blocks, `Deinterleave` undoes `Written`, by division with the number of blocks.

Horner's scheme and the concatenation of many parts are recursive functions, so these
are proofs by induction on lengths. The library's induction theorems take an operator,
which the provers cannot instantiate; `UpFromZero` states induction for a *set* of
numbers instead, and is proved from the library's fact that `<` is well-founded: a set
that has 0 and is closed under successor misses no number, since the least one missed
would have a predecessor.

### Only model-checked

- Liveness (`VanishedPeerGoesOffline`, `RevokedPairFallsSilent`, `HandshakeCompletes`, `ReaderKeepsReading`,
  `ComesBack`, `CloseEndsGoroutines`, `FallsBack`, `NeverDirectForEver`,
  `HubAgrees`, `EveryCallEnds`): the prover has no rules for fairness and ENABLED.
- Of `SymbolHoldsItsBlocks`, that the free modules are as many as the codewords of the
  block table: it counts the modules of 20 fixed grids against 80 rows of a
  fixed table, and the run goes through all of them, so that there is nothing to
  generalise. Its other half is `WalkCoversTheGrid`.

## 7. Where the code and its documentation disagree

| Run | The repository says | The code |
|---|---|---|
| `register_overwrites_label` | `client/rest.go:80`: an empty label leaves the name the hub stored | `handleRegister` writes back the row it read: a label frame of the host's socket that is stored between its read and its write is overwritten with the older name, by a registration without a label |
| `rebind` | `docs/PROTOCOL.md:91`: a handshake frame is forwarded to the bound peer | `BindingByPeers` fails when the *first* row of the pair is revoked: a device revoked and paired again is bound and hears nothing |
| `answered_answer` | `crypto/identity.go:114`: `Respond` accepts an initiator's ephemeral | after a second `OpenInitiator` during a handshake, one answer finishes the wrong initiation and the other is answered as if it were one |
| `close_reconnect` | `client/loop_test.go:364`: `Close` must clear `Connected` | a dial that had succeeded stores its socket after `Close` returned |

`answered_answer` differs from `handshake` in `Orderly = FALSE`: the initiator may open
whenever it likes. Neither loss nor restart is needed. With the orderly initiator the
same happens when its process ends before the answer arrives; there the property
`AnswersGoUnanswered` of the run `handshake` names it as the only case.

One more disagreement has no run. `relay/hub.go:74` says that `ClosePeers` closes every
upgraded relay socket, and `ClosePeers` closes those in `h.conns`: a socket between
its upgrade (`hub.go:481`) and its insertion (`hub.go:499`) is missed and is served
afterwards. In Relay that is `AcceptHost(s)`, `ClosePeers`, `Insert(s)`. Nothing else goes
wrong by it: `ServedPeerIsReachable` and `NoGhostPresence` hold of that socket too.

## 8. What is not modelled

- Cryptography itself: keys are compared, not computed.
- Frame, offer and label formats, logging, write deadlines, the numbers of
  backoffs and periods. A deadline or a TTL is the point where an action becomes
  possible.
- Of the stores, the look-ups by key, ticket and id and the listings of the admin
  page as calls of their own (each scans one table once, as `BindingByPeers` and
  `ListBindings` do), the three separate label columns, a commit of which nobody
  learns whether it happened, and SQL itself.
- Of the sessions, `recvN`, which `Open` stores and nothing reads, and which of the
  two paths a message takes: PathSelect has the choice, Session allows either.
- Of the QR decoder, the sampling of pixels, the finder test, and the attempts with
  a wrong polarity, level or mask. The attempts share nothing; one that yields a
  text is accepted only if `protocol.Parse` takes it.
- Of the path table, the purge of other pairs, and the other end as a client of its own:
  PathSelect has what that end may announce. The check of the binding is one condition
  with the socket (`heard`). `KillUDP`, which only the tests call.
- A peer that sends handshakes by UDP: `handleFrame` would take them on the UDP reader
  too. The client of this repository does not send any.
- The client's labels: `announceLabels` reads the labels and writes them later, so
  that the announcement on a new socket can be overtaken by one of `SetLabels`, and
  the hub then keeps the older labels until the next connection. The hub's side
  accepts any label at any time (`HostLabel`).
- REST calls, the admin page, the UDP endpoint, the process and the examples: pure
  I/O or read-only views.

## 9. Plan

Done: Store, ControlPlane, PairingPromise, Relay, Handshake, Session, ClientSocket,
PathSelect, StoreCalls, StorePromise, SQLStore, QRTables, QRDecode; the proofs of
section 6, which cover the type invariant and every other safety property and
refinement of all of them, but for the count of codewords in `SymbolHoldsItsBlocks`.

Next, proving: `SettledSessionsMatch` when both clients may open, one at a time
between them: the token of the handshake then has a direction.

Extending the model: *Labels* on top of ClientSocket, both ends of PathSelect as
clients, the idle time of a relay socket, and ControlPlane and Relay over one set of
rows.

## 10. Running it

```
tlc -workers 2 -config codes.cfg MCControlPlane      # a run; see PROJECT.json for the others
for m in StoreProofs ControlPlaneProofs SQLStoreProofs RelayProofs \
         SessionProofs ClientSocketProofs PathSelectProofs QRDecodeProofs; do
  tlapm $m.tla                                       # the proofs
done
```
