# A TLA+ model of wcf

wcf is a pair of proxies. The **local client** (`wcf/wcf_local.go`) listens for
browsers that speak socks, http or are simply forwarded, and decides for each
target whether to dial it directly or to hand the connection to a **remote
server** (`wcf/wcf_server.go`). The two ends talk a small relay protocol over a
transport (TCP, KCP, TLS) through a mix layer that encrypts. Paths in this
document are under `src/wcf/src/` unless they begin with `src/`.

The modules here model the goroutines, the shared maps, the channels and the
protocols of that program, one module per component. TLC checks them on small
instances. TLAPS proves every safety property of these runs for every value of
the constants; liveness stays with TLC.

## 1. The system

```
 browser ──> Acceptor (socks, http, forward)
                 │  connectionList
                 v
            LocalClient.handleProxy ──> HostRule (rules file, by Reload)
                 │            └───────> SmartRule (probes)
                 │  Get / Update ─────> LoadBalance
                 v
            Relay (doAuth) ══ transport, mix layer ══ Relay (doHandshake)
                                                        │  Acceptor
                                                        v
                                     RemoteServer.handleProxy ──> users (UserFile, Reload)
                                                        │            contexts, limiter
   Pipe (both ends copy until the session is over) <────┘            reportQueue ──> visitor
```

| Component | State it keeps | Operations | What makes it hard | What makes it correct |
|---|---|---|---|---|
| Load balancer `lb/loadbalance.go` | weight, error count, mark and time of failure of each server | `Get`, `Update`, `autoScan` | dials overlap: an answer may come after the kick or the revival | weights stay in range, a kick is deserved, an outage is bounded and ends |
| Pipe `net_utils/net_utils.go` | two goroutines, two pooled buffers, one context | `Pipe`, `DataCopy`, `SendSpecLen` | half closes, resets, deadlines, partial reads and writes | each direction is a FIFO; the directions end in turn and drop nothing they read; buffers have one user; the session ends |
| Remote server `wcf/wcf_server.go`, `wcf/user_context.go`, `limiter/limiter.go` | contexts and free slots per user, report queue | `handleProxy`, `GetOrCreateContext`, `TryAcqure`, `Release`, `report` | first connections of a user race; reloads in between; many return paths; a slow visitor | slots are conserved, contexts are made once, nobody waits for a visitor |
| Local client `wcf/wcf_local.go` | route, dial and answer of each session | `handleProxy`, host hook | reloads and probes change the rules during a look-up; every `Get` owes an `Update` | the route was allowed, the balancer is used in turn, every connection is decided |
| Smart rules `check/smart_host.go` | learnt rules, queue, `checkMap`, slots | `AddToCheck`, `startCheck`, `AddRule` | probes overlap with requests for the same host; slots run out | one probe per host, slots conserved, requests answered |
| Host rules `check/host.go` | domain map, v4 ranges, v6 blocks | `onLoad`, `sortAndMerge`, `CheckAndGetRuleOptional` | overlapping blocks; a binary search over merged ranges | merging neither adds nor loses an address; the search ends and misses nothing |
| Reloader `reload/reloader.go` | noted time, pending item | `AddLoad`, `Start`, the file check | the file changes between its check and its load, vanishes, or is half written | what is in use is what was checked; edits take effect; the caller is not left waiting |
| Users file `wcf/userinfo.go` | lines of the file, table of users | `ReadAllLine`, `NewUserHolder`, `GetUserInfo`, `Check` | the lines are slices of a buffer that is filled again | the table is what the file states |
| Relay protocol `wcf/relay/relay_connector.go`, `relay_acceptor.go`, `relay_utils.go`, `wrap_frame_conn.go` | receive buffers, time stamps | `doAuth`, `doHandshake`, `Read`, `Write`, `Close` | packets arrive cut and joined; data follows the handshake in the same read; a peer stops | both streams intact and delivered; a handshake ends |
| Acceptors `wcf/relay/relay_acceptor.go`, `proxy/socks/socks_acceptor.go`, `proxy/http/http_acceptor.go` | channel of five results | `Start`, `Accept` | failed handshakes, a full channel, a failing listener | a connection has one owner and is returned or closed |
| Socks and http handshakes `proxy/socks`, `proxy/http` | parsed target, bytes read ahead | `Handshake`, `handleShake`, `Read` | requests and answers cut anywhere; clients that do not wait; data read together with a handshake | both sides agree on the outcome, the stream behind it is whole, nobody waits for ever |
| Mix layer `mix_layer/crypt_layer.go`, coders | cipher state, undecoded and undelivered bytes | `Read`, `Write`, `DisableDecode` | the vector travels in the first frame only; frames cut and joined; raw bytes for the redirector | a FIFO tunnel that holds nothing back; the redirector starts at the first byte |
| Padding transport `exchange/exchange_conn.go`, `transport/trans_pad` | padding still to send and to skip | `Read`, `Write`, `Close` | padding cut by reads; a `Close` that does not close | not a byte of padding reaches the user |
| Redirectors `wcf/redirect`, visitors `wcf/visit` | none | `Process`, `OnView` | may take for ever | steps of RemoteServer without fairness |
| Transparent redirect `wcf/wcf_redirect_linux.go` | none | accept, getsockopt, socks dial | kernel state | its dial is the connector of the handshakes, its copying Pipe's; the getsockopt is not modelled |
| Speed limiter `limiter/speedlimiter.go` | token buckets of a connection | `NewSpeedConn`, `Read`, `Write` | none | not modelled: `handleProxy` puts it around the connection of a user with a limit, where it delays Pipe and changes no byte |
| Registries, transports, configuration, messages | maps filled at start | look-ups | none | not modelled: filled once at start, thin wrappers, or generated |

## 2. Modules

Each component is a module; `MC<module>` gives its constants for TLC and
`<module>Proofs` holds its theorems; those of LoadBalance are in
LocalClientProofs, since LocalClient extends it, those of UserHolder, the table
the remote server asks, in RemoteServerProofs, and those of ProxyHandshake, what
an acceptor runs on a connection, in AcceptorProofs.

**LoadBalance.** `item[a]` is the `LoadItem` of server `a`, with the fields and
names of the source. `Get` picks a server with room in its weight (the random
draw becomes a choice among the servers `PickedAfter` allows), `UpdateSucc` and
`UpdateFail` are the two halves of `Update`, `AutoScan` one turn of its
goroutine. Between `Get` and `Update` the dial is in flight: `dialing[d]` is
what `handleProxy` holds in a local variable. Time is counted in ticks, and
`age[a]` is the time since `LastFail`. `fails` and `revivedLate` are history
variables the properties speak of.

**Tunnel** is the abstract specification of a session: two FIFO channels that
may end; a step sends or delivers one byte or several. Two components implement
it. **Pipe** is the code of one: a step is a `Read`, a `Read` whose deadline has
expired (`ReadTimeout`: it fails even if bytes wait), the look at the context
that follows it (`CheckDone`: bytes may arrive and the other goroutine may end
in between) or one byte of a short `Write`, and `Start` and `Return` are what
`handleProxy` does around `Pipe` with the `sync.Pool`. Bytes are `<<stream, position>>`, so a
byte of another session, or one that is repeated or missing, can be seen.
`IsTunnel` states that Pipe implements Tunnel under the mapping
"ended = goroutine at its end". A peer of Pipe may send for ever: when the
`MaxSent` bytes it numbers are delivered it counts from one again, and Tunnel's
`EndlessSpec` has that as a step of its own (`Restart`).

**Exchange** and **MixLayer** are the other: the layers below the relay.
Exchange has the operations of the connection at the bottom, plain or padded
(`Put` is `Write`, `Get` and `Filtered` are `Read` with `padAndCount`,
`CloseConn` is `Close`), and no behaviour of its own. MixLayer puts
`MixLayerAdaptor` on both ends of it. A frame travels as `Total` units: two for
the length and its mac, one for the vector when there is one, one for each
byte, one for the mac. `ReadMore` is one `Read` of the connection with all that
follows from it; `Decoding` is the state of the decoder after each unit, a
recursive function over the complete frames as the inner loop takes them, and
`Decoded` its last value. The coder is `none` or `xor`: an encoded byte carries the place in the key
stream it was encoded with, and is `Garbled` when the decoder is at another. A
stranger without the key sends units that are no frame, and the server then
reads raw (`ReadRaw`). `IsTunnel` maps a session to Tunnel; a byte that is
garbled, doubled, missing or early is no step of Tunnel.

**RemoteServer.** `pc[s]` is where the goroutine of connection `s` is. A step
is what runs between two points where another goroutine can come in: the
unlocked read of `allctx` (`Peek`), `mu` (`Lock`, `Store`, `Unlock`), the
limiter's lock (`TryAcqure`, `Release`), the dials, the pipe and the channel.
`Reload` replaces the table at any time. `PeekFails` is what Go may do when the
unlocked read meets a write, and what the code does when the user is gone: the
process ends. `OnView` is the visitor's goroutine.

**LocalClient** extends LoadBalance, whose own `Init`, `Next` and so on are
`LBInit`, `LBNext`, ... for that reason, with the sessions that dial, the rules a `Reload` replaces and the smart
rules `Probed` writes. A session is at one of the places hook, rule, smart,
get, dial, wrap, pipe. `GetServer`, `Dialed` and `DialFails` take the
balancer's own actions; with `loadbalance.enable` off, `Get` still runs and
`NoUpdate` takes the place of `Update`. `seen[s]` is history: the rules the
file had for the target while the session was deciding.

**SmartRule.** `startCheck` step by step (look at the map, look at `checkMap`,
acquire, store) and, concurrently, the probe goroutines (dial, release, write
the rule under `mu`, delete from `checkMap`).

**HostRule.** A file of lines is loaded (`Parse`, `Sort`, `Merge`, `Loaded`,
one turn of each loop a step) and then asked for one host after another
(`Ask`, `Find`, `Resolve`, `NextRoute`, `Search`, ...). The map of rules is
walked in any order, as Go does. Addresses have `Bits` bits, and `Size[n]` of
them share a prefix that leaves n bits free; a name is a sequence of labels.
`InputAssumption` says that the hosts are closed under what the look-up makes of
a name: its lower case and its parents.

**Reload** has the operations of the reloader (`AddLoad`, `Start`, `Check`,
`Load`, `LoadFinish`) and of its caller, over the existence and modification time
of a file, and no behaviour of its own: what a load reads is the user's part.

**UserFile.** `ReadAllLine` over `bufio.Reader`: `ReadLine` returns a slice,
`Fill` slides the unread bytes and reads more into the same buffer, and the
slices are parsed only at the end. bufio itself is external.

**UserHolder** composes the two into `NewUserHolder`: the loader's goroutine
checks the file, reads it fill by fill while its owner rewrites it in place,
replaces or removes it, parses the lines and puts the table in use; the caller
waits for the first load. `Meanings` is what a content may become, given what
section 6 says of a file without a newline at its end. Its names begin with
`Holder`, since a proof module sees it next to RemoteServer.

**Relay.** One connection with both of its ends, from the client's first packet
to `Close`. A packet is a record that travels as `Size` units, and a `Read`
takes any number of the units that arrived, so every fragmentation occurs.
`Server` covers `doHandshake` with its failures (a late packet, a wrong user, a
time-out) and the redirector that then gets the connection.

**ProxyConn**, **SocksHandshake**, **HttpHandshake** and **ProxyHandshake**.
One connection to the local proxy, from the client's first byte to the traffic
behind the handshake. ProxyConn has what the protocols share: the two streams,
the bytes a connection's `Read` answers first (`held`: `rbuf` of `SocksConn`,
`SocksClient` and `HttpClient`, `buffer` and `bReader` of `HttpConn`) and the
users on both sides. SocksHandshake and HttpHandshake have the loops of both
ends, one `Read` a step; the socks messages are real bytes with their length
fields, the http header is three units. ProxyHandshake puts them together. The
client is the connector of this repository, a browser, or an optimist who sends
before it is answered; it may leave at any time. Where a loop goes on is an
`IF` in the order of the code's tests, which overlap: a `CASE` would leave the
choice open. The specification is `ShakeSpec`.

**Acceptor.** The listener's goroutine, one goroutine per connection and the
caller of `Accept`, with the channel between them. `relay` says whether it is
the relay's acceptor, which mixes first, sets a deadline and has no `continue`
after an error, or one of the local ones. `closed` are the connections whose
`Close` was called; over `tcp_pad` (`padded`) that does not close them, so a
handshake may go on after a failed mix, and one that fails with an error that
is no `net.Error` asks the nil connection of the mix to redirect
(`RedirectPanics`).

How they fit: Relay and Acceptor hand RemoteServer and LocalClient the
connections those modules start from (`HandshakeOk`, `Accept`); the handlers'
`pipe` place is a session of Pipe; `Reload` is the step in which LocalClient
and RemoteServer get new rules and users, and its content is what HostRule or
UserFile makes of a file. LocalClient instantiates LoadBalance, UserHolder and
ProxyHandshake extend the modules of their parts; the others meet
through a step of the one that is left as free as the other module allows.

## 3. The runs

Every run but the one of section 6 passes. `Bug...` operators in the modules
are the mutants: each property of each run is violated when the definition
named in PROJECT.json is replaced by its mutant. `TypeOK` (`LBTypeOK`,
`HolderTypeOK`, `ShakeTypeOK`) is the type invariant of each module. The runs
spend their time on other things: it is proved (section 5).

| Run | Constants | What it shows |
|---|---|---|
| `lb` | weights 1 and 10, two dialers, `MaxErr` 2, `MaxFail` 2, scan every 2 ticks | weights stay in 1..base (`WeightInRange`); a kicked server is out for at most `MaxFail + ScanPeriod`, and no late answer starts that time again (`OutageBounded`); it is kicked by exactly `max_errcnt` failures unless a late success revived it (`KickedExactly`); it returns (`KickedReturns`) |
| `pipe` | one session, two buffers, chunks and streams of two bytes, window of one | a buffer goes back when nobody uses it (`BuffersExclusive`), without a broken connection the first direction to end is drained, the second ends only after it, and neither drops a byte it has read (`EndsInTurn`), Pipe implements Tunnel (`IsTunnel`), the session ends unless a peer stops reading or never stops sending (`SessionEnds`) |
| `server` | one user, three connections, limits 1 and 2, report queue of one | free slots plus holders is the limit (`LimiterConserves`); a context is never replaced (`ContextKept`); no handler waits for ever outside its pipe (`HandlerMovesOn`) |
| `local` | one session of any listener, two servers kicked at the first failure, one reload, smart rules on | the route was allowed while it was looked up (`RouteJustified`); each `Get` has its `Update` (`ServersAnswered`); the session is a dialer of LoadBalance (`IsBalancer`); every connection is decided (`Decided`) |
| `smart` | two hosts, two probe goroutines, one slot, queue of one | probes of a host never overlap (`OneProbePerHost`), slots come back (`SlotsConserved`), each probe ends (`ProbeClears`), a request that was neither dropped nor forgotten gets a rule (`AskedIsAnswered`) |
| `host` | files of up to three of nine lines, 3-bit addresses, twelve hosts | the ranges in use hold exactly the addresses of the lines (`RoutesExact`), the search misses none (`SearchMisses`) and ends (`LookupEnds`), a name has the rule of its nearest parent by the last line about it (`NameRule`) |
| `users` | seven contents of a file, three edits, times 0..2, a buffer of four bytes | what is in use is what the file checked last means, even though it is rewritten while it is read (`InUseIsCurrent`), an edit that moves the time takes effect (`EditsTakeEffect`), the caller returns (`CallerReturns`) |
| `relay` | packets of two units, writes of up to two bytes, reads of one, three bytes each way, clocks late, right and early | both streams intact from the handshake on (`StreamIntact`), nothing written on an open connection stays in a buffer (`AllDelivered`), a peer that stops in the handshake keeps nobody waiting (`HandshakeEnds`) |
| `layers` | padding of one byte, frames of up to two bytes, reads of one, three bytes one way and one the other, an index of xor that begins again after one byte, a stranger's three bytes | the mix layer over a plain or padded connection implements Tunnel (`IsTunnel`); on an open connection all that was written is read (`AllDelivered`); a close is seen (`CloseIsRead`); the redirector reads from the first byte (`RawFromTheFirst`) |
| `handshake` | every type of address, a name of two letters and one of four, a wrong type, a port above 32767, greetings with one method, two, none that fits and of another protocol, two bytes of data | no byte of a handshake reaches a user and none of the users' is lost or doubled (`StreamKept`); both sides agree on the outcome and the target (`HandshakeAgrees`); a client with a right greeting is served however the rest is cut (`ServedUnlessCut`); neither side waits for the other for ever (`HandshakeEnds`) |
| `acceptor` | three connections, channel of one, one listener error, both kinds of acceptor, the relay's over a plain and a padded transport | one owner per connection (`OneOwner`), the relay's acceptor returns or closes each (`ConnAnswered`), a finished handshake is served although others never finish (`ReadyIsServed`) |

Why the bounds are enough. Two dials are the fewest that cross: one straggler
and one that kicks or revives. Weights 1 and 10 are where `/2`, `/5`, `/10` and
`--` differ; 1 is the smallest and 10 the smallest for which `Base/10` is not 0.
A pipe of two-byte chunks over a one-byte window meets every short write; two
bytes are what a peer numbers at a time, not all it sends. Three
connections of one user are one that holds the last slot and two that race for
the context. Queues and channels of one are full as soon as a second sender
comes. Three lines of a rules file let a merged range meet a third one, nested,
ending together or apart, next to lines of other kinds. A 3-bit address space
has room for a gap between two ranges, and one on both sides. In a buffer of
four bytes two lines fit and a third does not, so fills occur that overwrite
lines already collected and fills that do not. Packets of two units are the
smallest that can be cut. Three bytes through the mix layer in frames of one or
two give two and three frames, which a read joins and cuts; one byte of padding
is read together with a frame or before it. An index that begins again after
one byte does so between the frames of a run, as the program's does after a
hundred. The handshakes use real lengths (a greeting of three or four bytes, a
request of 9 to 22), and one byte of data in each direction, or two in one, is
read together with the handshake, before or after it. A buffer of `BufSize` 30
is longer than a greeting and a request together, as 512 is.
Sessions of LocalClient meet only in the balancer, whose own run overlaps two
of them, and in the rules, which they only read; its proofs are for any number.
Buffers change hands between sessions only in Pipe's theorem
`BuffersAreExclusive`, which is for any number of sessions.

Bounds that are not the program's: `MaxSent` (Relay, MixLayer), `MaxRaw`
(MixLayer), `MaxData` (ProxyHandshake), `MaxEdits` and `MaxTime` (UserHolder),
`MaxLines` (HostRule, UserFile), `MaxLen` (UserFile),
`MaxReloads` (LocalClient), `MaxErrors` (Acceptor), and the saturation of ages
and error counts in LoadBalance (`AtMost` of the limit a guard compares with).
Deadlock is checked where the component runs for ever (LoadBalance, HostRule)
and not where the model may stop because its peers do or its bounds are used up.

## 4. Fairness

Weak fairness is asked of goroutines, because Go's scheduler runs every
runnable one, and of waits that have a deadline in the code. Nothing is asked of
peers, browsers, the visitor, the redirector or the owner of a file.

- LoadBalance: the ticker and `autoScan`; no dial has to be answered.
- Pipe: both goroutines of a session (the read deadline expires), `Start` and
  `Return`. The peers may stop for ever or send for ever, and `SessionEnds` has
  the two exceptions that follow: a `Write` has no deadline (`Blocked`), and the
  context is looked at only after a `Read` that timed out (`KeepsSending`).
- RemoteServer and LocalClient: the handler's own steps, dials and handshakes
  included, which have time-outs; not the pipe, the visitor or the redirector.
- SmartRule: `startCheck` and each probe; strong fairness for `AddRule`, since
  `sync.Mutex` hands over to a goroutine that has waited.
- HostRule: the look-up that runs (a resolver answers or times out).
- UserHolder: both goroutines, and so the load; not the file's owner.
- MixLayer: the readers; nobody has to write or to close, and the runtime does
  not have to finalize a connection.
- ProxyHandshake: the goroutines of both handshakes, whose `Read` is answered
  when bytes are there or the peer has closed. The deadline of `DialWithTimeout`
  may be an hour and has no fairness: `HandshakeEnds` does not need it.
- Relay: the readers, which Pipe calls again and again, and the two ends' waits
  with a deadline.
- Acceptor: strong fairness for the goroutines that send, since a channel
  serves its senders in order; the handshake ends only at the relay's acceptor,
  which sets a deadline.

## 5. What is proved

All theorems are of the form `Spec => []Inv` or `Spec => [][A]_vars` (and
`Spec => T!Spec`), for every value of the constants that satisfies the named
assumptions of the module: sets may be of any size, `Weight` any function into
the naturals, `ChunkSize` and `Window` any positive number.

| Module | Theorem | Rests on |
|---|---|---|
| PipeProofs | `TypeCorrect`, `StreamsIntact`, `BuffersAreExclusive`, `DirectionsEndInTurn`, `PipeImplementsTunnel` | `IInv`: where a session is against its goroutines (`PhaseInv`), who owns a buffer (`OwnInv`), how many bytes are read, written and in the buffer (`CountInv`), what the buffer holds (`ChunkInv`), what was delivered (`IntactInv`), and that the context is cancelled only once a goroutine has ended (`DoneInv`), which is what `DirectionsEndInTurn` needs of a time-out. `StreamIntact` alone is not inductive: it needs the content of a buffer, and that needs its single owner. `PipeImplementsTunnel` is over Tunnel as it stands, with steps of several bytes, of which Pipe takes those of one, and a step in which the count of a drained stream begins again |
| RemoteServerProofs | `TypeCorrect`, `SlotsConserved`, `ContextsKept` | `IInv`: types, who holds `mu` (`MuInv`), that a connection past `Store` has a context (`ContextInv`). That only the holder of `mu` stores, after looking again, is what keeps a context from being replaced |
| RemoteServerProofs, of UserHolder | `HolderInvariant`, `HolderTypeCorrect`, `FileInUse` | `HolderInv`: no time that was noted is later than the latest the file ever had (`TimeInv`), so that an edit that moves the file's time moves it past them all; a load begins with empty locals (`LoaderInv`); and as long as the file has not moved since its time was noted, what was read so far, what was parsed and what is in use is its content (`ContentInv`). `InUseIsCurrent` alone is about two places of the loader, and what is in use there is what a read of many steps left. The read is followed through the buffer: the bytes of a file lie there one line behind the other (`Laid`, by `FileIsLaid`), the lines collected so far are slices that begin where the file's do (`Collected`), and a fill moves none of them once the whole file is in (`InBuffer`). Assumed are a buffer of at least one byte (`SizeAssumption`), contents that are finite lists of lines (`ContentAssumption`), and that a newline is no byte of a line (`NewlineAssumption`) |
| LocalClientProofs, of LoadBalance | `BalancerTypes`, `WeightsInRange`, `OutagesBounded`, `KicksExact` | `BalancerInv`: types, each item alone (`ItemInv`: range of the weight, mark and errors), the age of a mark against the last scan (`AgeInv`), and the error count against the history (`CountInv`). One lemma per operation on an item (`TakenKeeps`, `SucceededKeeps`, `FailedKeeps`, `RevivedKeeps`) carries the arithmetic; `OutageGoesOn` is the step property of an outage |
| LocalClientProofs | `TypeCorrect`, `RoutesJustified`, `DialsAnswered`, `BalancerIsUsed`, `ClientKeepsWeights`, `ClientKicksAndReturns` | `IInv`: the types of the sessions' variables, `seen` holds the rule in force (`SeenSoFar`), and the two properties. `BalancerIsUsed` is the refinement of LoadBalance: a step of a session is a step of one dialer or none of the balancer's (`SessionIsDialer`); it needs `ServersAnswered`, for the server an `Update` is about, and `Enable`, since without it no `Update` comes. What is proved of the balancer alone so holds in the client (`ClientKicksAndReturns`); its types and the range of its weights do with the balancer off too, since a dial that ends without an `Update` leaves `BalancerInv` as it is (`BalancerKept`) |
| SmartRuleProofs | `TypeCorrect`, `ProbesApart`, `SlotsAreConserved` | `IInv`: types; a goroutine that is not idle has a host and the host is in `checkMap` (`ProbeInv`); `startCheck` stores only a host it has not found there (`CheckInv`); no two goroutines have one host (`Apart`); free slots, dialling probes and the slot `startCheck` has just taken make up the limit (`SlotInv`, which also says that only finitely many dial, so `Probes` may be infinite) |
| HostRuleProofs | `TypeCorrect`, `RoutesAreExact`, `SearchMissesNone`, `NamesAreRuled` | `IInv`: before and after its merge a rule's ranges hold exactly the addresses of its lines read so far (`RouteInv`); in the merge the result and the ranges to come hold what the sorted list holds, and the last of the result begins no later than those to come (`MergeInv`); a key has the rule of the last line about it (`DomainInv`); what the binary search left behind does not hold the address (`LookupInv`); the walk over the parents has passed only names without a line (`NameInv`). `NetworkHolds` is the arithmetic of a masked network, for which `Size` must divide (`SizeDivides`); `SortKeeps` says that a sort loses no range (an injection of a finite set into itself is onto), `MergedHolds` is one turn of the merging loop |
| MixLayerProofs | `TypeCorrect`, `RedirectedFromTheFirst`, `KeyHoldersAreServed`, `MixLayerImplementsTunnel` | `IInv`: the units between an encoder and the decoder that will read them, in `rbuf` and on the wire behind the padding, belong to chunks that follow each other without a gap, the first at the state of the decoder and the last up to the state of the encoder (`FlowInv`; the chunks are an existential of the invariant, not a variable). `StreamDecodes` says that any prefix of such a stream decodes to the bytes that were due, whatever the frame it stops in; `StreamAppend` and `StreamRead` are a write and a read of it, `PutVisible` and `GetVisible` what the padding hides. `GotInv` numbers what was decoded, `PadInv` counts the padding, `StrangerInv` has the whole of what a stranger sent, `CutInv` what is left of a frame cut short, `RoleInv` who may be raw. `StepMaps` then maps each step to one of Tunnel or to none |
| RelayProofs | `TypeCorrect`, `StreamsAreIntact` | `IInv`: the units an open end has still to take, in `rbuf` and on the wire, are whole packets that carry the next bytes, from the last one taken or kept in `rdbuf` up to the last one sent (`FlowInv`, by `Run` and `Follows`); a client that waits has its answer in front of the data (`AwaitInv`), so that `Spare` is the beginning of them; until the server answers there is at most its client's one packet (`DialInv`), so that nothing is lost with it; what was read is numbered (`GotInv`). `RunOn` is a write behind such units, `RunRest` the packet that is cut off in front, `FirstPacket` its being whole, `TakeKeeps` a read of any part of the stream |
| AcceptorProofs | `TypeCorrect`, `OwnersAreOne` | `IInv`: types; nothing occurs twice in the channel or among the results, nothing is in both, and whoever is there is done and open (`ResultInv`); a closed connection is past its close or lost its mix, and only a padded one is delivered after it (`ClosedInv`). One proof for both kinds of acceptor |
| AcceptorProofs, of ProxyHandshake | `HandshakeInvariant`, `HandshakeTypeCorrect`, `HandshakeKeepsStream`, `HandshakesAgree`, `HandshakeServes` | `ShakeInv`: what a side has read but not used together with what is on its way to it (`In`) is, at each place of a handshake, exactly what is left of what the peer wrote: the greeting, the request, the answers, the header, and then the user's data (`SocksServerIn`, `SocksClientIn`, `HttpServerIn`, `HttpClientIn`). Who goes first and what cannot have happened yet is `Ordered` and `Placed`. Behind the handshake what was read, what `held` has and what is on its way make up what is due (`Streams`); `StreamKept` says nothing of the wire and is not inductive without it. `ServedUnlessCut` needs that a request read in part is not judged by bytes that are not its own. A cut at any place is one lemma: two splittings of one stream agree on what both have (`Agree`), and what is left of the longer follows (`Cut`, `Rest`); `RequestIs` has the length fields of a request against its length, `WholeRead` the same of a header. Assumed is a byte each for the type and the length of an address (`TargetAssumption`) |

`KeyHoldersAreServed` states what no run does: the server reads raw only from a
stranger or from a client that has closed. It is part of why `AllDelivered`
holds.

Where an argument goes over the length of a list (the addresses of a prefix in
HostRule, the prefix of a stream in MixLayer, the units of a packet in Relay), the library's induction theorems
cannot be used, and the proof takes the least element of the set of numbers that
do not have the property (`NatInSet`, from `WFMin`).

Every invariant the passing runs check is proved, and so are the refinements
`IsTunnel` (of Pipe and of MixLayer) and `IsBalancer` and the action properties.
Model-checked only is liveness under fairness
(`KickedReturns`, `SessionEnds`, `HandlerMovesOn`, `Decided`, `ProbeClears`,
`AskedIsAnswered`, `LookupEnds`, `AllDelivered`, `CloseIsRead`, `ConnAnswered`,
`ReadyIsServed`, `EditsTakeEffect`, `CallerReturns` and the two called
`HandshakeEnds`), which is beyond the prover, as is ENABLED.

## 6. Where code and documents disagree

One disagreement has a run of its own, which TLC ends with a counterexample.

- `user_file_no_newline` / `OneUserPerLine`: `ReadAllLine` keeps slices of
  bufio's buffer (`wcf/userinfo.go:57`) and parses them after the next fill. A
  file without a newline at its end is moved to the front of the buffer by that
  fill, and its earlier lines are lost or doubled.

More were met while modelling. Each is an action of the model and has a
property that states what the document says; put that property in the `.cfg`
named, as the only one and under the specification without fairness, and TLC shows the counterexample.

| Property, `.cfg` | The code |
|---|---|
| `KickNeedsMaxErr`, MCLoadBalance | a late success clears the mark but not `Errtime` (`lb/loadbalance.go:109`), so the next single failure kicks again; `src/README.md:57` |
| `DrawWhileUp`, MCLoadBalance with `Addr = {"light"}` and `Weight <- MCWeightMissing` | a missing weight is 0, and the cap of `Update` (`lb/loadbalance.go:119`) then silences the server; the comment at line 11 says 1 is the smallest |
| `MaxConnRespected`, MCRemoteServer | a context keeps the first limit of its user (`wcf/user_context.go:19`); `src/README.md:247` |
| `RemovedUserHarmless`, MCRemoteServer | `GetUserInfo` answers nil for a user a reload removed and `GetOrCreateContext` reads it (`wcf/wcf_server.go:147`); `Check` tests for nil (`wcf/userinfo.go:138`) |
| `NoServerIsReported`, MCLocalClient | `extra.(string)` panics on the nil that `Get` returns with an error (`wcf/wcf_local.go:105`); line 107 means to log it |
| `BlockedIsRefused`, MCLocalClient | `handleProxy` dials a target whose rule is block directly (`wcf/wcf_local.go:111`); only the socks listener's hook refuses it, the http acceptor never calls its hook (`proxy/http/http_acceptor.go:112`), and a reload may come after the hook; `src/README.md:66` says that block forbids the connection |
| `InProgress`, MCSmartRule | a host is stored in `checkMap` before it is known whether a slot is free (`check/smart_host.go:42`), and stays there if none is |
| `DomainAffectsItself`, MCHostRule | rules are stored in lower case (`check/host.go:116`), hosts are looked up as written; `src/README.md:76` |
| `BlockForbids`, MCHostRule | which of two matching ranges answers depends on the order of a map (`check/host.go:264`); `src/README.md:66` |
| `MessageAlive`, MCRelay | only packets from the past are refused (`wcf/relay/relay_utils.go:55`); `src/README.md:129` speaks of a difference |
| `ErrorIsSurvived`, MCAcceptor | after an error of the listener a goroutine is started for nil (`wcf/relay/relay_acceptor.go:207`), and after an error of the mixer the redirect of a failed handshake uses the nil it returned (line 231); `wcf/wcf_server.go:241` logs "continue" |

Six more properties are about what no document says but a reader would expect;
they too are violated when they stand alone in the `.cfg`.

| Property, `.cfg` | The code |
|---|---|
| `NothingLeftBehind`, MCPipe | the direction that ends second leaves bytes unread that arrive between its time-out and the look at the context, or that wait behind an expired deadline (`net_utils/net_utils.go:85`) |
| `SessionEndsAnyway`, MCPipe (under `FairSpec`) | after a successful copy the loop goes round without a look at the context (`net_utils/net_utils.go:80`): a peer that sends before each deadline keeps the session after the other direction has ended |
| `EarlyDataKept`, MCProxyHandshake | data that came with a socks request is replaced by the unread end of the buffer (`proxy/socks/socks_acceptor.go:189`, `buf[index:]` for `buf[total:index]`), and data that came with an http proxy's response is followed by zeros up to the end of the buffer (`proxy/http/http_connector.go:80`, no `:index`) |
| `NoPanic`, MCProxyHandshake | the greeting is judged by `len(buf)`, which is the buffer's size (`proxy/socks/socks_acceptor.go:111`): one that arrives in two parts is refused, or its index falls below zero |
| `ConnectedIsConnected`, MCProxyHandshake | CONNECT is answered with 200 before the port is parsed (`proxy/http/http_acceptor.go:120`), and `GetUrlInfo` parses it as a signed 16-bit number (`net_utils/net_utils.go:231`): ports above 32767 fail |
| `Unmodified`, MCMixLayer | a padded connection takes the first bytes of a stranger, who knows nothing of the padding, for padding (`exchange/exchange_conn.go:59`) |

The checked properties except these cases where they meet them (`Spoilt` in
`StreamKept`, `first` in `ServedUnlessCut`, `target.high` in `HandshakeAgrees`,
`Forgotten` in `AskedIsAnswered`, `KeepsSending` in `SessionEnds`), so they say
nothing about them; the hazards of PROJECT.json note it where it applies.

Two more are exceptions a temporal property makes: the socks connector waits for
ten bytes of an answer that has nine for a name of two letters
(`proxy/socks/socks_connector.go:86`, `ShortAnswer` in `HandshakeEnds`), and
`Close` of a padded connection closes nothing (`exchange/exchange_conn.go:87`,
`~padded` in `CloseIsRead`).

Where such behaviour ends the process (`crashed`), the liveness properties make
an exception for it and the safety properties do not.

## 7. Plan

What a next step would be, in this order:

1. The links between components that are now a free step, such as the content
   `Reload` hands to LocalClient and RemoteServer, as instances of the modules
   that make it (HostRule, UserHolder).
2. The parts that are listed as partly modelled: the accept loop of the
   transparent redirect, the coders other than xor, the forward proxy.

## 8. Not modelled

The ciphers other than xor (library code with xor's interface), the transports'
and net/http's insides, the kernel's side of the transparent redirect, the files
and databases the visitors write, the http redirector's rewriting of requests,
flags and configuration (read once, they are the CONSTANTS), the registries
(filled by `init` functions), the generated messages and the wording of logs. The
speed limiter is left out because it only delays: for a user whose limit is
enabled `handleProxy` hands Pipe a connection whose `Read` and `Write` wait for
tokens (`wcf/wcf_server.go:196`). A rate of zero, for which its buckets would
panic, is replaced by 500 when the users file is read (`wcf/userinfo.go:93`).
Names of more than 255 bytes, whose length `BuildSocks5Req` cuts to a byte
(`proxy/socks/socks_connector.go:62`), are outside `TargetAssumption`.
