# joyproxy-server in TLA+

Specifications of joyproxy-server, the model-checking configurations that
exercise them on small instances, and machine-checked proofs of what matters
most. Paths below are relative to the repository (`src/` here); a definition's
source lines are listed in `PROJECT.json` under `map`.

joyproxy is one Go process. Every accepted client gets a goroutine that speaks
HTTP proxy or SOCKS5, asks an external authorization service whether the client
may pass and under which limits, passes admission control, dials the target
(directly or through a parent proxy), relays bytes both ways through a token
bucket, and reports the traffic. All goroutines share one `limit.Manager` and
one `authapi.Client`. SOCKS5 UDP ASSOCIATE adds a second goroutine per session.

## Inventory

| Component | State it keeps | Operations | Interacts with |
|---|---|---|---|
| Limits, `internal/limit/manager.go` | one-second window of the global rate (atomics), QPS windows and connection counters per user and per IP (under `m.mu`) | `AllowNewConn`, `TryAcquire`, `allowQPS`, `Release` | called by every handler after authorization; limits come from the authorization answer |
| Throttle, `internal/limit/throttle.go` | allowance and time of the last refill of one direction of one relay | `delay`, `Writer.Write` | called by the copy loops |
| Authorization client, `internal/authapi/` | cache of successes and cache of refusals, under a mutex | `Authorize`, parsing of headers, `RequireCreds`, reply codes | external service over HTTP; called by handlers and once per UDP datagram |
| Handlers, `internal/sps/server.go`, `http.go`, `socks5.go` | their sockets, deferred calls, what was told to the client | accept, handshake, authorize, admit, dial, confirm, relay, report, unwind | everything else |
| Relay, `internal/sps/relay.go` | two copy loops, byte counts, a once-guarded close | `relay`, `copyOneWay`, `bufConn.Read` | sockets, throttle |
| UDP association, `internal/sps/socks5.go` | UDP socket, relay goroutine, parent's UDP relay, byte total | per-datagram loop, control read, wait and close | authorization client, `upstream.UDPRelay` |
| Upstream, `internal/upstream/` | one connection during a handshake; `UDPRelay` | `DialTCP`, `OpenUDP`, `WriteTo`, `Read` | parent proxies |
| Sniffing, `internal/sps/sniff.go` | none | `sniffSNI`, `targetForAuthHTTP` | HTTP handler |
| Ports, `internal/sps/ports.go` | none | `ParsePortSpec` | startup |
| Traffic reports, `internal/traffic/reporter.go` | none | `Report` (fire and forget) | handlers, external endpoint |
| Supervision, `internal/daemon/`, `internal/cli/` | what a process is (user's command, detached child, supervisor, worker), marks in the environment, the child waited for, the listening ports | detach, spawn, wait, restart, listen | operating system; the server's start |
| Logging and configuration, `internal/logx/`, `internal/config/` | level, flags | | |
| Companion tools, `tools/` | `minipwa.pl` and `minipwl.pl` are a sample authorization and a sample log endpoint; the rest are install scripts and manual tests | | external to the server |

What is hard here, and where it is tested by nobody (the repository has no Go
tests): interleavings in admission control and in the authorization caches,
time read in one place and used in another, the many error paths of a handler,
two goroutines ending one session, UDP's late and repeated answers, handshakes
with parents that may stop at any byte, and processes that find out what they
are from arguments and marks they inherit. The complete list, with the line where each hazard bites and the properties that
cover it, is `hazards` in `PROJECT.json`.

## Modules

| Module | What it is |
|---|---|
| `ConnLimit` | abstract specification: what the concurrent-connection limits promise, with no counters |
| `LimitManager` | `limit.Manager`, one action per critical section, one per shared-memory access of the lock-free `AllowNewConn` |
| `LimitManagerProofs` | its theorems, the refinement of `ConnLimit` included |
| `Throttle` | the token bucket in front of each direction of a relay |
| `AuthClient`, `AuthClientProofs` | `authapi.Client` under racing callers and a service that changes its mind, and its two theorems |
| `Gateway` | handler lifecycles composed with the abstract limiter (`INSTANCE ConnLimit`) |
| `GatewayProofs` | its theorems |
| `Relay`, `RelayProofs` | `relay` and `copyOneWay`; and its theorems, with those of `Throttle` |
| `UdpAssociate` | a SOCKS5 UDP association after its reply |
| `UdpAssociateProofs` | its theorems |
| `DialContract` | abstract specification: what a handler relies on when it calls `DialTCP` or `OpenUDP` |
| `Upstream`, `UpstreamProofs` | one such call: dialling, the HTTP CONNECT and SOCKS5 handshakes, the sockets and their deadline; and its theorems |
| `Supervisor`, `SupervisorProofs` | the processes: `runSPS`'s dispatch, `LaunchDetached`, `RunSupervised`, `Server.Run`; and its theorems |
| `SocksCodec`, `Sniff`, `PortSpec` | the pure functions: SOCKS addresses and datagrams, `sniffSNI`, `ParsePortSpec` |
| `Parsers`, `ParsersProofs` | applies each of them to one input; and the theorems about them |
| `MC...` | the constants TLC needs for each of these |

### LimitManager
`conns` is `userConns` and `ipConns` together, `window` is `userQPS` and
`ipQPS` together (the keys of the two dimensions are disjoint); `pc[c]` is where
handler `c` stands. `RateClock` ... `RateAdd` are the loads and stores of
`AllowNewConn`, in their order; `QPSClock` is `allowQPS`'s clock reading, which
happens before its lock, and `QPSLocked` the rest of it; `AcquireConns` is the
critical section of `TryAcquire` with its roll-back of the user when the IP is
full; `Release` is the deferred refund. `grants`, `straddles`, `admitted` and
`resets` are history: what each key was granted per second, how many of its
`allowQPS` calls got the lock in a later second than they had read, and how many
connections the present second admitted and how often it zeroed the counter.
`DropClock` forgets a clock reading the handler will not use again; it changes
nothing but the number of states.

### Throttle
Bytes and ticks are integers, `bytesPerSec = Rate * Hz`; `delay` splits into
`Pass`, or `Sleep` followed by `Wake`. `Wake` sets the allowance to zero and
leaves `last` at the start of the sleep, as the code does. `time.Sleep` may last
longer than asked.

### AuthClient
One cache key. `Lookup` and `Store` are the two critical sections, `Ask` and
`Answer` are what happens between them, without the lock. `Fail` is every error
of the HTTP call. `lastOK` and `lastNo` record when the service last would have
answered yes and no.

### Gateway
`pc[c]` names the handler's next step, `open[c]` the sockets it holds,
`defers[c]` its deferred calls, `said[c]` what it told the client,
`reports[c]` how often it called the reporter. A failed read, write, dial or
authorization is a disjunct of the step it belongs to, but for `ConfirmFails`,
which is an action of its own. `Unwind` runs the deferred calls, last first.
An HTTP client may announce a body and send only
part of it (`stalls`): writing the request to the remote and the deferred
`req.Body.Close()` then wait for the rest, without a deadline, until it comes or
the connection ends (`BodyEnds`), or the relay has closed the client. A remote
may take a plain request's connection and not read (`remoteStalls`), which
blocks the same write (`ForwardBlocked`) until it reads (`RemoteReads`) or
either connection fails (`ConfirmFails`). (A request
with `Connection: close` and a length is not drained; the model waits there too,
which only adds behaviour.) The limiter is used through the actions of
`ConnLimit`, which is sound because `LimitManagerProofs!ManagerKeepsPromise`
proves that `LimitManager` implements it. `TryAcquire`'s QPS half and
`AllowNewConn` may refuse at will here. `Dial` and `OpenUDP` are one step that
succeeds or fails: that a failure leaves nothing open and a success hands over
the sockets is what `DialContract` promises and `Upstream` keeps.

### Relay
The goroutine's loop is named `"remote"`, the caller's `"client"`, after the
peer they read from. Data are numbered units; a Write may fail after handing
over some of them. A peer may stop reading, end its stream, or reset. `Lost` is
what the client sent together with its request and the relay will never read:
nothing for HTTP, where `bufConn` serves it, all of it for SOCKS, where the
relay gets the bare connection.

### UdpAssociate
Datagrams are numbered in their order of arrival. `upbox` is the queue of the
socket the goroutine reads answers from: one per datagram when direct, one per
association through a parent. Timeouts (2 minutes without a client datagram, 30
seconds without an answer) are steps that may happen whenever nothing is queued.
A peer that is not IPv4 is told to the client by bytes it reads as `0.0.0.0`
(`Names`).

### Upstream
One call per behaviour: `task` says which (operation, kind of parent URL,
credentials, target), `reply` which parent it meets. The parent's bytes (lines,
for HTTP) are counted, not spelt: `arrived` have come, `took` are read off the
connection, `used` are looked at by the handshake; `ReplyLen` is where the reply
ends and the tunnel begins. `ReadFull(l, ...)` is one `io.ReadFull`, which needs
all its bytes at once, whenever they come; `ReadFails` is the same call when the
stream ends, is reset, or the deadline passes. `Write` sets the deadline and
writes. `Fill` is the `bufio.Reader` of `httpConnect`, which takes whatever there
is. `late` is the expiry of the context, which fails reads and writes only while a
deadline is set (`armed`). The panic of a slice beyond its buffer is an outcome of
its own. As an implementation of `DialContract` a call's sockets count once it
has returned; a panic counts as a failure, since it takes the sockets with it.

### Supervisor
A slot is a process id. `proc[s]` holds where the process stands, its arguments
(each flag absent, spelt `--flag`, which the code that removes flags knows, or
`-flag`, which only the `flag` package knows), the marks in its environment, the
command it stems from (`kin`), and the child it waits for. `MainInternal`,
`LaunchDetached`, `Supervise`, `StartOnce` and `Serve` are the ways through
`runSPS`; `StartWorker`, `StartFails`, `WaitWorker` and `Wake` are the loop of
`RunSupervised`; `Listen`, `Listening` and `AcceptFails` are `Server.Run`.
`Kill` is a crash or a signal, at any time; `Seize` and `Yield` are another
program on a port.

### SocksCodec, Sniff, PortSpec, Parsers
Functions over sequences of bytes (or characters). The code hands an address
from reader to writer as a text, through `net.JoinHostPort`, `net.SplitHostPort`
and `net.ParseIP`. A name is its own text, byte by byte; `SplitHostPort` is what
the two functions together make of it, which fails for most names with brackets,
and `ParseIP` turns the names that spell an IP into that IP. Which names do is
the constant `Literals`, the library's knowledge, of which `ParsersAssumption`
says only that its values are IPs. The text of an IP is represented by the IP.
`Wire` is the encoding every writer uses, clients included. `readSocksAddr` reads a stream, `parseSocksUDPDest` and
`decodeSocksUDPAddr` index a buffer.

`Begin` is `sniffSNI` up to its loops, `Extension` and `Entry` are one round of
the outer and of the inner one; `Parsers` takes them as steps. A walk keeps the
last offset its latest step read, so that an index beyond the slice shows.
Data are at most as long as what the handler looks at (`PeekSize`, `http.go:109`),
and a genuine record and hello name a version from SSL 3.0 on
(`OldestVersion`): the only two facts about real input that `Parsers` assumes.

`Number` and `Atoi` are what `strconv` computes, in the range `MaxInt` of an int.
`Written` and `Writes` are not code: they are the reference definition
`ParsePortSpec` is held against, all the ways to write a range (behind a host or
not, as one port or as two in either order, with any blanks). What an input
means is part of the input, and `ParsersAssumption`, which TLC evaluates, says
that it is true: `Writes(text, meant)`, or for a datagram, that its bytes are the
encoding of its host, port and payload.

## Runs

| Run | Bounds | What it shows |
|---|---|---|
| `limits` | 3 handlers, rate 1, 2 users behind an IP whose connection limit is 2 in one answer and 1 in the other, a QPS limit of 1 for one user, a clock that turns once | counters are exact (`CountsExact`), limits hold (`LimitsRespected`), a second admits no more connections than its resets and racers allow (`OvershootBounded`) and grants a key no more than its limit and as much again for every late handler (`QPSBounded`), and `LimitManager` implements `ConnLimit` |
| `limit_qps_stale` (violation) | 3 handlers, three seconds | a handler with an old second replaces a newer window |
| `throttle` | rate 2 per tick, burst 4, writes of 1, 3, 7, twelve ticks | `WithinTwiceRate` |
| `throttle_rate` (violation) | the same | the configured rate plus one burst is exceeded |
| `auth` | 2 callers, 4 kinds of answers, TTLs 2 and 1, HTTP timeout 1, four ticks | `TypeOK` (no refusal without a status clients may see) and `Fresh` |
| `gateway` | 2 handlers, 9 kinds of clients, 3 configurations, a limit of 1 | sockets and slots are given back, outgoing sockets respect the limit, one outcome and one report, every authorized handler gets somewhere (`Answered`, unless and as long as its client withholds a body or its remote does not read one), and a handler that is done frees its slot even so (`SlotFreed`) |
| `gateway_unreported` (violation) | 1 handler | an admitted session that ends without a report |
| `relay` | 2 units each way, reads of 1 or 2, one unit read early | stream integrity, final counts, and termination |
| `upstream` | 19 calls of every scheme, 18 parents, names of 9, 255 and 256 bytes, ports past 16 bits, two bytes of tunnel sent early | the tunnel starts at its first byte (`TunnelIntact`), a success means what it should (`SuccessIsMeant`), one reply only panics (`Survives`), and the call implements `DialContract`, its promise to return included |
| `supervisor` | 2 commands out of 6, 4 processes, 2 ports, one kill, one port taken for a while | one supervisor and one server per command (`OneOfEach`), a supervisor left alone ends up serving (`KeepsServing`), the shell returns (`ShellReturns`) or not (`StaysAttached`) |
| `parsers` | all texts of up to 5 of 6 characters, 4500 hellos of up to 512 bytes, an int of at most 8800, datagrams of every form cut at any of 8 bytes, with names that spell an IPv4 and an IPv6 address and names with brackets in every place | `PortsAsMeant`, `SniffSound`, `ReadersAgree`, `ForwardedAsSent` |
| `udp` | 2 client endpoints, 2 peers (one IPv6), 2 datagrams, up to 2 answers each | without a parent answers go to their askers; with one too, never more than asked, and an orderly end |

Why the bounds are enough: the races of admission control need two handlers that
overlap and a third that observes the damage, and a clock that turns once
between two of their steps. Under rate 1 the run meets three resets in one second
and nine admissions; the bound of N(N+3)/2 resets is reached only by a clock that
turns more often, and is proved, not met. The caches have one key, because
the key is the whole request; two callers are enough for a stale store after a
newer one. In the relay two units per direction give a partial write with
something before and after it. For UDP, two datagrams of two endpoints with two
answers give the late answer that meets the next question. A parent's reply is
cut at every byte because each arrives in a step of its own; lengths matter at
1, 254 and 255, next to the buffer's 256. Four processes are two supervisors with a
worker each, or a supervisor and its worker next to a command on its way through
two re-executions; one port taken half-way needs two ports. Counters that would
grow for ever are bounded by the clock (`MaxTime`), `MaxSent` or `MaxCopies`.
`throttle` disables the deadlock check because a writer may still be asleep when
the clock reaches its bound; `upstream`, `supervisor` and `parsers` because a call
ends, all processes may end, and an input is parsed once.

Fairness. `Gateway`: the steps from authorization to the end. Their blocking calls
have a deadline (20 s and 15 s for authorization, 30 s for a dial), but for
two: `req.Write` to the remote and the draining of a body. Those are disabled while
they wait, and nothing is assumed of what they wait for: not that the client sends
its body, not that the remote reads, not that a connection fails. Not fair either are
the reads of the client's handshake, which have no deadline, and the relay. `Relay`: each loop's steps, which are enabled exactly when its Read or
Write can return, and strong fairness for a write, because room in a socket
buffer stays until it is used; nothing for the peers. `UdpAssociate`: the
goroutine (all of its calls have deadlines) and the handler; nothing for
clients, peers and the network. `Upstream`: the call's own steps, and time passes;
a parent owes nothing, so that the call returns is due to its deadline.
`Supervisor`: each process runs, and strong fairness for starting a worker, which
a crash of another process cannot prevent for ever; nothing for users, kills and
other programs. `LimitManager`, `Throttle` and `AuthClient` are
checked for safety only.

## Proofs

For every value of the constants that satisfies the named assumptions:

| Theorem | Says | From |
|---|---|---|
| `LimitManagerProofs!TypeCorrect` | `[]TypeOK` | `LimitAssumption`: finitely many handlers, users and IPs with disjoint keys |
| `LimitManagerProofs!CountsAreExact` | `[]CountsExact` | the same |
| `LimitManagerProofs!LimitsAreRespected` | `[]LimitsRespected` | the same |
| `LimitManagerProofs!OvershootIsBounded` | `[]OvershootBounded` | the same |
| `LimitManagerProofs!ManagerKeepsPromise` | `LimitManager` implements `ConnLimit` | the same |
| `LimitManagerProofs!QPSIsBounded` | `[]QPSBounded` | the same |
| `RelayProofs!BucketType`, `TwiceRateBound` | `[]BucketOK`, `[]WithinTwiceRate` | `ThrottleAssumption`: a positive rate and resolution |
| `AuthClientProofs!VerdictsAreTyped`, `VerdictsAreFresh` | `[]TypeOK`, `Fresh` | `AuthAssumption`: lifetimes and timeout are natural numbers |
| `RelayProofs!RelayType`, `CountsAreFinal` | `[]TypeOK`, `[]CountsFinal` | `RelayAssumption`: lengths are natural numbers, reads at least 1 |
| `RelayProofs!StreamsAreIntact` | `[]StreamsIntact` | and `Lost = 0`, which is the HTTP path, or a client that waits for its reply |
| `UpstreamProofs!DialTypeCorrect`, `TunnelIsIntact`, `SuccessMeansIt`, `OnlyLongNamesPanic` | `[]TypeOK`, `[]TunnelIntact`, `[]SuccessIsMeant`, `[]Survives` | `UpstreamAssumption`: calls and parents of the stated types |
| `UpstreamProofs!DialKeepsContract` | the call's steps are steps of `DialContract` | the same |
| `GatewayProofs!NothingIsLeftBehind` | `[]NothingLeftBehind` | `GatewayAssumption`: finitely many handlers, limits are integers |
| `GatewayProofs!UsesTheLimiter` | the handlers' steps are steps of `ConnLimit` | the same |
| `GatewayProofs!OutgoingIsWithinLimits` | `[]OutgoingWithinLimits` | the same |
| `GatewayProofs!GatewayType`, `SessionsAreAccounted` | `[]TypeOK`, `[]Accounted` | the same |
| `UdpAssociateProofs!AssociationType`, `AnswersAreOwn`, `AnswersAreAskedFor`, `ReportIsFinal` | `[]TypeOK`, `[]OwnAnswer`, `[]NoMoreThanAsked`, `[]ReportFinal` | `UdpAssumption`: the bounds are natural numbers, the IPv4 peers are peers |
| `ParsersProofs!PortsAlwaysAsMeant` | `[]PortsAsMeant` | `ParsersAssumption`: inputs mean what they are said to mean (above) |
| `ParsersProofs!SniffIsSound` | `[]SniffSound` | the same |
| `ParsersProofs!ReadersAgreeOnAll`, `DatagramsForwardedAsSent` | `[]ReadersAgree`, `[]ForwardedAsSent` | the same |
| `ParsersProofs!ReadersAlwaysAgree` | two readers of an address find the same one, ending at the same place | none: every sequence of bytes |
| `ParsersProofs!DatagramPassesParent` | what goes through a SOCKS parent: the port and payload that were sent, under the address that was sent, the IP that it denotes or spells, or a name freed of its brackets, and nothing for other names with brackets; an answer comes back under its peer's IPv4 address (0.0.0.0 for a name that spells none; nothing is said of IPv6 peers) | every address, port and payload, in a datagram of ten bytes or more; `ParsersAssumption` on `Literals` |
| `SupervisorProofs!ProcessesAreTyped`, `OneServerPerCommand`, `SupervisorStaysAttached` | `[]TypeOK`, `[]OneOfEach`, `StaysAttached` | `SupervisorAssumption`: a finite set of slots, commands typed without `--worker`, at least one port |

How they go:

- Limits. `TypeOK /\ CountsExact` is inductive: a step that changes a counter
  changes, by the same amount, the set of handlers that hold its key
  (`AdmittedHolders`, `ReleaseHolders`), and a refused IP rolls the user back to
  where it was (`RollbackUndoes`). With exact counters the check against the
  counter is a check against the holders, which gives `LimitsRespected` although
  two holders of a key may carry different limits, and, through the refinement
  mapping `Phase`, `ConnLimit`'s guard.
- Connection rate. Between two resets the counter together with the handlers that
  stand between the load and the add is bounded (`CountBounded`), so what a second
  admits is bounded by that once for each of its windows (`AdmissionsCounted`).
  The number of resets needs a potential (`Ahead`): a handler that read the clock in
  an earlier second (`Late`) may store that reading as the window's start, which
  opens the window (`Opened`) for every handler that checks it next; but it does
  so once, since it then comes back with a reading of the present second.
- Queries per second. Whatever limit bounds all answers for a key (`Allows`),
  what was granted in a second is at most that limit for every window opened in it
  (`WindowCounts`), and a window is replaced in its second only by a handler that
  read another one before it had the lock, which `straddles` counts.
  `limit_qps_stale` shows that this happens.
- Throttle. The bound is not inductive: it says nothing of what is in the
  bucket. `BucketInv` adds the bucket to the bytes passed and bounds the sum by time
  counted once as refill, up to `last`, and once as sleep, up to now; during a
  sleep that began at `last` only the first has been credited.
- Authorization client. `IInv` dates what is in the caches and in flight by the
  last moment the service would have said so: an answer is at most one HTTP
  timeout old when it is stored, a stored one lives for one TTL more.
- Relay. Which step each loop is at says who has closed, signalled and stored
  what (`Ending`), a loop counts exactly what the other socket accepted
  (`Counted`), and what a loop read less what it holds is what it wrote (`Flow`),
  so the next unit written is the next in order (`Ordered`).
- Upstream. Each step of the handshake knows how much of the reply is behind it
  (`Position`), what the parent consented to (`Consent`), what it was asked for
  (`Asking`), and what is open (`Held`). `Position` is the heart: what is left at
  `"tail"` depends on the reply's form, and the lengths add up to `ReplyLen`
  (`Layout`). The counters (`CountersStep`) are proved apart from the rest of the
  type invariant. A call that has returned is touched by its caller only
  (`Settled`), which gives the refinement. A 255-byte name is the only one that,
  with its port, is longer than 256.
- Gateway. The invariant `Structure` relates a handler's step, its sockets, its
  phase in the limiter and its deferred calls: the deferred calls form a chain
  (the client's close comes first, at most one release, a parent's relay only
  above a release), `release` is among them exactly while the slot is held, and
  each socket has either a deferred call or a step that closes it. It is needed
  because `NothingLeftBehind` only speaks of handlers that are done. Because
  `release` unwinds before the client is closed and after the parent's relay,
  every socket towards the outside belongs to a holder, and the holders
  respect the limits by `ConnLimit`'s guard (`WithinStep`). `Accounted` follows
  from `Ledger`, which says for every step of a handler what it can have told its
  client and reported, and `Suits`, which clients get to that step; `Enters` lists
  the few ways a step extends the books, so that each action is checked against
  one line of it.
- UDP association. A datagram is queued, in hand or sent on, once (`InHand`).
  Without a parent the socket that is read is the datagram's own, so what it holds
  are answers to the datagram in hand, which has had none yet (`Direct`): that is
  why `OwnAnswer` needs a socket per datagram. `Counted` puts a gap between the
  datagrams sent on, those counted and those delivered, and `Ending` says that
  the handler gets past its wait only when the goroutine has stopped counting.
- Addresses and datagrams. `ReadBack` says that what is written for a host and a
  port is read as that host and port by `parseSocksUDPDest`, whatever follows it;
  `EncodedIs` what `encodeSocksUDPAddr` writes for the text of a host that was read;
  `SliceOfRest` that looking at a part of the rest of a buffer is looking at the
  buffer. The readers agree form by form.
- Sniffing. Offsets come from lengths a client claims. `Sane` says that each
  round of a loop leaves an offset that is a natural number, and read below the
  length of the data; a round tests what it is going to read against that length
  (`BeginIs`, `ExtensionIs`, `EntryIs`). A genuine hello does not get past
  the first test, which takes its version for a length (`GenuineRefused`).
- Port specifications. `Number` and `Written` are recursive, so first they must be
  shown to exist: `Recursion` builds the solution of a recursive equation
  from its solutions on arguments below a size, and `Induction` says that numbers
  can be counted up to. Both are proved from the library's facts that the order
  of the natural numbers is well founded and that every non-empty set then has a
  minimal element (`WFMin`), which need no operator for a parameter. `WrittenReads` says that
  `Number` undoes `Written`. The rest is about where characters are: `Trimmed`
  (`TrimSpace` takes the blanks off, and nothing else), `CutAt` (a text cut at the
  first, or last, place of a character), `TwoPortsIs`, `HostRead`. A host that is
  cut from any text does not begin with a blank (`SpecIs`), which is why what was
  accepted can be written out and read again (`WrittenAgain`).
- Supervisor. `OneOfEach` says nothing of who may still start another process.
  `Family` does: a process that may start one is alone of its command, one that
  waits has no company but the worker it waits for, and of those that do not
  supervise there is one. That a worker is not itself such a process, however
  the flags it got are spelt, is `Roles` (`--worker` wins over all others), and that the
  child of a waiter is still its child is `Waiting`, which `TypeOK` supports: a
  process has a child exactly while it waits.

Every invariant that a passing run checks is proved, and so are its action
properties and refinements' steps. Only model-checked are the liveness
properties: `Answered`, `SlotFreed`, `OneEndsBoth`, `EitherEndEnds`, `Ends`,
`KeepsServing`, `ShellReturns`, and the promise of `DialContract` that a call
returns. The prover's temporal backend cannot derive them from fairness.

## Where code and documentation disagree

The violation runs each show one such place (`findings` in `PROJECT.json`).
Shown by properties that are stated as the code has it:
- `--max-conns-rate` is exceeded by racing handlers, by fewer than there are in each
  window, and a second can see several windows (`OvershootBounded`; README.md:75
  says "max new connections per second").
- A plain request whose remote does not read hangs, with its slot, for as long as
  the remote pleases (`Answered` excepts it; `http.go:158`).
- `--daemon --no-detach` without `--forever` starts a worker and exits at once
  (`StartOnce`; `cli.go:121-130`; README.md:72 offers it for systemd).
- `httpConnect` loses the tunnel's first bytes when they come with the reply
  (`TunnelIntact` excepts HTTP), and takes any status line with 200 in it for a
  success (`Agreed`).
- A SOCKS parent is asked for the target's port modulo 65536 (`Wanted` excepts
  larger ones), and its reply with a bound name of 255 bytes ends the process,
  with every session (`Survives`; `dial.go:268`, `udp.go:179`).
- A UDP answer of an IPv6 peer is garbled (`ReplyHost`), also when the parent names
  the peer by an IPv6 address's text, and datagrams of fewer than ten bytes, which
  one with a short name may have, are dropped.
- Through a parent, a name with a bracket is dropped, unless a pair around all of
  it is taken off, and a name that spells an IP is sent as that IP
  (`SplitHostPort`, `ParseIP`; `udp.go:213`, `221`).
- Through a parent, a late answer is taken for the next datagram's (`AfterRead`;
  `OwnAnswer` excepts it).
- A port whose accept loop ended stays bound, and nobody notices (`AcceptFails`).
- `5--8` is accepted as a port range.

Read in the code and not run:
- Workers are silent even with `--verbose` (`cli.go:79-81`, against the flag's own
  help).
- `RunSupervised` restarts its worker also after a normal exit; its `forever` is
  never false.
- A parent with an `https` URL is spoken to in clear text (`dial.go:74`).
- `authapi/client.go:92-100` answers 503 to any status other than 200 and 204
  without looking at `X-Joyproxy-Reject-Status`, and `X-Joyproxy-Deny` can yield
  407 or 503 but never 429 (README.md:130).
- `authapi/client.go:197-200` lets a client without credentials pass when there
  is no `--auth-url` (README.md:101-103).
- `internal/upstream/dial.go:33-34` says a placeholder parent means a direct dial;
  `DialTCP` returns an error for it. The set of placeholders there differs from
  the one in `authapi/upstream_deny.go`. `-S` has no effect (`dial.go:69-72`).
- `internal/sps/sniff.go` takes the hello's version for its length and starts at an
  offset at which no server name of a real hello is found (README.md:34, 76).
- An HTTP client that keeps its connection sends later requests to the first
  target, with no new authorization, because the relay takes over after the first.

## Plan

1. Done: limits, throttle, authorization client, handlers, relay, UDP
   association, upstream dialer, supervision, parsers.
2. Done: the proofs of all safety invariants.
3. Left: the models of the byte formats of the client's handshakes, should they
   come to hold a property; and proofs of liveness, should the prover learn to
   derive them from fairness.

## Not modelled

`logx` and `config` hold no behaviour. `traffic.Reporter` sends one request
that nobody waits for; the models count the calls. Windows' way of detaching
(`detach_windows.go`: other process flags, the same dispatch) and the
scripts under `tools/` are environment. The Perl endpoints are separate
programs that stand behind the external service of `AuthClient`. The byte formats of
the client's handshakes, but for the addresses in them, are represented by their
outcome (parsed, or not). `targetForAuthHTTP` only rewrites a label of the
authorization request.
