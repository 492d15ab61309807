# TLA+ models of rust_http_proxy

These are models of `src/rust_http_proxy/src/proxy.rs` and `src/rust_http_proxy/src/config.rs`:
- the per-request dispatcher of the proxy;
- the CONNECT tunnel it spawns;
- the configuration both of them read.

TLC checks them on small instances. TLAPS proves, for every value of the constants, the tunnel's data-integrity invariant, that the tunnel implements an abstract two-pipe specification, and every invariant the dispatcher run checks.

## The system and its parts

The process runs `load_config` (config.rs 168-188) once at startup. `Config::try_from` turns the command line into an immutable `Config`:
- `basic_auth`: header value → user name;
- the serving control: `prohibit_serving` and the allowed CIDR networks;
- `over_tls`;
- the reverse-proxy locations.

Each request on a connection goes to `ProxyHandler::handle` (proxy.rs 73-179). For a non-CONNECT request, `extract_scheme_host_port` (366-423) finds the scheme and the request domain. The request then goes to the first of these that applies:
1. A reverse-proxy location (89-107), looked up in the bucket of the domain, else in DEFAULT_HOST's.
2. The static server (110-145), for HTTP/2 requests and URIs without a host. It is gated by `prohibit_serving` and by the networks, and its 404 continues to the axum router.
3. The proxy stage (148-178). It checks `Proxy-Authorization`. It answers 407, or fails with PermissionDenied under `--never-ask-for-auth`. Otherwise it runs `tunnel_proxy` (CONNECT) or `simple_proxy`.

`simple_proxy` (183-204) rewrites the request with `mod_http1_proxy_req` (306-333), `is_schema_secure` and `origin_form`, and sends it through the pooled client.

`tunnel_proxy` (208-288) answers 200 and spawns a task. The task:
1. awaits the HTTP upgrade;
2. connects to the target;
3. wraps the target stream in `TimeoutIO(IDLE_TIMEOUT)`;
4. runs `tokio::io::copy_bidirectional` (471-480).

The tunnel task is the only concurrent part. Its two copy directions interleave with each other, with the two peers (which send, read, half-close and reset at will) and with the clock.

## Modules

| module | models | state | actions |
|---|---|---|---|
| `ProxyConfig` | `Param` and `Config::try_from` (config.rs 14-166) | none (operators) | `LoadConfig(p)`, with `BuildBasicAuth` and `BuildAllowedNetworks` |
| `Dispatcher` | `handle` and every helper it calls (proxy.rs 73-467) | `config`, `param`, `conn`, `out` | one `Handle` step per request, with a disjunct per branch; `Respond`, `ClientClose`, `Accept` |
| `Tunnel` | the spawned tunnel task (proxy.rs 224-270, 471-480) | phase, result, and per-peer and per-direction byte counters and flags, `idle` | peers: `PeerSend`, `PeerFin`, `PeerReset`, `PeerRead`; task: `Upgrade`, `Connect`, per direction `CopyRead`, `CopyReadEof`, `CopyWrite`, `CopyShutdown`, `CopyError`; `Tick`, `Timeout` |
| `TunnelPipe` | what a tunnel promises its peers (abstract) | `sent`, `fin`, `delivered`, `halfClosed`, `status` | `Send`, `Fin`, `Deliver`, `HalfClose`, `Abort` |
| `TunnelProofs` | the proofs about `Tunnel` | | |
| `DispatchPolicy` | what `handle` promises a connection (abstract): the decision tree of spec 4.6 over the command line | `param`, `conn`, `unanswered` | `Decide`, `Reply`, `HangUp`, `NewConnection` |
| `DispatcherProofs` | the proofs about `Dispatcher` | | |
| `DispatchPolicyProofs` | the proof that `Dispatcher` implements `DispatchPolicy` | | |
| `MCTunnel`, `MCDispatcher` | the small instances | | |

PROJECT.json's `map` names the source lines of each definition.

### How the Dispatcher corresponds to the code

- `config` is `crate::CONFIG`. It is chosen once, in `Init`, from `ParamSpace`, a small set of command lines.
- Between the awaits of `handle`, nothing it reads can change, so a request is handled in one atomic step.
- What the awaited collaborators return is a nondeterministic choice: the reverse handler, the static file server and the upstream client. Each of them may answer or fail.
- `out` records the outcome, which the properties inspect:
  - the route taken;
  - the InterceptResultAdapter kind (Drop, Return, Continue or Err);
  - the status;
  - the location index;
  - the accounted user name;
  - the request domain;
  - the rewritten request.
- Drop and Err close the connection. An accepted CONNECT hands it to the tunnel task.

Data are abstracted in these ways:
- A Host header is a sequence of tokens in which ':' is a token of its own. `split(':')`, `.next()` and `parse::<u16>` therefore act on it as they do on the text, and the IPv6 literal `[::1]` is `<<"[", ":", ":", "1]">>`.
- A path is a sequence of characters, so `starts_with` is `IsPrefixOf`.
- `"Basic " + base64(user:pass)` is the pair `<<"Basic", user>>`. base64 is injective, so the pair tells apart exactly the headers the code tells apart.
- `IpNetwork::from_str` and `contains` are the table `CidrNet`.
- `to_canonical` is the table `Canonical`.

`check_auth` lives outside `src/`. It is modelled from the spec as membership of the header in `basic_auth`, with "unknown" as the user when `basic_auth` is empty. So are the connection loop that feeds `handle` (`Respond`, `ClientClose`, `Accept`) and the location table (`parse_reverse_proxy_config`). The location table is a constant.

### How the Tunnel corresponds to the code

Data are byte counts per direction:
- `sent[p]` and `acked[p]` are what peer p wrote and what it read;
- `read[d]` and `written[d]` are what the copy of direction d read and wrote;
- `Buffered(d) = read[d] - written[d]` is the CopyBuffer's content, at most `BufCap`.

The copy actions follow tokio's `CopyBuffer::poll_copy`:
- It reads while the buffer has room and EOF is not seen.
- It writes while bytes are buffered.
- A write blocks when the destination's window, `Window` unread bytes, is full.
- On EOF with an empty buffer, `copy_bidirectional` shuts down the destination's write half (`CopyShutdown`). It returns Ok once both directions have done so.
- Any I/O error, here a reset peer polled by a copy, ends it with Err (`CopyError`).

`TimeoutIO` wraps only the target (line 473):
- Any completed read or write of the target resets `idle` (`ResetIdle`).
- The deadline can only be reported from a poll of the target that returns Pending (`TargetPending`). That is a read with nothing to return, or a write against a full window.
- The read and write deadlines of TimeoutIO are merged into one counter.

### The abstract tunnel and the refinement mapping

`TunnelPipe` states what `copy_bidirectional` promises, whatever its buffering: two byte pipes, one per direction. A pipe delivers, in order, at most what its source sent. It forwards the source's FIN only after the last byte. The tunnel ends "ok" when both FINs have been forwarded, and may end "failed" at any time; after that nothing is delivered.

`Tunnel.tla` instantiates it as `Pipe`:
- `sent` and `fin` are the peers' own counters and flags;
- `delivered` is `written` (what the copy wrote to the destination);
- `halfClosed` is `shut` (the destination's write half shut down);
- `status` is `PipeStatus`: "open" while the task runs, else its result.

Reads into the CopyBuffer, EOF, the peers reading and RST, the clock, and the upgrade and connect steps are stutters of the pipes or an abort. `TunnelImplementsPipe` is `Pipe!PipeSpec`.

### The abstract dispatcher and the refinement mapping

`DispatchPolicy` states the decision tree of spec 4.6 directly over the command line, with no `Config` in between:
- the credential table is the `--users` entries with a name and a password;
- the serving gate reads the `--allow-serving-network` texts that parse;
- a location rule matches when its path is a prefix of the request path;
- the host resolver is a parameter (`HostResolves`, `RequestDomain`).

`Decide` classifies one request of an open connection (resolve error, reverse proxy, serving denied, static, auth failure, tunnel, bad CONNECT, simple proxy). It chooses an outcome the route allows, accounts the user, and leaves the connection closed after a Drop or an error, upgraded after an accepted CONNECT, and open otherwise. `Reply`, `HangUp` and `NewConnection` are the response, the client's close and the next accept.

`Dispatcher.tla` instantiates it as `Policy`:
- the resolver is `extract_scheme_host_port` with the default scheme `--over-tls` selects. `ExtractSchemeHostPortWith` takes the default scheme as an argument, so the mapping can pass it the command line's flag;
- `unanswered` is `out`'s request, route, kind and user, or `{}` when `out` is None;
- `config` is internal.

`DispatcherImplementsPolicy` is `Policy!PolicySpec`. A `--never-ask-for-auth` ignored by the auth-failure branch breaks it, and so does any gate that reads the `Config` differently from the flags.

## Runs

| run | cfg | expect | shows |
|---|---|---|---|
| tunnel_safety | MCTunnel.cfg | pass | `NoDataLost`, the inductive invariant `IInv`, `ClientCloseEndsTunnel` and the refinement `TunnelImplementsPipe` hold, under arbitrary FIN/RST from both peers and no fairness for them |
| tunnel_hang | MCTunnelHang.cfg | violation | `TunnelEventuallyEnds` fails |
| dispatcher | MCDispatcher.cfg | pass | `TypeOK`, `ForwardOnlyAuthorized`, `ReverseRulesTakePrecedence`, `ServingAsConfigured` and `ForwardedRequestWellFormed` hold for every request of the instance |
| dispatcher_policy | MCDispatcherPolicy.cfg | pass | the refinement `DispatcherImplementsPolicy` holds on a smaller request universe |
| dispatcher_ipv6_host | MCDispatcherHost.cfg | violation | `RequestDomainIsHost` fails |
| dispatcher_bad_cidr | MCDispatcherBadCidr.cfg | violation | `ServingAsConfigured` fails with an unparsable CIDR |
| dispatcher_bad_user | MCDispatcherBadUser.cfg | violation | `UsersFlagEnforcesAuth` fails with a password-less user |
| dispatcher_prompt_serving | MCDispatcherPrompt.cfg | violation | `AuthPromptingDisablesServing` fails |

The properties that reach furthest are these:
- `TunnelImplementsPipe`. Every step of the task is a step of the two pipes or leaves them alone. A copy that writes after the task has ended, or shuts down before the buffer is drained, breaks it.
- `NoDataLost`. A half-close (poll_shutdown on the destination) happens only after every byte the source sent has been written, and a clean end only after both directions have done so. Breaking it takes a peer's bytes, its FIN, the buffer and the shutdown in one wrong order.
- `ClientCloseEndsTunnel`. Once the client has sent FIN, and provided the client keeps reading, the task ends. Either the target closes too, or the idle timer fires because the target is silent or has stopped reading. This is the FIN_WAIT_2/CLOSE_WAIT case commented at lines 237-242 and spec 4.7's "Cancellation".
- `ForwardOnlyAuthorized`. A request is forwarded or tunnelled only with the credentials of a usable `--users` entry, and is accounted to that user. If no entry is usable, it is accounted to "unknown".
- `ReverseRulesTakePrecedence`. A request goes to the reverse proxy exactly when a location in the right bucket prefixes its path, and then to the first such location.
- `ServingAsConfigured`. A client is served exactly when the operator's flags admit its canonical address.
- `ForwardedRequestWellFormed`. What goes upstream has no Proxy-* headers, is in origin form, and carries a Host header with the port elided exactly when it is the scheme's default.

### Findings

Each violation run is a disagreement between the code and the spec or its comments. PROJECT.json's `findings` has the details.
1. **The tunnel can hang forever** (proxy.rs 473). The target sends FIN, and the client stays open and silent. The t2c copy has finished and no longer polls the target. The c2t copy waits on the client, which has no timer. So `TimeoutIO` never fires. The spec says the idle timer fires on silence in either direction.
2. **An IPv6-literal Host header breaks HTTP/1.1 requests** (proxy.rs 402). `split(':')` makes the host `[`, and the port `""` fails to parse, so the connection is closed.
3. **An invalid `--allow-serving-network` is skipped, not fatal** (config.rs 144). If all of them are invalid, every client is served.
4. **A `--users` value without a password is skipped, not fatal** (config.rs 118). If all of them are, the proxy is open.
5. **Rule 2 of the serving-control comment is not implemented** (config.rs 131). Static files are served while the proxy prompts for credentials.

### Bounds

- **Tunnel.** `MaxData = 2`, `BufCap = 2`, `Window = 1`, `IdleTimeout = 2`.
  - Two bytes with a two-byte buffer let a byte sit buffered at EOF. This is the case that separates a correct shutdown from an early one: with `BufCap = 1`, EOF implies an empty buffer.
  - A window of one makes writes block on a slow reader.
  - Two ticks let the deadline be reset and then pass.
- **Dispatcher.** The instance has:
  - two hosts, one of them the IPv6 literal;
  - ports 80 and 443 and schemes http, https and wss, so that every default-port case and `wss` occur;
  - paths `/`, `/a` and `/ab`, with `/a` shadowing `/ab` in the host's bucket and `/ab` in DEFAULT_HOST's;
  - Host headers with and without a port, an overflowing port (70000) and an IPv6 literal;
  - three clients: inside the network, the same address IPv4-mapped, and outside;
  - every credential header: none, junk, and each of the four name/password combinations.

  The three command lines are: users and a network; no users with serving prohibited; and a usable user next to a skipped one, serving everyone.
- **Dispatcher refinement.** The abstract `Decide` quantifies over every request, so checking the mapping costs the square of the request universe. dispatcher_policy uses the same command lines, users, credentials and locations. It narrows the other sets (the `MCPolicy*` definitions of MCDispatcher.tla), which gives 1,152 requests:
  - paths `/` and `/a/b`, one matching a location and one not;
  - port 443 and schemes http and wss, so that a default and a non-default port both occur;
  - a plain Host header and the IPv6 literal, which fails to resolve;
  - two clients, one inside the network and one outside.

## Fairness

`FairSpec` assumes weak fairness of each of these:
- `Upgrade` and `Connect`;
- each direction's `Copy`;
- `Tick` and `Timeout`.

The task is a tokio future that is woken whenever one of its streams becomes ready. The clock always advances. The peers get no fairness at all. They are the environment and the code relies on nothing from them: they may stay silent forever (the case of finding 1), never close, and stop reading, so that the proxy's write to them blocks.

Where a property needs something of a peer, the property says so itself. `ClientCloseEndsTunnel` is `WF_vars(PeerRead("client")) => (fin["client"] ~> phase = "closed")`. The client stream has no timer: TimeoutIO wraps only the target. So a client that closes its side and then stops reading can block the t2c write forever, even after the target has answered with its data and its FIN. Without the hypothesis TLC finds exactly that behaviour. The target is owed nothing, so both halves of TimeoutIO's deadline matter: the read side, for a target that falls silent, and the write side, for a target that stops reading with c2t's bytes buffered. The registered mutant `TargetPendingReadOnly` drops the write side, and TLC then finds a tunnel that never ends.

## What is proved

`TunnelProofs.tla` proves, for all constants satisfying `TunnelAssumption` (`MaxData ∈ Nat`; the others in `Nat \ {0}`):
- `IInvHolds`: `Spec => []IInv`.
- `TypeCorrect`: `Spec => []TypeOK`.
- `NoDataLostHolds`: `Spec => []NoDataLost`.
- `Refinement`: `Spec => TunnelImplementsPipe`.

`NoDataLost` is not inductive by itself. A step that shuts down a direction preserves it only if that direction's buffer is empty and its source can send no more. `IInv` adds this:
- the counter order `acked ≤ written ≤ read ≤ sent`;
- that EOF implies the source's FIN and that every byte it sent has been read;
- that shutdown implies EOF and an empty buffer;
- that `result = "ok"` implies both shutdowns;
- that the task is closed exactly when it has a result.

`IInvInit` and `IInvStep` (one step per action) give `IInvHolds`. `TypeCorrect` and `NoDataLostHolds` follow from it. TLC checks `IInv` in the tunnel_safety run.

`Refinement` has the usual two steps. First, `Init` maps to `PipeInit`. Second, under `IInv` every step maps to a pipe step or a stutter. `IInv` is needed: a `CopyShutdown` is a `HalfClose` only because shutdown follows EOF with an empty buffer, which makes `written = sent`.

`DispatcherProofs.tla` proves the following for every configuration, location table and request universe. The constants must satisfy `DispatcherAssumption`, `ParamSpaceAssumption`, `PathAssumption` and `TextAssumption`.
- `TypeCorrect`: `Spec => []TypeOK`.
- `ForwardOnlyAuthorizedHolds`: `Spec => []ForwardOnlyAuthorized`.
- `ReverseRulesTakePrecedenceHolds`: `Spec => []ReverseRulesTakePrecedence`.
- `ForwardedRequestWellFormedHolds`: `Spec => []ForwardedRequestWellFormed`.
- `ServingAsConfiguredHolds`: `Spec => []ServingAsConfigured`, under the hypothesis `SomeNetworkParses` on every command line. That hypothesis says a non-empty `--allow-serving-network` list has a text that parses. Without it the property fails (finding 3, run dispatcher_bad_cidr).
- `UsersFlagEnforcesAuthHolds`: `Spec => []UsersFlagEnforcesAuth`, under the hypothesis `SomeUserUsable`. That hypothesis says a non-empty `--users` list keeps at least one entry. Without it the property fails (finding 4, run dispatcher_bad_user). The theorem follows from `ForwardOnlyAuthorized`.

`DispatchPolicyProofs.tla` proves:
- `DispatcherRefinesPolicy`: `Spec => DispatcherImplementsPolicy`, under the hypothesis `SomeNetworkParses` on every command line. Without it the code's serving gate denies clients the flags admit (finding 3).

The argument has two parts. First, each gate of `handle`, which reads the `Config`, agrees with the policy's gate, which reads the flags:
- `ResolverAgrees`: the resolver;
- `LocationAgrees`: the location lookup, via `LocationIsFirstMatch`;
- `ServingAgrees`: the serving gate, via `ServingAllowedMatches`;
- `AuthAgrees`: the credential check and the user it accounts.

`RouteAgrees` combines them: the policy's tree is the tree of `handle`'s own guards. Second, `HandleDecides` shows that every branch records the policy's route, an outcome `OutcomeKindsOf` allows, the policy's user, and the connection state `ConnAfter` gives (`DoneConn`). The simple-proxy branch's rewrite error needs no case of its own: a request without a host never reaches the proxy stage. That rewrite error has no counterpart in the policy, so the refinement also catches a serving gate that lets a host-less request through (proxy.rs 110). The theorem then maps each step:
- `Handle` maps to `Decide`;
- `Respond` to `Reply`;
- `ClientClose` to `HangUp`;
- `Accept` to `NewConnection`.

The only invariant it needs is `ConfigInv /\ TypeOK`. `TypeOK` is needed because `out'` is a record of `Outcomes` after `Handle` (`HandleTyped`), hence not None, so that `unanswered'` is the verdict.

The assumptions on the constants are these:
- `NoneAssumption` (`None \notin Outcomes`): `Option::None` is not an outcome `handle` can record.
- `PathAssumption` (`<<>> \notin Paths`): `http::Uri::path()` is "/" for an absolute URI without a path, and starts with "/" in origin form.
- `TextAssumption`: Host headers and port texts are sequences of `Tokens`, and ":" is a token. `Tokens` is STRING in the instance. It is a constant because the provers know nothing about STRING, not even that ":" is in it.
- `ParamSpaceAssumption`: every command line of the instance is a `Param`.

The argument is the same for each invariant. `ConfigInv` (config = LoadConfig(param), and no step changes it) holds throughout. Each `Handle` branch ends in `Done` (`HandleDone`), which records its route in `out` (`DoneFields`). Only the branches named by the property can produce that route. Several lemmas carry the facts about the operators:
- `AuthAccounting`: what `basic_auth` maps a header to.
- `ServingAllowedMatches`: the networks `try_from` keeps admit exactly the clients the flags do.
- `LeastIndex` and `LocationIsFirstMatch`: the CHOOSE in `FirstIndex` picks the least matching index.
  - This follows from `WFMin` and `NatLessThanWellFounded` of the WellFoundedInduction library. They state the least-element principle without an operator parameter, so the provers can use them.
- `HostHeaderElidesDefaultPort`: the Host header of `mod_http1_proxy_req` is `WireHost` with the default port dropped.
- `ForwardableIsAbsolute`: a request that reaches `simple_proxy` with a host came in absolute form.
- The typing lemmas `FirstSegmentTyped`, `DomainTyped`, `RewrittenTyped` and `DoneTyped`.

`Dispatcher` defines its own `FirstIndex`, `LastIndex` and `IsPrefixOf` instead of taking them from SequencesExt, because SequencesExt reaches RECURSIVE definitions, which the prover cannot load. The port bound is written `p \in Nat /\ p <= 65535` rather than `p \in 0..65535`: the backends fail on any obligation whose hypotheses contain that large interval.

These stay with TLC only:
- `DispatcherImplementsPolicy` on the instance where a command line has only unparsable networks: the refinement is false there (finding 3).
- The liveness properties (`ClientCloseEndsTunnel`, and the failure of `TunnelEventuallyEnds`), because TLAPS does not reason about fairness here.
- The properties the violation runs refute (`TunnelEventuallyEnds`, `RequestDomainIsHost`, `AuthPromptingDisablesServing`), which are false of the code. `ServingAsConfigured` and `UsersFlagEnforcesAuth` are proved under the hypotheses that exclude their counterexamples.

## Not modelled

- Logging and metrics. `log_config`, the `info!`/`warn!` calls, CounterIO traffic accounting and the Display impls only produce output.
- The CONNECT response padding (271-279), which changes only the response's length.
- `build_hyper_legacy_client` and the hyper-util pool, which are library configuration. Upstream answers are nondeterministic.
- TLS, the listener and the reverse-proxy and static-file handlers themselves, which are outside `src/`.
