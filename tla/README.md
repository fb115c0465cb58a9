# Verification of doh-auth-proxy

TLA+ models of doh-auth-proxy, a local DNS proxy that forwards queries over
DoH, Oblivious DoH (ODoH) and ODoH with intermediate relays, with TLC runs on
small instances and TLAPS proofs for all instances. Paths below are relative to
the repository (`src/dap-lib/src/...` is written `lib/...`, `src/dap-bin/src/...`
is written `bin/...`).

## 1. The system

| component | source | state | operations |
|---|---|---|---|
| connection counter | `lib/proxy/counter.rs` | `cnt_total`, `cnt_udp`, `cnt_tcp` (Relaxed atomics) | `increment`, `decrement` |
| UDP and TCP proxy | `lib/proxy/proxy_{udp,tcp,main}.rs` | listeners, one task per query, mpsc channel to the UDP responder | receive, admit, query, answer, shut down |
| DNS cache | `lib/doh_client/cache.rs` | linked hash map behind a mutex | `get`, `put` (three locks), `purge_expired_entries` (snapshot, then removals), `build_response` |
| DoH client | `lib/doh_client/doh_client_main.rs` | none of its own | `make_doh_query`: manipulate, look up, choose a path, fetch, put |
| path manager | `lib/doh_client/path_manage.rs` | all paths, one health flag each | `new`, `targets`, `get_path`, `as_url`, `is_looped` |
| health check | `lib/doh_client/doh_client_healthcheck.rs` | place in the pass | one query per path and pass, sets the flag; spawns the cache purge |
| ODoH key store | `lib/doh_client/odoh_config_store.rs` | map from target to key or none behind a RwLock | `get`, `update_odoh_config_from_well_known`, `watch_service` |
| HTTP client | `lib/http_client/` | the client behind a RwLock, `fail_cnt` | send under a read guard; the endpoint resolution swaps it under a write guard |
| authentication | `lib/auth/` | token (in the `auth_client` crate) | login, refresh, the periodic service |
| query manipulation | `lib/doh_client/manipulation/` | lists read from files | block, override |
| entrypoint | `lib/lib.rs`, `lib/globals.rs` | the join handles of the services | build clients, spawn services, wait for the first that ends |
| configuration watcher | `bin/main.rs` | adopted configuration, `term_notify` | adopt or reject a change, restart entrypoint |
| configuration parsing | `bin/config/` | none of its own, but the credentials go through the environment of the process | TOML to `ProxyConfig`: reject, fill in, load the credential file |
| bootstrap resolver, sockets, DNS messages, ODoH encryption, logging, errors | `lib/bootstrap.rs`, `lib/proxy/socket.rs`, `lib/doh_client/{dns_message,odoh}.rs`, ... | none | I/O and library calls |
| legacy | `src/legacy/` | | an earlier implementation; `src/Cargo.toml` excludes it from the workspace |

**Interaction.** The watcher runs `entrypoint` inside a `select!`; entrypoint
spawns the services (authentication, ODoH watch, endpoint resolution, health
check, one `Proxy` per address), and those spawn further tasks. Every task that
is to end with its configuration waits for `term_notify`. The query tasks of
the proxies share the counter of their `Proxy` and the one `DoHClient`: its
cache, its path manager, its key store, and, through it, the HTTP client that
the endpoint resolution swaps. The resolution looks the endpoints up through
`make_doh_query` itself, so the client is its own resolver as long as that
works, and the bootstrap DNS is the way out. The health check writes the flags that
`get_path` reads, and purges the cache that queries fill.

**What is hard here.** Nothing is persisted and no thread holds a lock over an
await that it should not; what is hard is the interleaving of tasks between
their awaits and between single atomic accesses:

- *Counter and proxy.* `increment` and `decrement` are several relaxed
  accesses; error paths return without `decrement`; the channel may be full;
  the responder stops while tasks still send. Right: at most `max_connections`
  queries of a protocol at a time; counts match tasks; each response is queued
  once; queries end.
- *Cache.* `put` checks the size, evicts and inserts under separate locks; the
  purge works from a snapshot; timeouts drop a task between locks. Right:
  bounded overshoot, no answer kept longer than upstream allowed, expired
  entries leave.
- *Paths.* The loop filter must leave no empty level and no loop; flags change
  while they are read. Right: exactly the loop-free paths; `None` only if no
  path stayed healthy; the first healthy target and hop; flags follow reality.
- *Token.* The margin of the refresh has to cover the delay between two looks
  at the token and the time attempts take, and a query puts the token into its
  headers before it waits for the HTTP client. Right: queries carry an expired
  token only if refresh and login failed before; the service neither gives up early nor
  retries for ever.
- *Manipulation.* Rules about labels are matched as characters from both ends,
  in lower case, and only for the first question of the sorted request. Right:
  exactly the names a rule means; overriding before blocking.
- *Keys.* Updates of several tasks replace the whole map; one failed fetch
  erases a key; fetches queue for a lock behind a writer. Right: keys stay with
  their targets; an outdated key leaves; nobody waits for ever; the store
  recovers.
- *Endpoints.* The addresses of the endpoints are looked up over these
  endpoints, through the manipulation plugins and the cache, and whoever answers may have
  an old address in a cache of its own. Right: no address that nobody gives any
  more but for a reason; recovery when the network recovers; failures end.
- *Configuration.* Options are left out and combined in any way; `dotenv` sets
  only what is not set yet, in a process that converts many versions. Right:
  what is accepted is what the path manager relies on.
- *Life cycle.* `notify_waiters` reaches only tasks that already wait; services
  ended on purpose look like failed ones; an invalid configuration restarts
  entrypoint without telling anyone. Right: no exit without a failure; old
  tasks end; the newest configuration is served.

`PROJECT.json` lists these hazards with the lines where they bite.

## 2. Modules

| module | models | abstract or composed |
|---|---|---|
| `ConnCounter` | `counter.rs`, one action per atomic access | used by `ProxyServe` |
| `ProxyServe` | the proxy of one address: listeners, tasks, channel, responder, shutdown | extends `ConnCounter`, implements `ConnLimit` per protocol |
| `ConnLimit` | abstract: a limit whose slots can get lost | |
| `DnsCache` | the cache with the tasks that call it and the purge | |
| `Positions` | pure: the n-th of a set of positions, and a filter of a sequence | |
| `PathBuild` | pure: accepted configurations and the paths built from them | extends `Positions` |
| `TargetConfig` | pure: what of a file is rejected, filled in, and loaded from its credential file | extends `PathBuild` |
| `PathManager` | the versions of a file converted one after the other, and the path manager built from the last accepted one | extends `TargetConfig` |
| `PathHealth` | health checks against a running `get_path` | extends `PathBuild` |
| `HttpLock` | tokio's fair RwLock around the HTTP client | used by `EndpointResolution` |
| `EndpointResolution` | the lookups of all endpoints by two resolvers, the swap of the client | extends `HttpLock` |
| `OdohStore` | key store, oblivious queries, watch, all sharing the lock | extends `EndpointResolution` |
| `DoHClient` | `make_doh_query` as the resolver of its own endpoints: manipulation, cache, health flags, addresses | implements `EndpointResolution` |
| `AuthService` | the token, its refresh and the retries, and a query that carries it, with time | |
| `Manipulation` | rules made from lines, matching, overriding and blocking of a query | extends `Positions` |
| `Lifecycle` | watcher, entrypoint and the tree of service tasks | |
| `*_proofs` | theorems on `ProxyServe`, `DnsCache`, `PathManager` and `PathHealth`, `OdohStore`, `DoHClient`, `AuthService`, `Manipulation`, `Lifecycle` | |
| `MCPaths` | conversions, construction and `get_path` in one behaviour | composes `PathManager` and `PathHealth` |
| other `MC*` | model values, symmetry and small configurations for TLC | |

### How state and actions correspond to the code

**ConnCounter / ProxyServe.** `cnt` and `cnt_total` are the atomics; `pc[t]` is
the await point or atomic access at which task `t` stands; `seen`-like locals
hold what a load returned. `AddTotal`, `AddOwn` are the two `fetch_add`s of
`increment`; `LoadOwn`, `CompareExchange`, `LoadUdp`, `LoadTcp`, `StoreTotal`
the accesses of `decrement`, whose single `compare_exchange` is not retried.
`ProxyServe` wraps them with the serving tasks: `Admit`/`Refuse` (the
comparison with `max_connections`), `QueryUdpOk`/`QueryUdpFails`/`QueryTcp`
(`make_doh_query` under its timeout), `SendResponse`/`SendFails`, `Respond`,
`Notify` and `Stop` (the term branches). The error paths that skip `decrement`
are actions that go straight to `"failed"`. The relaxed accesses are taken in
one order for all tasks; each decision in this code reads one atomic only.

**DnsCache.** `cache` maps requests to objects; `older` is the linked list of
the map, as the relation "nearer the front". `GetHit`/`GetMiss` are one lock;
`PutSize`, `PutPop`, `PutInsert` the three locks of `put`; `TimeOut` drops a
task between them, as `tokio::time::timeout` does. `PurgeSnapshot` clones the
map, `PurgeRemove` takes entries in any order (the code's order is that of the
clone). A message is two TTLs, the least of its answers and the least of its
other records; `Fetched` takes the life time of an object from the former
alone, and `build_response` gives all sections what remains of it. It is built
after the lock of `get` is gone, and if it cannot be encoded the query goes on
to the fetch (`BuildFails`). Time is counted in ticks, `Tick` of them to a
second, so that rounding down to seconds is visible.

**TargetConfig / PathManager.** `BadPaths` collects the `bail!`s of `try_into`
that come before the credentials, `BadCredentials` the later ones: the order
matters, because `loaded` changes the environment of the process in between,
also if the file is rejected in the end. `from_path` is the `dotenv` crate,
external, which sets a variable only if it is unset. `Adopt` and `Reject` are
the two outcomes of a conversion in `bin/main.rs`; `New` is what `entrypoint`
then builds, with the last accepted configuration after a rejected one, too.
The number of accepted or rejected versions is
that of the initial state. A file whose content was edited counts as another
file; an empty list of targets is accepted, as in the code. Addresses to listen
on and of the bootstrap DNS are valid or not; periods and sizes are copied.

**PathBuild / PathHealth.** `PathBuild` is `DoHPathManager::new`
as sets: permutations of mid relays, products with next hops and targets,
`loop_free`, `per_target`; the filters of lists keep the elements at certain
positions (`at_positions` of `Positions`). A path is identified by its place in the
three-level list. In `PathHealth`, `ReadFlag` is one atomic load of a flag in
`get_path`, `Check` one query of the health check with the flag it stores, and
`Change` the world deciding whether a path works. Paths are sets: duplicates
that equal URLs in the configuration would give collapse.

**HttpLock / EndpointResolution / OdohStore.** A request queues (`Ask`), holds (`Grant`) and
releases; a writer queues like everybody else, which is tokio's policy. The
queue is kept as `ahead`: for every request that waits, those that were there
before it, which is all the lock looks at.
`AskFetch` is the first poll of one fetch by `join_all`, and other threads may
queue between two of them. `FetchReturns` is the end of `send().await` and the
guard with it. `ReplaceStore` is the assignment of the whole map, `None`s
included: `joined` are the results in the order in which `keys()` walks the map,
`zipped` gives each to the target at its place in the order of `into_iter()`.
That both orders are the same, because both walk the same clone, is the
assumption on `HashMap` that is made; which order it is, is left open. `Encrypt`, `Answered`, `Rejected` and `TimeOut` are
`serve_oblivious_doh_query` under the timeout of its task; `Answered` also
covers a 401 without a `Content-Length`, which returns before the refetch.
`Lookup` is `resolve_ips` with the primary and then the fallback resolver, each
answering for any of the endpoints; `pinned` are the endpoints whose addresses
`HttpClientInner::new` was given.

**DoHClient.** Each endpoint has one lookup task, named like it, and the clients
are queries of the proxy; both go through the same `make_doh_query`: `Blocked`
and `Overridden` (manipulation, before anything else), `Hit`, `NoHealthyPath`,
`Miss` (`get_path`, here any healthy path), `Answered` or `Lost`, `Put`. The
request and its response are one step, since the read guard keeps the client in
place; between the response and `Put` everything may happen. `Leave` is a
record that expires, is purged or is evicted. `StartLookups`, `Success`,
`Fallback`, `Fail`, `Granted`, `Swapped` are `resolve_endpoint_ip_service`.
`rpc` says where it stands, and a lookup waits as `"cached"`, `"given"`,
`"resolved"` or `"failed"` until all are joined. An endpoint has one address
at a time, a number that grows with each `Move`: nobody answers at an older
one. The resolvers behind DoH and hickory's resolver for the bootstrap DNS,
which lives as long as the process, have caches of their own: an answer is any
address from `oldest` to the current one (`Given`), and `Forget` is the last of
these records expiring. `calm` is the assumption on the network: nothing moves
any more, and what can be reached answers; a lull that ends needs no action of
its own. `floor` is a history variable, `oldest` when the lookups began. Queries are for names of endpoints, since others do not
touch the state that is modelled here. The key of ODoH is left out: a request
whose key is rejected is `Lost` here, and `OdohStore` has the rest.

**AuthService.** `pc` and `timer` are the sleep or the request the service is
in and how long it can still take; `remaining` is the life left of the token,
which only `Tick` reduces. `Due` is the comparison of `refresh_or_login`;
`Renewed` its success, by refresh or login; `LoginFails` a failed attempt of
`auth_service`, which sleeps also after the last one, as the code does.
`QueryReads` is `build_headers`, which takes the token without looking at its
life, `QuerySends` the request, once the read guard of the HTTP client is
there; `carried` is what is left of the token in the headers meanwhile. One
query stands for all, for they do not influence each other. Queries under way
when the service is told to stop end within their timeout; what they carry is
not modelled. `RequestTime` bounds a whole refresh or login: the wait for the
lock of the HTTP client (`auth_main.rs` sends through the shared client) and the
client's timeout after it.

**Manipulation.** Names and lines are sequences of characters, since that is
what the code matches: `Reverse`, the comparison of a prefix and the test for
the dot after it are `find_suffix_match`. The trie (`cedarwood`) is what
`common_prefix_iter` returns. `Labels` cuts a name at its dots; `New` makes the
rules, `Query` sorts the questions, each to the place that the number of those
before it gives, and applies the rules to the first. Letters stand for everything
else a label may hold, so a top-level domain with digits, which the regular
expression rejects, is not among the lines.

**Lifecycle.** `state[g][s]` follows one task: `spawned` (not polled yet, so
`notified()` does not exist), `running`, `notified`, `ended`. `HttpBuilt` and
`ClientBuilt` end the awaits of entrypoint and spawn what follows them.
`Changed` is the branch of the `select!`: `changed()` has returned and the
entrypoint is dropped. `Adopt` and `Reject` read the configuration that is the
newest by then, valid or not: the former tells the tasks by `notify_waiters`,
the latter is the `continue`; both begin the next generation in the next loop.
A configuration sent between `changed()` and `borrow()` is read at once and
told of once more. `Exit` is the `select!` of
entrypoint. Without `--watch` the model is the case without changes.

## 3. Runs

Every run finishes within three minutes on two cores.

| run | instance | shows |
|---|---|---|
| `Proxy` | 2 UDP tasks, 1 TCP task, limit 1, channel 1 | `AdmissionBound`, `CountExact` over all interleavings of atomic accesses; `ResponseOnce` with the responder stopping at any time; both protocols implement `ConnLimit` (`ImplementsLimit`); `QueryEnds`: UDP queries end, their responses are sent unless shut down, and TCP queries stop being served even if a client does not read |
| `ProxyLeak` (violation) | limit 1 | a query is refused although nothing is in flight: error paths skip `decrement` |
| `ProxyLostDecrement` (violation) | 2 TCP tasks | a failed `compare_exchange` loses a decrement |
| `ProxyTotal` (violation) | 1 UDP task, 1 TCP task, limit 1 | the limit that is documented as a total of both protocols is one for each |
| `Cache` | 2 requests, 2 tasks, size 1, TTLs 0 and 1, time to 2 | `SizeBound` (size plus tasks in `put`); `NeverExtended`: nothing a client gets from the cache outlives the answers upstream gave; `ExpiredLeaves` under fair purges |
| `Paths` | files over 3 authorities with up to 2 targets, 2 hops, 2 mid relays, any option absent; up to 3 versions that differ in 4 credential files, from 2 environments; `get_path` over 2 targets, 2 hops, 3 paths once they are built | `ConfigAccepted`: what is accepted is what the paths rely on; `ExactlyLoopFree`; `LevelsOK`: no level is empty, so `targets()` cannot index out of range; `GivesUpRightly`, `FirstHealthyTaken` while flags flip; `FlagFollows` under fair checks |
| `PathStandard` (violation) | standard DoH | a working target is never flagged healthy: `as_url` parses an authority without a scheme |
| `Odoh` | 2 targets (one rotates its key), 1 query, the watch, the endpoint resolution | `RequestsAreAwaited`: whoever waits for the client's lock or holds it is at the await that asked for it, also after timeouts; `OwnKey`, `OutdatedKeyLeaves`, `UpdateEnds` and `SwapHappens` (no deadlock over the client's lock), `KeyFollows` |
| `DoHClient` | 2 endpoints, each the next hop of a path, 1 client, one endpoint moves once, with no rule or one that blocks or overrides it | `OldOnlyByCache`: the client is pinned to an address that nobody gives any more only by a live record or a rule; `Recovers`: in a calm network it reaches its endpoints again or has given up, except the overridden one; `FailuresEnd`; `ImplementsResolution`: these lookups are a resolver as `EndpointResolution` has it |
| `Auth` | the margins of the code in units of 10 s, tokens of 50, 130 and 200 s | `LifeLeft`: how little life a token can have left; `CarriesLiveToken`: no query is sent with an expired one; `GivesUpLate`; `RenewedOrDown` |
| `Manipulation` | block lines of up to 2 labels, two overriding lines, names of up to 3 labels, up to 2 questions | `BlockedByLabels`, `OverriddenBeforeBlocked` |
| `Lifecycle` | 2 changes, 3 generations of 3 services | `NoFalseExit`, `OnlyLateSurvive`, `GenerationEnds`, `NewestIsServed` |

**Bounds.** The set of tasks, callers or queries bounds how many a behaviour
has; two of a kind interleave in every way that two accesses can, and the
theorems lift the safety properties to any number. A limit, channel or cache of
one makes "full" the common case. `MaxTime` lets an entry be stored, expire and
be replaced. `MaxKey = 2` and one rotating target give a current and an
outdated key beside a target that never changes. Three endpoints, all with
domain names, leave every partial answer to both resolvers; that a literal
address is never looked up by DoH is covered by the theorem. `MaxFailures = 1` stands for
the 3 of the code. `MaxVersion = 2` allows an invalid change before a valid one
and a change during the start of the generation of the last one; `Service` has
one service of each way to live (awaited, awaiting, spawned by a spawned one).
In `Auth` a request takes at most 20 s, two HTTP requests of ten; a token shorter
than the margin, one just above it and a longer one are the cases `LifeLeft`
distinguishes. In `Manipulation` labels of one and two letters, one the end of
another, make every wrong boundary visible; rules are matched one by one, so
one line at a time is enough. In `Paths` the versions
that differ in their paths are converted alone, as a conversion reads nothing of
an earlier one but the environment; the credential files set both variables, one
or none, so that one login can mix two of them. The paths are served for
one configuration; the others end with their construction. In `DoHClient` an address can
change once and a second endpoint stays, which is enough for a stale record, a
stale client, a resolver that still gives the old address and an endpoint that
still answers. `QueryWait` is one unit, the
time a query has before its own timeout.

**Deadlock** is checked except in `Paths` and `Manipulation` (all versions
converted, or a decided query, is the end) and `Lifecycle` (the process exits).

**Fairness.** Weak fairness only. The runtime polls tasks that are ready;
timers fire; requests return or run into the client's timeout
(`HttpClientInner::new`); the health check, the purge it spawns and the ODoH
watch are loops around a sleep. Nothing is assumed of clients, of the upstream,
of the file, or that `get_path`, queries or changes ever happen.
`KeyFollows` has its assumption in the formula: from some time on no fetch from
that target fails; so has `Recovers`: from some time on the network is calm. In
`DoHClient` a record leaves the cache in the end, for its life time ends, and so
do the records of the resolvers.

## 4. Proofs

The proofs cover safety for every value of the constants, under the named
assumptions of the modules (finite sets of tasks, natural limits, channel
capacity at least one).

- `ProxyServe_proofs`: `TypeOK`, `AdmissionBound`, `CountExact`, `ResponseOnce`,
  and `ImplementsLimit`, the refinement of `ConnLimit` for
  both protocols. The invariant adds `Placed`: a task that was added and not
  taken off stands at a label where that is so. With `CountExact`, the value an
  admission compares is the number of tasks that were added before, which
  `AdmissionBound` alone does not say.
- `DnsCache_proofs`: `TypeOK`, `SizeBound`, `FromUpstream` and from it, with a
  lemma on what `build_response` rounds to, `NeverExtended`; and that a cache of size 0 (which can be configured) stays
  empty.
- `PathManager_proofs`: `ConfigAccepted`, from a lemma on every single file
  that `BadPaths` lets through. `LevelsOK` and `ExactlyLoopFree` are
  facts about what `new` computes from an accepted configuration (`Built`).
  `Positions` says that a filter keeps the elements it should, in their order:
  the number of positions up to a position is its place, and no two places are
  the same. With it `NextHopLevels` and `TargetLevels` say that no level is
  empty and none that had a path is lost. `Visits` describes a path by the
  choice of relays it comes from, `Along` the authorities it passes;
  `LoopedRepeats` says that `is_looped`, which compares each relay with those
  before it and with the target, finds every repetition. `KeptIsOrder` and
  `OrderIsKept` are the two inclusions of `ExactlyLoopFree`.
  It also has `TypeOK`, `GivesUpRightly` and `FirstHealthyTaken` of `PathHealth`,
  a machine of its own, for every configuration that `ConfigAccepted` speaks of:
  the invariant `Reading` says what the flags read so far prove of the paths
  passed over.
- `OdohStore_proofs`: `TypeOK`, `RequestsAreAwaited`, `QueueMoves` (whenever a
  request waits and nobody holds the lock, the lock can be given to somebody),
  `AllPinned` (a lookup finds all endpoints or nothing), `OwnKey` and
  `OutdatedKeyLeaves`. The invariant of the lock says that `ahead` is a line
  (`Line`: of two requests that wait exactly one is ahead of the other) and that
  a writer holds alone (`Exclusive`); it is kept by each operation of the lock
  (`AskLine` to `DropLine`), and a line that is not empty has a first, which
  gives `QueueMoves`. `RequestsAreAwaited` needs that a task outside an update
  has nothing left to ask or fetch (`InUpdate`). `ZipsByTarget` says that results which are paired by their
  place reach their targets for any order of the map. For `OwnKey` and
  `OutdatedKeyLeaves` the invariant says that
  what is stored, fetched or encrypted with is a key of that target not newer
  than its current one (`StoreKnown`, `FetchedKnown`, `UsedKnown`), and that an
  outdated query has fetched nothing older than it was rejected for
  (`FetchedNewer`).
- `DoHClient_proofs`: `TypeOK`, `OldOnlyByCache` and `ImplementsResolution`.
  The invariant says that nobody knows an address that is not there yet and
  none is forgotten that a lookup began with (`Known`), that a lookup under way
  has an answer not below its floor unless it came from the cache or a rule
  (`Recent`), and that a swap is only asked for with all endpoints found
  (`Complete`). So `AllPinned` holds of the client that resolves its own
  endpoints as well.
- `AuthService_proofs`: `LifeLeft`, `GivesUpLate`, and `CarriesLiveToken` if the
  margin covers the watch delay, one attempt and the wait of a query. The
  invariant counts the time where the service stands (`LifeAt`, `DueAt`) and
  since the query has read (`CarriedAt`).
- `Manipulation_proofs`: `BlockedByLabels` and `OverriddenBeforeBlocked`, for
  lines, names and queries of any length. The invariant `Applied` is short: every
  result is what the rules made from the configuration give. The work is in what
  the rules mean. `CutsInOrder` and `LabelsBetween` say that labels are what lies
  between the dots; `Piece`, that what lies between two cuts has the labels
  between them; `SameLabels`, that a name is known by its labels. From these,
  `SuffixOfLabels` and `PrefixOfLabels`: a name ends (begins) with the labels of
  another exactly if it does so with its characters and a label ends there, which
  is what the matching of reversed names looks at. `StartsWithStar`,
  `EndsWithStar` and `LowerLabels` carry stars and case over to labels, and
  `EntryBlocks` puts them together for one line. `KeysAreOrdered` and `Earliest`
  show that the sorted request begins with the smallest question, and
  `OverrideRuleMeansLines` that the first fitting target is that of the first
  line.
- `Lifecycle_proofs`: type correctness, `NoFalseExit`, `OnlyLateSurvive`. For
  the first property, `EndedFailed`: nothing of the current generation is ever
  notified. For the second, `SpawnedLate`: with a replaced configuration, what
  is still to be polled is late.

Only model-checked: every liveness property, for the prover has no reasoning
about ENABLED. Sorting, splitting and filtering are written by positions and by
counting (`Request`, `Labels`, `at_positions`), not as folds or recursion, of
which nothing could be proved: `nth` and the place of a position are inverse, a
lemma (`Positions`) that the proofs of paths and those of names both rest on.

## 5. Where code and documentation disagree

The violation runs show four disagreements; `findings` in `PROJECT.json` quotes
the lines. Others that the modelling met and no run is spent on:

- `README.md:226` calls `max_mid_relays` a maximum, but `new` takes the larger
  of it and the number of relays (`path_manage.rs:276`): paths have up to all
  mid relays, and `target_config.rs:201` says the same as the README.
  `ExactlyLoopFree` holds of the code and of the documented bound alike: it
  leaves open which number of relays is the largest.
- `lib/doh_client/cache.rs:50` to `:59` give name servers and additionals the
  remaining TTL of the answers, so a record of these sections that had a smaller
  TTL is kept longer than upstream allowed. `NeverExtended` bounds it by the
  answers, which is all the code keeps to.
- `lib/doh_client/cache.rs:151` says expired entries are purged; the purge also
  removes an entry that a fresh answer has replaced after the snapshot.
- `lib/constants.rs:64` says a token is refreshed at least two minutes before
  it expires; it is looked at every minute only, so the refresh may begin one
  minute before (`LifeLeft`).
- `domains_block.example:1` says `*.example.com` is not supported; the star is
  dropped and the rest is a rule (`BlockedByLabels`). A single word is a block
  rule too, but never an overriding one.
- `README.md:105` says queries for the names of a block list are blocked; in a
  message of several questions only the smallest one counts.
- `lib/constants.rs:44` calls `MAX_CACHE_SIZE` a maximum; `SizeBound` says by
  how much concurrent `put`s exceed it.
- `README.md:54` says `bootstrap_dns` resolves the host of the target. With
  ODoH the endpoints that are resolved so are the relays and the token API only
  (`lib/lib.rs:47`); the fetches of the keys connect to the targets themselves,
  whose names go to the resolver of the operating system.
- `README.md:268` says the first target is always selected without
  randomization; it is the first *healthy* one (`FirstHealthyTaken`).
- `bin/main.rs:127` says all services are terminated; `OnlyLateSurvive` names
  those that are not. `bin/main.rs:123` says an invalid configuration updates
  nothing; it starts the services a second time beside the first.
- `README.md:105` says the addresses of an overriding rule are always obtained
  for its name; that goes for the proxy itself as well: a rule for
  the name of an endpoint is also the address that the HTTP client connects to
  from the next resolution on, whether anybody answers there or not
  (`Recovers` excepts it). A blocking rule only sends every resolution to the
  bootstrap DNS.
- A resolution by DoH may be answered from the cache, so an address that the
  bootstrap DNS has just replaced can return until its record expires
  (`OldOnlyByCache` excepts it).
- `README.md:203` gives the credential file as an option of the configuration
  like any other, but a changed one has no effect under `--watch`: `dotenv`
  keeps the first value of each variable for the life of the process, from a version
  that was rejected or from the shell as well, and a login may mix the
  variables of two files. No property asks for this or against it.
- Without `--watch`, a service that ends makes `entrypoint` return `Ok`, so the
  process ends with status 0 (`bin/main.rs:80`).

## 6. Not modelled, and why

- Sockets, logging and errors: I/O and wording. A bind that fails is an action
  of `Lifecycle`.
- Parsing and encryption inside libraries (`hickory`, `odoh`, `url`, `toml`, the
  bootstrap resolver's own retries): taken by their outcome.
- The rest of `bin/config`: the command line, reading the plugin files, and
  periods and sizes that are copied from the file as they are.
- Panics: `as_url` unwraps an authority with a port, and the release profile
  aborts. They end the process and leave no state behind.
- The keys of ODoH inside `DoHClient`: `OdohStore` has them with the same lock
  and resolution, and their product would exceed what TLC can check in
  reasonable time; to `DoHClient` a request that fails for its key is one that
  is lost.
- The ends of query tasks in `Lifecycle`: they are not notified by a change and
  end by themselves (`QueryEnds`).
- The legacy crate, which is not built.

What would come next: a larger `Lifecycle` (four services take more than ten
minutes).
