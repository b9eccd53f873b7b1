# Session Affinity Engine: specifications

TLA+ models of the Session Affinity Engine, the TLC configurations that check
them on small instances, and TLAPS proofs of the properties that matter most.
Source paths are relative to the repository's root; `src/…` below is its
directory of that name.

## 1. Inventory

The engine routes requests, identified by a 5-tuple, to one of eight backends
so that a session stays on its backend. A request passes the load balancer's
role check, validation, the rate limiter, the session table (which asks the
hash ring), and then runs on a backend.

| Component | State | Operations | Called by |
|---|---|---|---|
| Consistent hash ring, `consistent_hash.cpp` | `ring_` (hash → server), `active_servers_`, a mutex | `addServer`, `removeServer`, `getServer`, `getActiveServers` | session table, load balancer, `main1.cpp` |
| Session table, `session_manager.cpp` | `sessions_` (key → backend, blocked, timeout, last access, path history), a mutex held for the whole of every method | `routeRequest`, `forceReassign`, `blockSession`, `setSessionExpiry`, `handleServerDown`, `cleanupExpired`, getters | load balancer, demo |
| Rate limiter, `rate_limiter.cpp` | a queue of records per client, a mutex | `allowRequest`, `reset`, `currentCount`, `getHistory` | load balancer |
| Validation, `security.cpp` | a deque of (time, address) per /24 subnet, a mutex | `fullValidation` and its parts | load balancer |
| Load balancer, `load_balancer.cpp` | role, an atomic `active_`, references to everything else | `handleRequest`, `takeBackendOffline`, `bringBackendOnline`, `activate`, `deactivate`, `shouldTakeover`, `sendHeartbeat` | server loop, demo |
| Backend, `request_handler.cpp` | an atomic `online_`, per-tuple data without a lock | `processRequest`, `start`, `stop` | load balancer |
| Server loop, `main1.cpp` | the two load balancers, the time of the primary's last request | one packet at a time: two commands, or a request | the network |
| 5-tuple, `common.h` | none | `toKey`, `serialize`, `deserialize` | everywhere |
| Logger, `logger.cpp` | `enabled_`, two output streams, a mutex for each | `init`, `shutdown`, `logRequest`, `logSystem` | everything |
| Demo, `main.cpp` | owns all of the above but the server loop | a script: requests, failures, administration | – |
| Configuration, tests | – | – | – |

**What is hard here.** The session table keeps expired entries and every
operation decides for itself whether to honour, revive or erase one. The ring
keeps two pieces of state that must agree, and the table believes the one (the
list) while it asks the other (the map). Failover is a sequence of separately
locked steps: the online flag is read, the ring is changed, the sessions are
moved, the request is routed again. Limiter and spoof detection evict lazily,
from the front, a queue that also holds what was rejected. The takeover depends
on a heartbeat that only requests refresh. Integer parsing and window edges
have the usual corners. A request that meets a dead backend fails over once and
may give up with live backends left; what it answered is written to the log by
four components, some ways out writing nothing of their own. Nothing is
persisted, so there is no crash recovery; packets are independent of each
other, so a lost or duplicated one is simply no request or one more.

**What makes each part correct.**

- Ring: map and list agree; a lookup gives the nearest server clockwise; a
  change moves only the keys it must.
- Table: a live session leaves its backend only by force or when the backend is
  off the ring; answers agree with table and ring; the path history is a
  gapless audit trail; nothing live is dropped.
- Limiter: never more than the limit in any window; lazy eviction is invisible.
- Validation: accepts what the headers describe (and one dot too many); a
  verdict names the first fault; lazy eviction is invisible.
- Load balancer: no interleaving leaves a session on a server that was taken
  out, one revived there by an administrator aside; as long as operations do
  not overlap, none offers a server an operator took offline, and no request is
  given up before it is forwarded because of one failure; nobody waits for the
  table for ever. A backend that stops after the last check of its flag still
  costs the request that is on its way to it.
- Engine as a whole: a client that is served again is served by the same
  backend, which counts on, until a named event releases it; an error is
  justified and does not last; the request log tells how every request ended.
- Logger: while it is on no line is dropped; every file it opened is closed,
  however the program ends.
- Server loop: the standby takes over after the threshold and not before, and
  yields again; an outage is bounded.

**Who is concurrent.** `main1.cpp` and `main.cpp` call everything from one
thread. The components are written for more than one caller: each has its mutex
and the flags are atomic, the document calls the table's mutex its protection
"for concurrent access" (`Session Affinity Engine.md:124`), `handleRequest`
checks for a backend that went down "between routing and forwarding"
(`load_balancer.cpp:92`), and two load balancers share one set of components
(`Session Affinity Engine.md:206`). `LoadBalancer.tla` takes that at its word:
it shows what the locking does and does not give. The methods of the other
components each hold one mutex from the first line to the last and are one step
each. For the ring, the limiter, validation and the logger that loses nothing.
For the session table it does: its methods ask the ring under the ring's own
mutex, `routeRequest` twice (`session_manager.cpp:61` and `:81`), and a ring
that changes in between can make it "fail over" to the backend the session is
already on. `SessionManager` and its properties are about calls that no change
of the ring overlaps, as on one thread; what such a change does to the bindings
is in `LoadBalancer`.

## 2. Modules

| Module | What it models |
|---|---|
| `ServerList` | the `active_servers_` vector: membership, removal |
| `PreferenceRing` | *abstract*: each key ranks the servers, `getServer` takes the best active one |
| `KeyAssignment` | *abstract*: which server each key is assigned to, and how a server that joins or leaves changes that |
| `ConsistentHashRing` | the ring of virtual nodes; looks up as `PreferenceRing` does, implements `KeyAssignment` |
| `SessionManager` | the session table, over `PreferenceRing` |
| `StickyTable` | *abstract*: the promise of session affinity; implemented by `SessionManager` |
| `SessionDocClaims` | a sentence of `session_manager.h` on blocking, over `SessionManager` |
| `RateLimiter` | the limiter's queues |
| `SlidingWindow` | *abstract*: an exact sliding-window log; implemented by `RateLimiter` |
| `Security` | the validation chain and spoof detection |
| `FiveTuple` | the 5-tuple, `serialize` and `deserialize` |
| `LastSeen` | *abstract*: when each address was last seen; implemented by `Security` |
| `LoadBalancer` | concurrent `handleRequest`, `takeBackendOffline`, `bringBackendOnline`, `forceReassign`, piece by piece, and the administration of the table, over `PreferenceRing` |
| `UdpServer` | the server loop and the handover between the load balancers |
| `Logger` | the logger: which lines reach which file |
| `Engine` | the demo program from `main` to exit: the whole chain of a request, its reply and its log lines, over `StickyTable` and `Logger` |
| `ListTheorems` | lemmas about lists, scans and least numbers that several proofs use |
| `ConsistentHashRingProofs`, `SessionManagerProofs`, `RateLimiterProofs`, `SecurityProofs`, `UdpServerProofs`, `LoadBalancerProofs`, `EngineProofs` | the proofs |
| `MC…` | the instances |

How each corresponds to the code:

**Ring.** Hash values are positions `0 .. HashSize-1`; `VnodeHash[s]` is the
set of positions of the names `server_<s>_vnode_<i>`, `KeyHash[k]` the position
of a key. FNV-1a itself is represented by these constants. `VnodeLayout`
assumes that no two servers share a position. It is true of the shipped
configuration: the 1200 FNV-1a values of eight servers with 150 names each are
pairwise different. With a collision `addServer` would silently overwrite and
`removeServer` erase another server's node. `lower_bound` with the wrap is
`AtOrAfter`. `PreferenceRing` and `KeyAssignment` take the clockwise distance
for their ranking. The first is the ring for the modules above it; the second
knows nothing of a lookup, only of keys that change hands, and `getServer` of
every key is shown to follow it.

**Table.** An entry's `last_access` is the number of ticks since (`idle`);
`isExpired` is the code's strict comparison. `routeRequest` is one action for
each way through it. The path history carries backends and reasons, not
timestamps. `RingChange` stands for the load balancer's additions and removals
between calls, and `handleServerDown(s)` is called for an `s` off the ring, as
both its callers do.

**Limiter and validation.** Timestamps are ages; eviction from the front is
`ExpiredFront`. An address is the sequence of its pieces between dots, a piece
a sequence of digits with one letter for every other character, because the
parser's corners (padding, empty pieces, the piece `getline` drops after a
trailing dot, 256, four digits) are what is checked. The name of a protocol,
which the code compares as a whole, is a token of one character. A serialized
tuple is the sequence of its tokens, ports as digits; `stoi` reads a sign, then
the leading digits, ignores what follows and throws where the code's does;
blanks and plus signs, which it skips, are left out. `deserialize` takes and
returns the caller's tuple, because a failed call has written part of it.

**Load balancer.** One action per piece of a call between two points where
another thread can act: the look at the table, the second look at the ring, the
write (these three with the table's mutex held, the ring's taken and released
in each), the online check, the removal from the ring, each step of the
evacuation, the second check, the check in `processRequest`. `forceReassign`
has as many pieces as it has looks at the ring; `blockSession`,
`setSessionExpiry` and `cleanupExpired`, which ask nobody, are one step each.
Of a session the module keeps the backend, the blocked flag and whether its
timeout has passed; `setSessionExpiry` makes it pass, or not have passed.
`stopped`, `ranDry`, `revived` and `faults` are history variables. Role check,
validation and rate limiting come before `Begin` and change nothing this module
has. `processRequest` on the per-tuple data is the interval between `Process`
and `Respond`.

**Engine.** The same call chain on one thread, as both programs run it, but
complete. `TurnAway` is the three ways out before routing (validation and the
limiter have modules of their own; here they may refuse or not, and what they
keep is not read by anything behind them). `Route…` are the ways through
`routeRequest`, `Forward`, `Drop` and `GiveUp` the online checks,
`processRequest` the backend with its count per tuple. A call is not one step,
because each piece writes its log lines and returns in its own way; no other
call comes in between (`Idle`). The session table is `StickyTable`, which
`SessionManager` is proved to implement: the engine relies on nothing else
about it. `stop(s)` is a backend that fails by itself, as `request_handler.h`
provides for, at most `MaxFailures` times. `Administer` stands for the table's
administrative calls, for `cleanupExpired`, and for time. `reply` is the last
reply and `trail` the lines the last request has put in `requests.log`, each as
its pair of action and status; `home` is a history variable, the backend that
served a key last, until an event that releases the session.

**Logger.** A stream is whether it is open and whether it is good. Opening one
that is open fails, which `init` does not notice, as it asks `is_open`; writing
to one that is closed makes it bad. `Engine` uses `init` once, as the programs
do.

**Server loop.** `Request` is a packet that is no command; `PrimaryHandles`,
`StandbyHandles` and `Refuse` are the three ways through the loop body.
`KillPrimary` and `RevivePrimary` are the two commands. `unserved` is a history
variable, reset when the primary handles a request: the properties speak of it,
and the proof shows that the heartbeat agrees with it.

## 3. Runs

| Run | Instance | What it shows |
|---|---|---|
| `hash_ring` | 5 servers with 2 positions each on 16, a key at every position | the ring is exact through any additions and removals, disrupts minimally, looks up the nearest server, implements `KeyAssignment` |
| `session_table` | 3 servers, 1 key, default timeout 1, custom −1/0/2, histories of up to 4 hops | affinity, audit trail, honest answers, nothing live dropped; the table implements `StickyTable` |
| `rate_limiter` | 2 clients, window 2, limit 2, queues of up to 4 | limit, complete eviction, implements `SlidingWindow` |
| `validation` | 3 addresses in 2 subnets, threshold 1, window 1, one tuple per kind of fault, and the tuples read from 82 texts | verdicts justified, implements `LastSeen`; what validation lets through, the wire carries |
| `balancer_safety` | 2 servers, 2 requesters (1 request each), an operator with 1 operation, an administrator with 1 forced move, blocking, expiry, revival and cleanup at any time, 1 spontaneous stop | no session left behind but a revived one, the ring offers only servers that are up, one failure is masked |
| `balancer_liveness` | 2 servers, 1 requester (2 requests), an operator and an administrator as before, 1 stop | every call returns |
| `engine` | 3 backends, 1 key, counts up to 2, 2 failures, logging on, off or failing | served by the right backend, which counts on; errors justified and passing; the log tells the outcome; files closed |
| `handover` | threshold 30 ticks of 100 ms | no premature takeover, bounded outage, service resumes, failback |
| `claim_block_holds` | as `session_table` | counterexample, see section 6 |
| `claim_memory_bounded` | as `rate_limiter` | counterexample |
| `claim_online_on_ring` | as `balancer_liveness`, no forced moves | counterexample |
| `claim_failover_noted` | as `balancer_liveness`, no forced moves | counterexample |

**Bounds and why they are enough.** Sixteen positions with a key at each one
give keys at a node, between nodes and past the last; five servers give nodes
of one server between nodes of another. Three servers are the fewest where a
session can move twice without returning and where `forceReassign` has to
search the list; one key is enough there because no operation relates two
entries, and what is said of many keys is proved. Custom timeouts cover
"default", "at once" and "longer than the default". A history of four hops
contains every pair of consecutive reasons. A window of two ticks with a limit
of two has records at the edge, inside and outside at once, and queues of four
hold rejected records beside allowed ones. `MaxQueue`, `MaxEntries` and
`MaxHistory` cut off long queues and histories; what is said of queues of every
length is proved in `RateLimiterProofs`, and of histories of every length in
`SessionManagerProofs` (for every value of the bound). `MaxIdle` and the
saturated ages are past every timeout, so they merge only states that no
operation tells apart. Two requests and an operator are the fewest that race
for a session, a failover and an operation at once, the administrator's forced
move is a third who binds; one request meets the session the other has made; in
`balancer_liveness` and the claims, its own. `faults` counts up to two, as the
property asks no more. Three backends are the fewest where a request meets two
dead ones and a third could have served it, which is how a request is given up
with the ring not empty; two failures kill both. One key in `engine`: another
client's request affects this one by taking a dead backend off the ring and
evacuating it, which `takeBackendOffline` of a stopped backend does as well.
`MaxCount` of two tells "first", "second" and "counted on" apart.
`balancer_safety` and `balancer_liveness` switch deadlock checking off because
the numbers of calls are bounded: after the last, the system stops. `engine`
does because the program ends.

**Fairness.** `LoadBalancer`: strong fairness of each thread. The scheduler
runs every thread, and a thread that finds `std::mutex` free again and again
gets it. It is fairness of continuing a call; nobody is obliged to begin one,
to block, to stop or to expire. With it, `CallsReturn` still needs every path
to release the mutex and none to wait for another. `UdpServer`: time passes,
and clients keep sending requests. The loop does nothing without a packet, so
takeover and failback cannot be shown without the second; the commands have no
fairness. `Engine`: weak fairness of `Continue`, the thread going on with the
call it is in, and strong fairness of `Accept(k)`, a client that keeps asking
and is let through the gates again and again. Backends fail finitely often;
operators, administrators and time do as they like. `RetriesConverge` needs
each failed attempt to take a dead server off the ring, and says nothing where
no online server is on it.

Safety properties of the other modules assume none.

## 4. Proofs

| Theorem | For every |
|---|---|
| `ConsistentHashRingProofs!RingTypeCorrect`, `RingExactHolds`, `MinimalDisruptionHolds`, `LookupIsClosestHolds`, `ImplementsAssignmentHolds` | layout without shared positions |
| `SessionManagerProofs!TypeCorrect`, `AuditTrailHolds`, `StickyAffinityHolds`, `EntryLifeHolds`, `HonestAnswerHolds`, `KeepsPromiseHolds` | sets of servers and keys, ranking, timeouts, bound on histories |
| `RateLimiterProofs!TypeCorrect`, `WindowLimitHolds`, `EvictionCompleteHolds`, `ImplementsSlidingWindowHolds` | sets of clients, window, limit, bound on queues |
| `LoadBalancerProofs!TypeCorrect`, `NoSessionLeftBehindHolds` | number of requesters, operators, administrators, servers and keys, and of their calls and failures |
| `LoadBalancerProofs!RingServersUpHolds`, `SingleFailureMaskedHolds` | the same with one operator; the second with two servers or more |
| `EngineProofs!TypeCorrect`, `ServedJustifiedHolds`, `UnavailableJustifiedHolds`, `LogTellsOutcomeHolds`, `FilesOpenThenClosedHolds`, `AnswersContinueHolds` | number of backends, set of keys, number of failures |
| `SecurityProofs!TypeCorrect`, `VerdictJustifiedHolds`, `RoundTripHolds`, `ImplementsLastSeenHolds` | set of requests, window, threshold, largest payload, bound on entries |
| `SecurityProofs!PortRoundTrip`, `WireRoundTrip`, `ValidationExact` | port; tuple |
| `UdpServerProofs!TypeCorrect`, `NoPrematureTakeoverHolds`, `OutageBoundedHolds` | threshold |

The assumptions are the named ones in the modules; TLC evaluates each on its
instance. The arguments:

- *Ring.* `RingExact` is inductive together with `TypeOK`: `removeServer`
  erases all positions of the server, and by `VnodeLayout` nothing else.
  Minimal disruption follows because the nearest position of a larger set is
  either new or the nearest of the smaller one. `LookupIsClosest` needs that
  the hash of a key has either a node at or after it, the least of which is the
  nearest clockwise, or none, and then the least of all is. No two servers are
  equally near (again by `VnodeLayout`), so by `RingExact` the lookup is the
  best ranked active server and nothing else (`LookupNearest`, `Chosen`). The
  refinement of `KeyAssignment` needs that before a step and after it: a server
  that joins is nearest to exactly the keys that it is nearer to than their
  server was (`JoinRefined`), the keys of one that stays keep their nearest
  when another leaves (`LeaveRefined`), and the removal of a server that is not
  there takes no node away (`AbsentRemoval`).
- *Table.* The invariant (`Sound`) is the type together with the audit trail of
  every entry. It is inductive once one knows that `getServer` returns a member
  of the list or -1 (`GetServer`) and that the three operations that append a
  hop do so only to a different backend: `FailOver` because the old one is off
  the ring, the others by their own comparison. `EntryStep` shows that a step
  keeps an entry on its backend, relocates it by appending one hop, or replaces
  or drops an expired one; `StickyAffinity` and `EntryLife` follow.
- *Refinement of the table.* `Bind`, `Lapsed` and `Barred` are the table as
  `StickyTable` sees it. `WriteSeen` and `EraseSeen` say what the promise sees
  of a step that writes one entry or erases some; each operation is then shown
  to be the promise's action of the same purpose, from `Sound` and three facts:
  a moved or admitted entry is not expired (`AccessedNow`), a move changes
  nothing but the backend and the access time (`MovedSeen`), and time never
  un-expires an entry (`TickStep`).
- *Limiter.* `WindowLimit` is not inductive: it says nothing of where in the
  queue the allowed records are. The strengthening (`SoundQueue`) says that a
  queue is in order of age and that its allowed records are among its first
  `MaxRequests`; eviction only moves records forward, and a request is allowed
  only onto a queue shorter than the limit. The order is also what makes
  looking at the front enough, which is `EvictionComplete`. For
  `ImplementsSlidingWindow` the log of a client is its queue as its next
  request would find it: in an ordered queue, evicting from the front leaves
  exactly the young records (`YoungIsEvicted`), and evicting once now and again
  later leaves what evicting later would (`EvictedLater`), so time and requests
  of others do to the log what the specification of the window says.
- *Validation.* `ValidationExact`: the checks on an octet, at most three
  characters, all digits, no zero in front, no more than 255, hold of exactly
  the 256 numerals, and the pieces that `getline` delivers are those of a
  dotted quad with at most one dot behind it. `VerdictJustified` follows from
  the order of the checks. `stoi` is a recursive function; that there is one
  (`ValuesExist`) is shown by taking the least length at which there is none,
  and its value on the at most five digits of a port by unfolding it as often.
  `PortRoundTrip` then says that a digit pushed by `stoi` undoes the digit that
  `to_string` cuts off, and never comes near the bound at which `stoi` throws;
  `WireRoundTrip` and `RoundTrip` rest on it. What `stoi` makes of longer texts
  stays with TLC.
- *Spoof detection.* The invariant (`Inv`) says that every tracker is in order,
  oldest entry first. It is what makes popping from the front enough: eviction
  leaves the entries that have not expired and no others (`EvictedTracker`).
  `LastSeen` keeps one age per address; the age that the deque holds for it is
  the youngest among its entries that have not expired. A request resets that
  of its own address, and no other, and the addresses the code counts after
  evicting are those on record (`NotedAges`); the clock ages all, and an
  address vanishes with its youngest entry, whether or not the deque has been
  evicted (`AgedAges`).
- *Load balancer.* `Inv` is a conjunction of what each thread knows at each of
  its stages. `MutexInv`: who is between taking and releasing the table's mutex
  holds it. `DryInv`: an empty ring is noted as having run dry for every
  server, the exception the property makes. `BindingsInv`: whoever is about to
  write a binding, for a request or a forced move, has the mutex, and either
  the target is still on the ring or somebody is about to evacuate it.
  `HeldInv`: the entry a forced move works on is not erased under it.
  `SessionsInv`: a live session on a server off the ring will be visited: by a
  thread that is about to begin `handleServerDown` for that server, or by one
  that is in it and has the session still to do. That a thread not yet in it
  will see the binding follows from the mutex. With nobody evacuating the
  server that is `NoSessionLeftBehind`. The exception it makes, `revived`, is
  needed: see section 6. A forced move revives a session too, but binds it to a
  server of the ring, so it is no exception.
- *Load balancer, operations one at a time.* The other two properties are false
  if two operations overlap (section 6), which TLC shows with a second
  operator; both theorems assume `OneOperator`, true of the shipped programs,
  which call everything from one thread. `UpInv` adds what an operator knows of
  its server between the two steps of an operation. `SingleFailureMasked`
  counts: `FaultsInv` says that while a request has met no failure no server is
  down, and while it has met one no more than one is (`CountInv`); that a
  failover is a failure met; and that if it was the only one all other servers
  of the ring are online, the second choice among them (`FailoverInv`). So the
  ring is empty, or the choice dead, only for a request that has met two. Each
  lemma `…Faults` is that account for one action.
- *Engine.* The invariant says what the thread knows at each stage of the call:
  of the backend a request has been routed to, that it is on the ring and that
  the table binds the live session to it (`CallInv`), of a client that has been
  served, that its backend is the one its session is on (`HomeInv`), of the
  log, that a request which has been routed and not answered reads as given up
  (`TrailInv`), of the files, in which state each stage of `main` finds them
  (`FilesInv`). It is kept because the promise of the table rules out surprises
  between the pieces of a call. Two of the facts found on the way: a request
  whose session is blocked was not in a failover (on one thread), and the
  branch for an invalid backend ID (`load_balancer.cpp:84`) is never taken, as
  a routed request's backend is one of the servers.
- *Handover.* The invariant is `heartbeat_age = unserved`, and an active
  standby implies that it is past the threshold. The second half is what an
  unclean failback would break: the primary's first request makes the standby
  yield in the same step that refreshes the heartbeat.

**Only model-checked.** Liveness under fairness (`CallsReturn`,
`ServiceResumes`, `StandbyYields`, `RetriesConverge`), which is beyond the
prover. Every safety property that a passing run checks, and every refinement,
is also a theorem.

## 5. Not modelled

The tests and the demo's script (the calls it makes on its first session table
are actions; the order it makes them in is one of those explored). The demo's
rate-limit scenario makes a second table, limiter and load balancer on the same
ring and backends (`main.cpp:301-304`), where `Engine` has one table. The mutex
of the ring: it is taken and released within one step of every module, so no
run could show a deadlock between it and the table's. The parser of the command
line, sockets and the wording of responses and log lines, timestamps. A disk
that fails while the logger writes. `sendHeartbeat` sets a time that only tests
could read: the demo calls it, but asks `shouldTakeover` of a time of its own,
and `main1.cpp` keeps a heartbeat of its own, which `UdpServer` has. Of
`main1.cpp`'s packets only whether they are commands or requests matters.
`toKey` appears as `Key`: neither `:`, `->` nor `/` occurs in a valid address
or a port, so the keys of different tuples differ; the demo sends `serialize`d
tuples as payloads, which the engine does not read. The handover is not
composed with `Engine`: a load balancer that is passive turns requests away
(`TurnAway`), and both share all other state.

## 6. Where code and documents disagree

Shown by a run:

- *Blocking does not outlive expiry* (`claim_block_holds`). "All subsequent
  requests will be rejected" (`session_manager.h:86`), but `cleanupExpired`
  erases the entry with its flag.
- *The limiter's memory* (`claim_memory_bounded`). "Max RATE_LIMIT_MAX_REQUESTS
  entries per client" (`rate_limiter.h:42`), but rejected requests are recorded
  in the same queue. They count against the limit, too: a client that does not
  stop asking is not let in again.
- *A server that was brought back can stay off the ring*
  (`claim_online_on_ring`). A request that saw it offline removes it after
  `bringBackendOnline` has added it. Needs two threads.
- *A failed-over request does not say so* (`claim_failover_noted`). See
  `load_balancer.cpp:118`; `handleServerDown` has already moved the session,
  and the second routing finds it in place. One thread is enough.

Seen while modelling, without a run of its own:

- `forceReassign` and `handleServerDown` refresh `last_access`, so a session
  that nobody uses is kept alive by them; `session_manager.h:35` calls it the
  last request's time. `setSessionExpiry` and `forceReassign` can revive a
  session that has expired and not been erased. The promise `StickyTable`
  allows both.
- A session that has expired and not been erased is not moved when its server
  is taken offline (`session_manager.cpp:268`), and `setSessionExpiry` can make
  it live again afterwards (`:207-213`): then it is live on a server that is
  off the ring and that nobody will evacuate again. One thread is enough. Its
  next request fails over; until then `getAllSessions` lists it there.
  `NoSessionLeftBehind` excepts it by name (`revived`), and no other.
- `cleanupExpired` is called by the tests and not by the engine, so expired
  entries of keys that do not return stay.
- The second routing in `handleRequest` does not look at `SESSION_BLOCKED`; a
  session blocked between the two routings is served by the old backend if that
  is up again. Needs two threads; on one, `ServedJustified` shows it harmless.
- `request_handler.cpp:6` says sticky sessions make a lock for `local_data_`
  unnecessary. They keep one tuple on one backend, but a backend's map is
  shared by all its tuples; with several threads it is a data race.
- The count in "request #N for this session" (`request_handler.cpp:48`) is per
  tuple and backend: it survives the session's expiry, and starts from the
  backend's own count after a failover. `AnswersContinue` says what does hold.
- A request whose failover meets a second dead backend leaves no line that says
  so, and leaves that backend on the ring. A reader of `requests.log` knows it
  by the missing `COMPLETE`. What `handleServerDown` moves is not in
  `requests.log`.
- `COMPLETE` is written with the routing's status also where the backend
  answered that it is offline. Needs two threads.
- `Logger::init` sets `enabled_` before it opens the files and leaves it set
  where that fails; the destructor then closes what was opened. A second
  `init(true)` answers true and silences the log, since the open streams are
  bad from then on.
- `load_balancer.h:14` has the primary send heartbeats at an interval; no
  program does. Requests refresh `main1.cpp`'s heartbeat.
- `currentCount` does not evict (`rate_limiter.h:71`), so it can be above the
  number in the window.
- After `CMD:REVIVE_PRIMARY` both load balancers are active until the next
  request arrives; at most one is ever asked to handle anything.
- `path_history` is never trimmed.
- `takeBackendOffline` and `bringBackendOnline` are two steps each, under no
  common lock. Where two of them overlap, `bringBackendOnline` can add a server
  that a `takeBackendOffline` has stopped and removed in between: it stays on
  the ring, offline, until a request runs into it. `RingServersUp` and
  `SingleFailureMasked` are false then. The shipped programs run one operation
  at a time.
- `isValidIPv4` takes an address with one dot too many at its end for a valid
  one, and `getSubnet` then returns all four octets. `VerdictJustified`
  tolerates it by name. `main1.cpp` takes addresses from `inet_ntoa`, which
  writes none.
- `deserialize` answers true for a port with letters behind the digits
  (`common.h:54`: "false on malformed input"), and where it answers false for a
  port it has already overwritten the addresses and the protocol.
- `toKey` is called canonical (`common.h:34`), but a protocol is validated
  without regard to case and enters the key as written.

## 7. Plan

Done, in this order: ring, session table, limiter, validation, load balancer
under concurrency, handover; the engine as a whole and the logger; proofs of
the first three and of the handover, and that the table implements its promise;
that the ring and the limiter implement their specifications; proofs of the
engine and of the load balancer under concurrency; proofs of validation, of the
wire format, and that spoof detection implements its specification; the
administration of the table beside concurrent requests, and the ring seen as an
assignment of keys.

Next: that each request of `LoadBalancer` with nobody else about is a request
of `Engine`.
