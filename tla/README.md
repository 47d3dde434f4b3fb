# shard-common in TLA+

shard-common is the Go library that the components of a sharded multicast
transaction network share: codecs of the wire formats, the sharding arithmetic,
and the stateful services on top of them. This directory models its stateful
services, checks them with TLC on small instances, and proves the properties
that matter most with TLAPS for every instance.

## 1. The system and its parts

| Part | Source | State, and who acts on it | Here |
|---|---|---|---|
| In-memory cache backend | `cache/memory` | 64 shards, each a map, expiry queues, counters and a mutex; callers, one expirer goroutine, `Close` | `MemoryCache`, `Lists` |
| Cache contract | `cache/cache.go` | what every backend promises | `CacheBackend` |
| Tier-1 TxID set | `txidset/local.go` | 64 shards, each a map and a ring of its keys; callers | `LocalShard`, `LocalSet` |
| Two-tier claim store | `txidset/txidset.go` | a tier-1 set, a queue of marks, workers, a backend shared by processes | `TxidSet` |
| Manifest wire format | `frame/shard_manifest.go` | none: an encoder and a decoder with their checks | `ManifestWire`, `ManifestFlow` |
| Manifest registry | `manifest/registry.go` | last manifest of each announcer; the receiver, an evicting timer | `ManifestRegistry` |
| Manifest evaluator | `manifest/evaluator.go`, `domains.go` | hysteresis timers, adopted values; one caller of `Evaluate` | `ManifestEvaluator`, `ManifestHistory` |
| Endpoint bootstrap | `bootstrap` | resolver goroutine, last set, deltas to a callback | `Bootstrap`, `SourceJoins` |
| Multicast joins | `netjoin` | joins on a socket, a token bucket with its goroutine | `NetJoin`, `SourceJoins` |
| Bundles | `bundle` | a coalescer with a counter per flow, a codec, a relay that re-buckets | `Bundles`, `BundleFlow` |
| Object formats | `objfmt` | a stream reader with a buffer; size walkers, conversions | `Sizes`, `Lane` |
| Frame codecs | `frame` | none: encoders and decoders of seven datagram versions | `Frames` |
| Shard engine and planes | `shard`, `seqhash` | pure arithmetic | partly: `Bundles`, `ManifestWire` |
| All the rest | section 6 | | not modelled |

How they interact. A process that receives a transaction calls `Claim` on its
claim store, which asks its tier-1 set and then the shared backend (an
in-memory, Redis or Aerospike `cache.Backend`) whether it is the first; `Mark`
records one that is already known. Objects come in over streams, which the
`Reader` splits; they go out as frames, transactions also several to a bundle,
which relays re-bucket to finer shard groups. The manifest receiver feeds
decoded manifests to the registry; a timer evicts and evaluates, and what the
evaluator adopts (shard width, addressing mode, successor generation, groups to
join) drives the shard engine and the multicast joins. The bootstrap resolver
drives joins as well, by source address.

What is hard to test here, and what the models aim at: an operation of the
memory backend that is interrupted between batches; queues with stale items;
counters kept beside the data they count; claims that race over a backend that
times out, answers late or loses a process; `Close` racing with the work it
waits for; manifests that arrive in any order while quorums come and go;
deltas that must add up on a socket although lookups, joins and tokens fail;
flows whose numbering spans calls; streams cut anywhere. `PROJECT.json` lists
these hazards at their lines with the properties that cover them.

## 2. Modules and how they correspond to the code

A shard of the memory backend and of the tier-1 set is independent of the other
63: a key always maps to the same shard and nothing spans shards but `Close`,
`Len` and the expirer's loop over them. So one shard is modelled.

### CacheBackend: the contract

A store of entries with deadlines, a clock, and the write that has been called
and not yet taken effect. `SetNX` creates only what is absent or expired;
entries go only when they are deleted, when they have expired and the backend
is writing or sweeping, or, where it is capped, to make room during a write,
and then expired ones and those with the earliest deadline first.

### MemoryCache: `cache/memory/memory.go`

`data`, `queue`, `ttlQueues`, `items`, `bytes` are the fields of `shard`. `op`
is the operation that holds the mutex, with the position and the local
variables it has reached: `put` is split at its loops (expire, make room,
evict, store, trim, compact), so that the invariants are seen between any two
of its pops; as the mutex is held, nobody else acts on the shard in between.
The expirer runs in batches and releases the mutex between them
(`ExpirerLock`, `ExpirePop`, `ExpireDone`), where writers do interleave. `Get`
copies an entry under the read lock (`GetRead`) and judges it by a clock read
later (`GetReturn`). Deadlines are int64 and wrap (`Int64`); entries that never
expire carry the negated write count, as in the code. A queue is a sequence;
its backing array with a head index, and when it shrinks, is left out. `Lists`
holds the filter with which compaction keeps current items.

### LocalShard, LocalSet: `txidset/local.go`

`LocalShard` is `seenAndAdd` as a function on a shard (map, ring, head, count),
shared by `LocalSet` and `TxidSet`. `LocalSet` adds the callers, each of which
reads the time before it takes the mutex, so that a caller that waited may
refresh an entry to an earlier expiry than it has.

### TxidSet: `txidset/txidset.go`

Any number of processes, each with a `Store`: its tier-1 shard, `markCh`, its
phase (open, closing, closed) and its goroutines. A `Claim` goes through the
local set, sends `SetNX` and gets an answer, a failure, or a failure although
the request takes effect now or later (`late`). `Mark` updates the local set and
then sends to the channel or drops. Workers take marks until the channel is
closed and empty; `Close` waits for them. `Crash` loses everything of a process
but the backend. A store is built with a backend or without (`tiers`). The
backend is what `SetNX` of `cache.Backend` does to one key; what makes its
answers late or lost (a server, a network) is external.

Two assumptions about callers come from the repository. A store is used with
one prefix (`txidset_test.go`: "The Store is intended to be used with one
prefix per Store instance"), because the tier-1 set is keyed by the TxID alone.
And `CloseLast`: no `Mark` overlaps or follows `Close` ("callers must Close
last"); without it a `Mark` that has reached its send is stuck, where the code
panics.

### ManifestWire, ManifestFlow: `frame/shard_manifest.go`, `shard/plane.go`

A datagram is a sequence of cells: header, group indices or bitmap bytes,
sources, successor block, number of descriptors, descriptors with their
successor blocks. `Encodable` is what the encoder checks; `HeaderOK`, `Total`
(the scan that finds the extent the checksum covers), the checksum and
`PayloadOK` are what the decoder checks, in its order. The checksum is taken to
tell any two datagrams apart. All errors are one; `RoleHint`, `Version`, the
address of the announcer and the 16-bit limits of the counts are left out. In
`ManifestFlow` a datagram, written by the encoder or by a program that checks
nothing, is cut, damaged or followed by other bytes; and the manifests that
drive the evaluator are what the decoder returns for what the encoder wrote
(`EntryOf`).

### ManifestRegistry, ManifestEvaluator: `manifest/`

`entries` is the registry, `timers` the hysteresis map, `adopted` what the
evaluator remembers and `out` what the last `Evaluate` returned. Only time
differences matter, so an entry carries the time it has left and a timer its
age, and `Tick` moves all of them. A manifest is what the decoder lets through:
a record of the fields that the evaluator reads. The top level and the object
planes are planes of one function, plane 0 being the top level; the operators
say where their rules differ. Any manifest may arrive at any time, which covers
loss, repetition, delay and reordering. Ties between candidates go either way,
as map iteration does. The configuration (quorum, window, pins) is chosen in
the initial state. A plane that is not in `out.Domains` is one with the zero
view. A successor's timer is keyed by its tuple, where the code folds the tuple
into a hash that is taken to be injective; it is not for transition epochs that
differ by 131 and widths that differ by one the other way. Left out: `QuorumMet`, divergence, `PilotsKnown`, the observation time of
a successor, and a clock that goes backwards. `ManifestHistory` records for how
long evaluations have found a quorum.

### Bootstrap, NetJoin, SourceJoins: `bootstrap/bootstrap.go`, `netjoin/netjoin.go`

`Bootstrap` is one resolver: the call of `Start` and then its goroutine. A
resolution goes through the entries one at a time, and a lookup fails or
answers with any addresses (`Lookup`, `LookupFails`). `Publish` is the critical
section, where `diffSorted` compares the new set with the last one; `OnChange`
is the callback after it. The code's rule for a refresh of which a part fails
is kept: the names that failed contribute nothing, and no error is counted as
long as any address is found. The order of addresses is that of numbers.

`NetJoin` is the socket, as the kernel keeps it, and the `Limiter`: the ticker
holds one tick, `Refill` turns it into a token unless the bucket is full, and
`Acquire` waits for a token or the context; nothing wakes it when the limiter is
stopped. The checks of `Join` and `Leave` that group and sources are IPv6 are
left out, as every address here is. `SourceJoins`
is the callback between the two, which the repository leaves to its users: it
follows the example in the comment of `Limiter`, making one call per source or
one per list (none for an empty list, which `Join` would take for ASM), and
gives up at the first error. A kernel without memory refuses
a call at any source of a list. `credit` is a history variable: the calls that
the promised rate would still allow.

### Bundles, BundleFlow: `bundle/`

`Coalesce` groups the frames of a call by flow (shard group and subtree), packs
each flow greedily under the byte and member budgets, and stamps each bundle
with its flow's next number; `Encode` may then refuse a bundle. `Decoalesce`
and `Rebucket` take bundles apart, computing TxIDs that are not carried. A
datagram is a sequence of cells; a TxID is a number of three bits, and an
Extended Format transaction has bytes that do not hash to its TxID. The flow
key, a hash in the code, is taken to be injective. `BundleFlow` sends frames in
any order and in any batches, keeps every datagram so that it may be lost,
repeated and reordered, damages some, and relays any bundles to the edge. A
damaged datagram is cut anywhere, or its count or payload length is one off; a
member length that is wrong is left out, since the format has no checksum and
nothing would notice it when the members still add up. Two things the
properties of this run say only so far. `FlowsWhole` is about the bundles as
they are stamped: one that `Encode` refuses has used its number, and leaves a
gap on the wire. `LostAlone` rests on `BudgetAssumption`, that no budget exceeds
what a length prefix can express, as the datagram sizes named in `coalesce.go`
(1500 or 9000) do not; `NewCoalescer` takes any.

### Sizes, Frames, Lane: `objfmt/`, `frame/`

`Sizes` has the walkers that find the end of an object (transactions in both
forms, subtrees, blocks, BEEF records and deliveries, block headers) over
scaled bytes: a byte is below 16, and fields are shorter but keep their order,
their meaning and the forms of a VarInt, so that short reads, non-minimal
lengths and lengths beyond the range are all there. The two walks that leave the
Extended Format parts out, of `ToStandard` and of `TxID`, are two definitions.
An int wraps where the code multiplies counts unchecked (`IntOf`), and what
`make` does then is an outcome of its own. `Frames` has the encoders
and decoders of the datagram versions, with the checks of each in order, and
the ways of an object into its frame and out of it. `Lane` is `Reader.Next`
step by step over a stream that arrives in chunks of any size, its end with the
last bytes or after them: scan, compact, grow, read; an error of the source
comes with or without bytes. A `Read` that returns nothing and no error is left
out. Its caller takes each
object out of the buffer, which the next call may overwrite, and may change
the bound between calls.

## 3. Runs

| Run | Instance | What it shows |
|---|---|---|
| `memory_keys` | 3 keys, cap 2, TTLs 0, 1, 2, an int64 that overflows at 3 | queues cover and order the entries, expired entries go before live ones, the key cap holds, compaction leaves no stale item and an exact count, and the shard implements `CacheBackend` |
| `memory_bytes` | 2 keys, values of 2 and 4 bytes, byte cap 3, a reader | the byte count is exact and the cap holds but for a single oversized value; expired entries are removed and `Close` returns, whatever writers do |
| `localset_ring` | 3 keys, ring of 2, TTL 1, 2 callers | every entry has a slot of the ring, the map is bounded |
| `localset_evicts` | the same | violated: an insertion below capacity evicts |
| `txidset_claims` | 2 processes, 3 claimants, one crash | a transaction is suppressed only if somebody forwards it, is claiming it, or crashed doing so |
| `txidset_close` | 1 process with and without a backend, a claimant, a marker, one crash | `Close` drains the queue of marks and returns, a claimed transaction gets through although every backend call may fail |
| `manifest` | 2 announcers, 4 kinds of manifest, 2 planes, 3 configurations; about 5,400 manifests on the wire | the codec returns what it was given, refuses what was cut or damaged and what the encoder refuses; planes of one manifest share no group; only a quorum moves the adopted view, a successor is near the width returned with it, a withdrawn successor waits again, lasting agreement is adopted |
| `manifest_held` | as above, nothing on the wire | violated: a regained quorum is adopted without the wait |
| `manifest_tuple` | two tuples of one generation | violated: the tuple returned has no quorum |
| `joins` | a name and a literal, 2 addresses, one token | the set never empties, no call joins or leaves twice, the calls add up to the current set, the rate is kept, a cancelled resolver stops, callbacks return |
| `bundles` | 4 transactions, one too long and one in Extended Format, 2 hops, one fault | flows are numbered without gaps and hold each frame once in order, budgets are kept, a refused transaction takes no other with it, damaged datagrams give nothing, consumers get what was sent in the group it belongs to |
| `lane` | 84 streams of six classes, bounds 5, 12 and 40 | objects come out whole and in order, the last error is the true one (a wrong field that the stream's end cuts counts as torn), every `Read` has room, every lane ends; frames carry objects unchanged and only one decoder takes each, fragments all but the message type; both forms of a transaction have one id; BEEF frames match the topics they were delivered for |

The runs marked violated state what a comment of the repository says and show
that the code does otherwise; `findings` in `PROJECT.json` quotes the lines.

Bounds. Two keys at a cap of one over, or three at a cap of two, make eviction,
expiry and overwriting meet in one write; budgets and batches of one put a
boundary between any two pops; `CompactSlack` 0 makes every stale item count.
The clock runs two steps past a TTL of one, enough for an entry to expire, come
back and expire again. A ring of two with three keys wraps. Two processes with
three claimants give both a race inside a process and one between processes,
and one crash orphans a claim. Two announcers lose and regain a quorum of two,
and with a quorum of one they tie; the manifests on the wire have every payload
under every flag, each field of a descriptor at its limits, and pairs of planes
that meet, overlap or stay apart. Two addresses give the merge of `diffSorted`
every case, tails on both sides included; one token is fewer than the calls of
a callback; `MaxErrs` ends the refreshes after two that failed. Two members of
a bundle meet the budget exactly and three exceed it; two relayed bundles are
enough for a flow of the edge to be fed by two of the fabric. The first buffer
of a lane is smaller than most objects and a bound is smaller than some, so it
is grown, compacted and exceeded. Symmetry is used over keys (and callers of
`LocalSet`) only, and only where no liveness is checked. Deadlock is not checked
where callers may stop calling (`memory_*`, `manifest*`, `bundles`) or a
resolver has failed or stopped (`joins`).

Fairness, and why the code justifies it:

- memory backend: the goroutine that holds the mutex goes on; the ticker keeps
  firing; a waiter gets a Go mutex in the end (strong fairness of taking it);
  `select` picks among ready cases at random, so the exit case is taken in the
  end. Nothing is assumed of callers.
- claim store: goroutines go on, backend calls end by success, failure or the
  timeout, workers take what is queued, `Close` returns once they are gone.
- manifests: time passes and `Evaluate` is called on a timer. Nothing is assumed
  of announcers or of eviction.
- joins: lookups end, the callback goes on where it can, the ticker fires and
  the limiter's goroutine runs until it is stopped, and `select` sees a
  cancelled context in the end however often the ticker fires (strong fairness
  of the exit). Nothing is assumed of the kernel or of who stops or cancels.
- lane: a stream goes on until its end, and the code between two reads runs.
  Which bytes come in a read, and how many, is left open, but a read of none
  does not repeat for ever.

## 4. Proofs

All are checked by TLAPS for every value of the constants, from the named
assumptions in the modules (sizes are naturals, `None` is not a value, every
worker has a store, the manifests are as the decoder lets them through).

- `MemoryCacheQueues`, `MemoryCacheProofs`: types, every entry has a current
  item in a queue that is visited, queues are sorted. Inductive invariant
  `IndInv`: the queue invariant plus `DeadlinesBounded` (no item is later than
  the clock and its TTL allow, so appending keeps the order) plus
  `OperationKnows` (what the operation read before a loop still holds after
  it). One lemma per action; the first module has those that take items off the
  queues. They rest on a lemma about filtering, which keeps exactly the elements
  that satisfy the test, in order; it is proved by induction on sets of
  naturals, without the library's induction schemes.
- `MemoryCacheRoom`: expired entries go before live ones (`PassedQueuesClean`:
  the queues an expiry pass has left behind hold no expired head), and the key
  cap (`RoomForKey`: past make-room there is room for the key being written).
- `MemoryCacheRefines`: `MemoryCache` implements `CacheBackend`, step by step,
  from `IndInv` and `WriteKnows` (the pending write is the abstract one).
- `LocalSetProofs`: types, every entry has its slot, the ring fills in order,
  the map is bounded. The last one follows because the ring maps its slots onto
  the entries.
- `TxidSetSteps`, `TxidSetProofs`: types, `SuppressedIsCovered` and
  `CloseDrains` for any number of processes, callers, workers and crashes.
  `CoverInv` says of each place that makes a later claim be suppressed (backend,
  requests still under way, local sets, answers not yet read) that its key is
  covered: strongly where other processes see it, weakly inside the process.
  `DrainInv` ties the exit of a worker to a closed and empty channel.
- `ManifestProofs`: types, only a quorum with the most support (or a pin)
  changes an adopted width or mode, a successor is adopted only near the
  returned width, and a shown successor has waited since the last withdrawal
  (`TimersSince`: no successor timer is older than that).

Only model-checked: the liveness properties; the joins, bundles, lanes, frames
and the manifest's wire format, which rest on recursive walks over data; the
byte count `BytesCounted` and with it `ByteCap`, which are sums over a set; and
`CompactionComplete`.

## 5. Observations without a run

Met while modelling; none is stated as a property.

- `Get` of the memory backend copies an entry under the read lock and judges it
  by a clock read later: overlapping a rewrite, it can report a miss for a key
  that had a live value throughout.
- A `Mark` between its local-set update and its send when `Close` closes the
  channel panics, though `Store` is called goroutine-safe; a test says that
  callers must close last.
- `validateDomains` compares a domain-0 descriptor with the top-level width and
  generation; the comment of `ShardManifest.Domains` says that it must agree
  with the top-level successor as well, which is not looked at.
- It checks the slots that a plane reserves for its active width. A successor
  of one more bit is only kept below the control plane, so its range may reach
  a slot that another descriptor reserves; `PlanesApart` is about the active
  widths.
- The comment of the block header walker says that a reader with a smaller
  bound fails on the very first header. The bound is only looked at when an
  object is incomplete, so one that has arrived whole is returned although it is
  larger, up to the size of the buffer.
- The comment of `ErrShort` says that "the bytes seen so far are a valid prefix",
  and that of `BEEFRecordSize` the same (`objfmt.go:102`, `beef.go:163`). The
  walkers look at a field only when all of it is there: one byte that is no tag,
  the tag and a wrong version, a zero count that cannot become the Extended
  Format marker, or the first bytes of a count out of range give `ErrShort`, and
  a stream that ends there ends with an unexpected EOF instead of a malformed
  object. `VerdictTrue` says how far this goes: less than one field.
- `DecodeSubtreeDataPayload` multiplies the node and the conflict count without
  a check (`subtree_data_payload.go:65`, `:81`). A count whose bytes an int cannot
  count passes the comparison with the length, and `make` panics, where a test of
  `StripBytes` says that bad input gives an error and "never a panic"
  (`strip_test.go:80`). `Carried` is about counts below that.
- `EncodeFragment` zeroes the message-type byte that the comment of `FragFrame`
  (`frag.go:26`) says is carried, so the fragments of a block or subtree frame
  do not tell its message type; `Carried` compares the rest of the frame.
- The comment of `ErrClassNotRegistered` says that `StripBytes` returns it for
  BEEF objects, which `StripBytes` handles.

## 6. Not modelled

- `cache/redis`, `cache/aerospike`: clients of external servers without state
  between calls; the claim store's backend stands for them.
- `cache/config.go`, `cache/open.go`, `tracing`, `hostinfo`: flags, set-up of a
  library, pure I/O.
- `logging`: output; its throttle only decides whether a line is written.
- `pow`: a function of 256-bit numbers, beyond TLC's integers; `seqhash` is a
  hash, used as an injective function.
- `sequence`: an atomic counter per key; a property would restate the increment.
- `frame/block_payload.go`, `ef.go`, `subtree_group_announce.go`, `teewire`:
  fixed layouts without checks that depend on one another, read by nothing else
  in the repository.
- `shard`: the composition of multicast addresses and the parsing of modes.
- In the modelled parts: telemetry and recorder callbacks, the divergence and
  quorum reports of the evaluator, reads such as `Len` and `Healthy`, jitter,
  and the byte layout of socket options.
