# rpmem: a TLA+ verification project

rpmem gives an application a file of a remote server as memory: a client library
(`rpmem.c`) connects over RDMA to a server (`rpmem_server.c`), asks it to map its one
resource, copies the region with an RDMA READ, writes changes back with an RDMA WRITE and
asks the server to `msync` them. This directory holds TLA+ models of that protocol, the TLC
configurations that check them and TLAPS proofs.

## 1. The system

| component | state | operations | how it interacts |
|---|---|---|---|
| resource pool (server) | `res_list`, `unit->res`, `free_size`, `in_use_size`, `res_lock` | take (map), put back (unmap), read the free size (open) | shared by the `cq_thread`s of all connections |
| request handlers (server) | `conn->req`, `conn->rsp`, `res->mr`, `res->addr` | `rpmem_handle_open/close/map/unmap/commit` | one `cq_thread` per connection; woken by receive completions |
| client commands | `sem_command`, `conn->req`, `conn->rsp`, `priv_mr` | `rpmem_open/map/commit/unmap/close` | post work requests, sleep on `sem_command` |
| completion threads (both) | the completion queue and its notification | get event, re-arm, drain, acknowledge | the client's posts `sem_command`, the server's runs the handlers |
| connection managers (both) | `state`, `sem_connect`, `conns_list`, the CM event channel | address, route, connect, accept, disconnect | the client's `cm_thread` wakes `rpmem_open` |
| wire protocol | none | `pack_*`, `unpack_*` | 48-byte commands, 32-bit words in network order |
| verbs helpers | none | `rpmem_post_send/recv/rdma_wr`, `get_addr` | called by every command and handler |
| server start-up | `struct inargs`, the descriptor, the pool's first entry | `process_inargs`, `main()` and its unwinding labels | fills the pool before any thread exists |
| examples | the size they map | three call sequences | applications of the client library |
| logging | the log level | output | |

What is hard here: several server threads over one pool, one of them reading it without the
lock; one semaphore for two kinds of completions and one buffer for all responses; send queues
of four entries that are freed late; calls that fail half way through a command or a handler;
clients that die while they hold the resource; waits that only a successful completion ends;
threads that are cancelled and never joined, so that only unacknowledged events keep what they
use alive; set-up that fails half way while events of it are still to come.
`PROJECT.json` lists these hazards at their lines, with the properties that watch them.

What makes each component correct:

* pool: the resource is in the list or in exactly one unit and the counters agree; updates are
  atomic to every observer; the lock is given back;
* commands and handlers: a command finds its own response, a handler its client's current
  request; no wakeup is left over for a later command; a mapping is backed, exclusive and
  isolated; a commit that succeeded wrote its data first; commands return;
* completion threads: no completion is left in the queue with nobody to be notified;
* connection managers: `rpmem_open` returns, with NULL if the connection failed; nothing is
  freed while a thread uses it; a command starts only on a connection both sides have completed;
* start-up: a start that fails gives back exactly what it had; the pool is not larger than its
  file.

## 2. The modules

| module | models |
|---|---|
| `RpmemProtocol` | opcodes, the command record, `pack_*` and `unpack_*` with their 32-bit conversions |
| `RpmemPoolAtomic` | what the pool promises: `Take` and `Put` in one step |
| `RpmemPool` | the pool as the code works on it: spinlock, list scan, a load and a store for every `+=`; the refinement mapping to `RpmemPoolAtomic` |
| `RpmemPool_proofs` | the proofs about `RpmemPool` |
| `RpmemSession` | clients, connections and server together; extends `RpmemPoolAtomic` and `RpmemProtocol` |
| `RpmemSession_proofs` | the invariant of the session: messages, wakeups, queues |
| `RpmemRegion_proofs` | what an application may rely on while it holds a mapping |
| `RpmemLease` | what the library promises about the region: one holder, whose buffer alone is written to it; implemented by `RpmemSession` |
| `RpmemLease_proofs` | the proof that it does |
| `RpmemCompletion` | the completion thread of one connection, on either side, and its teardown |
| `RpmemCompletion_proofs` | the proofs about it |
| `RpmemConnect` | `rpmem_open`, `rpmem_close` and the `cm_thread` of each file, `rdma_cm`, the server's `cm_thread` |
| `RpmemConnect_proofs` | the proofs about its handlers and about the start of a session |
| `RpmemStartup` | `process_inargs` and `main()` of the server |
| `RpmemStartup_proofs` | the proofs about the size of the pool and about a start that fails |
| `RpmemExample` | the three example programs against the server of `RpmemStartup`, and the size they map |
| `RpmemExample_proofs` | the proofs about their arithmetic |
| `MCRpmemPool`, `MCRpmemSession`, `MCRpmemCompletion`, `MCRpmemConnect`, `MCRpmemExample` | instances for TLC |

How they fit together: `RpmemStartup` ends with the pool that `RpmemPoolAtomic` starts from, and
`RpmemExample` extends it with the programs that use a server once it serves;
`RpmemConnect` shows (`SessionStart`) that a command starts from the state `RpmemSession` begins
with; `RpmemCompletion` shows that a completion thread reaches every completion, which
`RpmemSession` takes for granted in `HandleWc` and `Server`; `RpmemPool` implements the pool and
`RpmemSession` the lease.

Operators whose names end in `_kept`, `_nowait` and the like are mutants: the same operation
with a plausible mistake. `PROJECT.json` pairs each with the property that must fail when it
takes the place of the real operation; no specification uses them.

**RpmemPool.** One thread per connection, with its program counter and locals. Requests arrive
in any order, because the server relates none to the ones before it. `HandleOpen` is the
unlocked read. `MapStart .. MapUse` is `rpmem_handle_map`: lock, scan (`MapScan` also sets
`unit->res`), the two counters, remove, unlock, and the use of `res` after the lock;
`UnmapStart .. SpinUnlock` is `rpmem_handle_unmap`. An unmap without a mapping and a second map
follow a null pointer, which sets `up` to FALSE and stops every thread; this is why the pool
runs do not check for deadlock. The counters are unbounded integers: they only take the values
0 and `Size`, so no overflow is hidden. Word tearing of the unlocked read is not modelled: an
aligned `int` is read in one access on the platforms RDMA runs on.

**RpmemSession.** Each client call is one step up to each `sem_wait` and one after it; each
handler is one step, because the pool is the only state two handlers share and
`ImplementsAtomicPool` shows its updates atomic. `Command` is the part every command shares:
post the receive (which clears the response buffer), post the work requests in order, stop at
the first failure and leave behind what was posted. Failures come from two sources: a full
queue, and the calls named in `Faults`.

* The connection is what the verbs interface promises of a reliable one (these definitions are
  marked external): in-order execution; late acknowledgement (`sent` holds the executed
  work requests that have not completed; a slot is free when its completion was polled); a request
  without a posted receive waits for ever, as `rnr_retry_count = 7` means; a bad key breaks the
  connection, after which posts succeed and are flushed, waking nobody. Buffers are gathered when
  a SEND or WRITE executes, so overwriting a buffer too early is visible.
* `rkey` and `addr` of a refused map are uninitialised variables: any value. A region belongs to
  the protection domain of its connection, so another connection's key is not valid.
* The server maps privately: `mem` is the mapping, `file` what `msync` would have to change.
* A negative length passes `len < size` and fails in `mmap`; `Word` is 2^32 in the code and 16
  in the instances, so that lengths cross the sign bit.
* Applications map only when unmapped, use a mapping only while they have it, and may retry a
  failed call. An unmap with no region is modelled as a crash; no such application reaches it.
* A work request carries the key, address and length of its post. `KeyValid` reads them from `rmr`
  when the request executes: they are the same, because `rpmem_map` changes `rmr` only before it
  posts the READ it then waits for, and `UnmapReturns` marks the WRITEs still queued as stale.
* `HandleUnmap` unmaps the region of the unit rather than the address and length of the request:
  `ReqMatches` and `MappedIsBacked` show that they are the same. The handler's default branch for an
  unknown opcode (`rpmem_server.c:381`) is left out, since no client sends one.

**RpmemLease.** A region with an owner, a lease per connection (none, held, ending), the
application's buffer and the region's contents. `Lease` in `RpmemSession` is the refinement
mapping: the owner is the unit with the resource (`leaseOwner`), a lease (`LeaseOf`) is held from the return of `rpmem_map`
to the call of `rpmem_unmap` or `rpmem_close`, and ending until that call returns. A lease need
not come back: close does not release the resource.

**RpmemCompletion.** The queue has the semantics of the verbs interface: a completion that
arrives while the queue is armed raises one event and disarms it; `ibv_destroy_cq` waits for
unacknowledged events. The thread is the loop of `cq_thread`: get an event, arm, poll batches of
16 until the queue is empty or 64 completions were taken, acknowledge. `Side` selects the one
difference, that the server's handler takes a full budget for an error. `close` follows
`rpmem_close`; cancellation is deferred to the read of the channel and to the output in
`rpmem_handle_wc`. The exit on "Unknown CQ!" is left out: each channel has one queue. A failed poll leads to `overrun`, since the count is unsigned; what the loop
over `wc[]` then does is undefined.

**RpmemConnect.** Per file: where `rpmem_open` or `rpmem_close` is, the `cm_thread`, the event it
handles, its unacknowledged events, the verbs objects; then what `rdma_cm` is doing, and the
server's thread, units and accepted connections. A client handler is one step because `state_mutex`
is held for all of it, the server's because one thread handles all its events and the only thing
another thread sees of it is the answer. A `cm_thread` ends `dead` (a handler failed, its event stays
unacknowledged), `failed` (`rdma_get_cm_event` failed, no event in hand), `cancelled` (in
`rdma_get_cm_event`) or `cut_off` (cancelled with an event it never acknowledges). The OPEN and CLOSE
commands are two steps, the posts and the return of `sem_wait(&sem_command)`; in between `CommandEnds`
answers the command or loses it (`cmd`), which stands for what `RpmemSession` and `RpmemCompletion`
say in detail. Likewise the `cq_thread` that `rpmem_close` cancels stops with its event acknowledged
(`cancelled`) or not (`cut_off`), and `ibv_destroy_cq` returns only after the former. `Faults` names
for each file the calls that fail and the events that happen.

**RpmemStartup.** One step per call of `main()` that can fail; `held` is what has been acquired.
A field of the uninitialised `struct inargs` that no option has set is junk: freeing it, or reading
the address in `get_addr`, may crash, fail or do nothing harmful; `open` of a junk path only fails
or opens some file, since the kernel checks the pointer.

**RpmemExample.** An example starts once the server serves, with the resource free or held by another
connection. The call sequence and error paths, with the size arithmetic: the cast of
`st_size`, the division that truncates towards zero, the length on the wire and the server's
comparison. `Word` (2^32) and `Block` (1024) are parameters,
with a block less than half a word. Every call succeeds, fails or does not return, as in
`RpmemSession`: a refused map ends in `refused` (`map_busy` shows that it hangs); `hung` is every
other call that does not return, because the connection broke (`Break`) or because `mmap` or
`ibv_reg_mr` failed after the map was granted. `mapped` says that the server's unit holds the
resource, which it does from the grant on, whatever `rpmem_map` returns.

## 3. The runs

| run | instance | shows |
|---|---|---|
| `pool` | 3 connections, size 3, lengths 1 and 3, fair threads | `TypeOK`, `LockInv`, `Conservation`, `OneHolder`, `OpenAnswer`, the inductive invariant `PoolInv`, `ImplementsAtomicPool`, `LockReleased` |
| `session_posts` | 1 client, queues of 4, lengths 2, 3 and -1, all faults | `TypeOK`, `RspMatches`, `OneWakeup`, `ReqMatches`, `ResponseHasReceive`, `MapReadsRegion` |
| `session_faults` | 2 clients (symmetric), queues of 2, failing `ibv_reg_mr` and `munmap`, crashes | `MappedIsBacked`, `ExclusiveMapping`, `CommitVisible`, `Isolation`, `ImplementsLease` |
| `session_live` | 1 client, queues of 4, no faults, fair | `RequestHasReceive`, `CommandReturns` |
| `completion` | client, queue of 8, batches of 16, budget of 64 (the code's numbers), all faults, fair | `TypeOK`, `NoLostWakeup`, `CqAlive`, the inductive invariant `CompletionInv`, `CompletionHandled`, `CloseProceeds` |
| `connect` | 2 files, one meets all faults, the other is rejected, times out or is closed; fair | `TypeOK`, `HandlerHoldsFile`, `RouteUsesLive`, `SessionStart`, `ConnectWakes`, `CallsProceed` |
| `startup` | every command line of up to 3 parameters, every failing call, every size up to two and a half words of 64 values, every example with a block of 4 | `UnwindExact`, `SizeWithinFile`, `RegionInsideFile`, `ExamplesFit` |
| `map_busy` | 2 clients, fair | violated: a map of a busy resource never returns |
| `commit_durable` | 1 client | violated: a successful commit has not changed the file |
| `map_retry` | 1 client, queues of 4, no faults | violated: a map after an unmap that could not be posted ends the server |
| `server_budget` | server, queue of 2 | violated: 64 completions in one drain end the server's thread with "poll error" |
| `open_error` | 1 file, failing address resolution, fair | violated: an address that does not resolve makes `rpmem_open` hang |

Bounds. Two connections are enough for contention on one resource and three for a handler that
waits while two others pass the resource on. Lengths lie below and at the strict bound. The
protocol properties are about one connection, so `session_posts` has one client with the
code's queue sizes and every fault; the properties across connections need two, and
`session_faults` shrinks the queues to 2, the least a commit needs, which also makes full queues
common (a post then fails as an injected fault would). One key in `Rkeys` is the strongest
choice there: an uninitialised key always equals the valid one. Nothing else is bounded:
applications issue any number of commands. The completion runs use the code's own numbers (only
`Word`, 2^32 in the code, is 256); completions keep arriving without a bound, so that a drain can
reach its budget (the server's client has one command under way, hence at most a receive and a send
completion in its queue at a time, but any number in one drain). Each file is opened and closed
once; two are enough for one connection to disturb the server's answer to another, which
`ConnectWakes` is about. All of a file's state is its own except the server's thread and its
channel, so what another file can do to it is to put requests and DISCONNECTED events ahead of its
own: the second file needs the faults that vary those and no others (`OneFails`).

Fairness. Threads that can run do run, and the network executes, acknowledges and delivers
(weak fairness for each, per connection): the code has no priorities and the connection is
reliable. Applications and requests are not fair. A completion thread
and a `cm_thread` run, resolutions end, commands are answered or lost, and open and close go on once they have begun; nothing
makes completions arrive, files be opened or closed, or connections break. In the pool only the steps of a thread that has
the lock or is past it are fair, since a spinlock promises no thread that it will get in.
`CommandReturns` excepts a broken connection and a dead server; `map_busy` is the same
promise for map without the exception for the connection. The others except exactly these ends,
each of which section 5 describes:

* `ConnectWakes`: `rpmem_route_handler` failed, or `rdma_get_cm_event` did;
* `CallsProceed` (`Stuck`): the command was lost (`sem_wait`, `rpmem.c:406` and `466`);
  `rdma_destroy_id` waits for a `cm_thread` that ended with an event in its hands; `ibv_destroy_cq`
  waits for a `cq_thread` that was cut off;
* `CompletionHandled`: the file is being closed, or a call of the thread failed (`failed`, `overrun`);
* `CloseProceeds`: a call of the thread failed, or it was cancelled in the middle of a batch.

Deadlock is not checked: clients close and stop, threads exit, programs end, and the server may
crash.

## 4. The proofs

`RpmemPool_proofs` proves for any set of connections, any integer size and any integer
lengths (`PoolAssumption`, `LensAssumption`):

* `PoolInvariant`, `TypeCorrect`, `MutualExclusion`, `ResourceConserved`, `ExclusiveHolder`, `OpenAnswerWhole`:
  the invariants of the run `pool`;
* `PoolRefinement`: `Spec => ImplementsAtomicPool`.

`Conservation` speaks only of states in which the lock is free, so it is not inductive. The
strengthening `PoolInv` says for each point of a critical section what the half-updated pool
looks like (`StageInv`) and that at most the lock's holder is at such a point (`LockInv`).
`TypeStep`, `LockStep` and `PoolStep` show that every action preserves it. The refinement maps an
update to the store of the new `free_size`, the one store an unlocked reader can see: before
it a map has not yet happened and an unmap not yet given back. `AbsHolder` computes the mapped
pool from the holder's position; `RefineStep` then shows that `StoreFree` is `Take` or `Put` and
that every other step is invisible.

`RpmemCompletion_proofs` proves `CompletionInvariant`, `WakeupNotLost` and `CqOutlivesUse` for
both sides and any depth, batch and budget with `Depth <= Budget` (`CompletionAssumption`,
`DepthAssumption`). `NoLostWakeup` is not inductive; `CompletionInv` adds that an armed queue
holds at most what was there when it was armed (`DrainInv`: `completed + cq <= Depth`), so that a
drain which stops at its budget with the queue still armed has emptied it, and otherwise an
event is waiting; that events are raised only by disarming (`EventInv`); and that the thread has
exactly one unacknowledged event while it works on the queue (`AckInv`), which is what
`ibv_destroy_cq` waits for. `DepthAssumption` holds in the client: its queue pair has 4 sends and
4 receives, its budget is 64.

`RpmemSession_proofs` proves for any set of clients, any lengths, keys and contents, queues of any
size and any faults (`SessionAssumption`, `PoolAssumption`, `WordAssumption`):

* `SessionInvariant`, and from it `TypeCorrect` (`TypeOK`), `OwnResponse` (`RspMatches`),
  `SingleWakeup` (`OneWakeup`) and `ReceivePosted` (`ResponseHasReceive`);
* `RequestsReceived` (`RequestHasReceive`), under the hypothesis that the server's posts do not
  fail (`"server_post" \notin Faults`): a unit whose repost failed has no receive for the next
  request, which is a path the model has. The run that checks it makes the same assumption.

Neither `RspMatches` nor `OneWakeup` is inductive. `SessionInv` adds, for every connection:

* `Balance`: the requests, responses and READs under way, their completions and `sem_command`
  add up to at most one while the client waits and to none otherwise; READs are under way only in
  the second half of `rpmem_map`, messages only outside it; every response that is due has a
  receive. This is what makes one semaphore enough for two kinds of completions;
* `MsgInv`: the message under way is the current command's, in whichever of the four buffers it is;
* `FlushInv`: a broken connection, or a client that is gone, leaves nothing in the queues;
* the send queue is within its limit (`Used(c) <= MaxSendWr`), which `TypeOK` needs;
* `PoolPart`: the resource is in the list or in one unit.

The proof has one lemma per kind of step: `CommandStep` for the commands (open, map, commit, unmap
and close instantiate it), one for each return, the application, the end of a client, a completion,
an execution, an acknowledgement and a delivery, and `ServeStep` for the five handlers. `CountEmpty`,
`CountAppend` and `CountTail` say how a queue operation changes a count.

`RpmemRegion_proofs` proves `RegionInvariant`, and from it `MappingBacked` (`MappedIsBacked`),
`MappingExclusive` (`ExclusiveMapping`), `RequestMatches` (`ReqMatches`) and the action properties
`RegionIsolated` (`Isolation`), `CommitReached` (`CommitVisible`) and `MapReturnsRegion`
(`MapReadsRegion`). `RegionInv` is inductive relative to `SessionInv`: a registered region belongs to
the unit with the resource (`RegionPart`); the key of a mapping is good and a READ that has executed
has filled the buffer (`BackInv`); when `priv_mr` is a mapping (`LenInv`); WRITEs are under way only
while their buffer exists (`WriteInv`); the WRITE of a commit is ahead of its request, and has
executed when the request is next or gone (`CommitInv`). `MappingBacked` has the hypothesis
`Lens \subseteq 1 .. Word - 1`: of a length of 2^32 or more the server registers the low word only,
and the region would be shorter than the mapping. The other results do not need it.

`RpmemLease_proofs` proves `LeaseRefinement`, `Spec => ImplementsLease`, from both invariants:

| step of `RpmemSession` | step of `RpmemLease` |
|---|---|
| `HandleMap` that is granted | `Grant` |
| `MapReturns` | `Begin` |
| `AppWrite` | `Change` |
| `Execute` of a WRITE | `Write` |
| `Unmap`, `Close` of a mapped file | `End` |
| `UnmapReturns`, and the end of a client that has a mapping | `Forget` |
| `HandleUnmap` that succeeds | `TakeBack` |
| every other step | none |

`RpmemConnect_proofs` proves, for any number of files and any faults, `FileOutlivesHandler`
(`HandlerHoldsFile`), `TypeCorrect`, `RouteFindsSetup` (`RouteUsesLive`) and
`CommandsStartConnected` (`SessionStart`). For the first, `ConnectInv` counts the unacknowledged
events (`CmInv`) and says that after `rdma_destroy_id` the channel is empty and nothing is under way
(`QuietInv`): without it a late event could start a handler on a freed file. For the others,
`StartInv` follows the one event that drives the set-up: while the address or the route is being
resolved nothing else can wake `rpmem_open`, and the route's event finds the objects of
`rpmem_addr_handler`, or a thread that is dead or failed (`AddrInv`, `RouteInv`); the server is asked once, and from its
acceptance to `rdma_disconnect` both sides have all they need (`LinkInv`).

`RpmemStartup_proofs` proves `SizeNeverExceedsFile` (`SizeWithinFile`) for any word and any sizes,
from the lemma that a cast to `int` never makes a natural number larger, and `UnwindIsExact`
(`UnwindExact`) for any command lines, from what is held at each point of `main()` (`HeldInv`).
`RpmemExample_proofs` proves `GrantedInsideFile` (`RegionInsideFile`) and `ExamplesServed`
(`ExamplesFit`) for every size, word and block (`ExampleAssumption`: a block is less than half a word,
as 1024 is less than 2^31). `ExamplesFit` speaks of both directions: an example is refused only if the
resource is busy, has at most one block, or reaches the sign bit; and it is granted the resource only
if that is free and has more than one block. `MapSizeFits` is the arithmetic: the length an example
computes is at least a block, fits an `int`, and is less than the size of more than a block it was
computed from.
`ServerUnaffected` shows that a server with an example is a server of `RpmemStartup`.

Every invariant and every action property that a passing run checks is also a theorem, and so are
both refinements. Only model-checked are the properties that need fairness, which is out of
the prover's reach: `LockReleased`, `CommandReturns`, `CompletionHandled`, `CloseProceeds`, `ConnectWakes`
and `CallsProceed`.

## 5. Where the code stops short

The five violation runs show disagreements between the code and what its own text says. The models
also reach the following; no run reports them as violations, either because nothing in the
repository promises otherwise or because a property above names them as its exception.

* `rpmem_close` of a mapped file leaves the resource with its unit: nobody can map it again
  (`RpmemLease` allows a lease that never comes back).
* A map of exactly the size that open reported is refused (`len < st_size`), and open reports 0
  while another client holds the resource. An example then asks for one block and
  hangs, as in `map_busy`. With a resource of exactly 1024 bytes `simple_map_unmap.c:86` prints
  "maximum map size is 1024, we map 1024" and hangs (`ExamplesFit` has this as an exception).
* A granted map whose `mmap` or `ibv_reg_mr` fails is answered all the same: the client reads with a
  bad address or key, the connection breaks, `rpmem_map` never returns and the unit keeps the resource.
* `ibv_poll_cq`'s result is kept in an unsigned variable, so a failed poll is taken for a count
  (`overrun`).
* `pthread_cancel` may stop a `cq_thread` or a `cm_thread` between getting an event and
  acknowledging it; `ibv_destroy_cq` or `rdma_destroy_id` then waits for ever. The DISCONNECTED
  event of `rpmem_close`'s own `rdma_disconnect` has the same effect, as its handler returns -1.
* A failing `rpmem_route_handler` does not post `sem_connect`, nor does a `cm_thread` that ends
  because `rdma_get_cm_event` failed: `rpmem_open` never returns.
* A command that is lost, with the connection or with a step between the server's receive and the
  client's `cq_thread`, leaves its caller in `sem_wait(&sem_command)`: `rpmem_open` and
  `rpmem_close` have no timeout either.
* Threads are cancelled and not joined. A failed `rpmem_open`, and the server's failed
  `rpmem_create_qp`, free memory that their completion thread still uses. And a thread that has just
  acknowledged its last event goes to the top of its loop, where it reads the channel from a file
  that may be freed by then (`rpmem.c:110`, `rpmem.c:322`): the unacknowledged event that
  `HandlerHoldsFile` and `CqAlive` rest on no longer protects it.
* The server's usage text names `--resources`, the option is `--resource`; `--help` frees an
  uninitialised pointer.
* The size of a resource of 2 GB or more is truncated to an `int`, so that the pool is smaller than
  its file or negative (`SizeWithinFile` shows it is never larger).

## 6. What is not modelled

Logging and the build; the values of ports and addresses and what `get_addr` resolves them to;
`posix_fallocate` (its result is only returned to a caller that ignores it); memory and regions
that leak without effect on the protocol (the local region of a closed mapping, the protection
domain that `rpmem_close` cannot free because the command buffers are still registered in it, a
unit whose accept failed); a `pthread_create` that fails for a completion thread, whose result the
code ignores; lengths of 2^32 and more; the server's `rdma_get_cm_event` failing, which ends its
`cm_thread` and with it `main()` (the client's is modelled); a request with an unknown opcode; an
event of an unknown completion queue; the read of a freed file at the top of a thread's loop, which
is a cancellation race the models describe only up to the last acknowledgement.

## 7. Plan

1. What the liveness properties rest on, as theorems without fairness: that a wait never has
   everything it waits for taken away (for `CommandReturns`, that while a command waits on a healthy
   connection its wakeup is still due).
2. The glue between modules: that `RpmemStartup` ends in a state `PoolInit` allows.
