# A TLA+ verification of baremetal-dhcp

This directory keeps TLA+ models of the DHCP server library (`src/dhcp-lib`) as it runs on the
Circle kernel (`src/circle/sample/06-ethernet-dhcp-lib`), of the data structures it uses
(`src/ds-lib`) and of the benchmark client (`src/bench-live`), the TLC runs that check them on small
instances and TLAPS proofs of the main results for every instance. `PROJECT.json` lists the runs,
the source lines each definition models, the hazards and the theorems.

## The system

| Part | Code | State | Operations |
|---|---|---|---|
| Message handlers | `dhcp-lib/dhcp_server.c` | `dhcp_server_config_t`, a pool | `dhcp_process_message_*` (DISCOVER, REQUEST, DECLINE, other) |
| ARRAY | `dhcp_array.c` | `leases[]`, `lease_count`, `next_ip` | find_available_ip, alloc_lease, cleanup_expire_lease, decline_lease |
| BITMAP_VARTIME | `dhcp_bitmap_vartime.c` | one bitmap with a timer, `counter` | peek (recycles), commit_ip |
| BITMAP_UNITIME | `dhcp_bitmap_unitime.c` | several bitmaps with timers, `cur_range`, `counter` | peek (rotates, recycles), commit_ip |
| NPRC | `dhcp_nprc.c` | `cache_base`, `offer_next`, `ack_bitmap` | find_available_ip (flushes), commit_ip (slides) |
| HASHMAP | `dhcp_hashmap.c`, `ds-lib/hash.c` | two hash tables, `next_ip` | as ARRAY |
| Adapter and kernel | `dhcp-server.cpp`, `kernel.cpp` | the clock, the configuration, a receive buffer that is never cleared | one frame in, at most one frame out |
| Queue | `ds-lib/cqueue.c` | ring buffer, `head`, `tail` | push, pop, peek |
| Benchmark | `bench-live` | client queue, xid table, mailboxes | workers, receive manager |

The back end is chosen at compile time. The kernel polls: a frame is handled to completion before
the next is read. So a message handler, with every pool function it calls, is **one action** of a
module, and the interleavings that matter are those of the messages of several clients with each
other and with the passing of time. The network may lose, repeat, delay and reorder messages; the
models therefore let **any** client send **any** message at any time: a lost message is one that
is never handled, a repeated or late one is a message handled again or later.

What makes this code hard to get right: an address is offered without being reserved; leases end
by comparing a stored time with a clock that starts again from 0 every 72 minutes (a 32-bit count
of microseconds divided by 10^6); the bitmap back ends record no client and free whole ranges at
once; NPRC forgets offers; the ARRAY table is searched with an early exit and counted by hand; the
HASHMAP pool keeps two open-addressing tables in step. Only `ds-lib/cqueue.c` and `bench-live` have
threads, and there the steps are as small as what another thread can see.

What a DHCP server owes its clients: no address in two hands (`NoDoubleGrant`), no offer of an
address in use (`OfferUnheld`), a lease that runs is not taken away, a retry is answered the same
way, and addresses come back when their leases have run out. Where the code keeps this for
some leases only, the property names the exception (`OnlyLateRequestHarms`, `OnlyLateDeclineHarms`).

## Modules

| Module | Models |
|---|---|
| `DhcpServer` | pool, replies, the wrapping clock, and `left[m][ip]`: how long client `m` may still use `ip` by the last ACK it got. It states the two promises all back ends share |
| `ArrayPool` | ARRAY: `Discover`, `Request`, `Decline`, `Ignore`, `Tick` |
| `NprcPool` | NPRC: `Discover`, `Request`, `Ignore`, `Tick` |
| `BmVarPool` | BITMAP_VARTIME: the same actions; DECLINE is ignored by the code |
| `BmUniPool` | BITMAP_UNITIME: the same actions |
| `BitmapServer` | the server built for one of these two: `mode` is the choice of the build, each back end an `INSTANCE` |
| `DhcpWire` | messages as bytes: adding and finding options, the options of the replies, the adapter's copies between frame and message, and what `bench-live/frame.c` reads from a reply |
| `Kernel` | the polling loop and the adapter on `ArrayPool`: receive buffer, frame filter, check of the type, dispatch to `CraftDHCPOffer`, `CraftDHCPAck` or `HandleDHCPDecline`, and DECLINEs that arrive late or twice |
| `LeaseService` | what a lease table owes its clients: one lease per client and address, renewed, refused and reclaimed. `ArrayPool` and `HashPool` implement it |
| `HashTable` | the open-addressing table of `ds-lib/hash.c`, as operators on a table |
| `MapService`, `HashMap` | a bounded map, and the hash table under any sequence of calls, which implements it |
| `HashPool` | HASHMAP over two such tables: the actions of `ArrayPool` |
| `Fifo`, `CQueue` | a bounded FIFO, and the circular queue between two threads, which implements it |
| `BenchLive` | the asynchronous benchmark: workers, receive manager, queue, xid table and mailboxes, composed with `NprcPool` as the server, whose actions they take |
| `ArrayPoolProofs`, `BitmapServerProofs`, `CQueueProofs` | theorems about the module they are named after |
| `BenchLiveProofs` | the theorems about `NprcPool`, and the ones about `BenchLive`, which extends it and whose proofs rest on them |
| `HashMapProofs`, `HashPoolProofs` | what each call of `HashTable` does to a table, with the theorems about `HashMap`; the theorems about `HashPool`, which rest on it |
| `WireProofs` | what the server finds in an area that a client has filled, and a client in one the server has filled |
| `KernelProofs` | the theorems about `Kernel`, from `WireProofs` and `ArrayPoolProofs` |
| `MC*` | symmetry, hash functions, frames, xids and the order of the clients for TLC |

`clk` is the `cur_time` a handler sees. `left`, `turned` (the clock has started again from 0), `age`
(how long ago a timer was started), `offered`, `acked`, `meant`, `handled` and `late` are history
variables: the code has no such state and no action of the server is guarded by them. `resp` is the
reply to the message handled last. The client's side of a lease is measured by `left`, which does
not wrap, so a property about `left` and the table compares what the client was promised with what
the server remembers.

In `CQueue` a read or write of `head`, `tail` or the buffer is a step. An index that only its own
thread writes can be read together with the next step; a call that fails changes nothing and has no
step. The compiler and the processor are taken to keep the order that the comments in the code ask
for. A peek moves the tail and puts it back, so the model keeps pushes out of a peek, as its callers
must; pushes and pops may meet anywhere. In `BenchLive` a worker's step reaches from one point at
which another thread can see the difference to the next: taking a client, entering it in the table,
sending, checking the mailbox under its lock, waiting, the time-out (which may be reported although
a frame has just come), and leaving. The receive manager looks a client up and delivers in two
steps. The link to the server keeps order, so a frame that is not lost is served as it is sent and
the delay is put on the reply; a reply under way for ever is a lost one. xids are drawn by `main`
without a look at those already drawn, so `Init` chooses among draws in which two clients may have
the same one.

In `Kernel` a frame is its kind, its sender, the list of options it encodes and what follows them, and
one turn of the loop is one action. `FrameBuffer` is the options area of the receive buffer; a frame overwrites as
many bytes as it has and leaves the rest. What a frame asks of the server (`Asks`) is computed from
the list of options its sender encoded, not from the bytes, so `ActsOnOwnFrame` compares the whole
way through the buffer, the copies and the search for options with what was meant. In `ArrayPool` a
DECLINE is sent and handled in one step; in `Kernel` a client gives its address up at once and its
DECLINE is under way until it arrives for the last time; `late` are the running leases that were freed
by a DECLINE sent before them. In the bitmap modules `late` are the running leases that were
requested late (below).

Addresses are integers of the pool, MACs are model values; a REQUEST may name any address of the
pool and one on either side of it; in `Kernel` an address is four bytes of the frame. 32-bit
arithmetic is kept where it matters: the clock wraps at `ClockWrap`, the BITMAP_VARTIME difference
at `Word`.

## Runs

| Run | Shows |
|---|---|
| `array` | 4 clients, 3 addresses, 3 slots. All invariants of ARRAY, that holders are served again, that a lease that has run out makes room, and that ARRAY implements `LeaseService` |
| `array_clock_wrap` | violation: after a turn of the clock a lease that has run out keeps its slot in a full table, and a DISCOVER goes unanswered |
| `nprc` | 2 clients, 7 addresses, a window of 4 bits flushed by 1: the window is exact, nothing is offered or acknowledged twice, recent offers are honoured |
| `bitmaps` | both bitmap back ends, 2 clients, 4 addresses, in vartime mode a range of 3 of them and in unitime mode two ranges, with a `counter` that starts at 0 or past the end of its range and REQUESTs at any time: leases end with their timers and addresses have one user, but for leases requested late, and ranges serve again |
| `bmvar_late_request` | violation: an ACK for almost 2^32 seconds |
| `bmuni_untimed` | violation: a range is left without a timer and is lost |
| `hash_map` | 4 buckets, 5 keys, every hash function: after any calls each element is found, and the table implements `MapService` |
| `hash_pool` | 4 clients that hash to the last bucket, 3 addresses, a sweep of at most 2: the two tables agree, the promises of the server hold, and HASHMAP implements `LeaseService` |
| `cqueue` | a buffer of 8, items of 3 bytes: items arrive whole and in order, a peek changes nothing, and the queue implements `Fifo` |
| `bench` | 2 workers, 2 clients with xids of their own or the same one, 2 addresses, 2 tries per phase: a client with its own xid that passed holds its address alone, the xid table finds no client that no worker is on, and the benchmark ends |
| `kernel` | 2 clients, 2 addresses, 20 frames: the back end acts on what the sender of a frame encoded and on nothing else, the benchmark client reads from a reply what the back end answered, and only a DECLINE overtaken by its sender's next lease does harm |
| `kernel_reply` | violation: mask, router, DNS server and lease time are cut off the reply |

**Fairness.** Only `bench` has a liveness property, `Terminates`. It assumes weak fairness of each
worker thread: threads are scheduled, and a worker that waits is woken or timed out in the end, as
it waits with `pthread_cond_timedwait`. Nothing is assumed of the network, the server and the
receive manager. The other progress properties are action properties (a DISCOVER goes unanswered
only in states where ...) and need no fairness. The benchmark is meant to stop, so `bench` does not
check for deadlock; all other runs do.

**Bounds.** Three slots are the smallest table in which the early exit of `alloc_lease` can skip an
occupied slot that matters (a match, a hole and another match), and a fourth client is needed for
the full table to turn someone away. The clock needs to turn while leases run; TLC visits several
turns because the clock is cyclic. In NPRC a window of 4 bits with a flush of 1 over 7 addresses has
three flushes, commits out of order on both sides of a flush, and the cut at the end of the pool. In
BITMAP_UNITIME two ranges are the minimum the code allows and make the next range of the next range
the current one, and the range of 3 addresses in BITMAP_VARTIME (`VarLen`, the `range_size` the
library is given) is shorter than the pool, so that REQUESTs fall behind its end; `Word` (2^32 in the
code) is the smallest above every `expire_time`. Pools start above 0, as 0 is the library's "no address". Four buckets and five keys
give chains that wrap round the end, a full table, and a key too many. In `hash_pool` all clients
collide, so every deletion moves leases, and the sweep's limit of 2 (`SweepMax`, 32 in the code) is
below the number of slots. Eight places are no multiple of an item of 3 bytes, so items begin at
every place. In `bench` two tries per phase (`MAX_RETRIES`, 3 in the code) include one
retransmission, and `Backlog` allows two replies under way at a time: an answer and the answer to its
retransmission or to the other client. Two addresses for two clients are enough for a client to be
offered both and for the pool to run out. In `kernel` the options area (`OptLen`, 308 in the code)
has 34 bytes, which the six options of an ACK and END fill to the last; an area of 308 differs by a
tail of zeros. The frames are a DISCOVER, a REQUEST and a DECLINE that end without END, so that the
leftovers of other frames follow them directly, a REQUEST without an address, one padded beyond the
area as `build_frame` pads it, options in either order, a client identifier with bytes that look
like END and like a message type, and traffic that is not for the server. Addresses 255 and 256 have
a byte that is 255, like END, and one that is 0, like PAD. The buffer starts as zeros or with a
DECLINE in it.

**More slots than addresses.** ARRAY and HASHMAP sweep leases only when the table is full.
`RunOutLeaseMakesRoom` therefore asks for at most as many slots as addresses; in the example of
`dhcp-lib/README.md` (addresses .10 to .200, 256 leases) the table never fills and no lease that
has run out is reclaimed.

**Late requests.** BITMAP_VARTIME and BITMAP_UNITIME do not look at the timer when they handle a
REQUEST. In vartime mode a REQUEST is late if the timer has run out or not started: the ACK then
carries a time that has wrapped. In unitime mode it is late in any second after the one in which the
OFFER of the last address started the timer: the ACK carries the full lease time, which ends after
the timer does. That takes no unusual client; a REQUEST that comes one second after such an OFFER is
late. The range can then be cleared while the lease runs, and the address be given to another client.
`bitmaps` does not exclude this. It takes every REQUEST, notes the leases requested late in `late`,
and shows that the harm ends there: of two clients on one address one was late
(`OnlyLateRequestHarms`), a client that requested in time keeps its bit and its timer
(`LeaseWithinTimer`), and nobody, late or not, is offered or granted the address of such a client
(`ReplyOnlyOverLate`). What a late REQUEST of BITMAP_VARTIME is granted is the violation
`bmvar_late_request`.

**Disagreements with the documentation** that the violation runs show are under `findings`. Others
that were met: a DECLINE frees the address for the next client, while the adapter's README says it
is marked as declined; BITMAP_VARTIME is not reset "when full" but only when its timer has run out;
an OFFER of BITMAP_VARTIME announces the lease time of the last ACK; the flags `NPRC64` and
`NPRC256` do not exist in the code; `ds-lib/README.md:84` calls the queue fit for one producer and
one consumer without locks, which `cq_peek_n` is not, as a producer may overwrite what is peeked;
`bench-live/README.md:122` has each packet reach the correct worker by its xid, which two clients
with the same xid do not have; by line 93 there a failed client has used up its retries, while a NAK
or a `sendto` that fails also ends one.

## Proofs

`tlapm` checks the following for every set of clients, pool, table or window size, lease time and
period of the clock, from the assumptions named in the modules (`ServerAssumption`: the pool is not
empty and starts above 0, times are positive; `MaxLeasesAssumption`; `BitmapAssumption`: the window
is a positive multiple of 4, as `BITMAP_FLUSH` is a quarter of it; `HashAssumption`: a table has a
bucket; `HashPoolAssumption`: room for a lease, a sweep that may remove one, and hash functions that
stay within the table; `KernelAssumption`: hosts encode their options as RFC 2132 has it, within the
area the server keeps, and who asks something of the server is a client; `ReplyAssumption`: the area
has room for the options of a reply, the configured addresses have four bytes, and none of the
server's own, which the constructor of `CDHCPServer` fixes as 192.168.4.1, is 255).
`HashPoolAssumption` and `MapAssumption` also say that the mark of an empty bucket is no element and
that "no value" is no value: in the code these are null pointers.

* `ArrayPoolProofs`. The inductive invariant is `TypeOK /\ TableConsistent /\ RunningLeaseKept`.
  None of the three is inductive alone: `RunningLeaseKept` needs the table to be one-to-one, since a
  renewal must hit the slot of that client and address, and `lease_count` stays in range only if it
  is the number of slots in use. A lemma shows that the early exit of `alloc_lease` is harmless in a
  one-to-one table: what the loop has not visited cannot change its decision. Per action, one lemma
  shows the invariant kept. `NoDoubleGrant`, `OfferUnheld` and `HolderServed` follow: two running
  leases on an address would be two slots with it. `Spec => ImplementsLeases` is proved on the same
  invariant. The mapping reads the table as a function from clients to leases, which a one-to-one
  table is; one lemma per handler shows its step to be a step of `LeaseService`, and a sweep to be a
  set of leases reclaimed. `RunOutLeaseMakesRoom` needs `Fresh` besides: up to the first turn of the
  clock no lease is recorded for longer than its client was given it (`RunningLeaseKept` is the
  other half). The rest is counting: a search that finds every step taken has met as many leases as
  there are addresses, so the table was full and has been swept.
* `BenchLiveProofs`, the server. All six properties of `nprc`, from what `NprcPool` assumes of its
  constants; nothing that `BenchLive` adds is used. The inductive invariant (`ServerInv`) is `TypeOK
  /\ WindowExact /\ HistoryCovers /\ NoDoubleGrant`, where `HistoryCovers` says that every running
  lease is on an acknowledged address. `RecentOfferHonoured` also needs `ForgottenIsOld`: an offered
  address below the window that is not acknowledged lies at least `BITMAP_SIZE - BITMAP_FLUSH`
  behind the next candidate.
* `HashMapProofs`. `ElementsReachable` and `MapSpec => ImplementsMap`, for every number of buckets,
  every hash function and every set of keys. Each call of `hash.c` has a lemma saying what it does
  to the elements of a sound table. That every element is reachable is not inductive: in a full
  table two elements could each be in the way of the other, and a deletion would lose one. `Sound`
  therefore asks for a bucket over which no probe for another element goes: one that is free, or the
  one that was filled last. Seen from there no probe runs over the end of the table (`Packed`), and
  the distances of `hash_delete` are plain numbers. Its second loop goes on from the freed bucket
  and moves elements back, until it meets a free bucket or has gone round. The invariant of the loop
  (`Mending`) is that the table has one hole it had not before, and that the probe goes over it only
  for elements the loop has still to come to; a move takes the hole along (`MendingMove`), and at a
  free bucket no such element is left (`MendingStop`).
* `HashPoolProofs`. All seven properties of `hash_pool`, for every pool, limit on the leases, limit
  on the sweep and pair of hash functions. The inductive invariant says that the two tables are
  sound and hold the same addresses, one lease each (`InStep`), that a running lease is recorded for
  at least its time (`Covers`) and, up to the first turn of the clock, for no longer (`NoLonger`),
  and that the last OFFER is of an address nobody else holds. The sweep notes leases that have run
  out and deletes them one by one, while each deletion moves others: what is proved is that exactly
  the noted leases go, and that a full table with a lease that has run out loses one. As the counts
  of the two tables are equal, the insertion into the second never fails after one into the first,
  and the rollback of `dhcp_hashpool_alloc_lease` is never taken. The module also carries the
  constants of `HashMap`, whose lemmas it uses; no theorem of it is about them.
* `BitmapServerProofs`. All six properties of `bitmaps`, for every pool, number of ranges, lease
  time and period of the clock (`RangesAssumption`: the range of vartime mode lies in the pool and
  unitime mode has at least two ranges, none empty; a word holds the largest `expire_time`). The
  inductive invariant speaks of the leases that were not requested late (`Held`): they have their
  bits set and end with their timers. With the types and `OnlyLateRequestHarms` it has two ties
  between a timer and its `age`. Up to the first turn of the clock `expire_time + age <= clk +
  LeaseTime`, from which the two properties about ranges that serve again follow. And in unitime
  mode a timer that started in this second has all of `LeaseTime` to run, so a lease requested in
  that second ends with it; a REQUEST in a later second makes a late lease. For BITMAP_UNITIME a
  lease lies in exactly one range, since the ranges are disjoint.
* `CQueueProofs`. `ItemsWhole` and `Spec => ImplementsFifo`, for every buffer and item size. The
  inductive invariant says that the buffer holds, between tail and head, the stretch of the stream
  of bytes from the one that is popped next to the one that is pushed next, and that a side that has
  made sure of its room or its bytes keeps them whatever the other does. A peek keeps this from the
  saved tail.
* `BenchLiveProofs`, the benchmark. `BenchTypeOK`, `TableExact` and `PassedIsServed`, for every
  number of workers, clients, xids, tries and replies under way. The inductive invariant takes over
  the one of the server and adds to `TableExact` that each client is queued once, that a frame in
  the network, in the manager's hand or in a mailbox carries the xid of the client it is for, and
  that an ACK anywhere tells of a lease that runs. `PassedIsServed` follows from this and the
  server's `NoDoubleGrant`.
* `WireProofs` and `KernelProofs`. `KernelTypeOK`, `ActsOnOwnFrame`, `OnlyLateDeclineHarms` and
  `ReplyUnderstood`, for every set of well-formed frames, every size of the options area, every
  content of the buffer at the start, and every number of clients, addresses and slots. There are
  three parts. The first is about the bytes that come in: in an area that begins with an encoded
  list of options the walk goes from option to option and meets the first of a kind, whatever bytes
  their data have and whatever lies behind them. From this `SenderServed` concludes that what is
  dispatched is what the sender encoded, although a DISCOVER and a DECLINE are searched to the end
  of the area and a REQUEST only to the end of the packet: the type that sends a message to one of
  the three is found before the leftovers begin, and only a REQUEST has its address looked for. The
  second part is about the bytes that go out. Each `dhcp_add_option` finds the END that the last one
  wrote, even if the data has bytes that are 255 (`Open`: the walk reaches that END whatever lies
  behind the options). `msgToHdr` does not walk and cuts the area at the first such byte (`Cut`);
  what `parse_frame` finds in the rest are the options that begin before the cut, and those that end
  before it are whole (`ReadBack`). The type and the server's address come first and have no byte
  that is 255. The mask behind them has, which is why nothing can be said of the options that
  follow, and the run `kernel_reply` shows that they are lost. The third part, in `KernelProofs`, is
  about the table. `RunningLeaseKept` does not hold in `Kernel`, where a late DECLINE frees a lease
  that its client goes on using. It does hold for all leases but the ones in `late`. The lemmas
  about the steps in `ArrayPoolProofs` are therefore stated for an invariant that leaves out a set
  of leases (`InvBut(lost)`, which is `IInv` when nothing is lost): whichever leases the table has
  stopped answering for before a step, it still answers for all the others after it, and only a
  DECLINE adds to them. `Kernel` takes these steps with `late` as the set: the inductive invariant
  is `KernelTypeOK /\ ActsOnOwnFrame /\ InvBut(late)`, and a client that gives its address up
  changes only leases that no table must keep.

The loops of `hash.c`, of the sweep and of the walks over options are recursive functions in the
model. The prover knows such a function only as some function that satisfies its equation, if there
is one, so each use of one begins with the proof that there is (`Iteration`, `WalkEnds`). Induction
over the turns of a loop is written as an argument about the least turn that breaks the claim
(`LeastStep`, `StepByStep`), since the library's induction theorems take an operator as a parameter.

Only model-checked: `Terminates`, a liveness property under fairness, which the prover does not
cover. The violation runs are counterexamples and have nothing to prove.

## Not modelled

* The Circle framework, except for the timer that the leases depend on. It is vendored third-party
  code (drivers, USB, file systems, scheduler, graphics, samples) and makes up nearly all of the
  lines under `src/`; the server polls one network device and uses none of its concurrency.
* In the adapter and the kernel: the headers of the reply, which are constants, the fields that are
  copied from the request or set to zero, the checksum, and the start of the hardware. Frames whose
  lengths contradict each other (a UDP length below 8 in `kernel.cpp:199`) are not among the inputs.
* In the benchmark's `parse_frame`: the checks of the Ethernet, IP and UDP headers and of the IP
  checksum (`frame.c:91-124`), which the replies of the model's server pass; what is read from the
  options is modelled.
* The sequential benchmark client: the handshake of one worker with one client at a time.
* Printing, socket set-up and the boot loader script: no state of the protocol.
