# A TLA+ model of the core of Cyclone DDS

Cyclone DDS is an implementation of the OMG Data Distribution Service: writers
publish samples of keyed instances on topics, and matching readers, in the same
process or on other hosts, get them with the reliability, durability and history
their QoS asks for. The code under `src/src/core` has two layers. `ddsc` is the
API: entities and their handles, the history caches, conditions and listeners.
`ddsi` is the protocol: discovery, reliable delivery, the receive and transmit
paths, and the machinery (threads, timed events, deferred reclamation) under them.

This directory holds TLA+ specifications of the parts of it that carry the hard
behaviour, model-checked with TLC on small instances, and proofs for arbitrary
sizes of what matters most about eight of them, checked by TLAPS.

File names below are relative to `src/src/core/ddsi/src` and
`src/src/core/ddsc/src`.

## 1. Inventory

For each part: the state it keeps, its operations, whom it interacts with, what is
hard about it, and what makes it correct. Parts marked **M** have a module here.

| Part | State and operations | Interactions and what is hard | Correct if |
|---|---|---|---|
| **M** deferred reclamation (`q_gc.c`, `q_thread.h`) | a clock and a domain pointer per thread; requests with a snapshot of the clocks; a queue, a count and a thread. awake/asleep, gcreq_new, enqueue, requeue, free, drain | every look-up of an entity without a lock relies on it; snapshots are taken without locks, the clocks wrap, shutdown shares one condition variable with drain | nothing a thread can still refer to is freed; everything unlinked is freed; shutdown ends |
| **M** writer history cache (`dds_whc.c`) | samples by number, intervals, per-instance circular history, unacknowledged bytes. insert, remove acknowledged, borrow, iterate, expire | the writer calls it with its lock, lifespan expiry does not; three indices over the same samples with different reasons to keep one | exactly what is unacknowledged or in the history is kept; counters exact; contents freed once |
| **M** reorder administration (`q_radmin.c`) | a tree of intervals of samples and gaps, the next number to deliver, a sample count. rsample, gap, drop_upto, nackmap | memory of tree nodes lies in packets owned by samples; merging, delivery and eviction in any order | in order, nothing passed over silently, node memory alive |
| **M** reliable protocol (`q_receive.c`, `q_transmit.c`, `ddsi_acknack.c`, `ddsi_entity_match.c`) | per proxy writer: reorder state, readers with their synchronisation state; per writer: acknowledged numbers per reader. data, heartbeat, acknack, gap, match and unmatch at both ends | unreliable network, several readers share one proxy writer, late joiners, a delivery thread | what is acknowledged was received; late joiners get the history |
| **M** handles and deletion (`dds_handles.c`, `dds_entity.c`) | a word of flags, references and pins per entity; a tree of entities; a mutex each. pin, unpin, delete, create child | any thread may use an entity another one deletes; deletion goes down to children, across to topics and up to implicit parents | one deleter, no use after free, nothing orphaned, every call returns |
| **M** instance map (`ddsi_tkmap.c`) | key to instance with a reference count; lock-free find, ref, unref | the last unref races with a look-up; uses deferred reclamation | an instance found is alive; one instance per key |
| **M** leases and proxies (`q_lease.c`, `ddsi_proxy_participant.c`, `ddsi_proxy_endpoint.c`) | a heap of leases, atomic end times, a clone of the shortest lease of each proxy participant, the proxies and their references. renew, expire, register, unregister, create and delete proxies | renewal is lock-free, expiry runs on the gc thread, discovery on a third one; the shortest lease is a copy that is replaced while others load it | the participant is always watched; a silent one is forgotten, with all it has |
| **M** throttling, writer deletion (`q_transmit.c`, `ddsi_endpoint.c`, `dds_write.c`, `dds_writer.c`) | `throttling`, writer state, history size. write, acknowledge, unblock, linger, delete | a blocked write against acknowledgements, timeouts and deletion | a blocked write wakes up; no deletion under a blocked write |
| heartbeat and acknack scheduling (`q_xevent.c`, `ddsi_acknack.c`) | intervals, back-off, suppression times | timers against messages | a lost sample is eventually requested and resent |
| defragmentation and receive buffers (`q_radmin.c`) | interval trees of fragments; reference counts with a bias | limits, eviction, buffers shared between samples | a sample is complete when delivered; buffers freed once |
| delivery queues (`q_radmin.c`) | bounded queue, bubbles, a thread | limits, bubbles as barriers | order kept, callbacks after everything queued before |
| reader history cache (`dds_rhc_default.c`) | instances, samples, view/instance/sample states, trigger counts | about 3000 lines of bookkeeping under one lock; condition triggers | counts exact, generations and states as DDS defines |
| **M** status, listeners, waitsets (`dds_entity.c`, `dds_listener.c`, `dds_waitset.c`); conditions are not modelled | status and mask in one word, counts of callbacks in progress, a listener partly inherited, attached entities and which of them are triggered. set listener, push down, set mask, take, attach, wait | a callback runs without the lock, against its replacement and the deletion of its entity; status and waitset are told of at different moments | the listener is stable under a callback, no lost wake-up, no callback after deletion |
| discovery (`q_ddsi_discovery.c`) | announcements of participants and endpoints | duplicate, late and out-of-order announcements | each proxy once, removed completely |
| timed events (`q_xevent.c`) | heap, non-timed queue with limits | deletion of an event against its execution | at most one execution after deletion is requested |
| security (`ddsi_handshake.c`, ...) | handshake state machine, crypto handles | retransmission, both sides starting | both ends finish or fail together |
| type library, serialisation, transports, configuration, IDL compiler, tools, supervision additions | | encoding, I/O, start-up, code generation | not modelled, see section 8 |

`PROJECT.json` lists the same parts with their sources and, under `hazards`, each
place where the code is exposed to an interleaving, an ordering, a limit or a
failure that a test would hardly reach, with the properties that cover it.

## 2. Plan

Done, in this order, the most important first:

1. `Reclaim`, `Gc`, `Gc_proofs`: everything else relies on it.
2. `Whc`: what a writer keeps.
3. `ReorderAdmin` (pure operators) and `Reorder` (under an unreliable network).
4. `Endpoints`, `ProxyWriter`, `ReliableWriter` and their composition `Reliable`;
   `ProxyWriter` uses `ReorderAdmin` for its administrations.
5. `Handles`: deletion of entities.
6. `KeyMap` and `Tkmap`: the instance map, which refines a map from keys to
   instances; and `ProxyLease`: liveliness and lifecycle of a proxy participant with
   its writers. Both use what `Reclaim` promises of the collector.
7. `Throttle`: a blocked write, acknowledgements, timeout, linger and deletion of the
   writer, with liveness.
8. `Listener`: status, listeners and a waitset, against deletion.
9. `Tkmap_proofs`, `Listener_proofs`, `Throttle_proofs`, `ProxyLease_proofs`,
   `Reorder_proofs`, `Whc_proofs` and `Handles_proofs`: theorems about these seven.

Next:

10. `Defrag` and `Dqueue`, between the network and `Reorder`.
11. Acknack and heartbeat timing with a network that really loses messages, for
   eventual delivery.
12. Conditions and the two data statuses in `Listener`; writers and several topics in
   `Handles`.
13. `Rhc`; discovery; the handshake.

Theorems worth proving next: `DeletedOnce` of `Handles` for scenarios that leave out the
faults of section 6; `AckedMeansReceived` of `Reliable`, which can use the effects of
`ReorderRsample` and `ReorderGap` as `Reorder_proofs` states them.

## 3. Modules and how they correspond to the code

`PROJECT.json` gives the source lines of every definition. Definitions whose comment
begins with "Fault:", or that have the name of another one with a suffix, are wrong
variants of the definition after them; no specification uses them, they serve to show that
the properties can fail.

### Gc (and Reclaim)

`vtime` of a thread is `time` (modulo `TimeMod`) and `nest`; `gv` is its domain.
`level` is a ghost: the domains of the sections the thread is in. A step is one atomic
access or one critical section, so that `threads_vtime_gather_for_wait` is one step
for each load. `ivs[r][t]` is the snapshot of request `r` for thread `t`.
The gc thread is a thread like any other while it runs a callback. Objects in
`TwoPhase` are requeued once by their callback, as writers and proxies are. Start-up
and shutdown follow `rtps_start` and `rtps_stop`: drain first, then free; because
of that order, the wait in `gcreq_queue_free` for older requests never happens, and
two of its states are unreachable.
Look-up and unlinking of an object stand for the entity index.
`Reclaim` is the promise: an object is freed only when no thread refers to it.

### Whc

`whc` is the cache, `written` and `settled` remember what was written and what all
readers have acknowledged. One action per operation of the interface, with the writer
actions around it (`Write` is `insert_sample_in_whc`, `AckNack` the part of
`handle_AckNack` that removes samples, `AddConnection`/`DropConnection` the match).
The QoS is chosen in `Init`. The linked list of samples is the order of their numbers;
the deferred free list is freed at once; `prune_seq` and the deadline list, which has
the same instances as the index, are left out; so is
`whc_default_downgrade_to_volatile`, which nothing calls. A sample with a lifespan may
expire at any moment; disposes and unregisters never do. The two passes of
`whc_default_remove_acked_messages_full` over the acknowledged numbers are modelled by
the set of samples they meet. The second one looks its first sample up
(`dds_whc.c:1071`) before `maxseq_node` has been brought up to date after the first pass,
so that in a debug build the assertion in `find_nextseq_intv` (622) may fail there; the
pointer has no part in the result, so the end state is that of the model.

### ReorderAdmin, Reorder

`ReorderAdmin` translates `nn_reorder_rsample`, `nn_reorder_gap`,
`nn_reorder_drop_upto` and `nn_reorder_nackmap` as operators from an administration to
the one the function leaves. The memory of a tree node is identified with the chain
element in whose receive buffer it was allocated. `Reorder` feeds one administration
with samples and gaps in any order.

### ProxyWriter, ReliableWriter, Reliable

`ProxyWriter` has the handlers of the receiving process (`handle_regular`,
`handle_Heartbeat`, `handle_Gap`, the delivery thread, connecting and disconnecting
readers); `ReliableWriter` those of the sending one (`write_sample`, heartbeats,
`handle_AckNack` with retransmission and gaps, connecting). `Reliable` composes them:
messages sent stay in a set and may be received at any later time, any number of
times or never, which is loss, duplication and reordering at once. `join`, `got`,
`twice`, `replaced` and `behind` are history for the properties. A reader is in `behind`
once its own administration has waited for a lower number than the primary one of the
proxy writer although the code takes the two to be in step, the fault that section 6
begins with under "Reliable protocol". `setUp` is chosen in `Init` from `SetUps`: the readers, their
QoS and that of the writer, which readers the writer has matched before it writes
(`early`), whether readers may leave and the queue may fill up, and the bounds
`samples` and `maxAcks` (how many different AckNacks are sent). Left out: the timing, counts
and suppression of acknacks and heartbeats (one may be sent at any moment), the limit
on retransmission bursts, fragments, content filters, late acknowledgement mode,
shared memory, lease renewal. Data may be received once transmitted; a retransmit is
indistinguishable from a delayed original. The delivery queue is shared with other
proxy writers, so with `mayFill` it may be full at any moment.

### Handles

`hdl[e]` is the word `cnt_flags` and whether the handle is in the table; `stack[t]`
the nested calls of `dds_delete_impl` or the operation thread `t` is in, with their
locals; `mutex[e]` is the owner of `m_mutex` where it is held across steps. Condition
variables are represented by the threads that wait on them. `how` is
`enum delete_impl_state`. Left out: listeners and observers, built-in topics, writers,
readers created directly in a participant. The scenarios (which entities exist, which
are implicit, which the application may delete) are constants; section 6 says which
ones the passing run leaves out.

### Tkmap (and KeyMap)

`KeyMap` is what the rest of the code may assume of the instance map: a key is bound
to at most one instance while anybody has a reference to it, a look-up yields that
one or makes a new one, and the binding ends with the last reference. `Tkmap` has every
atomic operation of `ddsi_tkmap.c` as a step: the lock-free look-up, the increment
that may come after the deletion mark, its retraction, the wait for a removal under
`m_lock`, the compare-and-swap of the last unreference, removal, broadcast and the
request to the collector. An instance counts as bound until the mark is set, however
late it leaves the table: this is the refinement mapping. `find_by_id` finds an
instance by its number and then looks its key up again; if the instance goes away in
between, it may return a newer instance of the same key that has another number.
`KeyMap` allows it.

### ProxyLease

Three threads: `recv` renews leases without locks, `disc` creates and deletes proxy
writers and withdraws the participant, `gc` handles expiry, takes away liveliness and
frees memory. `minl` and `pheap` are `minl_auto`/`minl_man` and the two heaps of leases
in the proxy participant; `heap` is the global one. A lease has the name of the entity it
belongs to, its clones have names of their own. Times are relative to now, so that the
state space is finite without a bound on time. The heaps in the participant compare
durations only (`compare_lease_tdur`), so of several equally short leases any one can be the
minimum, depending on what was inserted and deleted before: `top` is the one that
`ddsrt_fibheap_min` returns, and every change of the heap chooses it among the shortest
(`MinLeases`). As in the code, the clone is replaced when that lease is another one than
before, by one that ends after the difference of the two durations, which is at once if
they are equal. A writer's liveliness is automatic,
manual by participant, or manual by topic. Left out: leases of infinite duration,
dependence on a privileged participant, the leases of local writers.

### Throttle

One writer from the API to its DDSI object. `thr[t]` is the call of an application
thread (`dds_write`, `dds_wait_for_acks`, `dds_delete`) with its place, how often it
is awake and its pin; `svc` are the receive, discovery and timed-event threads; `gcq` is
the collector's queue with the threads each request waits for. Every sample has size
one; `WhcLow` and `HighMark` stand for the water marks. Retransmission itself is left out:
`rexmit` is the flag that lowers the high mark. `rtps_keepgoing` is left out too; it ends a blocked
write when the domain stops (`q_transmit.c:1087`): entities are gone by then.

### Listener

One status of one reader. `thr[t]` is the call or event thread `t` is in; `lock` is the
owner of `m_observers_lock` where it is held across steps, `sleepers` are the threads
on its condition variable, `dozers` those in the wait of the waitset. The status and
its mask are an atomic word that the code also reads and writes without that lock, so the
load of a pending status and the call for it are two steps. A callback may call
`dds_get_*_status` on its own reader. `PushBegin` to `PushLeave` is `dds_set_listener` on
the parent. `unsignalled` is history: a status is visible to waitsets and none was told.
A callback does not delete its own reader, since `dds_delete` would wait for it. Left out:
DATA_AVAILABLE and DATA_ON_READERS, which have a path of their own, conditions, a second
status or attached entity, the deletion of the waitset.

## 4. Runs

| Run | Instance | States | Shows |
|---|---|---|---|
| `gc` | gc thread and 1 application thread, 1 two-phase object, 2 domains, clocks modulo 6 starting just before the wrap, 2 nested sections | 45 k | no pointer to freed memory, `Reclaim` implemented, request count exact, nothing left after the join; what is unlinked is freed; drain and shutdown end |
| `whc` | 10 QoS settings, 4 samples (data, unregister, empty), 2 instances, 1 reader that may be reliable or not and turn unresponsive | 1.5 M | all invariants of the cache, with expiry in between |
| `reorder` | 6 numbers, 6 parameter sets, gaps of any range, a full queue at any time | 40 k | tree, count, order, memory, eviction, nothing passed over with room |
| `reliable` | 2 readers and 2 samples: both transient-local (KEEP_ALL with direct delivery, or KEEP_LAST 1 with 2 instances and the delivery thread), or a volatile and a best-effort one (both ways); and, with readers that may leave, 1 reader and 2 samples or 2 readers and 1 sample; a delivery queue that may be full | 0.75 M | acknowledged means received and late joiners get the history, but for readers that fall behind (section 6); with direct delivery nothing is stored twice for a reliable reader |
| `handles` | 3 threads, 3 calls, participant, topic, subscriber, 2 readers, three scenarios | 0.15 M | one deleter, no use after free, counts exact, nothing orphaned, every call returns |
| `tkmap` | 2 threads, 1 cache slot, 1 key, 3 instances | 0.12 M | counts exact, no use after free, `KeyMap` implemented, every look-up returns |
| `lease` | 1 writer of any liveliness kind, with a lease shorter or longer than the participant's or equal to it, 4 clones | 0.5 M | the participant is watched through a clone of its shortest lease, freed clean, and forgotten when silent |
| `throttle` | 2 threads, 4 calls, 3 samples, 1 reader, blocking times finite and infinite | 0.4 M | no use after free, no lost wake-up, every call returns |
| `listener` | 2 application and 2 middleware threads, 4 calls, 3 events, 2 callbacks, one of them with reset_on_invoke | 3.4 M | the listener is stable and current; a wait misses a status in two known ways only |
| `reliable_gap_for_all`, `lease_renew_freed`, `throttle_delete_blocked` | | | violations, section 6 |

Why the bounds are enough. In `Gc` the algorithm looks at one request and one thread
at a time, and the modulus must only let a comparison meet a wrap; the proofs remove
the bounds for safety. In `Whc` four samples fill a history of depth one to three,
overwrite and prune it, and split an interval twice. Disposes are left out of that run, since a
dispose with a lifespan runs into the faults of section 6; the proofs have them.
In `Reorder` six numbers allow three
separate intervals, merging of two by a third, and eviction with more than one candidate.
In `Reliable` what two readers add is the sharing of one position, and what two samples
add is an order; both together are the smallest case in which two administrations of one
proxy writer can hold different samples (`SharedSetUps`). Its states are
multiplied by every difference between the AckNacks that are under way, so there at most
one or two different ones are sent (`maxAcks`), and the readers are known to the writer from
the start and do not leave; with one reader or one sample (`LeavingSetUps`) readers come and
go at both ends, and AckNacks are unbounded except with two transient-local readers.
In `Handles` three threads are a deleter from above, one from below and a user in between. In `Tkmap` three instances are one that goes away, one that takes its
place while a finder is still in the first, and a third; different keys meet only in
the lock. In `ProxyLease` four clones let the shortest lease change from the
participant's to the writer's and back; `MaxRetired` keeps a new change from starting
before the collector is done with the last, which is what bounds the clones. Of equal
durations the run has only a writer's and the participant's, and there the participant's
lease stays the minimum; the theorems have any, and before they were proved TLC checked the
same invariants with two writers and the participant all equal (0.37 M states). In
`Throttle` two threads are a writer or waiter and a deleter, or two writers of which one has
the mutex. In `Listener` three events are one that leaves the status set, one in a
callback and one that waits for it; its threads of a kind are interchangeable, so
symmetry is sound for its invariants.

Deadlock is not checked where the system may legitimately stop: after shutdown, when
the bound on samples or calls is used up, or when nothing is left to send. `reorder`,
`tkmap` and `lease` check it.

## 5. Fairness

- `gc` (`FairSpec`): a thread inside a call of `q_gc.c` completes it; every section
  in which a thread is awake ends, also an outer one around others that come and go
  (strong fairness, as nested sections disable the end of the outer one meanwhile); the
  gc thread keeps running, as it only ever waits with a timeout; the thread that stops the
  domain goes on when it can. The code's sections are bounded pieces of work; that they
  end is what `thread_state_awake` asks of its callers. (`write_hb_liveliness` in
  `q_transmit.c` returns at 737 and 746 without going to sleep again; there a section
  does not end.)
- `handles` (`Spec`): a thread in a call goes on unless it waits for a mutex, a pin or a child.
- `tkmap` (`FairSpec`): a thread inside a function of `ddsi_tkmap.c` goes on. Nobody is
  obliged to call, to drop a reference or to collect.
- `lease` (`FairSpec`): time passes, and each of the three threads goes on with what it
  has begun; the gc thread comes to the heap of leases, as its timed wait makes it. The
  remote participant need not send anything and discovery need not hear of it.
- `throttle`, `throttle_delete_blocked` (`FairSpec`): a thread in a call goes on, timeouts and
  the linger time end, a message in hand is handled, the collector runs. No reader has to
  answer or to leave.
- All other runs check safety and assume no fairness.

## 6. Where code and comments disagree

Three have a run whose counterexample is the scenario.

- `reliable_gap_for_all`: a Gap for a volatile reader that joined late is applied
  to the other readers of the process as well (`q_receive.c:1834`).
- `lease_renew_freed`: `proxy_participant_replace_minl` makes the request to the collector
  before it stores the new pointer (`ddsi_proxy_participant.c:54`); a thread that wakes
  in between loads the old lease and is not waited for.
- `throttle_delete_blocked`: `dds_delete` locks `m_mutex` (`dds_entity.c:428`) before it
  interrupts the writer (453), and a blocked `dds_write` has that mutex
  (`dds_write.c:53`): the interrupt, meant to "unblock throttle_writer", never reaches one.

The following were found with TLC, by asking the opposite of the same modules (for
some with another instance), and have no run of their own.

History cache and reordering:

- with a lifespan, KEEP_ALL and volatile, an expiry between two disposes leaves two
  intervals where `dds_whc.c:929` asserts there is one, and acknowledging the first
  dispose drops the second;
- with a lifespan, disposes and a KEEP_LAST history deeper than the transient-local depth, an
  instance can keep one acknowledged sample more than that depth: a dispose, which never
  expires, is acknowledged, a newer sample expires and leaves the head slot empty, and the
  next write without readers prunes that empty slot instead of the dispose
  (`dds_whc.c:1324`, the hypothesis `LifespanNoDispose` of section 7);
- with a lifespan and a dispose the head slot of the history, asserted to be in use in
  `dds_whc.c:655`, may be empty; a late acknack can be below `max_drop_seq`, which
  `dds_whc.c:1134` asserts it is not (`q_receive.c:905-921`);
- eviction assumes that the last element of an interval has the number `maxp1 - 1`
  (`q_radmin.c:1894`); after a gap has extended the interval it does not, and the sample
  evicted stays claimed: it is neither delivered nor requested again.

Reliable protocol:

- "A transient-local reader should always get all historical data"
  (`ddsi_entity_match.c:1016`). Sample 2 arrives before sample 1 and is held back; a second
  reader joins and, both administrations waiting for 1, counts as in step with the first
  one (`q_receive.c:102`), although its own does not have sample 2. Sample 1 moves the
  primary administration to 3 and that of the reader to 2. The next Heartbeat compares the
  position of the primary one with the end of the historical data (1394) and declares the
  reader in sync: it never gets sample 2, which is acknowledged for it. TLC shows this
  within seconds when `\ behind` is dropped from `HistoryComplete`;
- with the delivery thread a reader that is catching up can be given a sample twice
  (`q_receive.c:2136`);
- with direct delivery this happens to a best-effort reader that shares the proxy writer
  with a reliable one: its own administration takes samples in increasing order and passes
  over holes, so it delivers sample 2 and the reader is in sync (`q_receive.c:2490-2516`);
  sample 1 then makes the primary one deliver 1 and 2 to all that are in sync (2460).
  `StoredOnce` is about reliable readers;
- a sample for which the delivery queue is full is dropped by the administration of a
  transient-local reader that is catching up (`q_receive.c:2490`) while the primary one
  takes it. The reader has fallen behind (`behind`), is declared in sync by the same
  comparison, and the sample is acknowledged for it.

`AckedMeansReceived` and `HistoryComplete` leave out the readers in `behind`, and what the
runs show is that there is no other way to lose a sample.

Collector and handles:

- a thread that is awake in one domain and enters another has its `gv` overwritten
  (`q_thread.h:205`), and the collector of the first domain no longer waits for it. The
  constant `CrossDomain` allows it; the run and the theorems have it FALSE;
- `dds_handle_drop_childref_and_pin` pins an implicit parent before it is closed
  (`dds_handles.c:416`), so that a second thread can begin to delete it; each then waits
  for the other's pin;
- `dds_delete` of a topic while `dds_create_reader` has it pinned but holds no reference yet
  (`dds_reader.c:723`) frees the topic under the new reader;
- a second delete of a deferred topic, by the application or by the participant, at the
  moment its last reader goes, frees it before `dds_entity_drop_ref` reads its handle
  (`dds_entity.c:125`), and delete_children's assertion (`dds_entity.c:338`) does not
  allow the `ALREADY_DELETED` such a topic returns;
- `delete_children` does not test its condition again after waiting (`dds_entity.c:345`).

The scenarios of `handles` therefore do not delete a topic while a reader of it is
created, the participant together with a topic, or an implicit subscriber together with its
readers.

Proxies and leases:

- "A parallel endpoint creation may or may not succeed, and if it succeeds it will be
  deleted along with the proxy participant" (`ddsi_proxy_participant.c:563`): a proxy
  writer that has its reference to the participant but is not in the index yet when the
  deletion looks up the endpoints is not found, goes into the index afterwards, and stays
  there with the participant until discovery names it;
- the lease of a MANUAL_BY_TOPIC writer is unregistered without the writer's lock
  (`ddsi_proxy_endpoint.c:447`); a revival at the same time puts it back on the heap, where
  it is when it is freed;
- when the shortest lease goes away because its writer is deleted, the next one ends after
  the difference of the two durations from now (`ddsi_proxy_participant.c:279`), a formula
  meant for expiry: a participant in good health may expire early. If the durations are equal,
  the ordinary case, the difference is zero and the new clone ends at once unless a message
  renews it before the gc thread looks; the manual says that a lease expires "when nothing has
  been heard from a participant for the lease duration"
  (`docs/manual/config/cyclonedds_specifics.rst:76-78`).

Writers:

- `dds_write` is awake twice (`dds_write.c:592`, 308), so that the sleep of `throttle_writer`
  leaves it awake and the collector stands still in the whole domain, against "We now allow
  GC while blocked on a full WHC" (`ddsi_endpoint.c:1086`);
- the comment above `throttle_writer` (`q_transmit.c:1017-1034`) explains why the thread
  must stay awake during the wait; the code puts it to sleep. It is safe because of the
  pin that the API holds (`NoUseAfterFree` of `Throttle`);
- through the API a writer is never deleted while a write is throttled (`ThrottledAlone`), so
  `gc_delete_writer_throttlewait` has no caller; and a blocked write waits for its whole
  blocking time, where `q_init.c:755` counts on it checking every few seconds;
- an AckNack in hand when its reader is deleted marks the reader as responding
  again (`q_receive.c:904`); `Throttle` has this, and it does no harm.

Listeners and waitsets:

- `pushdown_listener` lowers `m_cb_pending_count` without a broadcast (`dds_entity.c:1022`).
  `dds_set_listener`, `dds_set_status_mask` or `dds_delete` of the child that went to sleep
  during its callback sleeps on until some later event ends with a broadcast, which may be
  never;
- it also calls the listener without taking `m_cb_count`, so that an event can call it at the
  same time, against "Serialize listener invocations" (`dds_reader.c:395`);
- `dds_set_status_mask` waits for callbacks with `m_mutex` locked (`dds_entity.c:1160`); a
  callback that calls `dds_get_*_status` on its reader needs that mutex, and both wait for
  ever;
- enabling a status that is set already tells no waitset (`dds_entity.c:1171`), and the
  result of calling a listener for a pending status, which may have set a status again that
  had been taken meanwhile, is thrown away (`dds_reader.c:452-468`): a wait in progress does
  not end. These are the two exceptions in `NoMissedTrigger`.

## 7. Proofs

`Gc_proofs` proves, for any set of threads, objects and domains, any nesting depth and
any modulus of the clocks above two, assuming `~CrossDomain`:

- `TypeCorrect`: `Spec => []TypeOK`;
- `Safe`: `Spec => []NoUseAfterFree`;
- `Implements`: `Spec => ImplementsReclaim`, the refinement of `Reclaim`.

`NoUseAfterFree` is not inductive. The invariant `IInv` adds to the types (`Typed`,
which also says that a thread's nested sections are all in the domain of its `gv`, and
where the gc thread is awake):

- `OnePlace`: the request of an unlinked object is in exactly one place, with
  the thread that makes it, in the queue or in the hand of the gc thread;
- `Checked`: when a callback is about to run, its request waits for nobody;
- `Unvisited`: a gather has recorded nothing for threads it has not visited;
- `Holders`: only a thread awake in the domain has pointers into it;
- `Protected`: if a thread has a pointer to an unlinked object, the request for
  that object is going to wait for it: the thread is not visited yet, or its
  present clock value has been loaded, or is recorded.

`Protected` is the core. A thread's clock changes only when it drops its pointers, so a
recorded value equal to the present one means that the request still waits, and no
property of the modular comparison other than irreflexivity is used: this is
why the width of the clock does not matter for safety. It does for liveness. The step
from `IInv` to `IInv'` is split by action, and `Implements` maps freeing by the callback to
`Reclaim!Free` with `Protected` and `Checked`, everything else to acquire, release,
retire or a stutter.

Two theorems are about the bookkeeping, under the same assumption:

- `CountExact`: `Spec => []CountsOutstanding`, inductive together with `IInv`: each
  action moves one request between the places the sum counts;
- `CleanShutdown`: `Spec => []ShutdownClean`. It needs two more invariants:
  `Somewhere` (the request of an object that is unlinked and not freed is being made,
  queued or in hand, the converse of `OnePlace`) and `Stopping` (once the drain has begun
  nothing is linked or being made; the gc thread is done only after `terminate` with a
  count of zero). With an exact count of zero there is no request, so there is no object
  left that has not been freed.

`Tkmap_proofs` proves for any set of threads, caches, keys and instances (finite numbers of
threads and caches, since references are counted):

- `TypeCorrect`, `RefcCorrect` (`[]RefcExact`), `Safe` (`[]NoUseAfterFree`) and
  `Implements` (`Spec => ImplementsKeyMap`).

The invariant `Inv` adds to the types and `RefcExact`: `Locals` (which local variables are
in use at which place, and that only awake threads are in a call), `Releases` (a reference is
dropped by one thread at a time and there until then), `Protections` (an instance a
thread has found is linked, removed, or retired with the collector waiting for that
thread), `Additions` (an instance being added is its creator's alone), `Deletions` (the
thread that set the mark is the only one to remove and retire) and `Table` (one linked
instance for a key). `RefcExact` is kept because an increment after the mark puts the thread
among the late finders in the same step. In the refinement, the compare-and-swap that
sets the mark is the step that ends the binding; the removal from the table is a stutter.

`Listener_proofs` proves for any finite sets of application and event threads, any set
of callbacks and any bounds: `TypeCorrect`, `ListenersStable` (`[]ListenerStable`) and
`TriggersNotMissed` (`[]NoMissedTrigger`). `Inv` has `PendingExact` (`m_cb_pending_count` is the
number of threads between wanting a callback and having returned from it: this is what
makes the wait of `dds_set_listener` sufficient, because a running callback keeps the count above
zero), `OneTurn` (`m_cb_count` belongs to one thread), `Inherited` (with the places a
push-down can be in), `Deletion` (one deleter, and pins and the collector keep the others
away) and `Told`, which is `NoMissedTrigger` without the sleeper.

`Throttle_proofs` proves for any finite set of application threads, any readers, any water
marks with `WhcLow <= HighMark` and any bounds: `TypeCorrect`, `Safe` (`[]NoUseAfterFree`),
`WakeupsKept` (`[]NoLostWakeup`) and `Alone` (`[]ThrottledAlone`). `Inv` has `Locked` (who holds
`m_mutex`, hence at most one write is in `throttle_writer`), `Counted` (`throttling` is
the number of threads in it), `Asked` (a wait asks for a number that was written),
`Deletion` (there is one deleter, the state of the writer follows its progress, and the
pins keep calls that began earlier out of the way) and `Collection` (one request for the
writer, and it waits for every thread that uses it). `NoLostWakeup` is inductive with these:
whatever lets a waiter continue is followed by the broadcast in the same critical
section. The least acknowledged number of the readers is a `CHOOSE` over a set that may be
infinite; the lemma `LeastExists` gets its minimum from the well-foundedness of the numbers.

`ProxyLease_proofs` proves for any set of writers with any liveliness kinds and lease
durations, equal or different, any number of clones and any bounds: `MinlCorrect` (`[]MinlIsMin`), `Monitored`
(`[]AlwaysMonitored`) and `CleanFree` (`[]FreeClean`). Besides types, places and locks, `Inv` has
these parts. `Writer` and `Reliance`: where a writer is in its life, and what a thread relies on
for the writer it has in hand while others work on it; for example a writer is handed to the
collector by one thread only, it is not alive then, and nobody who holds its lock is about
to revive it. `Listed`: a writer is alive exactly if its lease is in the right heap of the
participant, except while it is being created. `Participant`: it is deleted after it has left
the index and freed with the last reference. `Shortest`: `minl_auto` and `minl_man` are live
clones of the shortest leases, or the one thread in `proxy_participant_replace_minl` (it
holds the participant's lock) has in its hands the clone that will be; a clone with the
collector is nobody's `minl`, except that this thread still has to overwrite the pointer.
`Supervised` is `AlwaysMonitored` for the steps in between: when the gc thread takes the
liveliness of the writer whose lease expired, that lease was the shortest, so the clone is
replaced. When the participant is freed no writer can be alive, hence its heap has only its
own lease (`LastReference`). `Tops` says that the minimum the heap has at its top is one of its
shortest leases; with it, that a lease which expires is the shortest does not need
durations to differ.

`Reorder_proofs` proves for any highest sequence number, any parameters of `nn_reorder_new`
(mode, limit, late acknowledgement) and any order of samples, duplicates, gaps, heartbeats
and drops: `TreeIsWellFormed` (`[]TreeWellFormed`), `DeliveryInOrder` (`[]DeliveredInOrder`),
`NoSilentLoss` (`[]NothingSkippedWithRoom`) and `EvictionPolicy` (the action property
`EvictsHighest`). The argument has three layers.

- What the data operators compute. The count of elements (`MapThenSumSet`), the joined
  chains (`ConcatChains`) and the delivered numbers (`SampleSeqs`) are recursive. The
  library's induction theorems have an operator as parameter, which the provers cannot
  instantiate; `SetInduction` states induction of a *set* of numbers, from the
  well-foundedness of the numbers, and with it the lemmas show that each recursion has a
  solution (`FoldExists`, `CatExists`, `SelExists`) and what it yields: a sum that does not
  depend on the order of counting (`TotalRemove`), one sorted chain with all elements
  (`ConcatTree`, `ConcatElems`), the samples in increasing order (`SampleSeqsPicks`).
- What each branch does to the tree. For a sample: deliver alone or joined with the first
  interval, extend the last interval, begin a new one, extend a predecessor, close a hole,
  go in front of a successor, be inserted alone, each with or without eviction. For a gap:
  move `next_seq`, be stored, or coalesce the intervals it touches. `RsampleEffect` and
  `GapEffect` sum all of them up in one relation, `Effect`: the result is well-formed, what is
  delivered is a sorted chain between the old and the new `next_seq`, only the numbers of
  the sample or gap are newly accounted for, and every element stored before is still
  there, delivered, or was evicted by a full administration as the highest.
- An operation with that effect keeps the invariant `Inv`: `Good` (the tree and its counters),
  `InOrder` (delivered numbers increase and lie below `next_seq`), `Heard` (nothing beyond
  the last known number is accounted for) and `Kept` (with room, what is accounted for was
  delivered, stored or declared lost). `Kept` needs `RoomLeft`: an administration with as much
  room as there are numbers is never full, because a sorted chain is no longer than its range.

`Whc_proofs` proves for any numbers, keys, readers, sample sizes and QoS settings:
`IntervalsAreExact` (`[]IntervalsExact`), `UnackedBytesAreExact` (`[]UnackedBytesExact`),
`UnackedStays` (`[]UnackedKept`), `TransientLocalStays` (`[]TransientLocalKept`), `FreedOnce`
(`[]ContentsFreedOnce`) and `HistoryIsBounded` (`[]HistoryBounded`): all that the run `whc`
checks. Two hypotheses are stated with the theorems. `LifespanIndexed`: a QoS with a
lifespan also has a KEEP_LAST history, a deadline or transient-local durability; without
one the fault at `dds_whc.c:929` (section 6) refutes the theorems. `LifespanNoDispose`, for
`HistoryIsBounded` only, leaves out the other fault of section 6. TLC has the
counterexamples to both, and the settings of the run satisfy both. The argument has three layers.

- The operations on one cache. `Good` says that the intervals are the maximal runs of the
  numbers present, that index and samples refer to each other (`Linked`), and that the counts
  are sums over the samples (`Counted`). `Hist` says that the slots of an instance are
  sorted by age from the head (`Ages`, `Ordered`) and that a sample not in any slot was
  pushed out by newer ones (`Pushed`). Each operation of the code has a predicate of what it
  does, and lemmas that `DeleteOne`, `InsertSeq`, `Index`, `Detach`, `RemoveAckedNoidx` and so on
  satisfy it and that it keeps `Good` and `Hist`: `Deleted`, `Inserted`, `Placed`, `Reindexed`,
  `Acknowledged`, `Removal`, `Dropped`. Sums over the cache and the walk that deletes a set
  of samples are recursive functions over finite sets; `SubsetInduction` is the
  induction that shows what they compute.
- The writer with its readers. The inductive invariant `FullInv` is the
  acknowledgement state (`Acks`), the cache up to the last number and the acknowledged mark
  (`CacheOk`: `Good`, `Hist`, a sample is unacknowledged exactly if it is beyond the mark, and then
  beyond `max_drop_seq`; and without an index, deadline or durability the cache is one run that
  ends at the last number, `Single`), `UnackedKept`, `TransientLocalKept`, the borrowed samples
  (`Loans`) and `ContentsFreedOnce`. `TransientLocalKept` is kept
  because the age order of the slots makes what is pruned older than the depth.
- `Bounded` is added for `HistoryIsBounded`: acknowledged samples are in the index, at most
  as many as the depth, and while an instance has a sample beyond the depth its newest one is
  not acknowledged; when it is, the older one is pruned (`Waiting`).

`Handles_proofs` proves for any number of threads, any entities with any parents and topics,
any implicit ones among them, and any calls of the application, the scenarios that the run
leaves out included:

- `CountsAreExact`: `Spec => []CountsExact`, which the run `handles` checks on its scenarios;
- `PinsProtect`: `Spec => []PinnedIsAlive`, no entity is freed while a call has it pinned;
- `DeletedUnpinned`: `Spec => []HandleDeletedUnpinned`, at `dds_handle_delete` the handle is
  in the table, it is closed, and the pin of the deleting call is the only one.

The stacks of all threads are turned into one function `C` from threads and depths to calls
(`Calls`), so that an action changes the call in one place, or two when it makes a call. The
inductive invariant `Inv` says of it and of the entities (`Sound`):

- `PinnedAlive`, `Alone`: what is pinned is alive, and a call that is past
  `dds_handle_close_wait` is the only one that has its entity pinned. `Alone` stays true because
  the handle is closed by then (`Shut`), and the only pin a closed handle could still get, that of
  a child for its implicit parent, is taken only if the handle is not closed;
- `Listed`, `Existing`: a handle is in the table until its deletion, and what exists has a
  parent and a topic that have existed;
- `Fresh`, `Kin`: an entity about to be created does not exist, and the children of an entity
  are the ones that were registered and have not left;
- `RefsExact`, `PinsExact`: the two counts, with sets of calls in place of frames.

That at most one operation at a time creates a child of an entity comes from the mutexes:
`Locks` says who holds which, `SoleLock` that this makes the creator the only one, and `Shape`
that only the topmost call of a thread works. What can happen to the entities is
proved once for each case (`PinnedForDelete`, `HandleDeleted`, `ParentLeft`, `ParentClosed`,
`TopicDropped`, `EntityFreed`, `UsePin`, `Created`, `Registered`); every set that is counted changes
in one element (`CardStep`), so the counts need no induction. A broadcast only moves waiting
calls on (`AwokenWorld`). Each action then is such a case and a change of one stack.

Each of these invariants was checked by TLC on the bounds of the component's run before it
was proved. That showed one fault of a model: with concurrent writes `seq` could exceed
`MaxSeq`, and then a wait for all acknowledgements returned too early; the guard of
`WriteBegin` now counts the writes under way.

Assumed of constants, besides types, are only these: names of different things are
different, counted sets are finite, in `Handles` no entity is its own parent and the parent
and topic of one that exists at first exist too, for `Gc` `~CrossDomain`, and for `Whc` `LifespanIndexed` and
`LifespanNoDispose`; without these three the theorems are false (section 6).

Only model-checked: liveness (`gc`, `handles`, `tkmap`, `lease`, `throttle`), since fairness and
ENABLED are beyond the prover; three properties of `Handles`; and those of `Reliable`.
`DeletedOnce`, `NoUseAfterFree` and `NoOrphans` of `Handles` are not true of every scenario: the faults
of section 6 refute them, and which scenarios avoid these is not a condition on one
entity. What `Handles_proofs` shows is the part of them that no scenario breaks.
The properties of `Reliable` depend on what two administrations, a queue and two endpoints
know of each other; the inductive invariant for them has not been worked out.

## 8. Not modelled

- Encoding and parsing (CDR, parameter lists, submessages), transports and sockets,
  configuration, the IDL compiler and tools: no concurrency of their own, or I/O.
- Cryptography and certificates.
- Matching by QoS, partition and type: a large predicate without state.
- The runtime library: atomics, mutexes, trees, hash tables and heaps are taken as
  correct; an atomic operation or a critical section is one step.
- What section 2 lists as next.
