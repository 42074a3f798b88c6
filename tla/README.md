# A TLA+ verification of gogoboot

gogoboot is a boot ROM for small 68K machines (Q40, Kiss-68030, Mini-68K): it
sizes the memory, brings up disks and an NE2000 Ethernet card, gets an address
by DHCP, copies files over TFTP, and loads and starts an operating system from
a command line or a script. It is one thread: the command loop and every
operation that waits call `net_pump()` again and again. Only the timer tick is
an interrupt. What makes it hard to get right is therefore not threads but
time, the network and the disk: counters that wrap, timers that fire late,
messages that are lost, repeated, delayed or meant for someone else, callbacks
that change the structures that `net_pump()` walks, and a disk that is written
one sector at a time by a machine that is switched off when its user is done.

Contents: [Parts](#1-the-system-and-its-parts), [Plan](#2-plan),
[Modules](#3-modules-and-code), [Runs](#4-what-the-runs-check),
[Proofs](#5-what-is-proved), [Model-checked only](#6-model-checked-only),
[Not modelled](#7-not-modelled).

## 1. The system and its parts

| part | code | state | operations |
|---|---|---|---|
| clock and timers | `core/timer.c`, `include/timers.h`, `q40/vectors.s` | `timer_ticks` | interrupt, `set_timer_sec/ms/ticks`, `timer_expired` |
| packet sinks and dispatch | `net/net.c`, `net/packet.c` | sorted list of sinks; per sink a packet queue and a timer; transmit queue | `net_pump`, `net_add/remove_packet_sink`, `net_eth_push/pull`, `net_tx`, packet allocation |
| ARP | `net/arp.c`, `net/net.c` | list of cache entries, list of packets waiting for an address | `net_arp_resolve`, `arp_process_packet`, `arp_cache_flush`, `net_arp_resolver_pump` |
| DHCP client | `net/dhcp.c` | `dhcp_state`, the offer globals, retry counters, the interface's address | `dhcp_pump` (a reply), `dhcp_timer`, `dhcp_enter_state` |
| TFTP client | `net/tftp.c`, `cli/cli_tftp.c` | one `tftp_transfer_t` while a transfer runs: last block and acknowledgement, window, queue of data packets, flags | `tftp_transfer`, `tftp_client_packet_received`, `tftp_client_timer_expired` |
| ICMP | `net/icmp.c` | token counter and its timer | echo, throttle |
| IPv4, UDP, checksums | `net/ipv4.c`, `net/ipcsum.c` | none | building, parsing, checking |
| Ethernet driver | `net/ne2000.c` | two transmit buffers, receive ring, in-flight flags | `eth_pump`, `eth_attempt_tx`, overflow recovery |
| heap | `lib/tinyalloc.c` | three block lists over one region | allocate, free, compact |
| loader | `core/loader.c` | bounce buffer, load addresses | ELF, Linux, m68k images |
| memory | `core/mem.c`, `core/except.c` | RAM size | sizing, range checks, bus error probes |
| disks | `core/ide.c`, `q40/ide.c`, `ecb/ppide.c` | drive list | sector transfer |
| FAT file system | `fatfs/ff.c`, `fatfs/ffglue.c` | one sector window, free count, next cluster to try; per open file a buffer, size and cluster | `f_open`, `f_write`, `f_close`, `f_unlink`, `f_rename`, `f_mkdir`, `f_getfree` |
| command line | `cli/` | line buffer, variable list, script | editing, splitting, executing, scripts, file commands |
| devices and start-up | `core/uart.c`, `*/rtc.c`, `*/hw.c`, `*/startup.s`, `core/boot.c` | the devices' | register I/O |

How they interact: the driver calls `net_eth_push` with each received frame and
`net_eth_pull` for each free transmit buffer. `net_eth_push` queues the packet
at the first sink that matches; `net_pump` later hands it to the sink's
callback and calls the sink's timer callback when its timer has expired. DHCP,
ARP, ICMP and a TFTP transfer are sinks. They send with `net_tx`, which asks
ARP for the next hop and either queues the packet for the driver or leaves it
on the list that `net_arp_resolver_pump` works on. TFTP writes to FatFs, which
reads and writes sectors through the IDE code; the loader reads files the same
way. DHCP and TFTP know about each other only through the interface address.

Hard behaviours, and what makes each part correct:

- *Timers*: a 32-bit clock at 200 Hz wraps after 248 days, and the value 0 of
  `sink->timer` means "off". Correct: a timer fires after its duration and not
  much later, wrap or no wrap.
- *DHCP*: lost and late replies, replies to other clients on the same wire, a
  lease that runs out while renewals are lost. Correct: the interface has an
  address only while a server has leased it; what is renewed is what is used;
  an address is got again after it was lost.
- *TFTP*: windows over a network that loses, repeats and reorders, 16-bit block
  numbers that wrap to 0 or to 1, a disk that fails after data was
  acknowledged, a server that fails in mid-transfer. Correct: the file arrives
  in order, each block once; success is reported only of complete files; every
  transfer ends.
- *ARP*: entries used after they expired, hosts that do not answer, a flush in
  the middle of a resolution. Correct: bindings are not older than a bound, no
  packet waits for ever, a failed host is tried again.
- *Sinks*: the list is changed by the callbacks called while it is walked.
  Correct: it stays sorted and without a cycle, every packet is freed once.
- *Driver*: which of two buffers an event is about, overflow during a
  transmission. Correct: frames leave whole, in order and once (the overflow
  procedure can break the last, section 4).
- *Heap*: splitting and merging blocks with a limited number of descriptors.
  Correct: live blocks are disjoint; free memory is merged; nothing is lost.
- *Memory and loader*: memory that is absent or repeats itself; programs that
  go where gogoboot itself is. Correct: all of the memory and no more is found;
  the image that runs is what the file says; gogoboot is intact until then.
- *FAT*: a function of FatFs changes several sectors, any access can fail, the
  power can go between any two. Correct: what is on the disk makes sense at
  every moment; what was reported done stays done.

## 2. Plan

Written, in this order:

1. `Timers`, `Countdown`, `SinkTimer`: the notion of time all the rest uses.
2. `Dhcp`: the component with the longest-lived state.
3. `FileTransfer` (abstract), `Tftp`, `TftpGet`: the main use of the program.
4. `Arp`.
5. The theorems of `SinkTimer`, `DhcpProofs`, `ArpProofs`.
6. `TftpPut`: the second implementation of `FileTransfer`.
7. `NetStack`: the sinks, the walk over them and the ownership of packets.
8. `Ne2000` below it, and the abstract `Link` it implements.
9. `Checksum`, used by `NetStack`.
10. `Allocator` (abstract) and `TinyAlloc`, which implements it.
11. `Memory` and `Loader`, which uses it.
12. `Window` and `Fat`, which uses it.
13. `NumberTheorems`, `TftpGetProofs`, `TftpPutProofs`, `TinyAllocProofs`.
14. `NetStackProofs`, and the second half of `ArpProofs`.
15. `HardwareProofs`: the timers' theorems and those of `Ne2000`, `Loader` and `Fat`.

To come, in this order:

1. Theorems: `ChainsApart` and `NothingLost` of `Fat`, for which the books of
   `FatFreeCounted` must also say which name each chain belongs to.
2. Files open for reading in `Fat` (`cp` onto itself, the script being run) and
   the loop of `rm` over a pattern.
3. `Ide`: chunks of 256 sectors, the registers and a command abandoned half-way.
4. Algorithms against reference definitions: the splitting of command lines.

## 3. Modules and code

| module | models | how |
|---|---|---|
| `Timers` | `include/timers.h`, `core/timer.c` | operators modulo `Word` (2^32) |
| `Countdown` | abstract | what a sink may expect of its timer |
| `SinkTimer` | timer interrupt, `set_timer_ticks`, the timer test of `net_pump` | `clock`, `timer`, and `idle`, the ticks since the last pump |
| `Dhcp` | `net/dhcp.c` | see below |
| `FileTransfer` | abstract | a copy that grows, and what the user is told of it |
| `Tftp` | block numbers of `net/tftp.c` | shared by both directions |
| `TftpGet` | `tftp_transfer` with `is_put` false | see below |
| `TftpPut` | `tftp_transfer` with `is_put` true | see below |
| `Arp` | `net/arp.c`, `net_tx`, `net_arp_resolver_pump` | see below |
| `Checksum` | `net/ipcsum.c` | operators on sums of words |
| `NetStack` | `net/net.c`, `net/packet.c`, `net/icmp.c` and the callbacks of the other sinks | see below |
| `Link` | abstract | an Ethernet link: frames are lost, not invented, repeated or reordered, and do not stay for ever |
| `Ne2000` | `net/ne2000.c` and the card | see below |
| `Allocator` | abstract | blocks that do not overlap |
| `TinyAlloc` | `lib/tinyalloc.c`, `malloc`, `free`, `realloc` | see below |
| `Memory` | `core/mem.c`, `target_mem_init` | operators |
| `Loader` | `core/loader.c`, `machine_execute` | see below |
| `Window` | the sector buffer of `fatfs/ff.c`, and the disk | one action per access |
| `Fat` | the functions of `fatfs/ff.c` that write, and the commands of `cli/cli_fs.c` that call them | see below |
| `NumberTheorems` | none of the code | arithmetic, inductions and recursive functions over numbers, for the proofs |
| `HardwareProofs` | none of the code | the proofs about `SinkTimer`, `Ne2000`, `Memory`, `Loader`, `Window` and `Fat`, section 5 |
| `DhcpProofs`, `ArpProofs`, `NetStackProofs`, `TftpGetProofs`, `TftpPutProofs`, `TinyAllocProofs` | proofs | section 5 |
| `MC...` | instances for TLC | section 4 |

Each operator that stands right before the definition it varies and is
introduced as a "mutation" is not part of the model: it is a plausible
mistake, and the property named for it in `PROJECT.json` fails when it takes
the definition's place. They show that the properties can fail.

**Time.** `Dhcp` and `Arp` count time in ticks and keep timers as countdowns:
a timer at `d` is decremented by `Tick`, its callback is enabled once it is
negative (`timer_expired` is strict), and `Tick` is disabled at `-Latency`.
This is `Countdown`; `SinkTimer` shows the wrapping words of the program to
implement it. `Latency` bounds the time between two calls of `net_pump`: the
command loop polls continuously, and the longest operations in between are disk
writes. Its value does not matter to the
theorems. The order in which `net_pump` visits sinks, resolver and driver is
not kept: the loop repeats, every order of two steps occurs.

**Dhcp.** `state` is `dhcp_state`; DISCOVER and REQUESTING are passed through
within one call and have no state of their own. `offer` stands for the globals
`dhcp_offer_*` and `dhcp_server_id`: the parser writes them before it knows
whether it wants the packet, and the model does too (`Parsed`, `Abandoned`,
`KeepOffer`). A reply is tried as a refusal first and then as an
acknowledgement, and a reply without a message type passes for either, as in
`process_dhcp_reply`. Addresses are named by the server they belong to.
Servers, network and time are external: servers offer, acknowledge or refuse
when they like, what is sent can be received repeatedly, in any order or
never, for `Transit` ticks. `lease[s]` is what server `s` believes. A server
is assumed to acknowledge only its own address and to grant a full new lease
each time it does. `Strays` are replies to other clients that are heard here,
since the client checks neither the transaction nor the hardware address.
Of `selectWait` only the doubling is data; it is capped as in the code.

**TftpGet.** One action per kind of datagram, and one per branch of the timer
callback. Blocks are identified by their index; what is on the wire is
`WireNumber`, and the client never sees the index except as the content it
writes. `FlushDataAndAck` acknowledges first and writes then, as the code
does. `Writable` is what FatFs does with a write: nothing once the file's
error is set, a prefix with `FR_OK` when the disk is full, a prefix with an
error when it fails. The server is external: it keeps a window, goes by wire
numbers alone, may fail, and may repeat anything. The network keeps every
datagram for ever, except that none outlives a period of the block numbers
(65535 blocks; without that no protocol with these numbers works). One
`net_pump` handles all queued datagrams before the loop of `tftp_transfer`
looks at `completed`, so the handlers stay enabled after completion until
`Leave`. `Leave` also stands for the user's Q. The empty last block and the
short one are one case: both end the file.

**Arp.** `cache` maps the hosts that have an entry to it (`update_arp_cache`
and `net_arp_resolve` look for an entry before they add one, so there are never
two). `Resolve` is `net_arp_resolve` for all packets of one pump at once: the
first packet for a host does all there is to do to its entry, and the other
packets for it fare alike. Gateway choice is left out: a host is a next hop.

**TftpPut.** `lastBlock` is the number of the last block acknowledged, and
`transferred` the blocks up to it, to which the client seeks in the file
before it reads. After an acknowledgement of part of a window the code sends one
block and no window, and after a repeated one it sends that block again; both are
kept. A block on the wire is its number and what it holds, so
a block read from the wrong place would be seen. The server stores the block
whose number comes next, and may acknowledge whatever it holds at any time,
which stands for every window and repetition: acknowledgements under way
need no variable. Data and acknowledgements live less than a period of the
numbers, as in `TftpGet`.

**NetStack.** A packet is the header fields that sinks match (`Traffic`); a
packet to be sent is only counted where it is: the card, the transmit queue, the
list of the resolver. `pc`, `at` and `timed` are where `net_pump` is in its
walk, so that the callbacks of one sink happen between reading the sink and
reading its `next`, as in the code. The transfer's sink is the one that
leaves and comes back in its own callback, when it locks on to its server's
port. What a transfer does to packets: a download keeps the blocks it expects
(`BlockKept`) and frees what else comes (`BlockFreed`); when a window is full, at the
end of the file and when its timer expires it acknowledges the blocks kept, writes and
frees them (`FlushDataAndAck`, the same operator in all three); an upload
sends up to `Window` blocks in one callback (`AckReceived`, `NetTxAll`), and one when
its timer expires. `TftpTimerExpires` may also do nothing, as the callback does of a
transfer that is completed or gives up. The blocks of a window are allocated one
after the other and are sent or queued in between; `Handed` says where they are in the end.
`alive` counts the packets allocated, apart from the places
they are in. Of what a packet carries there are two sums of words, which
`Intact` tests as `net_eth_push` does, with `Checksum`; some of the packets that
arrive are damaged. The data pointers of the `tcp` branch, for which there is no sink,
are left out.

**Ne2000.** The driver's poll is a sequence of steps (`pc`), one per access to the
card that matters, and the card acts between any two of them: a
transmission ends, a frame arrives, the ring overflows, an interrupt is
raised that means nothing. Transmit events "ended" and "failed" are one event, as
are the two receive events, because the driver treats them alike. On an
overflow the code stops the card without the wait of 1.6 ms that the comment on
line 427 asks for; in the model a transmission may therefore go on, end
or be cut off until the handling is over. Reading the status (`LookForTx`, line 450) and
restarting the transmission (`RestartXmit`, 452) are two steps: a transmission
can end between them, and is then sent again. `CardSpec` has such behaviours,
and `BufferKept` and `ImplementsLink` are false of it (section 4); `CardSpecUndisturbed` has all but those.
A transmit command given while the card is transmitting has no effect. A
transmission ends on the wire or not (too many collisions, or loopback), with the
same event. Counter interrupts, probing, `eth_halt`
and the byte copying are left out.

**TinyAlloc.** The lists are sequences, descriptors that are not in use are
a number. `ta_alloc`'s search, the split, the insertion at its place and
`compact` are operators, composed as in the code. `realloc` is `malloc`, copy
and `free`. `emptied` records that a block of size 0 was given back:
`ls` of an empty directory does it, and from then on the free list may hold a
block that keeps its neighbours apart for good. `FreeIsCompact` and
`NothingLost` speak of the time before.

**Memory and Loader.** A cell of memory holds which byte of which segment is
there, or that gogoboot is. `LoadSegment` is a turn of the loop of
`load_elf_executable` with the growth of the bounce buffer; `Execute` stands for
`machine_execute`, which copies the buffer over gogoboot. Memory that is not
fitted is absent or shows the fitted memory again. The mark of a Linux kernel
is at offset 0x1000 or at the start (`loader.c:414`); one place is modelled.
The instance has images whose segments ascend: for others the two arguments of
`memmove` at `loader.c:109` are the wrong way round and `ImageLoaded` fails.
The machines differ in where things are. On the Q40 the ROM and what follows it end at
0x28000 (`RomBelow`), above the end of gogoboot (`BssEnd`), so that nothing
is ever loaded below `BounceBelow`; on the KISS (DRAM) and the Mini `RomBelow` is 0 and
low segments go by way of the bounce buffer; built for its SRAM, gogoboot on the KISS is
outside of the memory that is measured (`BssEnd` is 0), and all of that is free for programs.
`MemoryAssumption` admits all three.

**Window and Fat.** FatFs has one sector in memory, and writes it before it
reads another: what is changed reaches the disk in the order in which it was
changed, sector by sector. `Window` is that, and `disk` is what a power loss
leaves. A function of FatFs runs as a plan, the sequence `todo` of the
accesses it makes, each with what it changes in the FATFS and FIL objects;
the plan is drawn up when the function starts (for `f_write`, when a turn of its
loop starts), from cells that nobody else changes meanwhile. `Fail` lets any
access fail, with what the function then does; a failed write leaves the
sector as it was. `DriveFails` is why: either the drive was too slow this once, or it
reports an error. `disk_data_readwrite` waits for a status without errors before it
sends a command (`core/ide.c:31`), and only a command makes the drive forget an error, so
that no access succeeds from then on (`stuck`) until the drive is reset. `doing` and `kept` are not in the program: `kept` is what
each name must hold because FatFs said so. Of a file being written, and of the
name of a command that failed, nothing is promised. Clusters are of one sector
of two units (so that a write can fill part of one), which cells share a sector is the
constant `Sector`, and the free count is that of FAT32's FSInfo.
Long names, directories in directories and their growth, seeking and
overwriting in place, the second FAT copy (not checked, never read), FAT12 and
mounting are left out, and so are files open for reading. After a rename cut
short no new command is begun: what FatFs does to a volume with two
names on one chain is a matter for a repair program.

## 4. What the runs check

| run | instance | distinct states | properties |
|---|---|---|---|
| `sink_timer` | 4-bit words, timers of 1, 3 and 7 ticks, `Latency` 8, no arming computes 0 | 2 thousand | `TypeOK`, `NeverLate`, `ImplementsCountdown` |
| `dhcp` | 2 servers, leases 4 s, renewal 2 s, one message in transit 1 tick | 1.6 million | `TypeOK`, `AddressIffLeased`, `LeaseHonoured`, `RenewsOwnLease` |
| `dhcp_lan` | 1 suitable and 1 unsuitable server, 4 kinds of strays | 317 thousand | `OnlySuitableLeases`, `GetsAddress` |
| `dhcp_short_lease` | 1 server, lease shorter than the renewal phase | stops at the error | `LeaseHonoured` (violated) |
| `tftp_get` | 12 blocks, 6 wire numbers, windows 1 and 2, 1 retry, disk may fail | 471 thousand | `InOrder`, `ServerNotAhead`, `ImplementsTransfer`, `Ends` |
| `tftp_put` | 17 blocks, 8 wire numbers, windows 1 to 3, 1 retry, disk may fail | 32 thousand | `InOrder`, `ClientNotAhead`, `ImplementsTransfer`, `Ends` |
| `arp` | 2 hosts, one never there, 2 hardware addresses, 2 packets | 4.0 million | `BindingsFresh`, `WaitsBounded`, `NoOrphans`, `FailureForgotten` |
| `net` | the 5 sinks, 6 kinds of packets, 4 packets at once, windows of 2 | 244 thousand | `MostSpecific`, `PacketsOwned`, `PumpDrains`, `NoOvertaking` |
| `driver` | ring of 4 pages, frames of 1 and 2, 4 sent, 4 received, `Undisturbed` | 267 thousand | `BufferKept`, `ImplementsLink` |
| `heap` | 16 bytes, 5 descriptors, sizes 0, 2, 3 and 6 | 177 thousand | `DescriptorsKept`, `FreeIsCompact`, `NothingLost`, `ImplementsAllocator` |
| `loader` | layout of the KISS (DRAM) and the Mini, 1 to 3 units of memory, mirrored or not, 5 images, 2 initrds | 75 thousand | `RamMeasured`, `ImageLoaded`, `OwnIntact`, `KernelInformed` |
| `fat` | 2 names, 3 clusters, 3 commands, files up to 3 units, 1 fault, 1 power loss | 6.2 million | `FilesWhole`, `ChainsApart`, `PromisesKept`, `NothingLost`, `FreeCounted` |

Why the bounds are enough. *Timers*: 16 values give every relation of clock,
timer, half word and zero; the durations are the least, an inner one and the
largest the clamp leaves. *DHCP*: the renewal has two tries, so first, middle
and last firing occur; leases exceed it by more than one tick, and the transit
time lets replies cross a change of state and come twice. In `dhcp_lan` both
kinds of unsuitable sources are present. *TFTP*: 12 blocks over 6 numbers, and
17 over 8, wrap twice with either rollover, and the windows make the wrap fall
inside and at the end of one; a window of 3 has a part that is neither its
first nor its last block; 1 retry distinguishes first, last and one too many.
*ARP*: intervals that make entries expire between, at and after flushes, and
`MaxAttempts` 2 for first and last query. `BindingsFresh` and `WaitsBounded`
name exact bounds: with a bound smaller by one tick TLC finds counterexamples,
so the instance reaches the corner cases. *Net*: the sinks are the program's,
and 4 packets fill both buffers of the card, queue two, or have one for each
of two sinks and two answers, or a window of 2 with the packet that asked for it and
another one. *Driver*: the ring overflows with either buffer
under way and the other one full or empty; 4 frames use each buffer twice.
*Heap*: 16 bytes in blocks of 2 to 6 make free blocks with none, one and two free
neighbours, splits above and below the threshold, and more blocks than
descriptors. *Loader*: segments in, across and above the memory of gogoboot, aligned
and not, in images that each start elsewhere, so that a failed load leaves a buffer that the
next one grows downwards or starts inside of, and images too large for the least
memory. The layout has both in-place and bounced segments; with that of
the Q40 (21 thousand states) and of the KISS's SRAM (33 thousand) TLC finds no error either. *FAT*: three clusters
are one fewer than two files of two clusters, so that allocation
runs full and goes round; two of them share a sector of the FAT, the
third has its own, so that a link within a sector and one across two occur; the
entries of the two names are in different sectors of the directory, without which a rename
could not be cut short (with both in one sector there are 5.3 million states and no error); three
commands are a file made, given up and its clusters taken by another. One
fault and one loss of power, at any access, in either order.

In `arp` a host moves once per `Stale` ticks. `MaxPending`, the number of
packets waiting, `Forgotten`, `Forever` and `Floor` cap histories at values no
property looks beyond; `MaxTx`, `MaxRx`, `MaxAlive`, `MaxCommands`,
`MaxLength`, `MaxFaults` and `MaxLosses` bound what happens.

**Fairness.** *SinkTimer*: the clock ticks and the main loop pumps.
*Dhcp* (`FairSpec`): the same, and for servers that offer suitable leases strong
fairness of answer and delivery in the two states that wait for them; any
weaker network could lose every packet. *TftpGet*, *TftpPut*: an armed timer
expires again and again, and a completed transfer is noticed. Strong fairness of
the timer excludes a server that repeats datagrams for ever faster than the timeout,
each of which re-arms the timer without progress; the program has no limit for
that but the user's Q. Neither server nor network need do anything: that is the
hard case for `Ends`. *Ne2000*: the main loop polls, and a transmission ends
even if stops of the card interrupt it again and again. Safety uses no
fairness. `CHECK_DEADLOCK FALSE` appears where a transfer ends and nothing
remains to be done (`tftp_get`, `tftp_put`), where the machine belongs to the
program that was started (`loader`), and where the bounds on commands are used up
(`fat`).

**Disagreement found** (a run that ends in a violation, under `findings` in
`PROJECT.json`): a lease of 180 to 499 s makes the wait for renewal wrap
(`dhcp.c:250`) to some 50 days, and the address is used long after its lease.

**What the passing properties assume away**, each under `hazards` in
`PROJECT.json` or in a comment at the property:

- an arming that computes exactly 0 never fires (`net.c:86`); `SinkSpecNoZero`
  has none;
- a reply to another client, rejected, changes what a renewal asks for
  (`dhcp.c:137`); `dhcp` has no such replies;
- SELECT takes the first offer and never waits for a better one
  (`dhcp_internals.h:10` says otherwise); no property is about it;
- a transmission that ends between the last look at the card's status and the restart
  after an overflow (`ne2000.c:450`, `452`) is sent twice, and its buffer is given to
  the driver while it is being sent: with `CardSpec` in place of `CardSpecUndisturbed` TLC finds
  this in a few steps, a frame sent twice in a behaviour of 14 states. The window is a few microseconds of a transmission of at
  most 1.2 ms, and there only because the code does not wait for the stop command;
- a full disk yields "Transfer success." (`tftp.c:333`); `tftp_get` has room;
- a repeated OACK in mid-transfer sets `last_ack` to a block that is still queued,
  after which the queue can hold more blocks than a window;
- the bounce buffer growing downwards (`loader.c:109`); blocks of size 0
  (`cli_fs.c:172`); FSInfo after a power loss (`ff.c:1124`), whose count can be
  0 with clusters free: `f_write` then believes the volume full;
- segments that wrap around the address space (`mem.c:72`), boot information and an
  initrd that do not fit below the heap (`loader.c:453`, `530`), and a kernel loaded
  after a failed image that started lower (`loader.c:410`): the images of `loader` are
  not like that, which `MCLoader` asserts and section 5 names as hypotheses.

## 5. What is proved

For every value of the constants that the named assumptions of the modules
admit, with TLAPS:

| theorem | assumptions | argument |
|---|---|---|
| `DhcpProofs!TicksOfSecExact` | second is whole ticks, product fits a word | rounding up a whole number adds nothing |
| `NetStackProofs!ComputedVerifies`, `UdpComputedVerifies` | `Carry` at least 4, the sum not 0 | `VerifiedIff`: what is accepted is a multiple of a word of ones other than 0; rests on `FoldTwice` and `FoldedKeeps` |
| `NetStackProofs!DamageSeen` | `Carry` at least 4 | two multiples of a word of ones differ by at least that |
| `HardwareProofs!SinkTimerTypeOK` | module's | `TypeOK` is inductive |
| `HardwareProofs!SinkTimerNeverLate` | module's | `IInv`: an armed timer is late by at most `idle` ticks. `NeverLate` alone does not carry the range of `clock` and `timer` |
| `HardwareProofs!SinkTimerImplementsCountdown` | no arming computes 0 | each step maps to a step or stutter of `Countdown`; rests on `AheadTick`, `AheadArm` |
| `HardwareProofs!Ne2000BufferKept` | `Undisturbed` | `CardInv`, below |
| `HardwareProofs!Ne2000ImplementsLink` | module's, `Undisturbed` | under `LinkInv`, below, each step is a step of `Link` or changes nothing it sees |
| `HardwareProofs!LoaderRamMeasured` | module's | `MeasureRamSize` finds the units fitted, since the last one that reads back is the last one; no step changes the addresses there are |
| `HardwareProofs!LoaderOwnIntact` | `NoWrap`, `InformationFits` | `LoadState`, below |
| `HardwareProofs!LoaderImageLoaded` | `NoWrap`, `Ascending` | `BounceInv` and `LoadedInv`, below |
| `HardwareProofs!LoaderKernelInformed` | the same, `InformationFits`, `KernelsMarked` | `LowestInv` and `InformedInv`, below |
| `HardwareProofs!FatFreeCounted` | module's | `FatInv`, below |
| `DhcpProofs!DhcpTypeOK` | module's | `TypeInv` adds that a renewal has a try left, without which the counter would pass 0 |
| `DhcpProofs!DhcpAddressIffLeased` | `NoStrayAck`, `LeasesOutlastRenewal` | part of `LeaseInv` |
| `DhcpProofs!DhcpLeaseHonoured` | `NoStrayAck`, `LeasesOutlastRenewal` | `LeaseInv`, below |
| `DhcpProofs!DhcpOnlySuitableLeases` | `StraysOfOthers`, `BoundsOutlastOffers` | `ChoiceInv`, below |
| `DhcpProofs!DhcpRenewsOwnLease` | the same, `NoStrayOffer` | `ChoiceInv` and `Own`, below |
| `TftpGetProofs!GetSameNumber`, `GetNextNumber`, `TftpPutProofs!PutSameNumber`, `PutNextNumber` | module's | indices less than a period apart with equal residues are equal, for either rollover |
| `TftpGetProofs!TftpGetInvariant` (`GetInv`), `TftpGetInOrder`, `TftpGetServerNotAhead` | module's | `GetInv`, below |
| `TftpGetProofs!TftpGetTransfers` | the disk has room for the file | `GetInv` and `Flags`: while no write failed, the disk has all that was taken |
| `TftpPutProofs!TftpPutInvariant` (`PutInv`), `TftpPutInOrder`, `TftpPutClientNotAhead`, `TftpPutTransfers` | module's | `PutInv`, below |
| `TinyAllocProofs!TinyAllocInvariant` (`HeapInv`), `TinyAllocDescriptorsKept`, `TinyAllocFreeIsCompact`, `TinyAllocNothingLost` | module's | `HeapInv`, below |
| `TinyAllocProofs!TinyAllocImplementsAllocator` | module's | under `HeapInv` each step is a step of `Allocator` or changes nothing it sees |
| `ArpProofs!ArpBindingsFresh`, `ArpFailureForgotten` | module's | `ArpInv`, below |
| `ArpProofs!ArpWaitsBounded`, `ArpNoOrphans` | module's | `ArpInv` and `WaitInv`, below |
| `NetStackProofs!Invariance` (`Inv`), `NetNoOvertaking`, `NetPacketsOwned`, `NetPumpDrains`, `NetMostSpecific` | module's | `Inv`, below |

`LeaseHonoured` says nothing about timers, so it is not inductive. `LeaseInv`
says how much of the lease must be left in each state: in BOUND the server's
remaining lease exceeds the client's timer by the whole renewal phase less what
the acknowledgement spent in transit; in RENEW it exceeds it by the tries left,
less one `Latency` for every timer that fired since. It also says that an
acknowledgement on its way names its server's address and lease and that the
lease has lost no more than the message's time in transit. `NoStrayAck`
excludes acknowledgements to other clients, which the client would believe;
`LeasesOutlastRenewal` excludes the leases of the finding above.

`RenewsOwnLease` and `OnlySuitableLeases` are about the globals that the client
renews from and that every offer overwrites, wanted or not. They need that no
offer is left when the client renews: `Quiet` says that in BOUND every DISCOVER
and every offer under way is gone before the timer fires. That is so if the wait
in BOUND is at least twice the time a message lives (`BoundsOutlastOffers`: a
lease a few seconds longer than the renewal phase, or one whose wait wraps, may
not do). `Honest` says that requests name an address that
the client may want, and that acknowledgements answer such requests.
`StraysOfOthers` says that what servers tell other clients is not about this
client's addresses and that no acknowledgement is among it; `NoStrayOffer`
excludes offers to other clients altogether, which the client would renew from
(`dhcp.c:137`). The instances of section 4 satisfy the hypotheses of the properties they check.

`InOrder` of a download says nothing of numbers, so it is not inductive. In
`GetInv`, `Agreed` says when client and server have the same rollover (before the
first OACK or block the client has its default), `Numbered` that a number the
client sends or goes by is that of the block it means, `Windows` that the server is
not behind the client and not ahead of it by more than a window, and `Data` that
disk and queue are the file's beginning. A block accepted has the number expected
and an index less than a period away, so by `GetSameNumber` it is the block
expected. For `ImplementsTransfer` the disk must have room: without it success
is reported of a part (`tftp.c:333`), and the hypothesis is needed. `PutInv` is
the same the other way round; there `Settled` says that both sides have the same
window as well, since the client sends windows again by it.

`HeapInv` has three parts. `Fine`: the descriptors are all on a list and no two
blocks on the lists share a byte. `Owns`: a one-to-one map from what the program
holds to the used list, each block at the address that the program knows and at
least as large. Blocks can share an address if one of them is empty; `ta_free`
then finds the one allocated last, which need not be the one meant, and `Owns`
says which one the program is left with. `Tidy`, until an empty block is given back: the free list is
sorted, merged and without empty blocks, and each byte below the top is in some
block. `FreeIsCompact` is part of `Tidy`; `NothingLost` follows from all three.
That `compact` merges is an induction on the blocks it has gone through: what
it has built so far is spaced and covers the same bytes, and its last block ends
where the last one taken ended.

`ArpInv` ties the age of an entry to the flush timer: a valid entry is late by
no more than the time since the last flush (which would have removed it), an
exhausted one likewise, and an entry or a packet whose hardware address is
wrong was right no longer ago than it has been in the cache plus in transit.
`BindingsFresh` and `FailureForgotten` say nothing of the flush timer or of
packets under way, so neither is inductive alone.

`WaitsBounded` is about packets, and a packet's age alone says nothing of what will
happen to it. In `WaitInv`, `Patient` says of each packet what its age may be by the
state of its entry: while it is being resolved no more than the queries so far account
for (`Spent`), or a whole resolution (`Round`) more if a flush has come in between, and
then that flush was no longer ago than the second resolution. So a packet
would need a flush within `Round + Latency` of the last one to begin a third time, which
`ArpAssumption` excludes: `Round + Latency <= FlushInterval`. It is needed: with intervals
between `Round` and `Round + Latency` TLC finds a packet that waits longer. In the program a
resolution takes 5 s and ten delays, and flushes are 15 s apart, so that it holds
while the main loop is not away for a second at each query. `NoOrphans` is part of `WaitInv`,
since the packets' ages follow from the entries only if the packets drive them.

`Inv` of `NetStack` has two parts. `Account`: the packets allocated are those in
some place (the inductive step counts the window of an upload by `AllSent`, and the blocks that a
download writes, in a callback or on its timer, by `Flushed`), and a packet waits in the transmit queue only while the card is full, except while
`eth_pump` works on it. `NoOvertaking` and `PacketsOwned` follow from it. `ListKept`: there is a
sequence of sinks, each once, that `head` and `next` spell out (`Chain`) and from which no sink
but the transfer's is missing; it is sorted by the number of fields the sinks match
(`Sorted`); a sink with packets is in it, and the walk has not passed it (`Drained`);
and no other sink in it fits a packet more closely than the one that has it
(`Closest`). `PumpDrains` says nothing of the walk, and `MostSpecific` counts only sinks that match
now: a sink that needs an address matches more packets when one is set, which is why
`Closest` asks what fits rather than what matches. When the transfer locks on to a port its
sink gains a field and moves towards the head, taken out and put back while
`net_pump` stands on it; `Drained` is kept because no sink behind it changes its
place relative to the walk, and its own packets are served before the walk reads `next`.
The assumptions are facts of the tables of sinks in the source (`NetStackAssumption`,
`MatchAssumption`): each sink but the transfer's is added once, the transfer's matches
more fields than the others, and a packet for a sink that works without an address
(DHCP, ARP) fits none that needs one and matches more fields. TLC evaluates them for the
program's sinks in `net`, and has checked `Inv` there.

`CardInv` of `Ne2000` has two parts. `Turns`: the buffers are filled in turn and emptied in the
order they were filled, so that `tx_next` and `tx_int` say which is which. `Heard`: a
transmission begun has ended if and only if its event is pending in the card's ISR or in the value
the driver has just read of it, and just before a restart the value read is still right. So no
event is taken for the wrong buffer, and the overflow procedure begins again just those
transmissions that it cut off, or that are going on still, of which the card takes no notice.
The last part of `Heard` is where `Undisturbed` is needed: it supposes that
no transmission ends between the look and the restart, and with it `BufferKept`
follows. For `ImplementsLink` `LinkInv` adds `RingInv`: the frames stored begin on pages that go less
than once round the ring from `rx_next` to the card's current page (`Course`), and the boundary
is the page before `rx_next`, so that the card writes over none of them. The sequence of frames
that `Stored` finds by going from header to header is the sequence of those pages (`InFrames`).
The ring must have room for what `RingLargeEnough`, the module's assumption, says.

`MemoryAssumption` says no more of a machine than that gogoboot ends within the first unit of
memory, if it is in it at all, and that the address space is larger than the memory; `RomBelow` and `BssEnd` can
be in any order. The theorems about `Loader` share `LoadState`: a file being loaded goes to where `OffsetOf`
says, and an ELF file passed `check_writable_range` as a whole. `OwnIntact` then is a matter of
each write: the loads are checked one by one and the part below `BounceBelow` goes to the buffer,
but the boot information and the initrd of a kernel are written without a check
(`loader.c:453`, `530`), hence `InformationFits`. For `ImageLoaded`, `BounceInv` says that the buffer begins and
ends at aligned addresses and not above `BounceBelow`, and `LoadedInv` that each
segment loaded so far is in place, in the buffer up to `BounceBelow` and in memory from there
(`InPlace`). A new segment disturbs neither if the buffer only grows upwards, which is what `Ascending`
gives for one image. But the buffer may be older: an image that failed to load leaves it, and the next
one, if it starts lower, grows it downwards, where `memmove` spoils what it holds
(`loader.c:109`). That is harmless, and the theorem covers it: it is always the first segment of
an image that does so, and what is spoiled is nobody's. `KernelInformed` is about recognition as much as about
the writes: the mark is looked for at the start of the buffer (`loader.c:410`), which is the kernel's start only if
no image loaded before started lower (`LowestInv`, from `KernelsMarked`); `InformedInv` says that the
records stay where they are, above `BounceBelow` and so out of reach of the buffer; the initrd begins above them.

What each theorem supposes of the images is stated as an operator of `Loader`, and is
what the code takes for granted rather than what it tests:

| hypothesis | says | without it |
|---|---|---|
| `NoWrap` | no segment ends beyond the address space | `base + length` in `check_writable_range` wraps and the check passes (`mem.c:72`) |
| `Ascending` | the segments of a file are in ascending order and apart, as linkers write them | the buffer grows downwards between two segments of one image (`loader.c:109`) |
| `InformationFits` | where a kernel fits below the heap, its records and initrd do | they are written over the heap, unchecked |
| `KernelsMarked` | a kernel's lowest segment holds its mark; if that goes to the bounce buffer, it starts on a longword and no image starts lower | a kernel is taken for an ordinary program, and started without records |

`MCLoader` has TLC evaluate all four for the images of the run `loader`.

`FreeCounted` of `Fat` is about the moments between two functions, and a function is a
plan of many accesses that change FAT and count at different ones of them. The proof keeps books: a
`Book` has the FAT as the window shows it, the count, the FIL object, and whether the
window is written. `Effect` says what an access does to the book, and `Leads` that a
plan takes one book to another and that every book on the way is `Proper`: the
count, if it is believed, is never less than the free clusters (`Sound`), and as long as
nothing failed no chain runs in a circle and the file being written ends in a
cluster that is taken (`Tidy`). `FatInv` is that the rest of the plan, `todo`, leads from
the books as they are (`Now`) to books in which the count is right (`Exact`, while no
access failed), and that the window is `Coherent`: an entry of the FAT is on the disk as
the window shows it, or in a window still to be written. An access takes the first step of
the plan off, and a failed one ends the plan in a book that is only `Sound`; that is why
FatFs may count too many but not too few. There is a lemma for each function's plan. Most put together neutral
accesses (`Neutral`, `Plain`); the two that matter are `RemoveChain` and `CreateChain`.
What `remove_chain()` frees is counted once each, since no cluster comes twice in a chain without
circles (`Acyclic`, by a rank that falls along it); and `create_chain()` links only to a
cluster that was free, which makes no circle. Freed clusters are counted only up to
the number there are (`ff.c:1463`), and a count that is not believed stays as it is.
After a loss of power the count can be wrong either way (the hazard of `ff.c:1124`), and nothing is claimed.

## 6. Model-checked only

Liveness (`GetsAddress`, `Ends`, and the fairness part of
`ImplementsCountdown` and `ImplementsLink`) is beyond TLAPS. Of `Fat` the properties of
whole files (`FilesWhole`, `ChainsApart`, `PromisesKept`, `NothingLost`) have so far been
checked on the instance of section 4 only: they relate entries, chains and data on the disk at every
access and after a loss of power, where the proof of `FreeCounted` needs the FAT only. Of
`Checksum` there are theorems and no property.
The library's induction theorems cannot be applied with the provers at hand, but an
induction over a set of numbers can be proved from the well-foundedness of `<`
(`Induction` in `NumberTheorems`), so recursive functions are within reach:
`Recursion` there says that they are what their definitions say.

## 7. Not modelled

`PROJECT.json` lists every part with its reason. Not to be modelled: libgcc and
the C library, `fatfs/ffunicode.c` (15,600 lines of code-page tables, nearly half
of the repository), the parts of `fatfs/ff.c` that the configuration compiles
out (exFAT, `f_mkfs`, `f_forward`, locks on open files) or that nothing
here calls, register I/O of UART, clock chips and video, start-up assembly, and
the memory test (a property of hardware). Without state, and so without a
behaviour to model: `ipv4.c`. To come: the parts of the plan in
section 2. Left out of modelled parts: the text of messages, the parsing of
option lists byte by byte, the answers to ARP requests of others, the choice of
the gateway as next hop, the byte counts of TFTP's progress display, and what
section 3 says of each module. In TFTP the flush of FatFs's buffer by `f_close`
comes after success was reported and is not checked; `Fat` shows what is on the disk when it
fails.
