# A specification of SabakaOS

TLA+ modules, TLC configurations and TLAPS proofs for the kernel in `src/kernel`.
Every definition follows the source; `PROJECT.json` maps each one to the lines it
models. The kernel is for one x86 CPU, without tests and with few comments, so what
a component promises is stated here from what its code and its callers rely on.

Model-check a module with `tlc -config X.cfg M`, check its proofs with `tlapm MProofs.tla`
(for Mutex and NetQueue, in which a step is one access to shared memory, `AccessProofs.tla`).

## 1. The system

| Component (source) | State | Operations | Interacts with | Hard because | Correct when |
|---|---|---|---|---|---|
| Scheduler, timer, interrupt dispatch (`scheduler.cpp`, `pit.cpp`, `idt.cpp`, the `.asm` entries) | process table, `current_idx`, saved stacks, tick counter; the PIC's in-service bit and IF | create, yield, sleep, exit, tick, kill | everything runs on it; the shell runs inside the keyboard's interrupt | the EOI of a tick is sent by the process that the tick suspended, when it runs again | one process runs, no READY process starves, no sleeper wakes early by itself, the EOI is never lost |
| Mutex (`mutex.cpp`) | `locked`, `owner` | lock (reentrant), trylock, unlock | yields while it waits | two fields, read and written one by one | one holder, no lost update |
| Semaphore (`mutex.cpp`) | `count` | wait, signal | no callers | sections under cli | never below zero or above its maximum |
| Pipes (`pipe.cpp`) | ring, `count`, `write_closed` | create, write, read, read_nb, close, destroy | yields while it waits | tests outside cli, copies inside | each writer's bytes once and in order, nobody waits for ever |
| Packet queue (`net_queue.cpp`) | ring with head and tail | enqueue in the card's interrupt, dequeue in `net_poll` | `net.cpp` | no lock | a FIFO of whole packets |
| Network dispatch (`net.cpp`) | ARP cache, UDP handler table | receive, poll, register, send | queue, TCP, listener, DNS | nothing calls `net_poll` | what arrives is handled |
| TCP (`tcp.cpp`) | socket table | connect, send, recv, close, tick, receive | `net.cpp`, heap, card, timer | loss, repetition, reordering, retransmission, failing sends | both streams are prefixes of what was sent; slots are freed |
| UDP listener (`udp_listen.cpp`) | four rings | open, recv, close, callback | handler table | shared ports, a ring that fills between two calls | a listener gets its port's packets, in order |
| DNS (`dns.cpp`) | cache, the one query | resolve, callback | handler table, timer | retries against late answers | an answer resolves its own query |
| Heap (`heap.cpp`) | block list | kmalloc, krealloc, kfree | everything, also interrupt handlers | splitting, merging, no lock | blocks tile the heap, free neighbours are merged, none is given out twice |
| Physical memory, paging (`pmm.cpp`, `paging.cpp`) | page bitmap, page tables | alloc, map, unmap | ELF loading, `sys_brk` | failures half-way | no page is mapped twice |
| FAT32 (`fat32.cpp`) over ATA | disk, FAT cache | read, write, create, mkdir, unlink, rmdir, rename | VFS | power failure between two sector writes, a write that fails, noticed or not | no cluster belongs to two files, files show only their own data |
| VFS (`vfs.cpp`, `vfs_disk.cpp`), descriptors (`syscall.cpp`) | nodes, `fd_table` | resolve, open, read, write, close | FAT32, ramfs | cached directory entries | what is written is read |
| User mode, ELF (`usermode.cpp`, `elf_loader.cpp`, `gdt.cpp`, `tss.cpp`) | TSS, segments, address space | load, enter | scheduler, paging | one address space | |
| Kernel start (`kernel.cpp`, `boot.asm`) | | starts the rest in order | all | interrupts are on from the IDT's load | |
| Shell (`shell*.cpp`, `env_vars.cpp`) | variables | commands | scheduler, files, network | runs in interrupt context | |
| USB (`usb/uhci.cpp`, `usb/hid.cpp`) | transfer descriptors, status register, interrupt pipes | parse, register, interrupt handler | keyboard, mouse | the controller ends transfers while the handler runs | no ended transfer is left lying |
| Keyboard, mouse (`keyboard.cpp`, `mouse.cpp`) | keys of the last report, Caps Lock, ring | on_keyboard, on_tablet | terminal | reports are states, not changes; rollover | each press counts once |
| Terminal (`terminal.cpp`) | line, history, screen | on_key, putchar | shell | a history that shifts when full | the last lines in their order |
| Drivers (`rtl8139`, `pci`, `ata`), graphics, string helpers | registers, surfaces | | | hardware | |

`PROJECT.json` says of each whether it is modelled, and lists under `hazards` what in
this code a test would hardly reach, at its line, with the properties that cover it.

## 2. The modules

**Scheduler** is one CPU with the process table. Its step is a stretch of code that no
interrupt can cut: a section between cli and sti, an interrupt handler (the gates clear
IF) or one access of code that runs with IF = 1. `ctx[s]` is where the stack saved in
`procs[s].esp` resumes: at `proc_entry`, after `do_switch` in a yield, or after
`scheduler_tick` in `irq_handler`. The last of these is why `inService` is a variable:
`irq_handler` sends the EOI after `scheduler_tick` has returned, so a process preempted
by a tick takes the EOI with it. Actions: `TickOnly`/`TickSwitch` (a timer interrupt),
`Thread*` (what a kernel thread calls), `Syscall*` (int 0x80), `BootCreate`/`BootDone`
(`kernel_main`), `ShellCreate`/`CreateEnd`/`ShellKill` (the shell in the keyboard's
interrupt), `Block`/`Unblock` (which have no caller yet). Process creation is two steps
where the code has the slot READY before it has a stack. Time is relative.

**Mutex** has threads that lock, perhaps lock again, load and store a counter and unlock
(`mutex_proc_a`, `mutex_proc_b`), with one step per memory access and an exchange as the
only indivisible pair. That is more interleaving than this commit's timer allows, which
preempts only `kernel_main` (PreemptsOnlyIdle): the lock does not rest on that.

**PacketFifo** is a bounded FIFO that takes or refuses a packet in one step and gives
one out in one step. **NetQueue** is the ring of `net_queue.cpp` at every access, its
producer being the card's interrupt (`net_receive`), its consumer `net_poll`. It
implements PacketFifo: the contents are the slots from tail to head, but for a slot
whose reader has already copied it. `Polled` says whether anything calls `net_poll`.

**Pipe** has writers and readers of one pipe. The copies under cli are one step each,
the tests of `count` and `write_closed` before them steps of their own, so that another
thread may come in between. The slot is created again after it was destroyed.

**Tcp** is one socket. The application (`Connect` .. `CloseReturn`) is cut where the code
waits with `sti; hlt; cli`; `tcp_tick` is `TimeWaitOver`, `Disarm` and `Retransmit`;
`tcp_receive` has an action for each state. Sequence numbers count units of data from a
SYN numbered 0. Everything sent stays in `toPeer` and everything the peer may have sent is
in `FromPeer`, and each may arrive at any time, any number of times or never: loss,
repetition and reordering. The peer is external: it obeys the protocol, may cut its stream
into segments in any way, sends its FIN with data or without, and may reset. `kmalloc`
may fail at every send. Deadlines are not numbers: whoever waits for one may find it passed.

**Allocator** is what the heap promises: what callers have asked for and not given back lies
in the heap and apart. **Heap** is the block list with the code's own header, rounding and
split sizes; an operation is one step, as interrupts are off in all callers. `blk` is the
headers by address, `used` is `used_bytes`, `given` what callers hold. `krealloc` is two
actions, one that stays and one that moves. It implements Allocator under `given`.

**Fat** is a FAT32 disk: `fat` is the table, `slot` the directory entries, `written` the
clusters with data of their present file. An operation is first a *plan*, the sequence of
the sector writes in the order in which the code issues them, and then `Perform`: all of
it; any prefix followed by a loss of power and a new mount (`PowerFails`); a prefix and a write
that fails where the code tests the result (`WriteFails`); or a prefix in which one write has
failed where it does not, followed by a loss of power (`Overlooks`). The last are the writes of
`fat_set`, the blanking of a directory's cluster and `update_dir_entry`
(`fat32.cpp:129`, `:139`, `:471`, `:485`, `:518`, `:528`, `:609`, `:610`, `:673`); `Missed` is what
is on the disk instead, and a cluster that was not blanked shows entries of its former owner
(`Leftover`). The plan of a write has a `Round` for each cluster of the
file; that of `rm -r` erases what `Deleted` finds. `open` has the copies of directory entries that
`vfs_disk.cpp` makes at each lookup. `Create`, `Mkdir`, `ShellWrite`, `Unlink`, `RemoveAll`
and `Rename` are the shell's commands with everything they call, `Open`, `ReadFd`,
`WriteFd` and `Close` the system calls. `harm` records what has happened that the code does
not guard against, and `cut` the entries that it was about, so that the properties can say how far
the damage reaches; such a disk is not followed any further (`Ready`).

**UdpDns** is UDP with its two users under the commands that drive them. `Resolve*` is
`dns_resolve` with its attempts, `Listen*` and `RecvWait` are `cmd_udplisten` over
`udpl_open`, `udpl_recv_wait` and `udpl_close`; both are cut where they wait with `hlt`.
There, and between commands, `HandleUdp`, `HandleAnswer` and `HandleArp` may happen, and
time may pass (`Tick`). The tick that ends a `hlt` runs `scheduler_tick` and may switch to
another process, for as long as that one likes (`Back`, or never). `uptime` is `pit_uptime_ms`,
and like it starts again from 0 when `pit_tick_count * 1000` overflows.
The network is external: answers of the server to any query that still has its id come late,
repeatedly or never, and datagrams from others come at any time.
`asked` is the server's knowledge, `mac` the hosts'; an id that is used again stands for the new
query, and no answer to the old one comes any more. **MCUdpDns** names three hosts, and bounds
the run to states in which what has come is of one kind (`Unmixed`).

**Console** goes from the USB controller to the line editor. `Tells`, `Moves` and `Fails`
are the controller and the devices, external; `ReadStatus`, `ClearStatus` and `Scan` are
`uhci_irq_handler` cut at every access to what the controller shares, with `on_keyboard`,
`terminal_on_key` and `on_tablet` inside a `Scan`. The set of pipes comes from
`parse_config` and `uhci_register_interrupt`, evaluated on a list of descriptors that
**MCConsole** gives. `due` and `editor.entered` are history variables.

The modules meet at these points. Mutex and Pipe wait by `scheduler_yield`, and their
fairness is what `ReadyRuns` of Scheduler shows. Tcp and UdpDns get what arrives from the
consumer of NetQueue. What runs in Scheduler's `irq` mode is the handler that is NetQueue's
producer, and the one of Console. Fat, Tcp and UdpDns take memory from Heap, whose promise
(Allocator) is all they rely on; Tcp also follows a refusal.

The commands of Fat and UdpDns are not connected to the keyboard at this commit
(`kernel.cpp:273` has `terminal_set_execute_cb` in a comment). They are modelled as they would run: inside the
keyboard's interrupt, which ends with the EOI only after the handler, so that one runs at a time.

## 3. The runs

| Run | Bounds | Shows |
|---|---|---|
| `scheduler` | idle and three slots, slice of 2 ticks, sleeps of 0 and 3, two pids of each kind; every shell command, killing, blocking and a slow boot | eight safety properties together |
| `scheduler_live` | kernel threads only, four pids | `ReadyRuns`, `SleeperRuns` |
| `scheduler_user` | one user process | a disagreement, see 6 |
| `mutex` | three threads, two rounds each | exclusion, reentry, no lost update, and that all rounds count in the end |
| `net_queue` | a ring of four slots, two packets and one too long | data race freedom, whole packets, refinement of PacketFifo |
| `net_unpolled` | the same, without a caller of `net_poll` | a disagreement, see 6 |
| `pipe` | two writers and two readers, two bytes each through a pipe of two, two lives of the slot | bytes in order, nothing left behind, no mutual waiting |
| `tcp` | two units each way, a receive buffer of one, one retransmission, failing kmalloc | see below |
| `heap` | 200 bytes with the real header (20), split size and rounding; requests of 0, 1, 20 and 60, an alignment of 32 | the list stays whole, refinement of Allocator |
| `fat` | four clusters of two entries, three entries, files of up to two clusters, one descriptor, a name too long for 8.3 | crash safety, and where it ends |
| `udp_dns` | three names, a cache of two, ids modulo 2, two attempts, ports 53 and 7, a ring of two, an ARP cache of two; five instants before the wrap, of which `udplisten` listens for three and waits for two at a time | answers, listening, when commands end |
| `console` | one letter and three special keys with Shift, two keys in a report, a history of three | every press once, the last lines |

Why the bounds are enough for the interesting cases. *Scheduler*: three slots next to the
idle one let a third process come between two in the round; a slice of two has a tick that
preempts and one that does not; pids run out, and slots are reused. *Mutex*: with three
threads one may wait while another takes the lock from a third. *NetQueue*: the ring fills
at three packets and the indices wrap. *Pipe*: either writer fills the pipe alone, so each
waits for room that the other may take, and both readers may find one byte. *Tcp*: two units
are what it takes for the second chunk to overwrite the retransmission buffer while the
first is unacknowledged, and a segment of two units is one that half fits. *Heap*: six blocks
of the smallest request fit, so a block is freed between two in use, between two free ones
and at either end; a request of 20 leaves a rest that is split
off or just not. *Fat*: the root directory grows by a cluster at the third entry, a
directory of two slots holds its dots and grows for its first file, the disk fills up in the
middle of a write and of a mkdir, and clusters are used again. *UdpDns*: two ids make every
second query meet answers to an earlier one, the third name evicts from the cache and the
third host from the ARP cache; the ring of two overflows at the third datagram; udplisten starts a second wait that outlasts
its own deadline; and with five instants deadlines fall before the wrap, on its last instant
and beyond it. What ARP packets, answers and datagrams change is read by nothing that the others
change, so that a run in which one kind has come reaches what matters for it (`Unmixed`), and
commands on the shared port follow each other in both orders. *Console*: three keys
at once are a rollover; the ring and the line have room for one character and overflow; the fourth line
shifts a history of three.

Bounds that are not in the code: `MaxPid`, `Rounds`, `Total`, `Lives`, `AppUnits`,
`PeerUnits`, `MaxRcv` (FINs answered in TIME_WAIT count `rcv_nxt` up for ever), `MaxSize`,
`MaxEntries`, `MaxCame`, and the constraint `Unmixed`; `Period`, `Listen` and `Pause` are in the
code, scaled down. Deadlock checking is off in `scheduler` (a CPU switched to a stack
that does not exist has no next step), in `tcp` (a connection ends), in `fat` (a damaged
disk is not followed further) and in `heap` (`kfree` does not take the addresses that
`kmalloc_aligned` returns, so that these may fill the heap for good).

The properties that carry most:

- `EoiOwner`: IRQ0 is in service exactly while one READY process owes the EOI. A kill,
  block or exit that hit that process would end all interrupts.
- `PreemptsOnlyIdle`: because of the late EOI, the timer preempts nobody but
  `kernel_main`'s own process. Kernel data used without a lock rests on it.
- `HalfBuiltSafe`: the window in `process_create` between READY and the stack can be hit
  only in a boot that outlasts its slice. In `sys_execve` it cannot, because the gate of
  int 0x80 clears IF, whatever `isr128.asm` says (see 6).
- `SleepNotEarly`: a sleeper goes on before its time for one reason, a `process_block`, which
  overwrites `PROC_SLEEP`, and a `process_unblock`; neither has a caller.
- `NoLostUpdate` and `HolderNeverWaits`: the two accesses `locked`, then `owner`, of
  `mutex_lock` cannot mislead a thread.
- `NeverSameSlot`, `IsFifo`: the indices alone keep the two sides of the ring apart.
- `Stream`, `NothingLeftBehind`: tests that are stale by the time of the copy do no harm,
  as the copy computes its length again. The pipe holds of each writer exactly the bytes from
  the last that was read to the last that was written, in their order.
- `InOrder`, `AcksReceived`: `tcp_recv` returns a prefix of the peer's stream and only what
  the buffer took is acknowledged. `PeerInOrder`, `UnackedHasTimer`: retransmission sends
  the right data under the right number, and whatever is unacknowledged has a timer. Both
  except after a retransmission for which kmalloc failed (`rolled`): `do_retransmit` has
  then set `snd_nxt` back and new data takes old numbers. That is what the code does.
- `SlotFreed`: when the application has called `tcp_close`, or `tcp_connect` has failed, the
  slot of the table is freed, and when the peer has ended the connection it is freed by the
  last ACK or the limit of retransmissions. Except that a FIN that could not be sent
  (`tcp.cpp:305`) leaves nothing to retransmit: the slot then stays taken until `tcp_close`. So
  it may after a retransmission without memory.
- `IsAllocator`, `ListSound`: splitting and merging in any order give no byte out twice and
  lose none; each block in use has one caller who can give it back, and `used_bytes` is the
  number of bytes in those blocks.
- `ChainsSound`, `OwnData`: the order of the writes in create, mkdir and write keeps the
  disk sound through a power failure at any point, and through a failing write whose result
  the code tests. It does not in unlink, rmdir and rename (`fat32.cpp:709-751`), and the
  properties say that the damage is confined to the entries being erased or the two names of
  the file being moved. Nor does it when a write fails that nobody tests: then the chain and
  the data of the file or directory that the write was for may be wrong after the next loss of
  power, and no other's. `NothingLost`: without a power failure and without such an unnoticed
  failure no cluster leaks, also when a write fails or mkdir has to be undone; an unnoticed
  failure of `update_dir_entry` at `:471` may leak one. A rename that is cut short leaves the
  file a name. A disk on which power failed in create, mkdir or write is used on. After a
  cut unlink, rmdir or rename, or an unnoticed failure, it is not followed further: that the next
  allocation hands out a freed cluster of an entry that is still there is not in the model.
- `Answers`: ids are shared by the attempts of a query and come round again, and still no
  late, repeated or foreign answer is taken for the one awaited; one address for a name in
  the cache, one entry for a host in the ARP cache. It rests on an assumption about the network:
  an answer of the server to an earlier query is gone by the time its id, of 2^16, is used again
  (`server => asked[id] = name`); the code could not tell it from the right one.
  `Heard`: what a listener prints is in order and without repetition, and what it misses has
  found the ring full or came in its last wait, which ends with the deadline and is followed by
  `udpl_close`; the listener that takes port 53 from the resolver gives it back. `CommandEnds`:
  neither silence nor packets without end keep a command waiting. Not so if a process to which a
  tick switches keeps the CPU, if the deadline lies beyond the wrap of `pit_uptime_ms`, or if
  other processes run as it wraps.
- `TypedOnce`: the status is cleared before the pipes are looked at, so no transfer is lost
  between two interrupts. `RecentLines` says line by line what the history holds, with the
  slot that stays empty (see 6).

`mutants` in `PROJECT.json` has, for each property, a plausible bug of the code that
TLC finds with it.

## 4. Fairness

- *Scheduler*: the PIT raises IRQ0 for ever and the PIC latches it (strong fairness of a
  tick, which is possible again and again as IF comes and goes); straight-line kernel code
  goes on; a kernel thread leaves the CPU after a bounded computation, as the two that
  exist do. Of user programs nothing is assumed, so `scheduler_live` runs without them.
- *Mutex*, *Pipe*: a thread that can go on does (`ReadyRuns`). A holder does not
  lock again for ever, and a reader does not poll for ever without once calling the
  read that waits (strong fairness of these calls): both are about the callers.
- *NetQueue*: each side goes on with what it has begun; the card need deliver nothing.
- *Tcp*: the application's waits have deadlines, and `tcp_tick` is called again and again.
  At this commit no code calls `net_poll`, which calls both `tcp_receive` and `tcp_tick`:
  `SlotFreed` says what holds once it does. FINs that repeat faster than TIME_WAIT
  ends would put it off for ever; `MaxRcv` excludes that.
- *UdpDns*: the processor goes on with a command while interrupts are off (weak fairness of
  `Steps`). A pending timer interrupt is taken at some `sti; hlt`, however many datagrams arrive
  (strong fairness of `Tick` where the command itself waits): IRQ0 has the highest priority of
  the PIC, and what is in service there is the keyboard's lower one. Nothing is assumed of the
  processes that a tick switches to (`scheduler_user` shows one that keeps the CPU); that they
  give it back again and again is the premise of `CommandEnds`. Of the network nothing is assumed
  for progress.

## 5. The proofs

All for every value of the constants that satisfies the modules' `ASSUME`s, which say little
more than that sizes are positive and that special values are not ordinary ones. Those that say
more: a pipe has a reader (`Pipe`; without one nobody empties it), what is in the ARP cache at
the start is of distinct hosts that exist, and fits (`UdpDns`; `net.cpp:285-289` puts the
gateway and the server in), and there are finitely many characters, one keyboard and one tablet
(`Console`).

Each safety proof is an inductive invariant.
What it has to say beyond the property, and why:

- **SchedulerProofs**: the type invariant, `CurrentRuns`, `IdleSchedulable`, `EoiOwner`,
  `PreemptsOnlyIdle`, `HalfBuiltSafe`, `PidsDistinct`, `SleepNotEarly`. The inductive invariant
  adds which mode the CPU can be in for which kind of process (`ModeInv`), which slot is being
  built and by whom (`BuildInv`, `BootInv`), that a READY or sleeping process has a context of
  its kind (`CtxInv`), and that only the idle process is suspended by a tick (`TickInv`), from
  which the EOI's owner is unique. Without `CtxInv` a switch could resume anything; without
  `BootInv` a tick could hit a creation.
- **AccessProofs**, of Mutex: the type invariant, `MutualExclusion`, `HolderNeverWaits`,
  `NoLostUpdate`. The invariant says that the lock is taken while a thread is between the
  exchange and the last store of `mutex_unlock`, that there is one such thread, that `owner` is
  it while it says so, and how many rounds are left.
- **AccessProofs**, of NetQueue: the type invariant, `NeverSameSlot`, `WholePackets` and
  `QueueIsFifo`, that NetQueue implements PacketFifo for every modulus. The invariant says of
  each side which slot it is at and how much of it is done, and that all slots between tail and
  head are whole.
- **TcpProofs**: the type invariant, `InOrder`, `AcksReceived`, `UnackedHasTimer`,
  `PeerInOrder`. `Bounds` says how far the send numbers can have come (one for the SYN, one for
  each unit, one for a FIN), without which no number stays in its range; `Receiving` ties
  `rcv_nxt` to what `recv_buf` took, state by state; `Sending` ties each segment that was ever
  sent to the unit its number stands for, which is what a late or repeated one needs, and says
  that the one kept for retransmission is the last (`KeptSent`). `Sending` holds until a
  retransmission fails for want of memory, as `PeerInOrder` says.
- **HeapProofs**: `ListSound`, and that Heap implements Allocator. What `kmalloc` and `kfree`
  do to a list is proved once for any list: `Take` splits or not and `Freed` merges with
  neither, either or both neighbours. Needed beyond `ListSound`: that `prev` and `next` are
  each other's inverse, since a merge goes both ways, and that every address given out is
  behind a header, since `kfree` finds the block from it. For the refinement, what lies in
  different blocks is apart.
- **PipeProofs**: the type invariant, `Stream`, `NothingLeftBehind`. The invariant says what is
  left of the tests made before cli: a writer at its copy has bytes to write (`Writing`), and
  when nobody is left who will read on and nothing is in the pipe, it is closed (`LastReader`),
  so that a reader that has missed bytes is never the last to go. `Positions` keeps `write_pos`
  at `read_pos + count` around the ring.
- **UdpDnsProofs**: `Answers`, `Heard`. The three parts of the invariant rest on different
  variables: a host is in the ARP cache once, with the address it last announced; while a name
  is being resolved the cache has no entry for it, and the id that is waited for was last used
  to ask for it; the listener is open exactly while `udplisten` runs, what has come to it
  is numbered, and the ring holds, next to nothing older, what came since it last went to wait.
- **ConsoleProofs**: `RecentLines`, `TypedOnce`. On the side of the interrupt (`Running`,
  `Told`) the invariant says where the handler may be for a status and a set of ended
  transfers, and that what is due is the difference between the state told last and the one
  taken last. On the side of the editor a report types its characters one after the other, a
  fold, and each of them keeps line and history as they should be. `PressesTypedOnce` has a
  hypothesis, `Received >= ReportSize`: through an endpoint of 8 bytes nothing is ever typed
  (see 6). `HistoryKept` has none.
- **FatProofs**: the type invariant, `ChainsSound`, `OwnData`, `NothingLost`, for any number of
  clusters, slots, names and descriptors. None of them is inductive. The invariant says what a
  disk is that nothing has damaged (`Sound`): each *head*, which is the root or the first
  cluster of an entry, begins a path of the table that ends and repeats no cluster (`Ending`),
  no two heads have a cluster in common (`Apart`), no two entries have one head (`OneEach`), an
  entry stands in a cluster of a directory (`Rooted`), and a file has data as far as its size
  says (`Filled`). `Opened` says what a descriptor's copy is worth: the file is still where it
  was, and the chain and the size that the copy has are a beginning of the present ones. On a
  damaged disk `Partly` says which entries still have all of that.
  The argument goes from the writes to the plans. Each kind of write is shown to keep `Sound`
  where the plans put it: taking or blanking a cluster in no chain changes no chain
  (`Unmoved`), linking one makes one chain longer (`Linked`), an entry is put where none is
  (`Entered`). A plan is then a sequence whose every prefix leaves a sound disk: one lemma puts
  two such plans together (`CarefulTwo`), and an induction over the clusters does so for the
  rounds of `fat32_write` (`RoundStep`, `RoundsStep`). `SafeStep` turns this into the step of
  an operation that may complete, lose power or have a write fail whose result is tested. What an
  unnoticed failure leaves (`Slips`) is shown plan by plan. All writes that `fat32_write` plans are
  *local*, to the file's entry, to clusters of its chain and to free ones (`Local`), so that leaving
  one out changes nothing for any other entry. The plans that erase are sound only at their end;
  what they leave between (`Cleared`) depends on which clusters are freed and which entries
  erased, not on the order. A move has two entries on one chain until its last write (`Twice`).

Library theorems that take an operator as a parameter cannot be used with the provers at hand,
and so neither can induction as a rule. Where an induction over numbers is needed (the fold of
Console, the largest and smallest of a set in UdpDns and Pipe, the chains and plans of Fat) it is
done with sets: the set of numbers for which the claim fails has a least element, or is empty.
In the same way what a function defined by recursion on 0..n is at each argument is proved from
the set of its beginnings (`Recursion` in FatProofs).

Every invariant, the one action property on a step (`SleepNotEarly`) and both refinements that
the runs check are proved. Only model-checked: liveness (`ReadyRuns`, `SleeperRuns`,
`AllRoundsCount`, `AllDelivered`, `SlotFreed`, `CommandEnds`), which is beyond the prover, and
the two disagreements of section 6.

## 6. Where the code and its texts disagree

- `scheduler_user`: `usermode.cpp:19` says that the iret to ring 3 "restores EFLAGS → IF=1
  so PIT IRQs keep firing". A new user process starts in `proc_entry`, before the tick that
  switched to it has sent its EOI (`idt.cpp:138`, `:144`), so no timer interrupt reaches it
  until something switches back.
- `net_unpolled`: `shell_net.cpp:98` tells the user that ICMP replies were "processed via
  net_poll"; nothing calls `net_poll`.

- `isr128.asm:9-11` says "do NOT cli here" and "Keeping interrupts enabled lets the PIT fire
  normally during syscalls". The gate of int 0x80 is an interrupt gate (`idt.cpp:100`,
  `idt.h:25`), which clears IF on entry, so that no interrupt is taken in a system call. `Syscall` of
  Scheduler follows the gate, and `HalfBuiltSafe` rests on it: with interrupts enabled a tick
  could switch to the process that `sys_execve` has made READY and not yet given a stack. No
  run is spent on it: the first system call of any program shows it.

What the models follow as the code has it, and no text of the repository contradicts in so
many words:

- Queries leave from ports 54 and on while the handler is on port 53 (`dns.cpp:241`, `:267`):
  an answer to the source port is dropped. UdpDns lets the server answer to any port.
- The history shifts at the sixteenth line, when the array still has room
  (`terminal.cpp:271-279`), so that a slot stays empty and the oldest line goes early.
- No key yields the characters 17 and 18 that recall the history: the table of
  `keyboard.cpp:4-39` has 0 for the arrows, though `TODOFILE.md:1` lists the "command picker
  with keyboard arrows" as completed.
- `TD_TOKEN_MAXLEN` subtracts 1 and so do its callers (`uhci.cpp:222`, `:314`): reports of 8
  bytes never come through an endpoint of 8. The Console run has an endpoint of 16.
- A rollover counts as the release of all keys, and what is still held is typed again.
- `pit_uptime_ms` multiplies before it divides (`pit.cpp:35`) and so starts again from 0 after
  4294967 ticks; a deadline computed just before is reached one round later or, if it
  lies beyond the last value, never. UdpDns has that.
- What is in a listener's ring when its time is over is not printed (`shell_net.cpp:342-367`).
- If a controller takes a finished descriptor off its queue, as one may, the handler does
  not put it back. Console takes it that every active descriptor is served.
- `rm -r` asks for entries by index while it deletes them and misses every second one
  (`shell_disk.cpp:116`); Fat has that, and that `fat32_rmdir` then refuses.
- `write` never shortens a file; a mv onto a file that exists leaves two of one name.
- The largest cluster number is computed from the whole disk's sectors (`fat32.cpp:126`), and
  two copies of the table are written when there is one (`:109`); a chain's end is
  recognised by one mark only. On the disks of Fat these make no difference.

## 7. Not modelled

`PROJECT.json` gives the reason for each component. Inside the modelled ones:

- `pit_sleep_ms`, which spins for ticks that cannot come when it is called from the shell's
  interrupt, and so `help` (`shell.cpp:83`) and the loop of `wget` without a deadline
  (`shell_net.cpp:192`); the `sti; hlt; cli` loops in that same context open the handler to
  ticks that Scheduler does not show.
- What has no caller: semaphore, `pipe_destroy` under waiters, `dns_cache_flush`, recalling the
  history.
- Counters at their width: the tick counter's wrap in Scheduler (`scheduler.cpp:204`) and Tcp
  (UdpDns has that of `pit.cpp:35`), `timeout * 1000` of `udplisten` (`shell_net.cpp:326`), requests to
  `kmalloc` near 2^32 (`heap.cpp:68`).
- In UdpDns, another command while a tick has switched away from one: the interrupt that the
  first runs in is still in service.
- Two failures in one operation on the disk; what operations after damage make of it.
- Failing sector reads (`fat32.cpp:98`): `ata_read_sectors` reports only a drive that is not
  ready. Files erased or moved while they are open; a node of ramfs given to a command for the disk.
- In the network: several sockets, checksums, header lengths, ICMP echo, the numbers of source
  ports, parsing of DNS messages.
- In USB: control transfers and port resets, the data toggle, errors of the keyboard's transfers.
- ramfs, the current directory, the pool of nodes, paging and physical memory, the screen, the
  pointer's place, drawing, strings: sequential, and without a state that several steps
  could bring out of order, but for the hazards listed.

## 8. The plan

What is left, in this order:

1. Two sockets in Tcp, so that one freed under `tcp_send` is reused; deadlines at their width.
2. Memory: page bitmap, regions, `sys_brk` that fails half-way; the semaphore next to Mutex.
3. ramfs with the pool of nodes and the descriptor table.
