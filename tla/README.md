# Formal verification of the binder demos

TLA+ models, TLC checks and TLAPS proofs for the programs under `src/Demos`.
The repository is a set of tutorials; its own code is a C binder library with
a service manager, a server and a client (`BinderCDemo`), a C++ service
(`BinderCppDemo`), a character driver (`HelloDriver`) and two trivial programs.

## 1. Inventory

| part | state it keeps | operations | what makes it correct |
|---|---|---|---|
| service manager, `service_manager.c` | `svclist`: one `svcinfo` per name (handle, `allow_isolated`, `dumpsys_priority`, cookie of its death registration); the SELinux handle | ADD, GET/CHECK, LIST, PING, death notices, policy reload | exact reference counts; a death notice only removes a dead service; a dead service goes away; a lookup gives the last registrant; a listing misses nothing that stays; decisions follow the installed policy |
| binder C library, `binder4Server.c` and its copy `binder4Client.c` | the mapped buffer area and fd; nothing across calls | `binder_call`, `binder_loop`, `binder_parse`, acquire/release/link to death, free buffer, reply | every buffer is given back exactly once; a call returns the answer to its own request |
| `binder_io` (same files) | a message buffer: data and offsets, what is left of both, flags | `bio_init`, `bio_put_*`, `bio_get_*` | what is read is what was written, or the overflow flag is set |
| hello server, `binder_server.c` | two counters | publish, handler (SAYHELLO, SAYHELLO_TO, everything else) | serves only when registered, answers every call, counts it once |
| hello client, `binder_client.c` | `g_handle` | lookup, sayhello | the handle is referenced as long as it is used |
| hello driver, `HelloDriver/hello_drv.c` | `kernel_buf[1024]`, `major`, class | read, write, open, close, init, exit | reads return what was written; init and exit pair up |
| C++ service, `BinderCppDemo` | two static counters | `onTransact` under a thread pool, proxies | each call counts once; a failed call is reported |
| `HelloModule`, `AndroidRunCpp` | none | print | - |
| binder driver, SELinux, libbinder | external | | modelled only as far as the code relies on them |

How they interact. Server and client reach the service manager with
`binder_call`; the driver turns the server's object into a handle of the service
manager's process and pins it with the transaction's buffer. The handler runs
between reading a transaction and `binder_send_reply`, which gives the buffer
back. `binder_acquire` and `binder_link_to_death` keep the handle and ask for a
notice; the notice comes through the same queue as transactions and carries the
address of the entry.

What is hard. Processes die at any time, also with a request queued or being
served; the service manager enters the kernel up to four times per request, and
the world moves in between; a handle number means something only while it is
referenced; a notice refers to an entry that may have changed hands; the policy
changes under a running request; the service manager itself may go down and come
back with an empty list. PROJECT.json lists each hazard at its line.

## 2. Modules

| module | models |
|---|---|
| `BinderDriver` | the driver's table of handles of the service manager's process (external): translation of objects, BC_ACQUIRE, BC_RELEASE, BC_REQUEST_DEATH_NOTIFICATION, process death |
| `ServiceManager` | `service_manager.c` over the driver: callers that register, look up, list and die; a step is the code between two ioctls |
| `Registry` | the abstract specification of the service manager: name -> last registrant |
| `ListServices` | a process that enumerates the services with LIST, beside everything `ServiceManager` does |
| `BinderIO` | the messages of `binder4Server.c`/`binder4Client.c`: layout, overflow, reading back |
| `HelloSystem` | `binder_server.c` and `binder_client.c` over `binder_call`, `binder_parse`, `binder_loop`, the driver's queues and the registry (`Registry`, as an instance), with a service manager that goes down and comes back |
| `HelloService` | the abstract specification of the hello service: calls, counts and what callers are told |
| `HelloDriver` | `hello_drv.c` and `hello_drv_test.c` |
| `CppHelloService` | `BinderCppDemo` over libbinder |
| `MC*` + `.cfg` | instances for TLC |
| `ServiceManagerProofs` | TLAPS: types, reference counts, the list |
| `ServiceManagerNotices` | TLAPS: death notices |
| `ServiceManagerRefinement` | TLAPS: `ServiceManager` implements `Registry` |
| `BinderIOProofs` | TLAPS: types, the space of the offset entries, what a receiver reads |
| `HelloDriverProofs` | TLAPS: what readers print, what unloading leaves |
| `HelloSystemProofs` | TLAPS: every safety property of `HelloSystem`; it implements `HelloService` |
| `CppHelloProofs` | TLAPS: every safety property of `CppHelloService` |
| `ListServicesProofs` | TLAPS: a listing misses nothing, accounts for repeats and is bounded |

### ServiceManager

State. `svclist` is the list (names, newest first) and `svc[n]` the entry of `n`;
one entry per name is itself a property (`ListOK`). `txn[p]` is the request of
process `p` that is queued or served, `bufh[p]` the handle its buffer pins.
`pc`, `cur`, `obit`, `out` are where the single thread is, whom it serves, the
entry a notice named and the reply it builds. `node`, `strong`, `death`, `dead`
are the driver's table.

Actions and code:

| action | code |
|---|---|
| `Send`, `Die`, `UpdatePolicy` | callers (`svcmgr_publish`, `svcmgr_lookup`), process end, policy change |
| `ReadTxn`, `ReadDead`, `DeadBinder` | `binder_loop`, `binder_parse`; `svcinfo_death` |
| `Ping`, `BadId`, `Unknown`, `Get`, `List`, `AddReject` | paths of `svcmgr_handler` that only answer |
| `AddOverride` then `AddTake`; `AddRevive`; `AddFresh` | the three paths of `do_add_service` up to `binder_acquire` |
| `AddLink`, `SendReply` | `binder_link_to_death`; `binder_send_reply` |

Abstractions. A name, a policy and a uid class are model values; `NoName` is a
missing string, which the handlers refuse, `BadName` an empty one or one of over 127
characters, which cannot be registered and is looked up in vain (GET answers it with
handle 0 in a successful reply). `FitReply` has the names that fit in the 256 bytes
of a reply: `binder_send_reply` does not look at the overflow, so LIST answers any
other one with status 0 and a null string (`Received`). `Str8` is the lossy 8-bit
name the policy sees. A request is read from its buffer as one record. A process
publishes one object and has one call at a time, as the demos' programs do. The
queue is a set: more orders than the driver's FIFO, except that a process's
request is read before the notice of its death, which the FIFO gives and the code
needs. `LIST` takes its flags from a set instead of a bit mask; two's-complement
widths play no role.

### Registry

`reg[n]` and the process `given` in the answer under construction. A name
changes hands only by a registration, is lost only after its process died, and
a lookup gives the registrant or nothing. The refinement maps `reg[n]` to the
object behind the entry's handle, or to the registering process between the
release of the old handle and the acquisition of the new.

### ListServices

The request gives one name per call, so a caller asks for index 0, 1, 2 and so on
until it is refused. No program of the repository does; the caller here does what
libbinder's `listServices` does and is external, while the answers come from
`ServiceManager`, which this module extends. `stage` is where the caller is, `listed`
the answers it has (names, and `NoName` for a null string), `before` (history) the
names that matched when it began. A null string is an answer like any other and
advances the index; nothing is missed therefore says: nothing whose name fits.

### BinderIO

One message from `bio_init` to the last `bio_get_*`. `bio` is the sender's
`binder_io` (`data0`, `data`, `data_avail`, `offs`, `offs_avail`, the overflow
flag) with `mem`, the cell that was stored at each address; `sent` is what was
put; `msg` the receiver's position; `got` what it read. An action is a
`bio_put_*` (`Put`), the end of the message as a call or a reply (`Call`,
`SendReply`) or a `bio_get_*` (`Get`). The receiver asks for the kinds the sender
put, in that order, as every pair of programs here does. Sizes are bytes, rounded
as in C modulo `SizeMod`; contents are cells, so two strings of one length are
the same. `_bio_get_obj` counts the entries in `size_t`, which for a wider entry
makes it look behind them: `HasOffset` then gives either answer.

### HelloSystem

Each process has one thread. `pc` is its place in `main`, `readbuf` the commands
an ioctl returned and `binder_parse` has not reached, `res` the value
`binder_parse` will return, `io` the reply's `binder_io`. The driver has `todo`
(commands for a thread), `work` (transactions for a server), `call` (whose reply a
process waits for), `bufs` (its buffers) and `ref` (a client's references on its
handle).

| action | code |
|---|---|
| `OpenFails` | `binder_open` fails, and `main` ends |
| `Publish`, `PublishDone` | `svcmgr_publish`, `main` of the server |
| `Lookup`, `Acquire`, `LookupDone` | `svcmgr_lookup`, `main` of the client |
| `Hello`, `HelloDone` | `sayhello` of `binder_client.c`; `sayhello_to`, which `Binder C 程序示例.md` (lines 215-245) lists in the same program |
| `Read`, `Parse`, `CallDone` | the ioctl, one command of `binder_parse`, `binder_call` returns 0 |
| `ParseEnds`, `ReadFails` (with `GiveUp`) | the other ends of `binder_call` and `binder_loop`: each caller gives up, `sayhello_to` with the result 0 |
| `sayhello`, `sayhello_to`, `Reject`, `SendReply` | the branches of `hello_service_handler`, `binder_send_reply` |
| `Add` (with `Refuse`), `Check`, `CheckReply`, `Forget` | the service manager, as `Registry`, with its replies |
| `ManagerStarts`, `ManagerReady`, `ManagerDies` | `main` of the service manager up to and after becoming context manager; its abort or end |
| `Die`, `Exit` | the end of a process and what the driver does about it (`Abandoned`) |

The service manager is `Registry` because `Refinement` (section 4) says that is
all a caller sees of it. While it is down its handle is dead, and who waits for it
is told; a new one starts with no names, and servers that are registered nowhere
go on serving those who hold their handle. Between becoming context manager and
its loop it can be called but does not answer. A refused request is answered with
a status in a TF_STATUS_CODE reply, which `binder_parse` treats like any other, so
`binder_call` returns 0 and `svcmgr_publish` finds the status as data.

A client makes one request: `SAYHELLO`, `SAYHELLO_TO`, or one the handler rejects
(an unknown code or no name). `binder_client.c` as it is built sends the first
only; the others are sent as the tutorial's `sayhello_to` sends them, over the same
`binder_call`. `ret` is what it returns: the number, -1 for an exception (a refusal's
status is read as one), 0 when `binder_call` fails; `sayhello` has no result, which
is 0 here. A lookup finds nothing also where the service manager denies it (an
isolated caller, no permission). Names are taken to fit in the handler's buffer of
512 characters; the copy of a longer one is undefined, and only the end of the
server (`Die`) is here of what it may do. `said` is history: the number with which a
call was counted. BR_NOOP and the reference commands of a
server's own node change nothing and are left out, except those that come with the
registration (`REFS`).

### HelloService

A call is carried out at most once and counted when it is (`Greet`). Its caller is
told something once, or never: the number of the call or, for a call that is not
carried out, then or later, an exception (`Answer`); or 0, which tells nothing:
the call failed, and may have been counted, may be counted later, or never
(`Tell`). The refinement maps `told` to `ret`, unchanged.

### HelloDriver

`kernel_buf` and a reader's `buf` are arrays of bytes; a byte is the user who
wrote it, or `Nul`. `copy_from_user` and `copy_to_user` are a step per byte,
because nothing in the driver keeps two calls apart. `hello_init` and
`hello_exit` are one step each: nobody can open the device while they run. `alone`
and `last` are history variables for `ReadsLastWrite`. A copy does not fault: the
program passes its own buffers with their sizes.

### CppHelloService

A thread of the pool takes a call, loads and stores the counter, reads the value
to return (from memory or its register: both occur in builds) and replies. A
proxy that gets an error reads zeros from its empty reply. `raced` is history.
`addService` may fail without notice, and `getService` may give up.

## 3. Checks

| run | instance | shows |
|---|---|---|
| `registrars` | two processes that take `x` from each other, one with `y`, one that looks up; 3 handles, one per object; two policies that favour different registrars; `malloc` may fail | all invariants and the refinement, with deaths and policy changes at every point; acceptance follows the installed policy |
| `liveness` | two registrars of `x`, one also without an object; an app with every early-answered request, LIST and a registration it may not make | dead services are forgotten, every call answered |
| `listing` | two registrars, of `x` and of `x` and `y`, where `y` does not fit in a reply, and a process that lists | no service is left out that was there from the start and whose name fits; names repeat only because of new entries and null strings; the lister has never more answers than there are entries; the listing ends |
| `isolated` (violation) | `x` first registered with `allow_isolated`, then taken over without | the flag of the first registration decides about the second |
| `alias` (violation) | one object under `x` and `y`; `x` is taken over | the old owner's notice removes the new, live owner |
| `messages` | up to five items of every kind, a buffer of 84 bytes with one offset entry, soon full | what is called arrives complete; no receiver takes one item for another; entries and data stay apart |
| `long_reply` (violation) | the 256-byte reply and a name of 127 characters | the name is lost although the reply is sent |
| `hello` | two servers of one name, two clients that make numbered calls, deaths anywhere, the service manager's too | handles are held, buffers go back once, a server's numbers differ, callers see `HelloService`; 0 is returned only for a call whose server has died |
| `hello_live` | a server that may be refused, a client with any request, refused transactions, interrupted reads, a service manager that dies and is started up to twice | callers see `HelloService` also when calls fail that are counted later; only accepted servers serve, no loop ends by a stray reply; who waits has its call with somebody that is there, and nobody waits for ever |
| `device` | three users, strings of 0, 1, 2 and 4 bytes in a buffer of 3, two loads | reads without a writer are exact, disturbed ones only mix; unloading leaves nothing |
| `load` (violation) | registrations that fail | the module is loaded and has no usable device |
| `pool` | three clients, two threads, a server that may die | counts are bounded, exact if calls do not overlap; 0 means failed; no call is lost or doubled; every client ends |

Bounds. Two registrars of a name are what an override needs; a third with
another name is what reuse of handle numbers and mixing up entries need; as many
handles as objects make every number be reused. Processes do not come back: a
restarted program is another process of the set. `CHECK_DEADLOCK FALSE`, because
when everybody has died the service manager waits for ever; that it never stops
while it has work is `CallsAnswered`. In `BinderIO` widths are scaled: a `uint32_t`
has 12 bits and a `size_t` 24, so that the length word of the null string does not
wrap as a size, as in a 64-bit build; five items fill the buffer in every way. In
`ListServices` two names are what a listing that grows under the caller needs, and
one name that is taken over with other flags what makes the flags of an entry
matter; one name fits in a reply and one does not, so that null strings come before,
between and after names. In `HelloSystem` two servers are what a replacement under a client needs,
two clients what mixing up callers needs; each client calls once, as its program
does. `hello` and `hello_live` both check the refinement: the first has two callers to
mix up, the second the failing reads after which a call is counted though its caller
was told 0. `MaxStarts` bounds how often the service manager is started again: once is a
manager that comes back empty, twice one that goes down while a call to its
successor waits. `hello` has no faults and no restart, since two servers and two
clients are its size; `hello_live` has one server and one client with both.
`ReloadMayFail` is FALSE in the runs: a stale policy after a failed reload is
nobody's promise broken; the theorems other than `PolicyFollowed` allow it.
In `HelloDriver` three users are two writers and a reader; string lengths are
empty, shorter, just fitting and too long. In `CppHelloService` two threads are
what a lost update needs and three clients what a late store over two others needs.
`CHECK_DEADLOCK FALSE` in these, too: programs end.

Fairness. Weak fairness of the service manager's own steps (a thread that is
scheduled; the ioctls of the handlers do not block) and strong fairness of
reading each queued item: the queue is first in, first out, so an item cannot be
passed over for ever, while as a set it is disabled whenever the manager is busy.
Nothing obliges a process to send or to die. `ListServices` asks the same for the
lister's requests only, and that the lister goes on asking. `HelloSystem` has weak
fairness of each process and of the service manager's steps while it is there
(`CallsAnswered` is why that is fair to ask); failing opens, transactions and
reads, deaths, and starting the manager again are never obliged.
`CppHelloService` has weak fairness of each client and each pool thread.

Findings. `isolated`: `do_add_service` (line 229) replaces only the handle of an
existing entry. `alias`: `svcinfo_death` acts on the entry, not on the handle the
notice is for (line 165); with one object under two names the second death
registration is refused and the first outlives an override. `long_reply`:
`binder_parse` gives a handler 256 bytes for its reply, and `binder_send_reply`
does not look at the overflow flag; a name of 110 characters or more, which
`do_add_service` accepts, cannot be listed (`NothingMissed` is about the others). `load`: `hello_init` ignores
what `register_chrdev` and `device_create` return. Also met: `bio_init` reserves
`sizeof(size_t)` for each entry while the entries are `binder_size_t`, so in a
32-bit build with 8-byte entries the third of four objects would have its entry in
the data (no program here sends more than one object); line 1 of
`BinderClient.cpp` starts with stray characters and does not compile, and
`binder4Client.c:125` ends in some.

## 4. Proofs

For every number of processes, names, handles and policies:

* `TypeCorrect`, `RefCountsCorrect`, `ListCorrect` from `RefInv /\ ListInv`.
  Counts and types need each other: BC_RELEASE stays above zero only because the
  holder it stands for is counted. `Serving`, `Adding`, `FreeEntry` say what the
  thread has in hand at each `pc`; `NoIdleBuffer` that a caller without a request
  pins nothing; `ListInv` that a new name has no handle to lose.
* `Ownership`, whatever names processes publish: a buffer of a registration holds
  its sender's object, an entry and a death registration stand for processes that
  may publish under the name, a notice is for a dead process (`CoreInv`).
  `MayPublish`: the process asks for that and some policy grants it.
* `NoticesCorrect` from `CoreInv`, under `NamesApart`: a process that may publish
  under two names shares neither with another. The argument: the handle of a
  notice that can be read is held by somebody, and no buffer holds it, since the
  dead process's request has been read, so an entry does. If the entry the notice
  names has another handle, the entry that holds the notice's is of a second name
  of the dead process, and the first name, if it is not that process's own, is
  shared. `alias` has such a shared name and shows what happens then.
* `NoticesComplete`, `RegistrationsOwned` from `Inv` (`CoreInv` with `Linked`,
  `NoticeKept`, `NoticeRead`), under `OneName`: no process may publish under two
  names. Here the condition cannot be `NamesApart`: with a second name the second
  death registration is refused, and that entry gets no notice.
* `Refinement`: every step of `ServiceManager` is a step of `Registry` or
  changes nothing it sees, under `NamesApart`: `Forget` is right when
  `NoticesCorrect` is, and no other step needs the condition.
* `BinderIOProofs`: `TypeCorrect` for every build, buffer size and message.
  `OffsetsCorrect` if an entry is no larger than a `size_t` (`OffsetsFit`), and
  `FewObjectsFit` without that, as long as the entries of the message fit in what
  `bio_init` reserved for them: a message with one object, as here, is right in every
  build. Both are inductive by `Layout` (the entries put and left are no more than
  were asked for, the data in the buffer).
  `ReadsPrefix` and `CallsArrive` for every buffer, message and string, if
  `OffsetsFit` holds, sizes do not wrap and the size of the null string, which
  `bio_get_string16` computes from the length word 0xffffffff, is larger than any
  buffer (`WideSizes`: true where a `size_t` has 64 bits, and of `Messages.cfg`; in 32
  bits that size wraps to 0). `Chain` gives each item the offset where it lies, or
  where it did not fit, by a function that each `bio_put_*` extends; `Grows` says that
  a put leaves alone what is there; `Going` and `Ended` are a receiver that has
  everything so far and one that finds no more.
* `PolicyFollowed`: a registration that is taken was granted by the policy that is
  installed, if new files can be opened (`~ReloadMayFail`). `StatusTells`: where
  the handle in use is not that of the installed policy, the status is set.
* `HelloDriverProofs`: `PrintsCharsWritten`, `UnloadLeavesNothing` and
  `ReadersSeeLastWrite` for any users, strings and buffer size. `Stems`: each byte of
  either buffer lies within the string of its writer; `TextStops`: a buffer that
  ends in Nul has a first one. `Registration`: what is registered belongs to the
  loaded module. `LastWrite`: `kernel_buf` shows the last string as long as nobody
  writes and no two wrote at once, and what calls that are alone have copied so
  far is right (`Shows`, `InCall`); `Alone`: who is alone overlaps no writer.
* `HelloSystemProofs`, for any servers, clients, deaths, faults and restarts:
  `HandlesHeld`, `RegistrationsTruthful`, `LoopsGoOn` from `Core`, `BuffersGoBack` from
  `Buffers`, and the refinement `HelloImplemented`. The argument: a process is owed
  at most one answer, which is with the one it called, or last in the driver's
  queue, or last in what it has read, or already in `res` (`Line`); so an answer
  that is parsed belongs to the call the process waits in, no stray one reaches
  `binder_loop`, and what it says is right for that call (`Good`: a status 0 means
  an accepted registration, a handle comes with its reference, a number is the
  caller's). `Asked`: whom the service manager has queued waits for it. `Unique`,
  `Placed`: a request to a server is in one place, its caller waits for that server
  or is gone, and it was not counted before. None of these is inductive alone:
  that an answer is right needs that there is one, which needs `Placed` and
  `Asked`, which need that a process calls only after its last answer was taken.
  `ReplyBuf` and `RequestBufs` tell the buffers of replies and requests apart, on
  top of `Core`.
  `NoneStranded` on top of both, the part of `ClientsEnd` and `ServersSettle` that is a
  safety property: `Owed` (who waits is owed an answer or has it, in one of the
  places of `Line`) and `Backed` (a call to the service manager is queued or being
  answered and the manager is not down; a call to a server is in the hands of that
  server, which is alive). What is left of the liveness is that everybody who
  can step does. `NumbersDiffer`: a client called the server whose handle it has
  (`Chosen`), which by `Placed` is the one that counts, so a new number is ahead of
  all that server gave before. `HelloImplemented`: a request may be carried out for a
  caller that has given up (`Held`: it was told nothing, or 0), never for one that was
  told an exception. `ZerosMeanFailed`: without faults, an error on its way to a
  client that waits for its server says that this server is gone (`Excused`), by
  `Chosen` and because a client holds its handle when it calls; and no answer has
  the number 0 (`TrueAnswer`).
* `CppHelloProofs`, for any threads and clients: `FailuresSeen`, `CountsBounded`,
  `ExactWhenApart`. `JobsAwaited`, `QueueAwaited`, `Once`: a call is in one place
  and its client waits in it; `CountBound`, `RegBound`, `ResultBound`, `Parcels`:
  counters, registers, results and parcels against the calls begun; `Apart`: as
  long as no two calls raced, one thread at most is counting and no number was
  given twice. `OnePlace` adds to these that a waiting call is somewhere (`Awaiting`).
* `ListServicesProofs`, for any processes, names and flags: `NoneMissed`,
  `RepeatsExplained`, `ListingsBounded`. Over the reference invariant of `ServiceManagerProofs`:
  `Covers` (each name that fits and was there when the listing began is known, or its entry
  has at least as many matching entries ahead of it as the next index), `Asking` (the
  queued question has that index), `Complete` (a refusal means that nothing is to
  come). The bound on repeats follows by counting (`Accounted`): the index is at
  most the number of matching entries, each of which is known, was put in front
  since, or has a name that does not fit. With finitely many names that also bounds the listing itself.

Assumptions are those of the modules: types of the constants, finite sets of
processes and names, distinct from each other (`DriverAssumption`,
`ManagerAssumption`, `ListerAssumption`, `SizeAssumption`, `SystemAssumption`,
`ServiceAssumption`).

Only model-checked: liveness, which TLAPS cannot prove under fairness
(`DeadForgotten`, `CallsAnswered`, `ListingEnds`, `ServersSettle` and `ClientsEnd` of
both hello systems). What safety has to do with these is proved: `NoticeComing`,
`ListingBounded`, `NobodyStranded`, `CallInOnePlace`.

## 5. Plan

What is left: the composition of `HelloSystem` with `ServiceManager` itself in
place of `Registry`. The refinement says that callers see no difference, and the
product is out of TLC's reach for more than one server and one client.

Not modelled. `HelloModule` and `AndroidRunCpp`: no state. `binder_close`,
`binder_set_maxthreads` and one-way transactions: no program calls or sends them.
What `binder_open` leaves open when the versions differ: every program ends then,
and the end of a process closes its files. Two service managers at once: the
driver lets one become context manager. Memory mapping, build files, the tutorial
texts, except the client's `sayhello_to`, which is only listed there. A second name
of one object that stays in the list after its owner has died: no property is about
it, see `OneName` in section 4 and the hazard at `service_manager.c:252`. Offset
entries wider than a `size_t`: no run has them, only `FewObjectsFit` is about them.
