# Verification of the UniFly X-Plane plugin

This directory models the plugin in `src/` with TLA+: its modules are checked with TLC on small
instances, and every safety property of the passing runs is proved with TLAPS for every instance.
Section 1 is the inventory, 2 and 3 say how the modules are made, 4 to 7 what is modelled, what the
runs show and what is proved; section 8 says what the project leaves out.

## 1. The system

The plugin sits between the UniFly app (a separate program, not in this repository) and X-Plane.
The app connects over TCP; it asks the plugin to spawn, move, configure and despawn the aircraft of
other pilots (through the XPMP2 library), to teleport the user's aircraft, to change the label
settings and to load models. The plugin reports frames, the state of the user's aircraft, terrain
elevations, and which aircraft it has created and destroyed.

Two threads run this. X-Plane's own thread runs every callback: the flight loops, the queued
callbacks, menus, commands, enable and disable. The *socket thread* (`UniFly::SocketWorker`) accepts
one client at a time and reads its commands.

### Inventory

| component | source | state | operations | what makes it correct |
|---|---|---|---|---|
| Session | `src/src/unifly.cpp`, `src/inc/unifly.h` | `m_socket`, `m_keepSocketAlive`, `m_queuedCallbacks`, `m_socketThread` | Initialize, SocketWorker, ProcessPacket, QueueCallback, InvokeQueuedCallbacks, MainFlightLoop, send_msg, Shutdown | sessions of successive clients do not mix; the client's picture of the aircraft is right; disable ends; a departed client is cleaned up |
| Framing and back-pressure | `src/src/socket.cpp` | the byte streams and TCP's buffers | send_message, recv_message | messages come out whole and in order; two ends that write at once do not wait for ever |
| Aircraft | `src/src/aircraft_manager.cpp`, `src/src/network_aircraft.cpp`, `src/src/terrain_probe.cpp` | `mapPlanes`, each aircraft's visual state, `engines` and terrain probe | spawn, despawn, position, context, maintenance, notifier, UpdatePosition | notices match the map; an aircraft is drawn as last reported; probes are given back |
| Settings and menu | `src/src/config.cpp`, `src/inc/config.h`, `src/src/plugin.cpp` | the `Config` singleton, menu items | LoadConfig, setters, command handlers | a command changes the setting it names and nothing else |
| Lifecycle | `src/src/plugin.cpp`, constructors and destructors | registrations with X-Plane and XPMP2 | start, enable, disable, stop | nothing registered outlives the object it points to |
| Logging | `src/src/utilities.cpp` | `qMsgs`, `fMsgsEmpty`, the static format buffer | LogMsg, PushMsg, FlushMsgs | no message is lost; the lock is not taken for nothing |
| DataRefAccess | `src/src/data_ref_access.cpp`, `src/inc/data_ref_access.h` | handle, history, cache of arrays, whether shared | construct, destroy, read, write, setVal, save, undo, hasChanged, forceChanged, reserve | X-Plane calls back only live objects; undo restores; a forced change is noticed; writes touch what they name |
| OwnedDataRef | `src/src/data_ref_owned.cpp`, `src/inc/data_ref_owned.h` | the value | register, partial read and write | reads and writes stay in bounds |
| TCAS control | `src/src/unifly.cpp:413-431` | control of the AI aircraft, the request for it | acquire, ask again, release | a request is with X-Plane as long as another plugin has them; they are given back at disable |

Interaction: the socket thread hands work to X-Plane's thread through `m_queuedCallbacks` (mutex);
X-Plane's thread stops the socket thread through `m_keepSocketAlive` (atomic) and by closing the
socket; both use `m_socket` (a plain `shared_ptr`) without synchronisation. Both log. Everything else
belongs to X-Plane's thread.

### The hard behaviours, and what must hold of each

**Session.** Two threads meet in one object. The queue keeps the order of what a client asks for;
everything that makes successive clients independent (their aircraft, the menu) depends on that order
and on the cleanup callback being queued behind the client's last command. `m_socket` is switched
from client to client while callbacks of the last one are still waiting, so messages may go to a
client they are not about. Disabling joins a thread that may be blocked in a read.
*Correct*: the callbacks pending are whole sessions; every aircraft belongs to the open session and
has its removal coming; the notices a client has been sent add up to the aircraft there are; disable
ends; a departed client's aircraft go; a waiting client is served.

**Logging.** Messages from the socket thread go through a queue and an atomic flag that is tested
without the lock. *Correct*: nothing waits while the flag says that nothing does; messages stay in
order, once each; nothing is left when the plugin is disabled. The format buffer is not protected.

**Lifecycle, menu, settings.** Objects with callbacks registered at X-Plane and XPMP2 come and go
with every enable and disable, the settings and the menu stay. Client and user both change the
settings. *Correct*: no callback gets a pointer to what is gone; menu, labels and client agree with
the settings; the menu can be used exactly while there is a client, unless an exception or a
disable has taken the callback away that would switch it.

**Aircraft.** XPMP2 refuses some identifiers by throwing, in the middle of a batch of callbacks, which
ends the batch and the frame's reports; an aircraft is drawn before its first context report; each
holds a probe X-Plane has lent. *Correct*: a refused aircraft costs at most the session it comes in and
leaks nothing; once the client has said where and how an aircraft is, nothing else is drawn; reports
that depend on X-Plane's counter, which counts in twos, keep their period.

**Framing.** Both ends prefix a length; the two directions have different limits; bytes come cut up in
any way and stop at any point. A write blocks the simulator while the client does not read. *Correct*:
what is taken is whole and in order; a message that is refused is the last; two ends that write to each
other do not wait for ever.

**DataRefs.** An object whose checks fail is used all the same, and X-Plane may already hold a pointer
to it; the data, its size and its publisher change between one call and the next, while the object
keeps a history and a cache of it; floating numbers are compared with a tolerance; partial reads and
writes trust an offset. *Correct*: only live objects are called back; what was saved can be restored; a
change that is forced is noticed; a write changes what it names and nothing else.

**TCAS.** Another plugin may have the AI aircraft. *Correct*: control is asked for again, and given
back when the plugin is disabled. (A request still waiting then is not taken back: `XPluginDisable` has no
call for that.)

## 2. Files

| module | what it is | models |
|---|---|---|
| `Connection` | detailed model | `unifly.cpp`, `unifly.h`, the outcomes of `socket.cpp`, spawn and despawn of `aircraft_manager.cpp` |
| `SessionContract` | abstract specification | what `Connection` promises to the simulator |
| `ConnectionProofs`, `ConnectionContract`, `ConnectionView` | proofs | about `Connection`: isolation; the refinement; what clients are told, what exceptions cost, the join |
| `Traffic`, `TrafficProofs` | detailed model, proofs | `aircraft_manager.cpp`, `network_aircraft.cpp`, `terrain_probe.cpp`, the counter and the AI aircraft in `unifly.cpp` |
| `Link`, `LinkProofs` | detailed model, proofs | `socket.cpp`, and the loop and the frame that call it |
| `Channel` | abstract specification | what `Link` promises in each direction |
| `LogQueue`, `LogQueueProofs` | detailed model, proofs | `utilities.cpp` and who calls it |
| `LogContract` | abstract specification | what `LogMsg` promises to the threads that call it |
| `Plugin`, `PluginProofs` | detailed model, proofs | `plugin.cpp`, `config.cpp`, constructors and destructors |
| `DataRefs`, `DataRefsProofs` | detailed model, proofs | `data_ref_access.h`, `data_ref_access.cpp`, `data_ref_owned.h`, `data_ref_owned.cpp` |
| `MCConnection`, `MCTraffic`, `MCLink`, `MCLogQueue`, `MCPlugin`, `MCDataRefs` | instances for TLC | |

An operator commented *Fault:* stands before the definition it spoils; it is that definition with one
plausible bug, used to see that a property would notice.

## 3. How the modules divide the system

The core was modelled first: `Connection` with the contract it implements, then `LogQueue`, `Plugin`
and `DataRefs`, and after them `Traffic` and `Link`. Each abstracts the others: `Connection` has for a
message only its kind and peer and for a write its outcome and who can hold it up, `Link` has the bytes of both but for a
callback only that it is queued, `Traffic` has what callbacks do to an aircraft but takes them in any
order the client may ask for, and `Plugin` has of a session the place the socket thread is at, the socket,
the queue and the exceptions. What is drawn
with the two threads interleaved is therefore `Connection`'s map with `Traffic`'s aircraft: `Traffic`
allows every sequence of callbacks, so also the ones `Connection` lets through.

Still planned, in this order: an abstract specification of what `Plugin` promises of the settings (one
record, changed by the user or the client, that menu, labels and client follow) and of a `DataRefAccess`
that is alone with its dataref, with the proofs that the modules implement them; for `Traffic`, that an
aircraft the client has removed is never drawn again. Beyond that: `std::string` datarefs, the
wrap-around of X-Plane's counter, a client that answers (it is not in this repository).

## 4. How the models correspond to the code

**`Connection`.** `wpc` is the line of `SocketWorker` the socket thread is at and `xpc` the callback
X-Plane's thread is in. Each read or write of a shared variable is a step of its own: the test in
`send_msg` (`SendTest`), the use of the socket (`SendDelivered`, `SendFailed`, `SendCrashed`),
`m_socket = socket` (`Publish`), `m_socket = nullptr` (`Retire`), the same in `Shutdown`
(`ShutdownTest`, `ShutdownClose`). Which value the dereference sees is left open (`Dereferenced`), as
is what using a null or destroyed socket does: fail, or bring the process down. A callback runs as one
step and leaves what it has to send in `outbox`: it touches nothing else that the socket thread does.
Clients are numbered in the order they connect; messages carry as history which client they are about.
`Throw` is an exception on the socket thread; inside the session it skips the cleanup as the inner
catch does. `SpawnRefused` is one on X-Plane's thread: XPMP2 refuses an aircraft, and the rest of the
batch and of `MainFlightLoop` is not run. The content of reports, positions and models is left out.

**`LogQueue`.** `pc[t]` is the statement a thread is at within `LogMsg`; the static buffer is a
variable every thread writes in steps. The flag starts in either state. `phase` follows X-Plane
through the plugin's life so that the messages logged before the thread is marked, by the running
threads, and after the join are where the code has them.

**`Plugin`.** The callbacks X-Plane and XPMP2 hold are a set of pairs of callback and pointer;
`Addresses` may be reused by the next UniFly. What is done with a pointer that is gone is recorded in
`dangling` and not followed: the behaviour ends there. Commands, enable and disable are whole
handlers. `serving` is where `SocketWorker` is between `accept` and its end, with the steps that can be
told apart from X-Plane's thread: `m_socket = socket` (`Publish`) before the open is queued
(`QueueOpen`), `m_socket = nullptr` (`Retire`) before the cleanup is (`QueueCleanup`), and the exceptions
that skip both (`Throw`) or, on X-Plane's thread, drop the batch (`SpawnRefused`). A callback and what it
sends are one step: whether a send meets a socket that is there is `Connection`'s question. `gone` is a
client that has closed its end; what is written to it is not counted as told. `lost` is history: the open
or cleanup that would have had the last word on the menu is not going to be run. X-Plane executes a command by calling
one handler and stops there, for each returns 0; of several with equal priority any may come first.
`None` as a menu or label means that nothing has been shown yet.

**`Traffic`.** X-Plane's thread only. A frame raises the counter by two and makes its callbacks in any
order (`todo`); `inMain` is `MainFlightLoop` between the swap of the queue and its reports, and each
`Callback` in between is one of the handlers of `AircraftManager`, in full. An aircraft's record is the
members of `NetworkAircraft` that drawing depends on: `place` and `engines` are what `UpdatePosition`
reads, `drawn` and `turning` what it last wrote for XPMP2. `engines` is not initialised, so a new
aircraft has either value. `probes` are the handles X-Plane has given out. `said` and `lag` are history:
the client's last words on the aircraft there is, and whether they are later than its last drawing.
`pace` counts frames since a report and is what `Counter % 40` and `% 180` are compared with. There is
one enabling only; `Plugin` has several. X-Plane is taken to survive an exception that leaves a flight
loop, and `InitializeXPMP` to succeed.

**`Link`.** `stream[d]` is the pieces begun to be sent in direction `d`, the prefix and as many pieces of
body as the message has bytes; `written` and `read` say how far they have got, so the distance between
them is what TCP's buffers hold. The socket thread is `Receive...`, `Refuse`, `ParseFails`; X-Plane's is
`EnterFrame`, which takes the queue and decides how many messages the frame will send, `Send`, and the
same `Write` that is stuck in `asio::write`. A client writes or reads, not both. `closed` is the
session left by the socket thread, `gone` by the client. When the session ends while a write is blocked,
whether the write ends depends on the platform, and is left open (`WriteFails`).

**`DataRefs`.** `acc[u]` has the members of one `DataRefAccess` object: `bound` is `m_data_ref` not
null, `history` and `cache` are `m_history` and `cache_`; `asked` keeps the constructor's argument
`share`. Each member function is an action, with the refresh of the cache every read makes. The value a
scalar's uninitialised `m_history` starts with is left open. `HasChanged` compares integers exactly and
floating numbers as the code does (`Far`): a NaN is never far from anything, nor are numbers within
`Epsilon`, and the largest number is far from all others. `Publish`, `Unload` and `OtherWrites` are
X-Plane and other plugins; whether a shared array grows when written past its end, and whether its
memory goes with the last sharer, is left open because the SDK does. An `OwnedDataRef` is one of the
things that may be behind the name: `RegisterOwned` gives its dataref one accessor for each direction
the owner allows, `Unregister` leaves it orphaned, and `SetValue` is its `writeFunc`, which makes what is
written the whole value and looks for it from the offset on in the writer's memory.
`saved` and `forced` are history: what `save` found, until `forceChanged` or `reserve` replaces it on
purpose, and how many items of `m_history` `forceChanged` has set that nobody has replaced since.

Assumed of the outside: X-Plane calls the plugin on one thread, only calls back what is registered and
nothing while the plugin is disabled; XPMP2 calls its notifier when an aircraft comes or goes, and may
or may not forget notifiers when it is cleaned up and its label settings when it is initialised again.

## 5. The runs

| run | question | bounds |
|---|---|---|
| `session_safety` | do sessions mix, does the client know the aircraft, does `Shutdown` close the right socket, is the contract kept, and what remains of it all when either thread throws? | 2 clients in turn, 2 peers, 2 commands, 1 exception |
| `session_liveness` | does disabling end, is a departed client cleaned up, a waiting one served? | 2 clients, 1 peer, 1 command |
| `send_race` | is `if (m_socket)` enough? (violation) | 1 client |
| `log_safety` | is `LogMsg` atomic; is a message overlooked, torn or left in the queue for ever? | 1 worker, 3 messages a thread |
| `log_race` | does every line end in a newline? (violation) | the same |
| `plugin_safety` | do settings, menu, labels and client agree; does anything outlive its UniFly? | 2 lives, 2 addresses, 1 command, queue of 2, 2 settings a client sends, any number of clients and exceptions |
| `type_command` | does the type command cycle the type? (violation) | 1 life |
| `maintenance_after_disable` | does the maintenance callback end with its manager? (violation) | 2 lives |
| `dataref_history` | are callbacks, history and element writes right, whatever is behind the name? | 1 object at a time, an `int`, a `double` or floats; 0, the largest number and NaN; arrays up to 2 |
| `dataref_notify` | is every sharer notified? (violation) | 2 objects, scalars, numbers 0..1 |
| `traffic` | is what X-Plane lends given back, are aircraft drawn as reported, are reports paced, are the AI aircraft asked for? | 2 peers, 2 places, periods 2 and 3 for 20 and 90, counter to 13, 2 probes |
| `link` | do messages come out whole and in order, do frames go on? | buffers of 2 pieces, limits 2 and 3, 3 messages up of 0..3 pieces, 2 down of 1, 2 or 4 |

*Why these bounds are enough.* A second client is needed for anything to mix, and a third is to the
second what the second is to the first: a session starts from an empty map and the menu off. Two peers
tell a command's peer from another; two commands make a spawn and what follows it. Three messages of a
worker make one that is queued before, during and after a flush; X-Plane's thread has one before it is
marked, one while the plugin runs and one after the join. Two lives at the same or different addresses
are what separates a stale registration from a live one; one command is enough to meet the client's
settings, its leaving and both lives, for a command leaves nothing behind but the settings, which are
any the client sent before or the default; the client's two settings are one of
unspecified and unknown values and one that differs from the default everywhere. Peers and addresses are
symmetric: they are only compared for equality. What another object does to the data is also an
`OtherWrites`, so one object meets every change; of numbers the properties tell apart the largest,
NaN and one other (`Epsilon` only makes more of the others alike, and the proofs have any); arrays of two have an item besides the one written,
and grow and shrink. In `traffic` the counter passes two whole periods of both reports from an odd or an
even start, the periods being an even and an odd number of frames, and two
aircraft are enough for one that has another's probe, place or memory. In `link` there are messages
below, at and above each limit and empty ones, each longer than a buffer if it is longest, and both
directions can be full at once. No liveness run uses symmetry. `traffic` and `link` stop at their
bounds, or with the plugin disabled or the session over, and do not check deadlock.

*Fairness.* Weak fairness for each thread: once it can go on, it does. Strong fairness for the frame
(X-Plane calls every flight loop that returned -1 again each frame; the other callbacks of a frame do
not keep it out), for `accept` while a client waits (it is retried every 100 ms and does not fail for
ever), and for taking the log's mutex. Nothing is assumed of the client, which need not leave, send or
read, except in `link`: there it reads again and again (strong fairness, for it may write in between,
and then does not read). A client that never reads holds the simulator up for as long as it stays,
because `asio::write` (`socket.cpp:15`) has no time limit. In `Connection` that is `HeldByClient`: while a
client that has not left may be the one a send writes to, the fairness of X-Plane's thread does not make
that send end. So `DisableCompletes` (its despawn notices come before `Shutdown`) and `DepartedCleared`
(X-Plane's thread may be writing to the next client already) have `[]HeldByClient` as their
exception, and without the assumption in `link` `FramesGoOn` does not hold. Two more escapes are part
of the statements: the process may crash where the code has undefined behaviour, and the listener
stops for good after a failed send. What they leave out is asked otherwise: `ShutdownMeetsItsClient` is
about `Shutdown`'s test and close against the other thread's retiring of the socket, and `DepartedCleared`
has no exception for a listener that has stopped.

*What they show.* Sessions never mix, in spite of `m_socket` being switched early; messages that go to
the wrong client only go to one whose `EventOpen` has not been sent, and the picture each client gets
is right from its open on. With an exception, the aircraft of a session can stay for the next client
(hence the condition in `SessionIsolation`), but of one session per exception only
(`OneSessionPerException`), opens stay in order and disable still leaves nothing. The socket `Shutdown`
closes is never another client's than the one it tested, and a thread that is reading reads from that.
The menu follows the client but for the callbacks that are never run (`MenuFollowsClient`).
The flag protocol of the log is right: though `LogMsg` takes its steps on several threads at once, it
acts as one step between its call and its return, and Log.txt is in that order, for a flag in any initial state and with messages logged before
the thread is marked. Menu and settings always agree, labels only from the next command on after the
client has sent settings. The history of a `DataRefAccess` survives what others do to the dataref, a
change that was forced is noticed of all data but NaN and the largest number, and
`setVal` on a stale cache changes no item but its own. An aircraft is drawn where the client last said,
also when it has the identifier or the memory of an earlier one; a refused spawn leaves no probe behind
and delays only what was due in its frame: the two datarefs that count, and `LocalReadInfrequent` by a
whole period. A client that writes while a frame is writing does not deadlock with it, because the
socket thread reads into a queue without limit: give the queue one and the run finds the deadlock.

### Disagreements between the code and what it says

* `send_race`: `m_socket` is retired and released by the socket thread between the test in `send_msg`
  and its use. `Shutdown` (`unifly.cpp:97-101`) has the same race with its close.
* `log_race`: two threads format in one static buffer.
* `type_command`: the type command switches the labels on and leaves the type alone.
* `maintenance_after_disable`: `~AircraftManager` unregisters its callbacks with `nullptr`, so that
  X-Plane goes on calling them with a manager that is gone. (The command handlers are never
  unregistered at all; an old one acts on the settings and tells its own UniFly, not the present one.)
* `dataref_notify`: `share` is passed on to X-Plane only by the first object that shares a name, so a
  second is not told of changes. When the first is destroyed the data may go, too.

Some more comments do not hold and need no run to see. In `data_ref_access.h`: the constructor catches
the `LookupException` it documents (lines 143 and 277), so nobody is told of an object without a
dataref; the model has such objects, and an object for a shared `double` is always one whose type check
fails. `setVal` and `reserve(i)` of an array write although the object is `ReadOnly` (line 41;
`data_ref_access.cpp:316` and `337`). `hasChanged` is to say whether "the actual value" does "differ from
the last history value" (line 172); of floating numbers it says no when they are within epsilon (for
numbers as small as that itself, any change is) and when one of them is NaN
(`data_ref_access.cpp:249-278`), so it overlooks such changes, and no property here says otherwise. After
`forceChanged` it still says no for an array that is empty or holds nothing but NaN and the largest number
(line 187); `forceChanged` itself does nothing when the array has another size than the history, but then
`hasChanged` says yes as long as that is so. `reserve(i)` is said to "reserve this
many elements in the history value array" (line 223); it leaves the history alone and writes the first
items of the cache, which may be old, over the dataref (`data_ref_access.cpp:334-338`). In
`data_ref_owned.cpp`: the SDK has "inValues ... written into the dataref starting at inOffset"
(`src/dep/SDK/CHeaders/XPLM/XPLMDataAccess.h:411-414`), whereas `writeFuncVF` makes the written items
the whole array and reads them from `inValues + inOffset`; so `SetValTouchesOneItem` leaves owned
datarefs out. In `socket.cpp`: lines 22 and 60 speak of 16-bit lengths, the code has 32 bits; line 8
excepts the Open from being sent on X-Plane's thread, where it is sent like everything else.

Not a contradiction of any text but worth knowing: the menu can disagree with the client (`lost` in
`MenuFollowsClient`). When the plugin is disabled with a client connected, or an exception ends the
session (`unifly.cpp:284`), the cleanup is never run and the menu stays usable until the next client comes and goes; when a
refused spawn takes an open or a cleanup of its batch along (`unifly.cpp:406-410`), the menu is out of step until the next one.

## 6. What is proved

For every value of the constants, with the named assumptions in the modules (finite sets of peers,
bounds that are natural numbers, distinct null values, settings of the type the schema gives):

* `Connection`: `TypeCorrect` and `SessionsIsolated`. `SessionIsolation` is not inductive: that the
  entries pending form a chain of sessions is kept by a posting only if the chain's end is where the
  socket thread believes it is, and that no aircraft is orphaned is kept by running a cleanup only if
  each open session in the chain is followed by its own cleanup. `IInv` adds these (`AllEnded`) and
  what the type invariant needs: the thread is started once, holds its socket while it serves, and a
  batch is finished before the frame ends. Lemmas say what appending to and taking from a chain does.
* `SessionsInOrder`: opens happen in the order of connecting, with exceptions too (`OrderInv`: the
  open entries pending are strictly increasing and bounded by the clients accepted).
* `ContractKept`: `Connection` implements `SessionContract` under the mapping
  `turn <- session, latest <- opened, aircraft <- mapPlanes, broken <- throws > 0`: each callback is an
  abstract step, every other step a stutter. After an exception the contract promises only the order of
  the turns, so the theorem holds for any number of exceptions.
* `DisabledLeavesNothing`: `CleanInv`, that nothing between the removal of the aircraft and the join
  brings either back. `StraysComeFirst`: what is waiting to be written is about the open session, or
  none is open (`OutboxInv`). `SteadyClients`: while everyone is well behaved the socket published is the
  one the thread serves, and X-Plane's thread has not tested another (`SteadyInv`). `ClientsKnow`: the
  view of the client published differs from the map only by notices that are still in the outbox
  (`KnowsInv`), which are true and about different aircraft (`WireInv`).
* `ExceptionsCostOneEach`: an exception on the socket thread skips a cleanup, one on X-Plane's drops a
  batch, and either breaks the chain of pending callbacks in one place: a callback will find another
  session open than it needs. `CostInv` is the budget: the sessions that have left aircraft behind, the one
  that the next callback will add if it does not find its session, and the breaks still to come are
  together no more than the exceptions so far. Running a callback turns a break into at most one such
  session, posting makes none.
* `DisableNotBlocked` and `DisableCountsDown` are the safety half of `DisableCompletes`: when X-Plane's
  thread waits in `join()`, the socket thread is not reading from a socket that is open (`JoinInv`: while
  it reads, `m_socket` is its own socket, so `Shutdown` has closed the right one), and from there each of
  its steps brings it nearer to the end, which is at most eight steps away. That it takes them is
  fairness, and stays with TLC. `ShutdownMeets` is the step before: between `Shutdown`'s test and its close
  the socket published is the one tested, or it has been retired (`MeetInv`: the store of
  `m_keepSocketAlive` before the test keeps the thread from going on to another client).
* `LogQueue`: `LogTypeCorrect`, `NoMessageStranded`, `WaitingWrittenFirst`, `LoggedInOrderOnce`,
  `AllWrittenWhenDisabled`, `LinesIntact`. `NothingStranded` is inductive once it excludes the message whose
  `ClearFlag` is still to come and a flush on its way; order is proved of the line formed by `Log` and
  the queue (`Delivered`), which no flush changes; at the join `JoinedInv` says that no worker is
  inside `LogMsg`, so the flush that the last message makes finds everything. `IntactInv` follows a line
  through the static buffer, its thread's copy, the queue and Log.txt: while no two threads have formatted
  at once, each has the buffer to itself (`Alone`) and every stage has the whole line.
* `LogIsAtomic`: `LogQueue` implements `LogContract`, in which a call of `LogMsg` takes effect in one step.
  A worker's call takes effect when it lets go of the mutex and not when it pushes: X-Plane's thread may
  pass the flag, which is still set, in between and write its own message first. X-Plane's own call takes
  effect when `FlushMsgs` finds nothing more, not when it writes: other messages may be pushed in between.
  `Order` is therefore Log.txt, the line X-Plane's thread is about to write, and the queue without a line
  whose thread still holds the mutex; that it only grows at the end rests on `MutexInv`, on
  `NothingStranded` and on `Delivered`.
* `Plugin`: `PluginTypeCorrect`, `MenuShowsSettings`, `LabelsShowSettings`, `ClientHearsSettings`
  (from `ChosenInv`), `LoopsUnregistered` (from `LifeInv`: the loops belong to the UniFly there is, and
  there is one exactly while the plugin is enabled), `MenuUsableWithClient` (from `MenuInv`: of the
  callbacks pending, the last that switches the menu decides, and it says whether a client is served;
  with none pending the menu says so itself; an exception, a refused spawn or a disable that takes that
  callback away sets `lost`, and the next open or cleanup queued clears it). `LeftoversPile` and
  `FirstLifeIsSound` bound what `maintenance_after_disable` finds: X-Plane holds callbacks of at most
  as many UniFly objects as there have been enablings (`LeftoverInv`), so with one enabling they are all
  of the UniFly there is, and no callback uses one that is gone.
* `DataRefs`: `DataRefsTypeCorrect`, `NoDanglingCallback`, `UndoPutsBackSaved`,
  `ForcedChangesNoticed`, `OneItemWritten`, for any number of objects, numbers and lengths and any epsilon.
  The third follows from `SavedIsHistory`, that what was saved is the history of a live object until that
  is replaced on purpose; the fourth from `ForcedIsHistory`, that as many items as are counted as forced
  are still in the history, through every `reserve`.
* `Traffic`: `TrafficTypeCorrect`, `ProbesGivenBack`, `DrawnAndCounted`, `AskingGoesOn` from one
  invariant. `FleetInv` adds that what an aircraft will be drawn from is what was said of it, and
  `RestInv` that the host does not enter the plugin in the middle of `MainFlightLoop`. `PacedByCounter`, for
  periods of any length: `PaceInv` relates the frames since a report to where the counter is in its
  period; it rests on lemmas about division and remainder.
* `Link`: `LinkTypeCorrect` and `ChannelKept`, for messages of any size and buffers of any room. `IInv`
  says that a stream is a chain of whole messages, each prefix followed by its pieces (`Chained`), of
  which only the last may be cut short and only when the session is over (`Whole`), and that what the
  receiver has counted fits the piece it is at (`InPlace`). Each step is then a step of `Channel`, in one
  direction, or a stutter. `WholeInOrder` draws the conclusion: what has come out is the beginning of what
  went in.

## 7. What is only model-checked

Liveness (`DisableCompletes`, `DepartedCleared`, `WaitingAccepted`, `QueuedGetsWritten`, `FramesGoOn`):
temporal reasoning under fairness is out of the prover's reach. The violations are traces, found by TLC.

## 8. What is not modelled, and why

Arithmetic on positions, speeds, angles and elevations and the numbers in reports: doubles, and no state
depends on them. The signed counter's wrap-around, after some 200 days of frames. The byte order of the
prefix and the protobuf encoding: library calls and generated code. `std::string` datarefs, which are
arrays with a terminator and follow the same paths; an `OwnedDataRef` read from an offset, which no
reader in `src/` asks for (`data_ref_owned.cpp:201` takes the offset from the values and not from the
size). The message to the DataRefEditor and the plugin's path: single calls without state.

Nearly all lines of the repository are vendored (`src/dep`: asio, the X-Plane SDK, FMOD). They, XPMP2 (a
submodule that is not in the tree) and protobuf are modelled as external definitions, as far as
`src/src` and `src/inc` rely on them. Memory exhaustion only as an exception on
the socket thread. The UniFly app is any client that speaks the protocol, or does not.
