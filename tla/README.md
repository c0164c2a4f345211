# A TLA+ model of the BS2x tag server

This directory models the programs this repository adds to the HiSilicon BS2x
SDK samples, first of all `My_project_2x`, the firmware of a stock tag: an SLE
(SparkLink Low Energy) server that advertises what is in its bin, buzzes and
blinks when somebody looks for it, and is bound to a number that must survive
power cuts; then its predecessor `Smart_Inventory`, the one-to-many UART relay,
and the two product samples with the most control of their own, the remote
control and the air mouse.  Paths below are relative to
`src/application/samples`; `P/` is `peripheral/My_project_2x/`, `S/` is
`Smart_Inventory/`, `O/` is `peripheral/sle_one_to_many/`, `R/` is
`products/rcu/rcu/` and `A/` is `products/air_mouse/`.

    tlc -config StorageSync.cfg MCStorageSync       one run
    tlapm StorageSyncProofs.tla                     one proof module

## 1. The system

The repository has about 51,600 lines, most of them vendor samples.  The parts
written for this repository are `My_project_2x`, `Smart_Inventory`,
`sle_one_to_many` and `my_demo`.

### My_project_2x

Three contexts preempt each other without a lock anywhere: the **SLE task** runs
the stack's callbacks and with them the clients' commands; the **main loop**
polls the UART test console every 50 ms and runs the same commands; the **timer
task** runs the auto-off and restore handlers.  A fourth, the power manager,
exists when `CONFIG_PM_SYS_SUPPORT` is set.  The UART **interrupt** fills the
console's buffer.

| part | state | operations | what makes it correct |
|---|---|---|---|
| `P/components/storage_sync` | `g_sync`: record (tag, qty, status, battery, seq), adapter, inited; the NV item of the tag | init, set qty / find status / tag, publish | a confirmed tag survives; seq counts changes; status fits qty |
| `P/components/hardware_hal` | `g_hw`: flags, timer; PWM, GPIO | init, beep/LED on for a time, beep/LED off, auto-off handler | whatever is on goes off |
| `P/components/sle_slave` advertising | `g_adv_payload`, `g_sle_stack_ready`, `g_adv_started`, `g_adv_configured` | refresh, start/stop, enable and announce callbacks | the radio carries the last record; the tag is on air unless connected |
| `P/components/sle_slave` connections | `g_conn_ids`, `g_active_conn_count` | connect, disconnect, notify one, notify all | table and count match the links |
| `P/components/shared_protocol` | none | serialize, deserialize, parse | what one end writes the other reads |
| `P/app/main.c` | `g_uart_rx_*`, `g_find_status_restore_timer` | five commands, two answers, restore handler, UART interrupt and loop, PM handlers | a command does what was asked, once; a find ends |

Calls: `main.c` → `hardware_hal`, `storage_sync`; `storage_sync_publish` →
`sle_slave_refresh_adv_payload` through the adapter; `sle_slave` → `main.c`
through `on_unicast_cmd`.  Messages: asynchronous requests to the SLE stack and
its callbacks.  Shared state: everything in the table's second column.

The hard behaviours are: preemption inside the unlocked read-modify-write and
test-then-act sequences; requests to a stack that reports completion later, on a
task that may be the one waiting; timers expiring while their commands are being
handled; a power cut between the NV write and the answer; failing calls, most of
them ignored; clients leaving in any order; and an interrupt that writes into a
buffer that is being copied.

### Smart_Inventory

One task runs INIT → ADV → SLEEP → ADV over the modules `adv`, `conn`, `data`,
`pm`; the SLE stack's task runs `callback`, whose DISCONNECTED handler starts the
announcement too.  State: the current state, `g_adv_state`, the payload buffer,
the inventory data and its mock counters, the power mode, the enable status.  It
is correct if it keeps cycling, is on air again in later ADV phases whatever
failed in earlier ones, is off the air while its state says so, and advertises
data of this round or the last.  `STATE_CONNECTED` and `STATE_MESH_RELAY` are
never entered: nobody calls `conn_update_state`.

### sle_one_to_many

A **client** that seeks, connects to up to eight servers one after the other and
forwards its UART to the one it names (state: the table of connection ids, its length,
the address found last), and a **server** that pairs, notifies what its UART
hears, and announces again when its client leaves (state: connection handle,
pair status, a queue of messages to its task).  Each runs the stack's callbacks
on one task.  It is correct if the count the client bounds its table by is the
number of its links and the table has their ids, every server it looks for is
collected while there is room, and a server left alone can be found again.

### The remote control (`R/`)

A keypad whose changes are queued for a task; two target devices (TV and box),
each with a row in a table of connections; combinations of keys held for two
seconds pair, unpair or learn infrared codes; a device that disconnects is called
several times with directed announcements; the remote sleeps.  State: the keys
that were reported and not released, the current device, the mode, the rows, the
timers, the announcement.  It is correct if no host and no microphone stays on
after the keys are up, and if pairing, calling and learning end.

### The air mouse (`A/`)

A pointer whose position a radio (SLP) measures, with a keypad, a light and the
same queue-and-task structure, and a USB **dongle** that seeks, connects, pairs
and forwards.  State at the mouse: flags of the keys down, light, timers, pair
status, power state of the ranging radio, sleep; at the dongle: seek and pairing.
It is correct if keys that are up are up at the USB host, an unpaired mouse is
silent, its light tells the truth, and ranging comes back after every new link.

### The others

`my_demo`: an earlier copy of the one-to-many server's announcement.  The rest of
`products/`, `nfc/`, the peripheral demos and the boards' start-up are the
vendor's samples.  They are listed in `PROJECT.json` with the reason they are
left out.

## 2. The modules

| module | models | proofs |
|---|---|---|
| `TagRecord` | the record and the setters of `storage_sync`, as pure operators | used by both modules below |
| `StorageSync` | `storage_sync` with its NV item, and the handlers of `main.c` that change, publish and report the record, with power cuts between calls | `StorageSyncProofs` |
| `DurableTag` | the abstract promise of a bind: stored first, shown next, confirmed last | refined by `StorageSync` |
| `HardwareHal` | buzzer, LED, auto-off timer, one step per access to what the contexts share | `DriverProofs` |
| `SleAnnounce` | refreshing, starting and stopping the announcement against an asynchronous stack | `SleAnnounceProofs` |
| `ConnTable` | the connection table and a broadcast that walks it | `DriverProofs` |
| `FindMe` | composition: find, stop, quantity and the restore timer over `TagRecord` | `CommandProofs` |
| `SharedProto` | the wire formats, and what the other end reads | `CommandProofs` |
| `CommandPath` | composition: writes of SLE clients and console bytes through `SharedProto` to the handlers | `CommandProofs` |
| `InventoryPacket` | `S/data`: CRC, packers, parsers, mock data | – |
| `InventoryTag` | `S/main`, `adv`, `conn`, `callback`, `pm` against the stack | `InventoryTagProofs` |
| `OneToMany` | `O/`: the client, its servers, and the callbacks on their way | `OneToManyProofs` |
| `Rcu` | `R/`: keypad, task, SLE task, timers and power manager of the remote | `RcuProofs` |
| `AirMouse` | `A/`: composition of mouse, dongle and USB host | `AirMouseProofs` |

`ConnTable` and `CommandPath` name their parts with a prefix (`TableSpec`,
`CommandNext`), because their proofs share a module with those of others.
`MC*` modules hold the values of constants that a cfg cannot write.  The names of
variables and actions are those of the code (`g_` dropped), actions are whole
handlers or, where preemption matters, single steps of them.  Where a handler is
split, the module's header says into what:

* **StorageSync**: a command is one action except `BIND_TAG`, which is split at
  the NV write, the RAM update, the publish and the answer, so that power may go
  between any two.  `field` is `g_sync.field`, `nv` the NV item, `heard` the last
  record that reached the radio, `lag` the changes since, `answer` and `acked`
  what a client was told.  `DurableTag` sees only `nv`, the tag the running
  program shows, and `acked`.
* **HardwareHal**: `todo[t]` is the sequence of calls context `t` still has to
  make, each the sequence of its accesses; `Step(t)` makes the next one.
  Conditions are steps too (`"unless_led"`: leave if `led_on`), so a value can go
  stale between test and act.  `doing` and `clash` are history: a STOP_FIND was
  under way in one context while another had a FIND_ME.
* **SleAnnounce**: `pc[c]` is where a refresh of context `c` is.  `reqs` and
  `cbs` are the requests the stack has not served and the callbacks the SLE task
  has not run; a callback runs only when the SLE task is idle (`Free`), which is
  what makes the restart of a refresh fail when the SLE task itself publishes.
  `current` is history: the last payload, and those that other tasks had copied
  and not yet handed over (`UnderWay`) when it was encoded.
* **ConnTable**: `conn_ids` and `active_conn_count` are the code's; `links`,
  `refused`, `told`, `stable` are what the stack and the clients see.  A link may
  be reported CONNECTED twice; `doubled` records that the report met a free slot
  before the link's own, where `sle_slave_add_connection` enters it again instead
  of finding it.  `sle_slave_broadcast_notify_all` has no caller in the program
  yet; the module is ready for one on any task.
* **FindMe**: handlers are sequences of calls as in `HardwareHal`; the restart of the
  restore timer is its stop and its start.  The alarm is not in the module: it shares
  nothing with the record or the restore timer.
* **CommandPath**: a byte of the console is its position in what was heard, so
  properties can say which bytes a frame is made of.
* **InventoryTag**: `pc[t]` is where the main task and the SLE task are; `adv_start`
  is the same six steps for both, so the DISCONNECTED callback can run it while
  main is in the middle of its own.  What main waits for is over only when the
  SLE task and the stack have finished (`Settled`).
* **OneToMany**: `cbs` and `scbs[s]` are callbacks on their way to the client and to
  server `s`; `remote` is the one address the client remembers, overwritten by
  every result.  `Named` are the servers whose announcement passes the client's
  test of the name; an attempt to connect may fail and is reported as a
  disconnection.  A write past the end of the table (`Enter`) is carried out on
  what lies there: any value the count may take.
* **Rcu**: the table of devices has a third row, "NONE", for the index the code
  writes one past the end; the status of a link is read by an index that is 0xFF
  before the first link, and then reads as anything.  `pc` is the loop that calls
  a lost device; the task it runs on serves nothing else meanwhile.  `lost`,
  `moved` and `misread` are history, each an exception that a property names.
* **AirMouse**: `mEv` and `dEv` are what is on its way to the SLE tasks of mouse and
  dongle, `slp.pend` what the ranging radio has still to report; a lost link
  takes the end of the reports on their way with it.  A handler is cut where it
  sleeps (`unpair_start_func`, `imu_wakeup_init`) and where another context uses
  what it tests or sets: `task` and `sle` say which call comes next in
  `pair_start_func`, in `pair_stop_func`, at the end of a link (test of the flag,
  then announcement) and in a restart of ranging (stop, then its flag).
  `crossed`, `late`, `lost`, `missed` and `switched` are history, each an exception
  that a property names.
* **InventoryPacket**: a CRC is the set of its bits, exclusive or the symmetric
  difference.

Modelled from their use only: the SLE stack, timers and time, the scheduler, NV
and the WS63 client (marked external in the map).

## 3. The runs

| run | question | result |
|---|---|---|
| `storage_sync` | does the record stay consistent with NV, the air and the answers through commands, failing calls and power cuts? | yes; `StorageSync` implements `DurableTag` |
| `hardware_hal` | with two calling contexts and the timer task, does all that is on go off? | yes, unless a STOP_FIND overlaps a FIND_ME |
| `sle_announce` | does the program's idea of the announcement stay true, and is the payload the last one, whoever publishes? | yes, or one that was under way when the last was encoded |
| `announce_refresh` | is a tag without a client always on air again? | **no** |
| `conn_table` | do table, count and broadcasts stay right as clients come and go? | the count always; the rest unless a repeated CONNECTED enters a link twice |
| `find_me` | does the status of a find end, though commands of two contexts and the timer interleave? | yes, unless the restore timer cannot be started |
| `command_path` | does each command reach its handler as sent, and the console survive its interrupt? | yes |
| `packet_crc` | is a packet nobody changed accepted? | **no** |
| `inventory_tag` | does the tag keep cycling on and off the air with fresh data, whatever fails and whoever disconnects when? | yes |
| `one_to_many` | does the client collect the servers that bear the name, with the right ids, and is a server left alone found again? | the last always; the others up to the first loss of a link or failed attempt |
| `rcu` | do keys, pairing, calls and learning end, however they interleave? | yes, with the exceptions below |
| `air_mouse` | do keys, light, pairing and ranging agree at both ends of a link that comes and goes? | yes, with the exceptions below |

What the violations show:

* **announce_refresh** (`P/components/sle_slave/sle_slave_mgr.c:108`).  A publish
  inside an SLE command stops the announcement, sets the data and wants to start
  again, but `g_adv_started` is cleared by the disable callback, and that cannot
  run before the handler returns on the same task.  The start is skipped as a
  duplicate, then the stop completes: the tag is silent, and since a publish
  restarts only what was running, it stays so until the power manager wakes it up.
  A connection that ends the announcement has the same effect: the handler of the
  disconnection does not start it again.
* **packet_crc** (`S/data/data.c:85`).  Packer and parser disagree on how many
  bytes the CRC covers, for both packets, and on its byte order for the second.

Three more disagreements were found with the same models and are described here
only:

* **Two callers of the alarm** (`P/components/hardware_hal/hardware_hal.c:298`,
  against "Safety timeout" in `P/Kconfig:23`).  STOP_FIND sees both flags clear,
  FIND_ME of the other context turns the LED on and starts the timer, STOP_FIND
  stops that timer: nothing turns the LED off.  The run reaches it; the two
  properties of `hardware_hal` excuse it (`clash`), and without that exception TLC
  finds both violated.  Any other preemption of two callers is judged: two finds,
  two stops, and the timer task against all of them.
* **The broadcast keeps FINDING** (`sle_slave_mgr.c:596`, against
  `P/docs/ws63_cooperation_spec.md:204`).  UPDATE_QTY has read a record that says
  FINDING; the restore handler preempts it, clears the status and publishes;
  UPDATE_QTY then sets its older payload.  No timer is left to correct it.
  `SleAnnounce` has the order (two tasks, the payload copied and then set):
  `airdata = payload` once all is done is violated, so `AirHasPayload` says which
  older payloads the radio may carry, and no others.
* **A bound tag is overwritten** (`P/app/main.c:310`, against
  `ws63_cooperation_spec.md:228`, which says a second tag is refused).  In
  `StorageSync` the formula is `[][nv' # nv => ~Provisioned]_vars`.

Noticed while modelling `My_project_2x`, without a run of their own: seq restarts from the
initial record after a power cut, so a scanner must notice a restart by itself
(`SeqCountsChanges` is about one run of the program, `fresh`); an unbound tag
advertises the default 1 where the document says 0; an empty bin shows NORMAL
after a restart; the answer to a failed bind carries the tag that was asked for,
not the current one; STOP_FIND leaves the restore timer running, so seq is bumped
and published once more without a change; UPDATE_QTY(0) during a find replaces
FINDING by OUTSTOCK while the buzzer goes on; a FIND_ME that arrives as the
auto-off of the previous one expires may end silent; a link that finds the table
full stays up without a slot; the console loses or merges bytes that arrive
between the read of the length and its reset.

In `sle_one_to_many`:

* When a link is lost, or an attempt fails, while another device is being
  connected, the restarted seek finds that device again, and the end of that
  seek, served after the connection, leaves nothing to resume it: the client
  stops collecting.
* A disconnection only counts down, so when a server that is not the last one
  leaves, its id stays in the table and the last one's drops out.  Only the request
  at `:177` and the one at `:205` read the table, so nothing comes of it yet.
  `IdsAreLinks` therefore speaks of the ids up to the first loss, and of the count
  always.
* An attempt that fails counts down too (`O/sle_client_one/sle_client.c:183`).
  With no link the `uint16_t` wraps to 65535, the test at `:136` is never passed
  again unless an attempt that still waits succeeds, and the client finds no more
  servers.
* After a failed attempt, or after a loss with more servers in range than
  `SLE_UART_CLIENT_MAX_CON`, a server that was seen while the table had a place may be
  connected when it has none, and its id is written one past the end (`:173`
  does not test the count again).  `IdsAreLinks` says that nothing else leads there.
* The client looks for `sle_uart_server` (`:137`).  The repository's server renames
  itself to `s` and four digits of its address (`O/sle_server_many/sle_server.c:53-68`,
  called at `:160`), so these two programs find each other only if the server
  could not read its address.  `ClientCollectsAll` is about the servers that bear
  the name (`Named`).

In the remote control:

* Infrared is used only in mode IR_SEND, which pairing and every connection leave
  and nothing but unpairing restores.  The comment at `R/keyscan/app_keyscan.c:610`
  has a device without a connection served by infrared; after a link was lost its
  keys go nowhere.
* Keys that roll over a change of the current device are released at the new one
  only (`moved` in `KeysEnd`).
* Unpairing forgets the addresses before its own disconnections are reported; the
  reports then index the tables with NONE_DEVICE, one past their end.
* The toggle that starts and stops pairing reads the status of the current device:
  while a lost device is called, a second press stops instead of starting, and
  when a paired device is current, the announcement for pairing is left on
  (`ModesEnd` names the case).

In the air mouse:

* Both chords set `g_announce_keyscan_flag` and nothing clears it: once a chord
  was used, the mouse no longer announces when a later link is lost.
* If the ranging radio was powered by its key, or by a restart from the dongle,
  before the pairing, `sle_pair_complete_cbk` leaves early: the pairing timer runs
  on and ranging does not start (`switched` in `PointerComesBack`).
* A link lost while the SLP task sleeps in `imu_wakeup_init` restores the keypad
  first and suspends it after: the mouse is asleep and announces, until it is
  moved.  The comment at `A/mouse/sle_air_mouse_server/sle_air_mouse_server.c:483`
  means to prevent it.
* A release that is lost with its link, without memory for its report, or in a full
  queue, leaves the key down at the USB host until the next release (`lost`,
  `missed`).
* The pairing callback of the SLE task runs `pair_stop_func` while the task is in
  `pair_start_func` (`A/mouse/common/air_mouse_timer.c:73-74`): it may take the timer that
  was just started and lose its own change of the light, which then blinks on
  without a timer (`crossed` in `LightMeansSearching`).
* The end of a link tests the flag and announces
  (`A/mouse/sle_air_mouse_server/sle_air_mouse_server.c:485-486`): an unpairing chord
  that sets the flag in between is followed by an announcement (`crossed` in
  `UnpairedIsSilent`).
* A restart sets its flag after the command that stops ranging (`:269-272`); if the
  report of the stop is served in between, ranging stays off (`late` in
  `PointerComesBack`).
* The speed key sets the light even during pairing, against the comment at
  `A/mouse/keyscan/proc_key_event.c:120` (the key is not in the model).

### Bounds, and why they are enough

* `storage_sync`: tags {0, 1, 2} (none, the default, another) and quantities
  {0, 5} (the code only tests for zero); seq modulo 3 with at most 2 unpublished
  changes, so that wrap-around happens and is still told apart.  Any number of
  commands and power cuts: the state space is finite without a step bound.
* `hardware_hal`: two callers, three FIND_ME commands, any number of STOP_FIND, so
  each context's command meets the other's at every step, and the timer of an
  earlier one running, due and expired.
* `sle_announce`: two publishes, two publishing tasks, the power manager and one
  connection: every pair of contexts overlaps, and a payload can be overtaken.  `announce_refresh`: one publish.
* `conn_table`: four links for three slots, so that the table fills, refuses and
  has holes on either side of a broadcast's position.
* `find_me`: five commands of two contexts, so that two overlap, find a timer that
  earlier ones started, restarted or failed to start, and are followed by another.
* `command_path`: a buffer of 4 bytes and 7 heard, bursts of 1 to 3, so that it
  fills exactly, is clipped, and fills again.
* `packet_crc`: the first two rounds of mock data.
* `inventory_tag`: rounds modulo 3, so that this round, the last and an older one
  differ; two failing calls, anywhere.  Cycles, connections and resets are not
  bounded.
* `one_to_many`: four servers, three of them of the name, a table of two, a queue of one
  message, one loss and one failed attempt: more servers than places, so that
  the table fills and is overrun, a server leaves while another connects, and
  the count wraps below zero.
* `rcu`: one connection id, one link made, one sleep, a queue of two messages, a
  lost device called twice at most, three changes of the keypad (a key, another
  over it, the release), over one chord of every kind that leads to a handler of
  its own.
* `air_mouse`: a queue of two and three events in all (links, chords pressed, failed
  pairings, sleeps, restarts; releases and losses are free), one chord of every kind:
  a link and a key rolling over another, with their release; a chord, a link
  and its loss; two links and a restart.  Every exception named by a property is
  reached.

The theorems remove the bounds for the modules they are about.
`CHECK_DEADLOCK FALSE` is set where a bound, not the program, ends a behaviour.

### Fairness

Weak fairness only, of what the RTOS and the stack do by themselves: a runnable
task takes its next step, a started timer expires and its handler runs, the stack
serves requests and delivers callbacks, a connection ends sooner or later, the
main loop keeps turning (it polls every 50 ms and never blocks).  Two places need
strong fairness: in `InventoryTag` the tasks are suspended by power modes that come
again and again, and in `OneToMany` a server on the air is found by a seek that is
interrupted again and again.  `AirMouse` assumes only that the tasks serve what
waits and a pairing ends; `Rcu` that its calls, and the two timers that end
something, go on.  Never of commands, connections, power cuts, failures or incoming bytes.  In `FindMe` each
timer has a fairness condition of its own, since one that expires does not help
the other.

## 4. The proofs

Each of these modules has an inductive invariant (`IInv`, or a name with the
module's prefix), shown to hold at first and to be preserved action by action, and
the theorems follow from it.  Where the property speaks of a moment when all is
served, the invariant says what must hold until then.

* **StorageSyncProofs**, for every set of tags and quantities, default tag and
  modulus: all five invariants of the run, and `Refinement`, that `StorageSync`
  implements `DurableTag`.  Alone, `ConfirmedTagSurvives` is not inductive: between the NV
  write and the answer RAM and NV differ.  `BindProgress` says what each program
  point may rely on.  `SeqCountsChanges` rests on lemmas on `%` across one wrap.
  Assumptions: `TagAssumption`, `QtyAssumption`, `SeqAssumption` (fewer missed
  changes than the modulus, without which seq cannot tell), `NoneAssumption`.
* **DriverProofs**, two drivers.
  *HardwareHal*, for every set of calling contexts and every number of finds:
  `TypeOK` and `AutoOffArmed`.  `Left` lists what a context
  may have left of its calls, step by step; `Passed`, who is past the
  initialisation; `Ready`, that what is on was set up.  `Alarm` is the argument:
  a buzzer that sounds, or an LED that is lit, has a running timer, or some
  context is at a step that will arm it (or turn all off if it cannot), or some
  task will still turn it off.  `Agree` says that without a clash all contexts at
  work are at the same command, and `Own` what a context that stops the alarm
  counts on before it stops the timer: nobody has turned anything on behind its
  back.  With a clash it cannot count on that, and the code does not
  promise it (section 3).
  *ConnTable*, for every number of slots and links: the count, and, as long as
  no link was entered twice, the table and the broadcast.  The broadcast needs `WalkDone`: who stays connected keeps
  its slot, and has been told iff the walk has passed it.  Assumptions:
  `SlotAssumption` (the count is one byte) and `IdAssumption`: the stack never
  gives out 0, which the code uses for a free slot.
* **CommandProofs**, from the bytes to the end of a find.
  *SharedProto*: what is encoded decodes to the same, for every value of
  every field; a scanner that walks the announcement finds the record.
  *CommandPath*, for every buffer size, burst and command: the buffer is
  never overrun, a command is obeyed as sent, a console frame is one piece of
  what was heard, no byte runs twice.  The invariant relates the buffer's last
  byte to the last one heard, unless the buffer is full: then bytes were dropped
  and nothing more is accepted until it is cleared.
  *FindMe*, for every set of contexts and every choice of failing calls: `TypeOK`
  and `FindingArmed`.  `Armed` holds at every step, not only when all handlers are
  done: a record that says FINDING has its timer, or some task still has to clear
  the status or start the timer.  That STOP_FIND does not stop the restore timer
  is what makes it inductive.  Assumption: `RecordAssumption` (the first record
  is a record).
* **SleAnnounceProofs**, for every set of publishing tasks: `StartedIsOnAir` and
  `AirHasPayload`.  The flag and the radio differ while callbacks are on their
  way; `Belief` says that the last callback that changes the flag, or the flag if
  there is none, is true of the radio.  `Carried` follows the payloads from the
  tasks' copies to the radio: each that will still be set, and the one that is, is in
  `current` (`Marks`), whichever tasks publish.
* **InventoryTagProofs**, for every number of rounds (three at least) and failures:
  `ServerBehindAir`, `StoppedIsOffAir` and `AirIsRecent`.  `Boot`: one server once
  registration is past, and nothing on the air before; `Apart`: the callback does
  not start what main is stopping; `Silent`: the last request agrees with
  `adv_state`.  For the data, `Carried` follows a packet from the buffer to the
  radio, unless a call failed: who has packed the buffer, and who has handed it
  over, did so in this round or the last, at every point of the two tasks; which
  of battery and goods may be a round old depends on where main is (`Fresh`).
  `Enabled`: SLE stays enabled while the DISCONNECTED callback is in `adv_start`.
* **OneToManyProofs**, for every finite set of servers, larger than the table or
  not, and every number of losses and failures: the types, `PairedIsLinked` and
  `IdsAreLinks`.  `Told` and `Turn` give the seven queues of
  callbacks a server can have, with its handle, pairing, message and
  announcement for each.  `Alternate` says that the callbacks about one server
  alternate, whatever those of others do, so that the count is the number of
  servers the client has been told are linked (`Known`) less the failed attempts
  it has been told of (`Drift`).  `Pipeline` bounds the seeks, their ends and the
  attempts that are under way together, which is why an overrun needs a failure,
  or a loss and more servers than places (`Overran`); `Table` has the ids up to then.
* **RcuProofs**, for every set of chords and connection ids, every length of the
  queue and every number of events: `TypeOK` and `KeysEnd`.  The types need more
  than the variables' own: a call under way names devices to call, and a callback
  on its way a link and a host (`CallTypes`, `StackTypes`), else a row could be
  filled with what no link has.  For the keys, `Listens`: the microphone is on only
  for the voice key; `Directed`: unless keys were directed elsewhere, a key that is
  down at a host is down at the host of the active link, and its kind is among
  those a release will report; `Seen`: the last word of the keypad that waits in
  the queue is what the keypad shows, and with none waiting and no key held, all
  is quiet.  A release that found the queue full ends what `Seen` claims, which is
  the exception the property names.  Steps that press nothing (`Softer`) cannot break
  `Directed` as long as the links stay.  Assumptions: `ChordsAssumption`,
  `IdsAssumption`, `BoundAssumption`.
* **AirMouseProofs**, for every set of chords, length of the queue and number of
  events: `UnpairedIsSilent`, `LightMeansSearching`, `KeysEnd`, and the types.
  `Silent`: after the unpairing chord no end of a link starts the announcement,
  because the chord's flag is set for good and, unless crossed, no handler has tested
  it before.  `Searching`: a light that blinks for
  pairing has its timer if a chord set it; if not, the mouse is on the air, linked,
  or about to be told that its link is gone, which puts it on the air.  `Starting`
  and `StoppingOff` say so between the calls of `pair_start_func` and
  `pair_stop_func`.  For the keys at the mouse `Listens` and `Seen` as above; for those at the USB host
  `Ends`: in the reports on their way a release follows every key, or the
  mouse still has to report one (`Clears`, with lemmas on what appending a report,
  serving one and cutting the end off do to it).

Every safety invariant a passing run checks is a theorem.  Only model-checked is everything temporal under
fairness (`AutoOffHappens`, `FindEnds`, `FirstAnnouncement`, `BufferIsTaken`,
`AnnouncesAgain`, `ServerReturns`, `ClientCollectsAll`, `ModesEnd`, `CallsEnd`,
`PointerComesBack`), which the prover cannot do.

## 5. Not modelled

Wording of logs, the values of delays, radio parameters, pin set-up: no property
is about them.  Durations are abstracted to order: a timer expires some time
after its command has ended.  Of `My_project_2x`: the unlocked `seq++` itself (two
increments becoming one), the start-up sequence with the generated address, and
the standby timer of the power manager.  Of `Smart_Inventory`: the states nothing
enters.  Of the remote: the BLE build, OTA, production tests, voice coding and
infrared waveforms, and its USB dongle.  Of the air mouse: car use, cursor speeds,
factory tests, OTA, audio, the dongle's own radio, and the timers that print what
is measured.  Other vendor samples are not this repository's own logic.

## 6. Plan

Done, in this order: StorageSync with DurableTag and its proofs; HardwareHal;
SleAnnounce; ConnTable and its proofs; FindMe; SharedProto and CommandPath with
their proofs; InventoryPacket; InventoryTag; OneToMany; Rcu; AirMouse; the proofs
of SleAnnounce, FindMe, InventoryTag, OneToMany, HardwareHal, AirMouse and Rcu.
Next:

1. Proofs: bounds on what waits in `InventoryTag`'s and `OneToMany`'s queues.
2. **SharedRecord**: `storage_sync`'s setters with read and write apart, three
   contexts; properties on seq and the fields that different contexts write.
3. **StartUp**: `sle_slave_init`, the address in NV, `storage_sync_init` and the
   first publish against commands that arrive early.
4. The remote's dongle, which shares its client with `OneToMany`.
