# A TLA+ model of esphome-jk-bms

This directory specifies the run-time behaviour of the ESPHome components in
`src/components`: drivers that poll battery management systems and balancers
over BLE or UART, put their frames together, decode them, publish what they
hold, change settings, and tell the home automation system whether the device
is there.

* [The system](#the-system)
* [What is hard about it](#what-is-hard-about-it)
* [What makes each component correct](#what-makes-each-component-correct)
* [The modules](#the-modules)
* [How the modules abstract](#how-the-modules-abstract)
* [The runs](#the-runs)
* [Fairness](#fairness)
* [The proofs](#the-proofs)
* [Where the code and the repository disagree](#where-the-code-and-the-repository-disagree)
* [What else the modelling showed](#what-else-the-modelling-showed)
* [Not modelled](#not-modelled)

`PROJECT.json` lists the components, the runs, the lines each definition
stands for, the hazards with the properties that cover them, and the theorems.
To repeat a run: `tlc -config MCJkBmsBle_safety.cfg MCJkBmsBle`; to check the
proofs of a module: `tlapm JkBmsBleProofs.tla`.

## The system

| component | state | operations | talks to |
|---|---|---|---|
| `jk_bms_ble` | `node_state`, `char_handle_`, `notify_handle_`, `frame_buffer_`, `status_notification_received_`, `no_response_count_`, `last_cell_info_`, entities | GATT events (open, search complete, registered, notify, disconnect), `update()`, `write_register()`, buttons, switches, numbers, selects | BLE client of ESPHome, a JK BMS |
| `heltec_balancer_ble` | `node_state`, `char_handle_`, `frame_buffer_`, `init_state_`, `protocol_version_`, `connection_time_`, `no_response_count_`, `last_cell_info_`, entities | GATT events, `update()`, `send_command()`, buttons, switches, numbers, selects | BLE client, a Heltec/NEEY balancer |
| `jk_modbus` | `rx_buffer_`, `last_jk_modbus_byte_` | `loop()`, byte parser, `send`, `authenticate_`, `write_register`, `read_registers` | UART; calls `on_jk_modbus_data` of every `jk_bms` |
| `jk_bms` | `no_response_count_`, entities | `update()`, `on_jk_modbus_data`, switches | `jk_modbus` |
| `jk_balancer_modbus`, `jk_balancer` | the same for the balancer protocol, several addresses on one bus | the same, and numbers | each other, UART |
| `jk_bms_display` | `rx_buffer_`, entities | `loop()`, byte parser | UART, read only |

Everything runs on ESPHome's main loop: a BLE event, a poll, a UART byte or a
control is handled to its end before the next one starts. What interleaves is
the order of these handlers with each other and with the device and the link,
which lose writes and notifications and break at any time.

* **BLE drivers.** ESPHome's BLE client delivers GATT events. The driver finds
  its characteristic, registers for notifications, and from the registration
  event on regards the session as established. A poll (`update()`) counts
  silence, and asks for data if the session is established. Notifications
  carry pieces of frames; `assemble()` puts them together, `decode_()`
  dispatches on the frame type. Any decoded frame resets the silence.
* **UART drivers.** The driver shares its bus with a bus component, whose
  `loop()` parses bytes and hands a complete frame to every driver registered
  for its address. Writing a register of a JK BMS blocks the main loop for
  150 ms.
* **Display.** Reads a line that others talk on; has no poll and no online
  status.
* **Decoders.** Each reads at fixed offsets in a frame and publishes entities.
  An outage takes a list of entities back, written down elsewhere.
* **Controls.** A number, switch or select encodes a value, writes it to a
  register, shows it at once, and is overwritten by the next settings frame.
* **Online status.** Four drivers carry the same pair of functions:
  `track_online_status_` per poll, `reset_online_status_tracker_` per frame.

## What is hard about it

* *Order of events.* The notification registration, its event, the link and the
  poll are four independent things. A registration event may come after the
  link broke; a poll may ask again for what is already being answered.
* *Loss.* Writes are made without response and their status is mostly ignored;
  notifications and bytes get lost. Reassembly has to find its way back: BLE
  by the preamble of a frame, the buses by a timeout.
* *Weak checks.* The BLE and balancer checksums are 8-bit sums: what two torsos
  leave in the buffer may pass for a frame.
* *Time.* The throttle, the settling time after a connection, the receive
  timeout and the blocking write all read one clock at different places.
* *State across sessions.* The Heltec layout version survives a disconnect,
  the initialisation does not; the tracker survives both.
* *Counters at their limit.* The no-response counter announces an outage by an
  equality test, and is pushed past the limit to do so once.
* *Optimism.* Controls publish the state they asked for, whether or not the
  device heard of it, and a report made before may arrive after. Settings are
  reported on request only, and a BLE driver stops asking once it is done.
* *Two lists of one thing.* What a decoder publishes and what an outage takes
  back, what a control writes and what a decoder reads, are tables in different
  functions and files, one set for each of five protocol versions.
* *Offsets.* Decoders read at fixed offsets in a buffer whose length another
  function checked.
* *A shared line.* Two balancers may answer at the same time.

`PROJECT.json` lists 40 such places with their lines. Seven have no property:

* `jk_bms_ble.cpp:524`: a device info request that is lost is not repeated, and
  a battery that needs it never streams. `RequestsAreAnswered` assumes that it
  arrived.
* `jk_number.cpp:26` cuts a float to an integer (4.003 V becomes 4002); the run
  of the controls uses numbers that survive this.
* `jk_modbus.cpp:109`: a length below 14 inverts a range. The model only has
  lengths of whole frames; the checksum would have to accept the others.
* `jk_bms.cpp:118`: a frame may claim up to 85 cells for an array of 24. The
  layouts are walked for 85 and show which bytes are read, not where the
  voltages are put.
* `heltec_balancer_ble.cpp:410`: a frame shorter than those of its type passes
  and is read beyond its end.
* `jk_bms_display.cpp:70`: a raw dump of even length reads one byte past the
  end.
* `jk_balancer.cpp:146`: cells beyond a lowered cell count keep their value.

In the two cases of `heltec_balancer_ble` and `jk_bms_display` there is no check
to verify. `ReadsPayloadOnly` says how far these reads go, and two theorems
that they do go beyond the end.

## What makes each component correct

* **jk_bms_ble**: no state of a session outlives its link; the buffer holds
  the received part of the frame in transit whenever nothing of that frame was
  lost; such a frame is decoded when it is complete; the buffer stays below
  one frame; an outage is announced once, by the right poll; the requests go
  on until cell info arrives; measurements are live just while they are fresh,
  but for twelve that an outage leaves as they were: `errors_bitmask_hex_text`,
  `balancer_status_text`, `total_runtime_formatted_text`, `battery_type_id`,
  `battery_type_text`, `detail_log_entry_count`, `smart_sleep_countdown`,
  `emergency_switch`, `emergency_time_countdown`, `charge_status_text`,
  `charge_status_id` and `charge_status_time_elapsed`.
* **heltec_balancer_ble**: cell info is never read in the layout of the other
  version; the initialisation comes to rest in READY, and READY has
  measurements and settings; the buffer stays bounded; session, online status
  and freshness as above; the device info an outage took back returns.
* **jk_modbus, jk_bms**: a frame that began after a silence and was not
  disturbed is decoded; after any disturbance a silence gets the parser back
  into step; the switch ends up showing the register of the battery; a status
  frame without all its fields publishes nothing.
* **jk_balancer_modbus, jk_balancer**: the same, and answers of one address
  never reset the tracker of another.
* **every decoder**: no field outside the payload of a frame of the size its
  device sends, and no byte taken for two things. Inside a frame of any size
  that is let through is more than two of the decoders achieve, see below.
* **every control**: it writes the register of its own setting, what was asked
  for reaches the device to the byte or not at all, and what it shows is what
  was asked for or what the device had in this very setting; as long as frames
  with this setting are asked for or streamed, it ends up showing it.

## The modules

| module | models | role |
|---|---|---|
| `Availability` | what a driver promises about the online status | abstract specification, implemented by four drivers |
| `Setting` | what an optimistic control promises about a setting | abstract specification, implemented by every BLE control |
| `OnlineTracker` | the no-response counter | operators shared by the drivers |
| `Fields` | fields of a frame, bytes of a setting, how a number is read | operators shared by the tables |
| `JkBmsBle` | session of `jk_bms_ble` with battery and link | specification, properties |
| `JkBmsBleFrames`, `JkBmsBleRegisters` | every field of its frames; every control, with its register and encoding | tables |
| `JkBmsBleEntities` | what its entities show over frames, outages and the throttle | specification, properties |
| `HeltecBalancerBle` | session of `heltec_balancer_ble` with balancer and link | specification, properties |
| `HeltecBalancerBleFrames`, `HeltecBalancerBleRegisters` | as for `jk_bms_ble` | tables |
| `HeltecBalancerBleEntities` | its entities over initialisations, buttons and connections | specification, properties |
| `BleControls` | a control of either BLE component with the setting behind it | specification, properties |
| `JkModbus` → `JkBms` | bus receiver, battery and line; the driver and its switch | actions, composed and specified by `JkBms` |
| `JkBalancerModbus` → `JkBalancer` | bus receiver and balancers; the drivers and switches | actions, composed and specified by `JkBalancer` |
| `JkBmsFrames`, `JkBalancerFrames`, `JkBmsDisplayFrames` | the fields of their frames | tables |
| `FrameLayouts` | a walk over each byte of each frame of all five drivers | specification, properties |
| `MC…` | instances for TLC | constants, one documented claim |
| `JkBmsBleProofs`, `JkBmsBleEntitiesProofs`, `HeltecBalancerBleProofs`, `HeltecBalancerBleEntitiesProofs`, `BleControlsProofs`, `JkBmsProofs`, `JkBalancerProofs`, `FrameLayoutsProofs` | | theorems |

In every specification an action is a whole handler, with the calls it makes
as operators of the same name (`update` → `Update`, `assemble` → `assemble`,
`decode_` → `decode_`). Variables that model members keep the member's name;
the others are the environment's, or *ghosts* that only properties read
(`intact`, `fit`, `heard`), or entity states (`online`, `telemetry`,
`switch_state`, `shown`).

## How the modules abstract

**A component in layers.** A session module (`JkBmsBle`, `HeltecBalancerBle`,
`JkBms`, `JkBalancer`) follows a frame from the device to `decode_` and has
one variable, `telemetry`, for all sensors an outage takes back. An entities
module takes frames as simply arriving and has each entity of each version
instead. The controls follow one control of one version per behaviour: a
control touches no state of another one, so the first state chooses it.
`JkBms` and `JkBalancer` have a switch in the session itself, because there a
write shares the line with the answers, and blocks the main loop or collides.

**Units instead of bytes (BLE).** A frame is a few units, runs of bytes that
no fragment boundary splits. A unit knows its frame and its position, so the
model can tell a genuine buffer from a mixed one. A preamble or a length field
is a fact about a unit's position. Where other bytes are read as a length or a
type, every value is possible. Where a sum is checked, a genuine frame passes,
and another buffer may or may not pass. `HeltecBalancerBle` and the bus modules
count and bound such *forgeries*; `JkBmsBle` accepts any number.

**Miniature frames (buses).** The bus parsers decide per byte, so `JkModbus`
keeps bytes, in a frame of two start bytes, one length byte standing for the
length and the header behind it, and one to two more; `JkBalancerModbus` has
two start bytes, the address, and the rest. Bytes that arrive while `loop()`
reads count as having arrived before it: `loop()` samples the clock once, at
its start, and reads until nothing is left, so it cannot see the difference.
`BeginLoop` is its timeout; keeping a byte, dropping the buffer and delivering
a frame are the three ways a byte ends. Balancers answer on their own, so the
bytes of two answers may arrive in any mixture.

**Tables.** A field is its place, width or bit, how the number is read, and
the entities it is published to; the tables are the decoders' reads and the
`publish_state_` calls behind them, branch by branch of the version tests. Computed
entities (power, minimum, average, delta) stand with the field they come from.
Texts (errors, runtime, modes) are names of entities, their wording is left out.

**The link and the clock.** Losses are counted and bounded. The link may break
at any time. Clocks are tick counters that saturate where the code stops
telling the values apart (`elapsed` at the throttle, `age` one past the receive
timeout). A stall of the main loop that exceeds the receive timeout counts as a
loss; the one `write_register` causes does not.

**What a device needs before it streams** is a parameter of `JkBmsBle`:
`docs/protocol-design-ble.md` (lines 20 and 39) has the device stream once it
got both commands; the comment at `button/__init__.py:29` and older modules
suggest the cell info request alone. Each is in one run.

**Faults.** An operator whose comment begins with "Fault:" is used by no
definition. It is a bug the definition below it might have had, kept so that a
run can be repeated with it; the property it is paired with in `PROJECT.json`
fails then.

## The runs

| run | question | bounds | expected |
|---|---|---|---|
| `ble_session` | do session, reassembly and online status stay consistent over connections with losses? | frames of 3 and 4 units, 1 loss, limit 2, throttle 1, handle 18, a module that streams after 0x96 | holds |
| `ble_live` | does a module that needs both commands get asked until it answers, and is a dead link reported? | frames of 2 and 3 units, 1 loss, limit 3, handle 3 | holds |
| `ble_entities` | are measurements live just while they are fresh, and do they come back? | every entity of the 3 versions, limit 2, throttle 2 | holds |
| `ble_controls` | does each control write its own setting, to the byte, and end up showing it while frames with it keep coming? | every control of the 5 versions but two; its bounds, the values 10 and 2500; 3 changes | holds |
| `heltec_session` | do initialisation, layout, buffer, session and online status stay consistent? | a V2 balancer, frames of 2 and 3 units, 2 under way, 1 loss, 1 forgery, limit 2 | holds |
| `heltec_live` | does the initialisation come to rest, with measurements? | the same with 1 frame under way, no forgery, throttle and settling time 1 | holds |
| `heltec_trailing` | is a frame that comes behind another in one notification decoded? | 2 frames under way, no loss | violated |
| `heltec_entities` | the questions of `ble_entities`; does READY have settings; does device info return? | every entity of both versions, limit 2, throttle 2 | holds |
| `bms_session` | does the parser stay in step with undisturbed frames, and does a short status publish nothing? | status of 5 bytes, others of 4, claimed sizes 4 and 7, 2 losses, 1 forgery, limit 2 | holds |
| `bms_live` | does the parser resynchronise, and the switch settle? | frames of 4 bytes, claimed size 5, 1 loss, 1 write that blocks 2 ticks, limit 1 | holds |
| `balancer` | does each driver hear its own balancer only, and stay in step? | 2 balancers, one with a switch, frames of 4 bytes, 1 fault, 1 write, limit 1 | holds |
| `layouts` | does each decoder read the payload only, each byte for one thing? | every byte of every frame; 0 to 85 and 0 to 255 cells, Heltec frames that claim 20 to 300 bytes, writes of 8 to 255, odd ones too | holds |

`heltec_session` and `balancer` take about three minutes each, the others less.

Why the bounds are enough for the questions:

* *Sizes.* Three units give a frame a beginning, an inside and an end, so a
  fragment can hold each alone and each pair. The fourth unit of a BMS frame is
  the part behind the checksum of a 320 byte frame. Heltec frames of two and
  three units tell short frames from long ones, and settings of V1 and V2 apart.
* *Losses.* One loss makes a torso, and an unlimited number of frames follow
  it; what remains in the buffer afterwards can be reached from one loss. In
  `ble_session` and `heltec_session` links break and reconnect without limit
  besides, each time with a torso. `bms_session` has two, so that a torso can
  meet a torso.
* *The tracker's limit* of 1 to 3 (10 and 5 in the code) has a poll below the
  limit, the poll at it and the polls after it; with limit 1 the first poll of
  an outage is the one at the limit. The proofs hold for each limit.
* *Writes.* One write is enough to contradict a status frame under way, a
  second one would only repeat this once the first has settled. The controls
  have three changes: a request, one by another app, and one more.
* *The UART buffer* holds a whole frame in `bms_session`, as the 384 bytes the
  documentation asks for do. In `balancer` it holds one byte: `loop()` may find
  any number of bytes, and with two senders each interleaving of bytes and
  loops is reached with one.
* *Values.* The bounds of a control's range, a value of two digits and one that
  needs a second byte of a register tell a wrong factor, width, sign or byte
  order; floats are those that the conversion to an integer keeps.
* *Two controls are excluded* because they do not keep the promise, see below.

`OwnsItsSetting` needs no bound: the tables are the code's, and TLC looks at all
of them. `layouts` has the numbers of cells at which something changes (none,
one, the ones that are sold, the most a length byte or a frame has room for) and
the least and the greatest size that passes, the sizes devices send and those
beside them; the theorems about it hold for every number and size.

Some runs look at what is rarely tested: the poll that finds a session whose
registration event was late, the second device info answer that takes a READY
balancer back, the half-received status frame a write tears apart, the report
made before a request that arrives after it, the answer of one balancer in the
middle of another's.

## Fairness

The safety runs assume none. The live ones assume

* `WF(Update)` (`SF` on the buses, where it has to wait for `loop()`): ESPHome's
  scheduler calls `update()` of a polling component periodically;
* `WF` of pending events, of the clock, of `loop()` and of the read loop in it:
  the main loop goes round and hands events on;
* `WF` of the arrival of fragments and bytes that were sent; they may be lost
  instead, within the bound;
* for the BLE devices, `SF` of the beginning of a frame they owe or stream: a
  device that can send again and again does so. It is strong because a frame before it, or
  a link that breaks and comes back, disables it for a while;
* in `JkBmsBleEntities`, `WF` of a cell info frame: the battery streams;
* in `HeltecBalancerBleEntities`, besides the poll, the clock and a connection
  attempt, `SF` of the poll of an established session and of the arrival of
  each kind of frame;
* in `BleControls`, `WF` of the answer to a request that reached the device and
  of a cell info frame of a battery, which streams them
  (`docs/protocol-design-ble.md:18-20`, `button/__init__.py:29`), and `SF` of a
  frame being decoded and published.

No fairness is put on opening a link, on a break, on controls or on losses in
the session modules, and none on the answers on the buses:
`ImplementsAvailability` covers a battery that never answers.
`SilenceResynchronises` and the two `SwitchSettles` have it as their premise
instead: again and again an answer with the status begins after the line was
silent for longer than the timeout, for a balancer also alone on the line (the
poll interval is far longer than an answer takes; the model leaves the interval
open). `CountersReturnWithConnections` has as its premises that connections end
again and again and that buttons do not overtake the initialisation forever.
`SettingSettles` has as its premise, for a setting that cell info does not show,
that requests for its frame reach the device again and again. The code does not
see to that: `update()` asks until cell info came (`jk_bms_ble.cpp:552`) or the
initialisation is done, and after that only a button or a new connection does.

## The proofs

TLAPS checks these for every value of the constants that the named assumptions
admit (frame sizes within their limits, at least one tolerated poll, any bounds):

| module | theorem | says |
|---|---|---|
| `JkBmsBleProofs` | `TypeCorrect` | the types, with any buffer the checksum might accept |
| | `BufferNeverFull` | the buffer rests below one minimal frame |
| | `SessionStaysCoherent` | no session state without registration and link |
| | `ReassemblyStaysInStep` | the buffer is the part of the frame that arrived |
| | `DecodesCompleteFrames` | the last fragment of such a frame has it decoded |
| | `OutageOnce` | one announcement per outage |
| | `RefinesAvailability` | the driver implements `Availability!Safety` |
| `JkBmsBleEntitiesProofs` | `TypeCorrect`, `MeasurementsAreFresh` | a measurement is live just while cell info was published since the last outage |
| | `EveryMeasurementKeepsContract` | each measurement on its own is a behaviour of `Availability` |
| `HeltecBalancerBleProofs` | `TypeCorrect`, `SessionStaysCoherent`, `RefinesAvailability` | as above |
| | `LayoutStaysKnown` | cell info is never under way in an unknown layout |
| | `ReassemblyStaysInStep` | as above, when frames come one by one |
| | `DecodesCompleteFrames` | the last fragment of such a frame has it decoded, and the initialisation moves on |
| | `BufferStaysBounded` | one frame, and one more for each lost fragment, at most |
| `HeltecBalancerBleEntitiesProofs` | `TypeCorrect`, `MeasurementsAreFresh`, `EveryMeasurementKeepsContract` | as above, both versions |
| | `ReadyAfterSettings` | READY, and cell info under way, only once settings were shown |
| `BleControlsProofs` | `EverySettingIsOwned` | no two controls share a register; a published one has a setting the frames show |
| | `EveryControlKeepsItsSetting` | each faithful control implements `Setting`, to the byte |
| | `ReadsBack` | every number that fits its bytes reads back from them, for every integer |
| | `BoundsAreKept` | the cast to an integer cuts no bound of a range |
| `JkBmsProofs` | `TypeCorrect`, `RefinesAvailability` | as above |
| | `FramesStayInStep`, `UndisturbedFrameIsDecoded` | a frame after a silence is in order, and its last byte has it decoded |
| | `ShortStatusPublishesNothing` | measurements and the switch follow whole status frames only |
| `JkBalancerProofs` | `TypeCorrect`, `RefinesAvailability`, `FramesStayInStep` | as above, for any number of balancers |
| | `UndisturbedAnswerIsDecoded` | the last byte of such an answer has it decoded by its own driver |
| | `OthersNeverSpeakForIt` | a balancer is shown online by frames of its own only |
| `FrameLayoutsProofs` | `OnlyPayloadIsRead` | no decoder reads a header, a checksum, a register id or past the end it assumes, that of a whole frame |
| | `EveryByteHasOneMeaning` | no byte is taken for two things, for every number of cells and size |
| | `ShortFramesAreOverread`, `HalfRegistersAreOverread` | a Heltec frame too short for its decoder, and a write of odd size to the display, are read past their end |

The assumptions are the named `ASSUME`s of the modules, which the runs evaluate,
and for `EveryControlKeepsItsSetting` the hypothesis `Faithful`: it leaves out
`smart_sleep_voltage` and the V2 `nominal_battery_capacity`, which do not keep
their promise (see below), and values a float lies just below. `MCBleControls`
assumes it of its instance, so TLC shows that something satisfies it. How the
proofs go:

* *Types.* A handler ends in one of several ways (`assemble` waits, drops or
  decodes), so a lemma bounds what each way does to the variables it touches
  (`DecodedTypeOK`), and the theorem has one step per action.
* *Session.* `SessionCoherent` is not inductive: a registration that is
  pending or active must have been made on this connection, or the event that
  arrives makes a session without a handle. `RegistrationMade` adds that;
  `SessionInv` is the conjunction.
* *Reassembly on BLE.* A fragment that follows the prefix in the buffer extends
  it (`FragmentExtendsPrefix`), and a fragment with the preamble starts it; the
  rest is that a fragment which is lost clears the ghost `intact`. For a Heltec
  frame `OneFrameInv` adds that nothing else is under way.
* *The Heltec buffer.* `assemble()` has no limit of its own. What bounds it is
  what can be under way: the end of one frame and perhaps all of another
  (`QueueInv`); and that a whole frame in the buffer lies alone there, with the
  next fragment beginning with a preamble unless something was lost
  (`BufferInv`).
* *Layout.* A cell info frame can be under way in more places than the property
  names: owed, in the stream, or in the buffer. `LayoutInv` covers all of them;
  lemmas on parts and concatenations of sequences carry it through
  `assemble()`, and a genuine buffer decodes as the frame it is from.
* *Entities.* Freshness is inductive as it stands, given two facts about the
  tables: what cell info publishes is what an outage takes back
  (`CellInfoIsTakenBack`), and no other frame publishes a
  measurement (`OthersShowNoMeasurement`). `ReadyShowsSettings` needs
  `CellInfoFollowsSettings`: cell info is owed or waited for only afterwards.
  That each measurement keeps the contract follows from the same facts: the poll
  that expires takes back all of them, an unthrottled cell info frame shows all
  of them, and nothing else touches one.
* *Controls.* First the numbers: what `Survives` says fits into one, two or four
  bytes is what its field makes of these bytes, unsigned, in two's complement, as a
  float or a bit. Then the tables, version by version, in two stages: each
  row against the others (registers differ), then the place of its field. Then
  `SettingInv`: what the device has and what a frame under way carries is legible,
  that is, a number the control can show; each step is one of `Setting`.
* *Layouts.* Of each frame, the fields lie within the payload (`Within`) and no
  two overlap (`Disjoint`). The payload is that of the frame the decoder assumes
  (`AssumedSize`): for a Heltec balancer at least the size of its type, for the
  display whole registers; otherwise the frame's own. Rows of cells and register
  dumps have symbolic length, so the place of cell i is an expression in i, and
  two are compared by arithmetic. The walk over the bytes then meets each field
  once.
* *The buses.* `FitInv` says where the bytes of a frame that began after a
  silence are: those read are the buffer, those not read are in the UART, in
  order, and what comes first is the start of the frame. With several balancers
  `Alone` adds that no other one is sending. `HeardInv` follows an answer from
  the balancer that began it to the driver of its address. In step, the parser
  neither resets nor waits at the last byte, which is why it decodes then.
* *Refinement.* What a poll and a decoded frame do under the mapping of the
  counter to `silence` is a step of the contract (`StatusSteps`); each other
  action leaves the mapped variables alone.

Every invariant and action property that a run finds to hold is also a theorem.
Only model-checked is liveness, which needs `ENABLED`: `ImplementsAvailability` (its
safety part is `RefinesAvailability`), `RequestsAreAnswered`,
`MeasurementsReturn`, `SettingSettles`, `InitializationSettles`,
`ReadyMeansStreaming`, `CountersReturnWithConnections`, `SilenceResynchronises`
and `SwitchSettles`. Five theorems state what no run lists, on top of
invariants that the runs check: `OutageOnce`, `DecodesCompleteFrames` of the
Heltec session, `UndisturbedAnswerIsDecoded`, and the two
`EveryMeasurementKeepsContract`. Four are about numbers and sizes, apart from any
run: `ReadsBack`, `BoundsAreKept`, `ShortFramesAreOverread` and
`HalfRegistersAreOverread`.

## Where the code and the repository disagree

* `heltec_trailing`: `assemble()` decodes one frame per notification. A second
  frame that arrives whole behind it stays, undecoded, and the next preamble
  clears it; `assemble_test.cpp:174-176` presents it as retained.

## What else the modelling showed

These came up while translating the code; no run is about them.

* The device info request (0x97) leaves at registration and the cell info
  request (0x96) with the next poll; `docs/protocol-design-ble.md:18-19` has
  them the other way round.
* The same document (lines 101-102) says frames above 320 bytes are dropped;
  `assemble()` compares what it had *before* the fragment with 400, and decodes
  anything of 300 bytes and more with a good checksum.
* `smart_sleep_voltage` of `jk_bms_ble` announces one byte of its four-byte
  value (`number/__init__.py:215`), the only voltage that does.
* `nominal_battery_capacity` of `heltec_balancer_ble` is written as an integer
  and read from the settings of a V2 balancer as a float.
* The comment at `heltec_balancer_ble.cpp:1039` puts a factory voltage at byte
  12; the line below it logs what is at byte 2.
* A number that a float lies just below is written one too small
  (`jk_number.cpp:26`).
* After a write that got lost a control stays wrong as long as the connection
  lasts and no one presses `retrieve_settings` or `retrieve_device_info`: no
  setting but the ones in cell info is reported again.
* `assemble()` of `heltec_balancer_ble` lets frames of 20 to 300 bytes through
  whatever their type (line 410), and the decoders read up to byte 294. Shorter
  ones, with a good checksum, are read past their end.
* `on_jk_bms_display_raw_data_` reads two bytes at a time, one too far if the
  number of bytes is odd (`jk_bms_display.cpp:98`, 241-244).
* A device info request that gets lost is not sent again
  (`jk_bms_ble.cpp:524`). The settings that answer the repeated 0x96 keep such a
  battery online without a measurement.

## Not modelled

* Python configuration schemas and code generation: they run at build time and
  have no state at run time; `dump_config` and logging: pure output.
* The parser of `jk_bms_display`: a shorter form of those of the two buses,
  without checksum, address or online status. The layout of its frames is in
  `layouts`.
* The wording of texts: errors, runtime, operation modes, device info strings.
* What statistics over cells (minimum, average, delta) compute.
* The wrap of `millis()` after 49 days: all differences are unsigned and short.
* Lengths on the bus that are no frame's at all (below 14): the checksum would
  have to accept them. Which element of an array a cell above 24 is put into.
