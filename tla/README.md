# Verification of the VATT hexapod driver

TLA+ models, model-checking runs and machine-checked proofs for the INDI driver
of the VATT secondary mirror (`src/vatt_secondary.cpp` with `src/vatthex.c` and
`src/projectsoft.c`), which keeps the mirror collimated with a PI hexapod.

## The system

| part | state it keeps | operations | how it talks to the rest |
|---|---|---|---|
| driver control (`vatt_secondary.cpp`) | `ID`, the CONNECTION, `correct` and `ref` switches and lights, `connectionWentBad`, `commerr_count` | `Connect`, `Disconnect`, `ISNewNumber`, `ISNewSwitch`, `ISNewText`, `isConnected`, `isReferenced` | called by the INDI event loop; blocking calls to the PI library |
| poll timer | `TimerID` | `updateProperties`, `TimerHit` | INDI's event loop fires it; it re-arms itself at the end of a tick |
| autocollimation | `NextPos`, `Pos`, `CorrPos`, `CorrNextPos`, `posfile` | `correct` on and off, the second part of `TimerHit`, `correct`/`uncorrect` | moves the hexapod; reads and writes a file that survives the driver |
| elevation and temperature | `el`, `temp`, `TempElN`, `vatttel_counter` | `GetTempAndEl`, the `temp` property | asks ProjectSoft, feeds the corrections |
| hexapod wrapper (`vatthex.c`) | none | `GetHexPos`, `MoveOneAxis`, `ReferenceIfNeeded`, `GenericCommand`, `MoveAbs` | the PI GCS library |
| ProjectSoft client (`projectsoft.c`) | one socket per call | `projectsoft_el_strut` | TCP to the PLC |
| vatttel, TCS-NG and Control by Web clients, `mjson.c` | sockets, buffers | queries | not linked into the driver any more (see `Makefile`) |
| PI library, INDI | connections, timers, properties | | vendored or external |

The driver is one thread. INDI's event loop runs one handler at a time: a
request of a client or the timer. Nothing runs in parallel inside the driver, so
the difficulty lies elsewhere:

- a handler is a chain of **blocking calls**, any of which may fail, and the
  controller, the network, the hexapod and the telescope change in between;
- a handler that has **lost the connection in the middle** goes on;
- three places end a session, each setting switches, lights and marks by hand;
- **requests, polls and reconnections come in any order**, and the timer is
  re-armed from several places;
- the correction is added on the way out and taken off on the way in, in several
  places, and a file carries a position from one period of autocollimation, or
  one run of the driver, to the next;
- loops wait for the controller, and the whole event loop waits with them.

`PROJECT.json` lists each of these hazards at its line, with the properties that
look for it.

What makes the parts correct: the connection of the library and `ID` agree, and
the client sees what there is; autocollimation ends with its session; exactly one
poll timer exists; handlers return; the correction is applied once; the saved
position is kept; the mirror converges; the corrections use a sane temperature,
an elevation in the right unit, and a reading of the present period, which is what
the telescope reported to that call; an answer of the controller goes to the
command that asked, whole and in order; a client of an instrument hands out a
value that was sent or says that it has none, and gives its socket back.

## Modules

| module | models | lines of the code |
|---|---|---|
| `Session` | the promise to the client, and nothing of how it is kept: a session is announced, may break, is hung up; autocollimation exists inside it only; a dead line is dropped | abstract |
| `Secondary` | the driver's control, in steps between blocking calls | `vatt_secondary.cpp` `Connect` to `TimerHit`, `vatthex.c` `ReferenceIfNeeded`, `GenericCommand` |
| `SecondaryProofs` | theorems about `Secondary` | |
| `TempEl` | elevation and temperature, handlers as atomic steps | `GetTempAndEl` |
| `TempElProofs` | theorems about `TempEl` | |
| `Driver` | `Secondary` with `TempEl`: the control and the values of elevation and temperature together | the same handlers |
| `DriverProofs` | theorems about `Driver` | |
| `ProjectSoft` | one call of the PLC: the TCP exchange and the parsing | `projectsoft.c` |
| `ProjectSoftProofs` | theorems about `ProjectSoft` | |
| `Readings` | `TempEl` with `ProjectSoft`: a reading from the PLC's line to the value the driver uses | `GetTempAndEl`, `projectsoft.c` |
| `ReadingsProofs` | theorems about `Readings` | |
| `Collimation` | positions, corrections, `posfile`, restarts | the same handlers, for what they do to positions |
| `CollimationHistory` | `Collimation`, with what was asked for in every position | |
| `CollimationProofs` | theorems about both | |
| `Hexapod` | the waiting loops of the wrapper | `vatthex.c` `GenericCommand`, `MoveAbs`, `GetHexPos` |
| `HexapodProofs` | theorems about `Hexapod` | |
| `Sockets` | what the older clients share: the thread, the descriptors, the result | |
| `Vatttel`, `NGClient`, `CBW` | the older clients | `vatttel_com.c`, `ngclient.c`, `readcbw.c` |
| `MicroJSON` | the parser of objects, for the table of `readcbw.c` | `mjson.c` |
| `OldClients` | the three clients in one process | |
| `OldClientsProofs` | theorems about `OldClients` | |
| `MCSecondary`, `MCDriver`, `MCCollimation`, `MCCollimationHistory`, `MCTempEl`, `MCReadings`, `MCOldClients` | bounds for TLC | |

`Secondary`, `Collimation` and `TempEl` are three views of the same handlers.
`Secondary` has all of the control and no positions: whether an axis has veered is a
free choice there, so whatever `Collimation` does is covered. `Collimation` and
`TempEl` have the data and take the control as atomic steps. `Driver` puts
`Secondary` and `TempEl` together: each step of `Secondary` that calls
`GetTempAndEl` is joined with what `TempEl` says the call does, every other step
leaves the values alone, and `ImplementsTempEl` says that `TempEl`'s atomic steps
are an abstraction of the handlers with all their failures halfway. This is proved
(`HandlersKeepToTempEl`), and so is the same of `Readings` (`ReadingsKeepToTempEl`).
What is proved of `TempEl` therefore holds of both.

`ProjectSoft` opens up the one call of `TempEl` that leaves the driver, and
`Readings` composes the two: `TempEl` takes its reading from a run of `ProjectSoft`,
blocking call by blocking call.

### Secondary

State corresponds one to one to the members of `Secondary` and to the INDI
properties: `connS`/`connSV` are the switch and light of CONNECTION, `corrS`/`corrSV`
of `correct`, `refS`/`refSV` of `ref`; `TimerID`, `commerr_count`,
`vatttel_counter` and `connectionWentBad` keep their names. `pipe` is the one
connection of the PI library, `reachable`, `referenced`, `referencing` the
controller. `pc` and `axis` say where in a handler the driver is.

- `ClientConnect`, `Connect`, `ConnectIDN`, `ConnectPos`, `ConnectRef` are INDI's
  handling of CONNECT and `Secondary::Connect` between its blocking calls.
- `ClientNumber`, `ClientCorrect...`, `OnMove`, `OnTempEl`, `ClientRef...`,
  `RefQuery`, `RefWait`, `ClientCommand`, `CmdWait` are `ISNewNumber`,
  `ISNewSwitch` and `ISNewText`. A request for a new address changes only a text
  nothing reads, and is left out.
- `TimerHit...` and `Tick...` are one poll.
- `MoveOneAxis(r)` is `_MoveOneAxis` with the `isConnected` it calls, by its four
  outcomes.
- `ControllerDown`, `ControllerUp`, `ConnectionDies`, `ReferenceMoveEnds` are the
  outside. Any PI call may fail at any time; it can succeed on a live connection
  only.

### Collimation

Lengths are small integers; the one correction that is not zero (focus) is an
axis `Corrected` with a correction out of `Shifts`; elevation and temperature are
one value `sky`, and `shift` is the correction for the values the driver holds.
Axis by axis loops that can stop early are modelled by the set of axes done
(`Done`), so every place of failure is there. A tick is two steps, `TickRead` and
`TickMove`, since the hexapod and the telescope move in between. `CorrectOff`
empties the file and `Save` writes it. `Restart` may come anywhere, in the middle of
such a loop too (`CutShort`): some axes then have their new position and others not.
No step between two axes of a loop reads what the hexapod or the telescope does
meanwhile, so their movements can be thought of as before or after the loop. `calm`
marks the moment from which nothing disturbs the driver, for the liveness properties.
`Accepted` says which moves the controller takes: none outside the travel range, and of
the others any part, for it may have reasons of its own, such as an axis without its
reference. A refused move ends nothing and is not repeated, except that a tick gives
autocollimation up for it and deletes `posfile`, as the code does.

`CollimationHistory` adds variables for the properties only. `wanted`, `saved`, `told`
and `there` go along with `NextPos`, `posfile`, `target` and `actual`: they say of each
axis which position a client asked for, or that it was the nominal one, and whether
`Connect` has since taken it from the hexapod, which knows nothing of corrections.

### TempEl, Driver, Readings

`el` is in milliradians and what the client sees in degrees, as in the code; `mrad`
is the conversion. `age` counts the ticks since the last reading; it exists for the
properties only. Lowering a bad temperature or elevation onto the client's value
is modelled with the checks the code makes, and without those it does not make.
`CorrectOn` may end with autocollimation off although its reading was good: the
moves made first may have lost the connection.

`Driver` has the variables of both modules; `failed` counts the failed reads since the
last good one, through all sessions, for `PatientWithErrors` only. `Values` is `TempEl` with autocollimation as
it sees it: on when the request that switches it on is done.

In `Readings`, `Ask` enters `projectsoft_el_strut` and `Return` comes back from it;
`plc` is what the telescope has to report to this call. A field of the answer stands
for that value, and any other piece of text the parser may make of a stream for
any number at all.

### ProjectSoft

`pc` is the blocking call a call of `projectsoft_el_strut` is about to make; `azel`,
`temps`, `fazel`, `ftemps` are its locals and `fds` counts the sockets of the
process. `wire` is the stream from the PLC: a read takes any part of what is there,
so each answer can be cut anywhere, and the rest comes with the next read. A number
is two symbols, so that a cut may fall inside it, and its name (`"el"`, `"t1"`)
stands for its value. `TokenStarts`, `atof` and `Numbers` do what `strtok` with a
space and `atof` do to such text: a newline does not end a token, so the end of the
first answer and the beginning of the second make one. This is why a cut answer
never passes for a whole one. `PLCAnswers` and `PLCCloses` are the PLC, which may also
answer with something else (`Refusal`) or reset. A refusal of two words is as good as
elevation and azimuth to the code, which counts words: the call succeeds, and the
elevation is what `atof` makes of the first one.

Two assumptions are about the PLC, whose program is not in the repository, and nothing
in the code enforces them. `RefusalsAreShort`: to the first request the PLC says two
words at most; the code stores every word in `fazel[2]` before it counts them, and a
third would be written past its end. `BuffersHaveRoom`: no read fills a buffer
(`PS_MAX`, 80 bytes in the code) to its end, where `strtok` would find no terminator.
The longest text a read can take is the whole second answer behind the rest of the first.
What the writes send beyond the request is left out.

### Hexapod

`queue` is the library's queue of answer lines, of all commands; `coming` are the
lines the controller has not sent yet. Lines are numbered, so that `asked`, all
lines of all answers in the order of the commands, can be compared with what the
commands returned (`past`, `resp`). `Commandset`, `Wait`, `Size` and `Get` are the
calls of `GenericCommand`. `MoveAbs`, `ReadAxis`, `ReadFails`, `Order` and `Compare`
are those of `MoveAbs`; a position is `"there"`, `"far"` or `"junk"`, a stack slot
that has never been written. Any call may fail; `Dies` ends the connection.

### The older clients

`pc` is the blocking call one of the clients is about to make, `fds` the sockets of
the process, `lost` those nobody will close.

- `Vatttel`: `read_value` decodes the word with the arithmetic of the code, byte by
  byte; the buffer starts as 64 times `'0'`, and a read may bring any part of the
  packet. `GetAlt` differs in the command it sends only (both indices are 2).
- `NGClient`: `sd` is global and opened anew by every call. The reply comes into the
  buffer of the request, so what follows the reply that has come is the request.
- `CBW`: `CBWChunk` is libcurl calling the callback with the next part of the body,
  of any length. `CBWPerformed` may come at any time, for a transfer that has
  failed is parsed like one that has not. Memory nobody has written to reads as
  no object, or as what an earlier call has freed there: the body, or its
  beginning, of any reading (`Freed`). The parser's loop is a loop
  here, too: `CBWSymbol` looks at one symbol, and `cp` counts those looked at. The
  mean of the two temperatures is kept twice as large, as the sum it is half of;
  `atof` is an operator the configuration gives.
- `MicroJSON`: one operator per state of the parser, and `Symbol`, what the parser
  does with the next symbol. Names are single symbols; values are sequences,
  because their length counts. `Stored` is what a target of
  `Len10` symbols holds of a value: one as long as the target loses its last symbol.

## What is checked

| run | properties | shows |
|---|---|---|
| `driver` | `TypeOK` `NoLeakedConnection` `ConnectionLight` `AutocollimationNeedsSession` `AutocollimationIsShown` `OnePollTimer` `ReadingsAreFresh` `SessionSafe` `PatientWithErrors` `ImplementsTempEl` `SessionLive` `HandlersReturn` `PollGoesOn` `RecoveryAnnounced` | control is consistent, implements `Session!Safe` and `TempEl`; readings are fresh; a connection is given up for errors only after too many failed reads in a row, counted since the last good one, be it in an earlier session. Handlers return, the poll goes on, a dead connection is dropped, the controller's return is announced: a driver that stays in a GCS command without an answer, or waits for a PLC that says nothing, is excepted (`Stuck`) |
| `collimation` | `TypeOK` `SavedPositionKept` `StaysSettled` `Converges` `DisplaySettles` | under all faults and restarts, the hexapod is told positions of its range only and nothing but switching off and a failed tick touches the saved position; left alone, mirror and display settle where they should, and no tick then moves an axis |
| `collimation_history` | `CorrectedOnce` | under all faults and restarts, a position that was asked for reaches the hexapod with one correction at most, whether it comes from the client or by way of the file, unless `Connect` has taken it back from the hexapod |
| `readings` | `ReadingsTypeOK` `TempInBand` `ReadingsAreFresh` `SocketsAccounted` `ReadingIsTrue` | however the stream is cut, the temperature the driver goes on with is what the telescope reported to that call, and so is the elevation unless it was refused; sockets are closed, except where connect fails |
| `hexapod` | `TypeOK` `InOrder` `OwnAnswer` `LeavesWhenThere` `LoopsEnd` | no line of an answer gets lost or overtakes another; an undisturbed command gets its own answer; the wait of a move ends with the move and not before |
| `oldclients` | `OldTypeOK` `OldSocketsAccounted` `WordIsTrue` `FailureIsEmpty` `WholeBodyIsRead` `TakenFromThisBody` | words keep their sign; failures are told; a body in chunks is read whole, and one that has begun and breaks off yields of each temperature what the whole one would, or nothing; sockets are closed, except where connect or recv fails |

Six runs show where a comment and the code part; each ends in a counterexample:

| run | the comment | the code |
|---|---|---|
| `reference_light` | "Wait until the reference move is done" | a failed call ends the wait and `ref` turns green (547) |
| `command` | "Do it again in 1 second" | a command without an answer stops the driver (`vatthex.c:306`) |
| `collimation_off` | "turning off autocollimation" | the same tick still moves the axes (1017) |
| `collimation_moving` | "if we are not moving" | only the last axis is asked (1270) |
| `collimation_display` | "remove correction for display purpose" | removed again at every tick whose reading fails (1084) |
| `tempel_elevation` | "the old value or the user input" | degrees are used for radians (1528) |

Seen in the code as well, without a run:

- A connection found lost by `isConnected` switches autocollimation off and leaves
  its light green (809); `connectionWentBad` survives a quick reconnection;
  `SetReadyState` covers the lights `SetMoveState` has just set; `posfile` receives
  `NextPos`, also when its move was refused; `GetTempAndEl` asks every seventh call
  (`MAX_VATTTEL_CNT` is 5), and not when autocollimation is switched on.
- `commerr_count` outlives its session: one whose first reads fail is given up after
  fewer of them. `PatientWithErrors` says what that comes to: a row of failed reads,
  begun in an earlier session, with no good one since.
- `Connect` takes the position of the hexapod for the one wanted (222), and a loss or an end
  of the connection leaves the hexapod where it was corrected to. Connecting again and
  switching autocollimation off saves that position, and the next period corrects it once
  more: the focus is off by one correction for each round. `CorrectedOnce` shows that
  nothing but `Connect` makes positions of that kind.
- A PLC that accepts the connection and then says nothing keeps the event loop in `read`
  (`projectsoft.c:66`, 72), and with it the poll.
- `posfile` is empty between `fopen` and `fprintf`, and a stop there loses the position
  (516); a tick deletes it whenever a move fails, also one that found the connection dead.
- Each connect to the PLC that fails costs a socket (`projectsoft.c:59`), likewise
  in `vatttel_com.c:96` and `ngclient.c:75`, and each failed `recv` there (89).
- `GenericCommand` takes the first pause in an answer for its end: the rest is
  returned by the next command. A size query that fails in its second loop leaves
  the size of the line before, and in its first loop it waits for ever when the
  connection dies. `respSize` is not looked at. `MoveAbs` returns 0 in every case,
  and takes positions it has never read for readings when a query fails.
- `GetStrutTemp` and `GetAlt` return an unwritten variable when the query fails,
  and `ng_send` takes its own request for the reply of a server that closes.
- An object that breaks off is parsed with success, so `GetStrutTempCBW` returns half
  the other temperature, or 0, when a transfer ends early (`TakenFromThisBody` shows
  that once the body has begun to come it is never worse than that); when nothing has
  come it parses what is in the memory, which may be the body of an earlier call. A
  value as long as its target loses its last symbol.

### Bounds

- `Secondary` and `Driver`: three axes, so that the loops have a first, a middle and a
  last one and switching on leaves one out (W in the code); one failed read
  tolerated (15 in the code) so that counting, resetting and passing the limit
  all happen; one tick between readings; two timer identifiers, so that a second
  timer can exist. `commerr_count` stops at the first value above its limit: it
  is only compared with it.
- `Collimation`: two axes, the corrected one and the last of the loop; corrections 0
  and 1, requests for 1, travel -1..1, so that a correction passes its end and moves are
  refused for that, too. `collimation_history` and the counterexamples have travel -2..2,
  room for a correction of a position corrected already. `collimation_history` has the
  corrected axis only, since the histories of two axes do not meet. No failed read is
  tolerated, except in `collimation_display`. `MaxDrift` bounds how far repeated
  uncorrection lowers the display (a failed read is not taken beyond it); the drift
  itself is the subject of `collimation_display`, which lets it go further.
- `tempel_elevation`: the real `MAX_VATTTEL_CNT`, values on both sides of every limit.
  `Readings` and `Driver` have a limit of 1, so that calls that ask and calls that only
  count still follow each other. `Readings` has a good and a bad temperature, a bad
  elevation and one that is clamped, a bad value from the client, two
  descriptors, so that the table is empty, partly used and full, refusals of one and of
  two words, and buffers just longer than the longest text. `Driver` has one
  pair of values, read or written by the client, that differ from the initial ones: what
  it adds is the order of the steps, the values are the business of `Readings`.
- `Hexapod`: three axes; answers of none, one and two lines; three calls
  (`MaxCalls`), so that a rest can pass through a command to the one after it.
- `OldClients`: two descriptors; words on either side of every carry and sign; values
  shorter than, as long as and longer than the targets (`Len10`, 10 in the code, is
  3). Between two calls only descriptors, `output`, the sensors and `errmsg` remain (what
  is left in freed memory is any reading, so it need not be remembered), so calls in any
  number are covered.

`CHECK_DEADLOCK FALSE` in the runs of `Collimation`: a driver without a session,
with nothing disturbing it, does stop; in `hexapod` the calls come to an end, and a
wait for an answer that does not come is stuck. The driver's own deadlock check is
the `driver` run.

### Fairness

- `WF(Progress)`: a running handler goes on; PI calls return. The wait for the
  end of a reference move is excepted while the move lasts and no call fails; the
  move itself ends (`WF(ReferenceMoveEnds)`). The steps that ask projectsoft
  (`WaitsForPLC`) are excepted, too: its reads have no time limit, and nothing obliges
  the PLC to answer or to close.
- `SF(Poll)`: the event loop serves a timer that is due between two requests,
  however many requests there are; strong, because the loop is busy in between.
- `SF(Found)`: a scan finds a controller that stays reachable, sooner or later.
- `Collimation`: ticks, saves and movements go on, so there the PLC is taken to answer or to
  fail. Nothing is assumed of clients, failures, or the sky; `calm` is not fair, it
  only may happen.
- `Readings` and `ProjectSoft`: none. The call need not end, and nothing is said that would
  depend on it.
- `Hexapod`: calls return (`WF(Steps)`); a query for an answer, or for an axis'
  position, does not fail for ever (`SF`) on a connection that lives; lines that were
  sent and axes that were told to move arrive. `LoopsEnd` promises nothing for a
  command without an answer or a connection that dies.

Two things stop the poll for good: a GCS command that has no answer, or loses its
connection while it waits (the run `command`), and a PLC that neither answers nor closes
(`WaitsForPLC`). The liveness properties of `driver` except a driver that stays in
one of the two for ever (`<>[]Stuck`); a driver that gets out of them each time has to
keep them.

## What is proved

Each proof is for every value of the constants that the named assumption allows,
and each invariance theorem comes from one inductive invariant: that it holds at the
beginning, that every step keeps it, and that it implies what is stated. The proofs
about steps have one case for each action.

**`SecondaryProofs`**: any number of axes, any limits, any timers, both kinds of
commands (`SecondaryAssumption`).

- `TypeCorrect`, `ConnectionNotLeaked`, `LightTellsTheTruth`,
  `AutocollimationEndsWithSession`, `AutocollimationHasItsLight`,
  `PollNeitherDoublesNorDies`: the invariants of
  `Secondary` that the run `driver` checks.
- `KeepsPromise`: `Spec => SessionSafe`, step by step (`SimulationStep`).

`IInv` is `TypeOK` with the safety invariants and what they lack to be inductive:
what holds at each step inside a handler (while `Connect` runs, what is open and
what is shown; that an open handler has what it began with; where a handler that
has lost the connection may still be). The invariants do not follow from each
other's truth between two handlers alone: a handler that goes on after a loss
passes through states in which only `IInv` excludes a light without a session.
The lemmas are one per part of `IInv` (`TypeStep`, `SessionStep`, `TimerStep`).

**`TempElProofs`**: any limits, readings and client values (`TempElAssumption`).
`TemperatureInBand` and `FreshReadings`. Here `TypeOK /\ TempInBand
/\ ReadingsAreFresh` is inductive as it stands: a tick that does not ask makes the
reading and the counter older together.

**`DriverProofs`**: in addition, any readings and client values (`DriverAssumption`).

- `ControlIsSafe`: a step of the driver is a step of `Secondary`, so what is proved
  of `Secondary` holds of the driver.
- `HandlersKeepToTempEl`: the refinement of `TempEl`, handler step by handler step.
  What it takes is that outside autocollimation there is no period whose reading could
  be fresh (`NoPeriod`), also while a request that switches it on is still under way;
  and from `IInv`, where in a handler autocollimation can end.
- `DriverReadingsAreFresh`, from that refinement and `TempEl`'s invariant.
- `SessionsArePatient`: the count of the code is never ahead of the row of failed reads
  since the last good one (`Patience`), through all sessions: what a session leaves
  behind is never more than that.

**`CollimationProofs`**: any axes, travel, corrections and requests, and any subset of
the faults (`CollimationAssumption`).

- `TypeCorrect`, of which the part that matters is that no position outside the travel
  range ever reaches the hexapod.
- `CorrectedAtMostOnce`: what a client asked for, or the nominal position, is in a target
  with the correction once or not at all, unless `Connect` has taken it from the hexapod.
  `CorrectedOnce` is not inductive: it is about targets, and these are computed from the
  position wanted, which may come out of the file. The invariant, `HInv`, adds that
  either holds what was asked for, without a correction, unless `Connect` took it from
  the hexapod (`WantedAsAsked`, `SavedAsAsked`). `ToldStep` is the lemma that a loop over
  the axes which adds the correction once to such a position keeps `CorrectedOnce`.
- `PositionIsKept`: no step but the end of autocollimation, a failing tick and a crash
  within that tick touches `posfile`.
- `NoHunting` and `SettledForGood`: the safety half of `Converges` and `DisplaySettles`.
  Left alone, a driver that is `Settled` (the hexapod has arrived, corrected for the
  values of now, and the driver has read it) stays so and tells no axis to move
  (`SettledStep`, with one lemma for each half of a tick: what is read is the target,
  so nothing has veered; and `UncorrectCorrect`, so the display comes back to the
  position wanted). That the driver gets there is left to TLC.

**`ProjectSoftProofs`**: any number of descriptors (`ProjectSoftAssumption`).

- `NoSocketLost`, from `SocketsAccounted` and the types of the variables it counts.
- `AnswersAreUsed`: a call that succeeds returns both temperatures that were sent to it,
  and the elevation unless the PLC refused it in two words (`RefusalsAreShort`).
  It speaks of the end of a call; the invariant, `StreamInv`, is what the connection
  can hold before each of its two reads: after the first one there are too few
  numbers for success, or the elevation is whole and only the rest of its line and
  one answer can come. The lemmas on `Nth` and `KthNumber` count the numbers in each text
  the two reads can then have made.

**`ReadingsProofs`**: both together (`TempElAssumption`, `ProjectSoftAssumption`).

- `ReadingsKeepToTempEl`: the driver with the blocking calls in it implements `TempEl`,
  where an answer comes at once. `ReadInBand` and `ReadFresh` follow from it.
- `ReadingsAreTrue`: the temperature used is the one the telescope reported to this call,
  and so is the elevation where the PLC gave one. From
  `AnswersAreUsed`, and from `ThereAndBack`: through the two rounded conversions the
  client sees the degree reported or one less.
- `SocketsAreKept`, `TypesAreKept`.

**`HexapodProofs`**: any number of commands with answers of any length
(`HexapodAssumption`).

- `LinesInOrder` (the lines read, queued and on their way are all
  that was asked for, in order) and `AnswersItsOwn` (as long as no call has failed and no
  answer was cut where the loop could take it for complete, a command returns its own
  answer and leaves nothing behind). Neither is inductive alone. The invariant adds
  `OwnLines`: until then, the response, the queue and the lines on their way together
  are the answer to the command under way, and between two commands nothing is queued or
  on its way. The lemmas `Brackets`, `TakeLine` and
  `LinesCome` say what the steps do to sequences.
- `TypeCorrect`, and `MoveEndsThere`: the wait of a move ends with every axis there, or
  with one whose position has never been read. It needs `ReadingsHold`: a reading that says an axis is there stays
  true until the call ends.

**`OldClientsProofs`**: any number of descriptors (`SocketsAssumption`), any 32-bit words
(`VatttelAssumption`), sensors that show any text without quotation marks
(`CBWAssumption`), targets of any size (`MicroJSONAssumption`).

- `OldSocketsKept`, from the account and the fact that past `connect` the socket of
  `ng_send` is open, so that its failures close something that exists.
- `WordsAreTrue`: `read_value` returns the word that was sent, with its sign. The
  lemmas are arithmetic: a word is the sum of its bytes, the first one signed
  (`WordOfBytes`), and the code's shifts and signed bytes give it back (`WordIsDecoded`).
- `FailuresAreEmpty`: no reply of an earlier call is handed out for one that fails. The
  invariant, `EmptyUntilReply`, adds that the output is empty from the start of
  `ng_send` to its `recv`.
- `BodiesAreRead` and `NothingElseIsTaken`: a body that has come whole, in whatever chunks,
  gives what the targets hold of both values, and their mean, or nothing if one of them
  has no room; one that has begun and breaks off gives of each sensor the same, or
  nothing, whatever earlier calls left in the targets and the memory. The invariant,
  `ParseInv`, says where the parser is, and what its sensors hold, when it has looked at
  the first `cp` symbols of the body (`OnTrack`), or of something that is no body
  (`OffTrack`). With the parser as a loop of steps, the texts of any length need no
  induction over data. `BodyLaidOut` says which symbol of the body stands where,
  `OpeningStep`, `SensorStep` and `BodyStep` what one symbol does in each part of it.
- `TypesAreKept`: `OldTypeOK`, the variables of all three clients.

Only model-checked:

- liveness, which is out of the prover's reach: `SessionLive`, `HandlersReturn`,
  `PollGoesOn`, `RecoveryAnnounced`, `Converges`, `DisplaySettles`, `LoopsEnd`;
- what the six runs with a counterexample refute.

## Not modelled

`GetTempAndEl_old`, `ConnectHex`, `MoveNext` (dead code); labels, formats and
messages; the log of corrections; the error text polled from the controller; the
lights of the axes. `ngatof` and `ngdegtoa`, conversions nothing calls (the second
reads numbers with `%i`, for which a leading zero means octal). Of `mjson.c`,
arrays, nested objects, escapes and the other types, which the one table in use
cannot reach. Failures of `malloc`, after which the code uses a null pointer. The
test programs. INDI, the PI library and libcurl are external.

## Plan

1. Done: all modules of the table above, with their runs.
2. Done: every invariant, action property and refinement that the runs check is proved;
   of their properties only liveness is left to TLC.
3. Left: one specification of `Secondary`'s steps with `Collimation`'s positions. It has
   too many states for TLC, and the two are not steps of one another: `Collimation`
   serves a request in one step, so that what `Secondary` does in several would have to
   be one of them, and the hexapod moves in between. How they correspond is argued
   in the sections on both, and not checked.
