# atic-sspiem in TLA+

A TLA+ model of the slave-SPI embedded programmer in `src/` (repository paths
below are relative to the repository's root): a Linux program that interprets a
compiled algorithm file (`.sea`) with a data file (`.sed`) and drives an FPGA's
SPI port through a microcontroller on a serial line.

`src/reedl-ictrl.c` as committed holds three lines of prose outside a comment
(204-206) and does not compile; they are read as the continuation of the comment
on 203.

## The system

| part | state | operations |
|---|---|---|
| driver: `main.c`, `SSPIEm.c` | arguments, exit code | start the serial service, sign, preset the files, `SSPIEm_init()`, `SSPIEm_process()` |
| algorithm interpreter: `core.c` | file position, C call stack, `algoBuffer` | `SSPIEm_process()`, `proc_TRANS()`, `proc_LOOP()`, `proc_REPEAT()`, `proc_HCOMMENT()`, `VME_getByte()`, `VME_getNumber()`, `SSPIEm_init()` |
| files: `intrface.c` | the two `FILE`s, table of contents, cursor of each data set, decompressor | `algoGetByte()`, `dataReset()`, `HLDataGetByte()`, `dataRequestSet()`, `decomp...()` |
| hardware: `hardware.c` | `cs_state`, transfer buffers | `SPI_init()`, `SPI_final()`, `TRANS_*()`, `wait()` |
| command layer: `reedl-ictrl-cmd.c` | `g_crsp`, an eventfd per call | `reedl_ictrl_cmd()` and its callers |
| serial service: `reedl-ictrl.c` | the port, the receiver's streams, the subscription | receiver thread, `reedl_ictrl_serial_tx()`, `..._subscribe_crsp()` |
| microcontroller, FPGA, line | external | answer a command, late or never; lose or damage bytes |

There are two threads. The main thread runs everything from the driver down to
the command layer; the receiver thread runs `select()`, `read()` and the
handlers of the serial service. They share, without any lock, the subscription
(`resp`: buffer and eventfd), the response buffer `g_crsp`, the port's
descriptor, and the process's descriptor table. A command is: make an eventfd,
register it with the buffer, write the command, `select()` on the eventfd with a
timeout of 50 ms, close it; the caller then reads `g_crsp`. Above that all is
sequential, but long: what the interpreter does depends on which bytes of the
algorithm are opcodes, on loops that are copied to a buffer and executed in
place, and on failures that some calls report and others swallow.

What is hard: the two threads around a subscription that is never taken back;
late answers; descriptor numbers that are used again; framing over reads cut
anywhere, over a line that loses bytes; nested loops with retries and their
return codes; the ends of files and buffers. `PROJECT.json` lists every hazard
with its line.

## Modules

| module | models |
|---|---|
| `CmdCall` | the promise of the command layer: numbered calls, one at a time, each returning its own answer or failing |
| `ICtrlCmd` | `reedl_ictrl_cmd()`, the response handler of the receiver thread, the port's error path, the descriptor table, the microcontroller. Implements `CmdCall` |
| `ICtrlCmd_proofs` | theorems about `ICtrlCmd`, most of them with timely answers |
| `ICtrlCmdLate_proofs` | theorems about `ICtrlCmd` whatever the delays |
| `FrameChannel` | the promise of the receiver: a reliable, ordered channel of messages |
| `SerialRx` | `ictrl_serial_rx_proc()` and `..._rx_proc_cont()`: bytes to messages of the three streams. Implements `FrameChannel` on a clean line |
| `SerialRx_proofs` | theorems about `SerialRx`, with any noise |
| `SerialRxChannel_proofs` | on a clean line `SerialRx` is `FrameChannel` |
| `MCSerialRx` | messages and byte values for `SerialRx` |
| `AlgoEngine` | the interpreter of `core.c`, at the level of bytes, with its call stack |
| `AlgoEngine_proofs` | theorems about `AlgoEngine`, for every algorithm file |
| `AlgoEngineCause_proofs` | what the codes of `AlgoEngine` tell, on the lemmas of `AlgoEngine_proofs` |
| `MCAlgoEngine` | algorithms as trees of statements, what a tree means, and the assembler from trees to bytes |
| `Session` | a whole run: `main()`, the start of the serial service, the header of the algorithm, then `AlgoEngine`, then the exit status. Extends `AlgoEngine` |
| `Session_proofs` | theorems about `Session`, on the lemmas of `AlgoEngineCause_proofs` |
| `MCSession` | algorithm files: sound, damaged and broken off headers before the programs of `MCAlgoEngine` |
| `DataSets` | the data file of `intrface.c`, as operators on its static data |
| `Transceive` | `TRANS_transceive_stream()` for one row, wherever it comes from: the padding of what is sent, the comparison of what is received, there and in `core.c` |
| `Transceive_proofs` | theorems about `Transceive`, for rows of any size |
| `DataTransfer` | `Transceive` over the rows of `DataSets`, and the FPGA at the other end |
| `DataStream` | the promise of the data file: streams that are read in rows, each from where it was left |
| `MCDataTransfer` | data files, and the refinement mapping from `DataTransfer` to `DataStream` |

### ICtrlCmd

`pc` and `rx_pc` are the two threads' places. Each access to shared state is a
step: `CmdEventfd` (eventfd), `Subscribe`, `TxSend`/`TxFail`, `Woken`/`Timeout`
(select and close), `ReadCrsp` (the caller of a read refuses an answer that has not
the size it asked for, which that to another command may lack; the answer to the
read itself is taken to have it); `RxTake`, `RxCopied` (begin and end of the
`memcpy()` into `g_crsp`, which holds no answer in between), `RxNotify` (the
`write()`). An answer is the number of the command it answers; the program
itself never looks at that. Descriptors come from the small set `Fds`, the
lowest free first as the kernel hands them out; the files of the algorithm and
the data use them too (`OpenFile`, `CloseFile`). A `write()` of the notification
to a number that is closed or belongs to a file opened for reading fails
unnoticed. `lost` records the commands that were not sent or whose answer will
not come; `fd_tty` closes after a read error and stays closed.

`NDEBUG` selects whether `assert()` is compiled in. `CMakeLists.txt` does not
define it, and then the second command aborts the program (run `assertion`). All
other runs and theorems about timely and late answers take it as defined, or
hold for both (`TypeCorrect` and the theorems do).

`LateAnswers` selects the environment: without it the microcontroller answers
within the timeout or never, so `Timeout` requires that nothing is in flight;
with it an answer may come at any time.

### SerialRx

`line` is what was sent and not read; `ReadTty` takes any prefix up to the size
of the read buffer; each pass of `rx_proc_cont()` is one step
(`BadStream`, `StartStream`, `ContinueStream`), with the two branches at its end
(`HeaderReceived`, `BodyReceived`) and the case of neither. A stream's
`stream_len` and `wr_idx` are reset when it becomes current, so only the current
stream's are kept; `rx_buff` is its first `wr_idx` bytes. `while (1)` in two
handlers is the state `"hung"`.

### AlgoEngine

`stack` holds a frame per C call with its arguments and locals; `mode` tells
whether the innermost call goes on, has just returned (`ret`), or will read for
ever (`"hung"`). The actions are the cases of the two `switch` statements
(`Proc...`, `Trans...`), a byte of the loop scan (`Scan...`) and the return of
an iteration (`LoopResume`). A frame reads from a `Source`: the file, or a window
of `algoBuffer` with the size the code hands down. Transfers, `dataReset()` and
chip select are known by their outcome, chosen freely: `"ok"`, or, up to
`MaxFaults` times, `"failed"`, `"mismatch"`, and with `LinkFaults` a command that
fails unnoticed. A transmission is then `"lost"`; behind a read that failed
the comparison is with what the buffer still holds, which agrees (`"lost"`) or
does not (`"stale"`). `log` is the history of these calls.

`port` is the FPGA's port: `"on"`, `"off"`, or `"stuck"`, on behind a call of
`SPI_final()`, which drops the result of its command and always reports success. It
may do so in every behaviour and is not counted by `MaxFaults`.

A loop's body may have one byte more than `algoBuffer` (1093 and 1242); the domain of `algoBuffer` has a cell for it, which stands for whatever
the linker puts there, and the model takes that to belong to nobody else.

### Session

`phase` is the place of `main()`. `Start` to `Preset` are `main()` and
`reedl_ictrl_init()`, with the two signatures asked for whatever became of the
first; `InitSPI`, `InitAlgo`, `HeaderComment`, `HeaderField` and `InitData` are
`SSPIEm_init()`. When `InitSPI` fails, its command or only the answer to it was lost:
the port may be on. The tests of the header are one action over the table `Header`:
each field is a tag with a number of value bytes, and `FieldCode` is what
reading it comes to. Comments before the header count for the checksum; the
byte where `COMPRESSION` belongs may be an `HCOMMENT` as well (line 304); a
checksum byte 0xFF matches anything (342). `BeginProcess` cuts the header off
and hands the rest to `AlgoEngine` (`mode` leaves `"idle"`), `Processing` is a
step of it, `EndProcess` its return. With one name on the command line
`SSPIEm_preset()` copies from a null pointer: `"crashed"`.

### DataSets, DataStream, Transceive, DataTransfer

`d` is the record of the static variables of `intrface.c`: the `FILE`'s position,
the table of contents, `d_currentAddress`, `d_currentSize`, `d_requestNewData`,
the table of positions `g_dataBufferArr`, and the decompressor. Each C function
is an operator that returns the record it leaves, its result and a byte:
`DataInit`, `DataReset`, `RequestSet`, `HLDataGetByte` with its recursion, and so
on, chained with `Then` (a call is made only if the one before it succeeded);
loops that read bytes nobody looks at are `Skip`. `feof()` is a position
behind the end: the read that meets the end of the file still succeeds.

A step of `DataTransfer` is one call of `TRANS_transceive_stream()`
(`SendData`, `VerifyData`, `SendAlgo`, `CheckAlgo`), a `RESETDATA`, or opening
and closing; it takes the row from the data sets or the algorithm and makes a step
of `Transceive` with it (`SendRow`, `VerifyRow`, `SendBuffer`, `CheckBuffer`). The
wire carries bytes; what comes back is what was expected or has
one bit flipped in `DataTransfer`, and anything in `Transceive`; a command may fail (`LinkFaults`), and one of more than
`MaxTransfer` bytes always does (`sspiem_write` and `sspiem_read` refuse more
than 16). Both are reported as -1 and taken for success. After a failed read the
comparison is with what an earlier transfer left in the buffer: either verdict.
`taken` is a history of how far each data set was read, `last` one of the last
transfer. The properties of `last` speak of single bits (`Bit`), the definitions
of what the code does with bytes: shifts, sums, masks (`Padded`, `Differs`,
`Trimmed`).

`DataStream` knows nothing of files: per stream its bytes and a cursor, and rows
taken from it. `MCDataTransfer` describes each file by what it holds, writes it
in its format (`Version1`, `Version3`, `Pack`), and maps the steps of
`DataTransfer` to it: this is the reference against which addressing, going back
in the file, remembered positions and decompression are checked.

## Runs

| run | shows | bounds |
|---|---|---|
| `timely` | the threads implement `CmdCall` (safety and liveness); a call fails only when something was lost; no copy into the buffer unless its call waits; a reused descriptor of a file is never notified | 4 commands, 3 descriptors, 2 files |
| `late` | with late answers: successful calls read answers in order, an answer lags by no more than the calls that failed before; every call returns | the same |
| `assertion` | violation: the assertion on line 457 of `reedl-ictrl.c` | 2 commands |
| `framing` | `SerialRx` implements `FrameChannel` on a clean line, and every message sent is handled in the end | 3 streams, two payload sizes, payload bytes equal to stream numbers, reads of up to the buffer's size |
| `noise` | whole messages, no overrun, no negative count when bytes are lost or damaged | 1 fault |
| `zero_length` | violation: a message without payload keeps the receiver busy | no noise |
| `session` | only a sound header is followed by a run, a damaged one never, and `HeaderSound` says of any file what that is; the bytes are executed as the tree says; failures and mismatches reach the right code, a code that names a call is that of the last call made, which failed, and a verification fails only if what was compared differed (`CodeTold`); no write to a running body; no execution beyond it; the nesting stays within the stack; a pass has closed the files and called `SPI_final()` (`PassIsClean`) and has deselected the FPGA (`PassDeselects`), and only at `ENDOFALGO`; the exit status tells a pass from everything else; the port is left on without a call of `SPI_final()` by the errors that return at once only (`LeftOn`); every run ends, but for a comment without an end in the header | 5 trees, 14 erroneous algorithms and one whose last operand is cut off, 3 faults, failed reads and lost transfers among them; two headers with every byte damaged in five ways, every prefix of one, a newer version, a file deeper than the stack; 1 to 3 words on the command line |
| `truncated` | violation: a file that ends in a comment or a number | every prefix of one algorithm |
| `prog_mismatch` | violation: PROGDATA mismatch | 1 fault |
| `lost_transfer` | violation: a lost transfer passes | 1 fault |
| `transfers` | `DataTransfer` implements `DataStream`; what the program knows of positions is true; malformed files do not open; rows are sent with the right padding; what is received is compared bit by bit; every step is one of `Transceive`, with rows and masks of the transfer's size (`StepsAreTransfers`) | 7 files and 7 malformed ones; rows of 8, 12 and 20 bits; at most 2 bytes a command; bits 0 and 7 flipped |
| `last_byte` | violation: a wrong last byte is not noticed | rows of 12 and 16 bits |

Why these bounds are enough. Two commands make every hazard of the subscription
happen (one leaves its descriptor behind, the next meets it), a third and
fourth let lags add up over failures; three descriptors allow an eventfd's
number to go to each of the two files. In the framing runs a payload holds the
very bytes that start messages, and the read buffer is smaller than two messages
and larger than a header, so that reads cut at every place; the fault of `noise`
may be anywhere, which is what puts the receiver out of step for the rest of
the run. In `session` loops nest three deep, first, last and only in their
bodies, with two iterations, which tells first from last; three faults let both
iterations of an outer loop fail and the next statement too, and each can be any
call. `MAXSTACK` is the code's 3; `MAXBUF` is 48 instead of 1024; one
program has a body that does not fit.

In `transfers` the sizes are a whole byte, one and a half and two and a half:
a row that fills its bytes, one that does not, and one that one command
cannot carry. The data sets have one to four bytes and do not divide by the rows, so
that a row goes over the end of a set; one file has its two sets in the opposite
order of its table, so that reading them in turns goes back and forth;
compressed files have runs of one and two, literals, both methods and a frame
that is not packed. Two positions (`DATA_BUFFER_SIZE`, 5 in the code) and two
entries of the table (16) are enough because the interpreter asks for two sets
only, 4 and 39 (`DataIDs`), whatever else a file holds. A row that is stored
compressed has to be read in one transfer (`FrameBytes`).

Deadlock is checked in `timely` and `late`. It is not in the others: the
microcontroller stops sending at `MaxMessages`, and an algorithm ends.

Fairness: weak fairness of each thread's next step (both are ordinary Linux
threads that block in `select()` only; the main thread's includes the expiry of
its timeout), and of the microcontroller's getting to a command, which it may
then ignore or answer. In `timely` that is what "within 50 ms" means. `SerialRx` assumes it for the
receiver, `AlgoEngine` and `Session` for the next step of the main thread, which
is a sequential program. `DataTransfer` has safety properties only.

## What is proved

`ICtrlCmd_proofs`, checked by TLAPS for every `NumCmds`, every set of
descriptors, `MaxFiles` and both values of `NDEBUG`, from the assumptions named
in `ICtrlCmd` only:

* `TypeCorrect`: `Spec => []TypeOK`, in both regimes. `TypeOK` alone is not
  inductive: that a call in progress has a number and a descriptor is added
  (`TypeInv`).
* `TimelyInvariant`: with timely answers (`Timely`) the inductive invariant
  `IInv`. Its core is `OneInFlight`: at most one command is anywhere between the
  port and the handler's `write()`, it is the current one, and its caller is
  waiting. It needs `OwnEvent` (the descriptor registered is the caller's own and
  still an eventfd), `OwnBuffer` (who has been notified finds his own answer),
  `WaitsInVain` (a caller with nothing in flight has lost something) and
  `CallsInTurn` (results are entered in order).
* `NoSpuriousFailure`, `NoCopyUnderReader`, `NoForeignNotify`: the safety
  properties of `timely`, from `IInv`.
* `TimelyCalls`: `Spec => Abstract!Spec`, each step is mapped to a call's issue,
  success or failure, or to a stutter. This is the safety part of
  `ImplementsCalls`.

`SerialRx_proofs`, for every set of byte values, every set of messages, every
size of the two buffers that satisfies the named assumptions (a `uint8_t` size
and a header fit into `rx_buff`), and any number of lost or damaged bytes:

* `FrameInvariant`: the inductive invariant `FrameInv`. Its core is `Partial`:
  while a stream's length is unknown no more than its header has been received,
  and once it is known it is what `get_len()` says of the bytes received. That
  `rx_proc_cont()` is never entered with an empty chunk is part of it: an empty
  one would let a message of length 0 be handed on. The lemmas are that the
  length of a message fits the buffer (`LengthFits`), is settled by its header
  (`LengthOfHeader`), and that one pass keeps the invariant (`ReceiveKeeps`).
* `TypeCorrect`, `OnlyWholeMessages`, `NoOverrun`: the three invariants of run
  `noise`, from `FrameInv`.

`SerialRxChannel_proofs`, for the same constants, as long as the line is intact
(`[](noise = 0)`), and for messages that are `Proper`: each carries the mark of its
stream, its own size, and a payload. Messages without payload have to be excluded:
run `zero_length` shows what they do.

* `NeverLost`: the inductive invariant `ChannelInv`: what the receiver has taken of
  a message, what it has read and what is still on the line are, one after the
  other, the messages not yet delivered (`Laid`), and what it has taken is not yet
  a whole message (`Incomplete`). `Laid` lists what is left of the bytes at the
  start of each message, so that messages can be taken from the front
  (`LaidFirst`) and added behind (`LaidMore`) without an induction. The step that
  matters is `ReceiveDelivers`: the bytes in hand and the first message agree as
  far as both go (`Agree`), hence so do their headers (`SameHeader`), hence the
  length the receiver computes is that of the message and it stops where the
  message ends.
* `ReceiverIsChannel`: the safety of `ImplementsChannel`: each step delivers the
  next message, whole and once, or is a stutter.

`Transceive_proofs`, for rows, masks and answers of any bytes and any size, every
`MaxTransfer`, and both values of `LinkFaults`:

* `AlwaysPadded`: a row of data is on the wire, bit for bit, behind as many ones as
  its bytes have to spare. The lemmas take a byte to its eight bits and back
  (`MadeBits`), split it where the shift splits it (`UpperPart`), and find
  the byte a bit is in (`PositionOf`).
* `NeverFalseAlarm`, `MismatchAlwaysFound`: a comparison that complains has seen a
  wrong bit that counts, and one that does not complain has seen none, but in the
  last byte of data that fill their bytes. Both comparisons are brought to the
  same form (`Agrees`, bit by bit): that of `hardware.c` by `DiffersExactly`, that of
  `core.c` by `MatchesOnly` and `MatchesWell`.
* `WitnessSuffices`: the theorems above are about `TransferSpec`, any transfers one
  after the other. Whatever takes the steps of `StepsAreTransfers` behaves like it;
  run `transfers` checks that `DataTransfer` does.

`ICtrlCmdLate_proofs`, in both regimes, from the same assumptions:

* `LateInvariant`: the inductive invariant `LateInv`. When answers may be late
  almost all of `IInv` fails, and what is left is an order. `QueuesInOrder`: the
  commands on the wire, those the microcontroller has and the answer the receiver
  took last (`Newest`) are in the order in which they were sent. `NothingEarly`:
  none of them is newer than the command under way. `ReadInOrder`: what has been
  read is no newer than `Newest`. And `FailuresCovered` counts: the calls that
  have returned, with a notification that is pending and a message the receiver
  has in hand, are no more than `Newest` and the calls that failed. It is this
  inequality that bounds the lag, and it is inductive only with the order.
* `LateInOrder` and `LateBoundedLag`: the two invariants of run `late`. The order is
  not strict, and cannot be: a call woken late by the answer before its own may
  find its own copied already, and the notification that comes with it wakes
  the next call, which reads it again.

`AlgoEngine_proofs`, for every set of algorithm files (any bytes, whole or not),
every `MAXBUF`, `MAX_MASKSIZE`, `MaxFaults` and both values of `LinkFaults`:

* `EngineInvariant`: the inductive invariant `EngineInv`, of five parts. `Types`
  is `TypeOK` with the log. `Frames` says who may have called whom (`CallChain`),
  that no call within a buffered body reads the file (`FileBelow`), that the
  outermost call is `SSPIEm_process()` on the file, and that `SSPIEm_process()`
  never goes on behind an `ENDOFALGO` (without which the opcode left over in
  `currentByte`, which a read behind the end does not overwrite, could end a run
  a second time). `Running` says what may be returned to: to a loop only an
  iteration, to `SSPIEm_process()` anything but `PROC_OVER`. `Holding` ties the call
  of `SPI_final()` and the files to `mode` and the code. `FailTold` says that `PROC_FAIL` comes from
  `TRSTTOGGLE` alone. One lemma per action, on lemmas about what the four kinds
  of steps do to the stack (`GotoKeeps`, `CallKeeps`, `ReturnKeeps`, `HangKeeps`).
* `TypeCorrect`: `Spec => []TypeOK`. That `VME_getNumber()` gives a natural number
  wherever it reads is `NumberRead`; its value is a recursive function, and that
  the recursion has a solution and stays in `Nat` is proved through least
  elements: `LeastElement` says that a nonempty set of naturals has one, from the
  library's theorem that `<` is well-founded, and takes the place of induction.
* `BodiesIntact`: while a body is executed nobody writes to `algoBuffer`.
  Everything above the loop on the stack reads the buffer (`CallChain`,
  `FileBelow`), and what writes reads the file.
* `PassesAtEnd`: only an `ENDOFALGO` in the file ends a run that passes.
* `PassReleases`: a run that passes has closed its files and called `SPI_final()`.
  That the port is then off cannot be proved, for it is false.

`AlgoEngineCause_proofs`, from the same assumptions:

* `CodesAreTold`: a run that ends with the code of `TRSTTOGGLE`, `RESETDATA`,
  `STARTTRAN`/`ENDTRAN` or the data ends on a call of that kind that failed, and
  one that ends with `ERROR_VERIFICATION` has received something else than was
  expected, or nothing, and found something else in the buffer. The code passes through up to three kinds of calls on its way, a loop
  tries again whatever it was and a repeat does not, and a REPEAT within a
  transmission makes another of it; so the invariant `CauseInv` says the same of
  every code that is being returned, and of every mismatch that a transmission on
  the stack still has to report that it is in the log (`Flagged`). It is inductive
  together with `EngineInv`. Four lemmas say what the kinds of steps do to it
  (`GotoCause`, `CallCause`, `ReturnCause`, `HangCause`), and the actions are
  brought to these.

`Session_proofs`, for every algorithm file with its header, every `MAXSTACK` and
the parameters above:

* `SessionInvariant`: the inductive invariant `SessionInv`: `EngineInv`, what has
  been asked and answered where `main()` is (`Admitted`), what is open there
  (`Phased`), and where the code it returns with comes from (`Exited`). That the
  command line has an algorithm in it before `SSPIEm_preset()` counts its words
  has to be part of it.
* `StatusIsTold`: status 2 is that of a complete run that closed the files and called
  `SPI_final()`, and 0 that of a `TRSTTOGGLE` that failed.
* `PortLeftOn`: which ends of the program leave the FPGA's port on without a call
  of `SPI_final()`; behind such a call it is on only at the end of an algorithm.
* `HeaderIsSound`: what is run follows nine fields in their order, of a known
  version, with a nesting there is room for and a checksum that is the sum of all
  bytes before it. Its invariant `HeaderInv` says that `csValue` is at every
  moment the sum of the file up to `pos` (`Summed`; by `SumAdds`: sums of
  neighbouring ranges add up) and that the fields before this one stand where
  they do and have passed (`FieldsRead`).
* `RunReleases`, `RunBodiesIntact`, `RunPassesAtEnd`, `RunCodesAreTold`: what holds of the interpreter
  holds of it in a whole run.

Every inductive invariant was model-checked before it was proved: `IInv` and
`LateInv` on the runs' configurations, `SessionInv`, `HeaderInv` and `CauseInv` on that
of `session`, `EngineInv` on it and on all short byte strings as algorithms,
`ChannelInv` on that of `framing`. The
proofs say that the missing unsubscription (line 207) and the reuse of descriptor
numbers (line 54 of `reedl-ictrl-cmd.c` asks) are harmless exactly as long as
answers are timely, and what remains when they are not.

Only model-checked, and why:

* Liveness (`CallsReturn`, `EveryMessageHandled`, `Ends`, the fairness part of
  `ImplementsCalls`): the prover does neither fairness nor `ENABLED`.
* `MatchesTree`, `ReadsInBody`, `ErroneousRejected`, `HeaderGate`, `NestFits`,
  `PassDeselects`: they hold of well formed algorithms and are false of arbitrary
  bytes; the catalogue is what they are about. The trees and the assembler of
  `MCAlgoEngine` are recursive operators.
* All of the data file (`ImplementsStream`, `PositionsKnown`, `OpensExactly`,
  `DataTransfer`'s `TypeOK`, and that its steps are those of `Transceive`): its reader
  calls itself (`HLDataGetByte` is a `RECURSIVE` operator), which is outside what the
  prover takes. That is why `Transceive` is a module of its own, with bits by
  division and remainder instead of `Bitwise`.

## Findings

* `reedl-ictrl.c:457`: the assertion fails at the second command (`assertion`).
* `reedl-ictrl.c:290`: a message of size zero is not "broken" as the comment on
  294 says; the receiver spins on the byte behind it (`zero_length`).
* `core.c:1330`: a truncated algorithm is read for ever (`truncated`).
* `core.c:832`: a PROGDATA mismatch is dropped (`prog_mismatch`).
* `hardware.c:303`: a lost transfer is -1, documented as 0, and passes for
  success (`lost_transfer`).
* `hardware.c:643`: the last byte of every row that fills its bytes is received
  and not compared (`last_byte`).

More limits came up that have no run of their own. TLC finds each of them at once
when it is asked: in `session`, with `port = "off"` for a pass, or no lost
transfer of either kind; and with a body of `MAXBUF` + 1 bytes.

* `hardware.c:342`: as at 303, a read that fails is -1, documented as 0 (318), and
  passes for success: the buffer's old content is compared, and a verification may
  pass, or fail, with nothing received.
* `hardware.c:193`: `SPI_final()` is documented to return 0 if it fails (178), which
  `SSPIEm_process()` would report (`core.c:619`), and returns 1 always: a run
  passes, and the program ends with status 2, with the port on.
* `core.c:1242` and `1093`: one byte more than `MAXBUF` is accepted into
  `algoBuffer` (58), and the body is executed.

And of the data file: with `MidReset = TRUE` TLC refutes
`ImplementsStream`: a `RESETDATA` while a data set of a version 3 file is partly
read does not bring the data "in the same condition as it was initialized"
(`intrface.c:342`), for `d_requestNewData` and `d_currentSize` stay. And the
way back to the position of a compressed set starts a frame at every byte
(`intrface.c:460`), so that two compressed sets cannot be read in turns. The
table of positions keeps an entry for a set of one byte though it is complete
(`intrface.c:488`), which does harm only if the set is not the first of the table.

## Not modelled

* The payload of commands and answers, so not the copy length of
  `reedl-ictrl.c:188` (two bytes behind `g_crsp` at most), and the device's return
  codes, which the callers log: an answer means here that the command was carried
  out.
* The port's parameters, the idle timer (its handler is commented out), the
  termination flag, which nothing sets.
* `TRANS_cstoggle()` and `reedl_ictrl_imon()`, which nothing calls; the time
  `wait()` takes.
* Undefined behaviour at sizes no real file has: a table of contents with more
  than 16 entries, rows of more than 1024 bytes in `dataBuffer`, numbers of more
  than 32 bits in `VME_getNumber()` and the table of contents, names of more
  than 63 characters.
* The mask that one transmission leaves for its later transfers: `CheckBuffer` and
  `VerifyRow` are given any mask instead, of the transfer's size.
* `a_uiRowCount` and the error codes of the data sets 1, 5, 6 and 7, which
  no opcode asks for; the checksum `d_CSU`, which is summed and not compared.
* Messages, logging, `vsproj/buildin.h` (data of an example), build files.

## Plan

1. done: command layer, framing, interpreter; type correctness and the timely
   command layer proved, and the bounds of the receiver.
2. done: data sets, decompression, transfers and their comparison; the header and
   the whole run.
3. done: proofs for the late regime of the command layer, for the interpreter and
   for whole runs.
4. done: proofs that `SerialRx` implements `FrameChannel`, and of the arithmetic of
   the padding and of the comparisons, in a module without the data file.
