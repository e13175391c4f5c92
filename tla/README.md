# CosmosPC: a TLA+ model of the w10_pc_user program

The program is a Windows dialog (`src/w10_pc_user/w10_pc_user/`). A W10 sports
watch hangs on a Bluetooth serial port. The *Sync* button downloads the log
files of the watch one number after the other, *Stop* takes the port away
again, and *Update* sends a firmware image to the watch over YMODEM. Before the
dialog comes up, another one searches the COM ports for a watch. Almost
everything that can go wrong here is concurrency without locks: the window
thread, one thread per click, one read thread per port and one thread per parsed
log share global objects (`pcio`, `rProc`, `Form1`) and talk to each other by
polling.

Paths below are relative to `src/w10_pc_user/w10_pc_user/`.

## 1. Inventory

| Component | Source | State it keeps | Operations |
|---|---|---|---|
| Window | `w10_pc_user.cpp`, `Refresh` in `MainProcFunc.cpp` | message queue, which of Sync/Stop is shown | Sync, Stop, Update, OK/Cancel, `WM_UI_REFRESH`, the deletion of `main_cs` |
| Download thread | `MainProcFunc.cpp` `doSync`, `getCommPort` | local `i`, its port name; the globals `main_cs`, `pcio`; `getCommPort`'s static buffer | connect, one pass of the polling loop, clean up |
| Stop thread | `MainProcFunc.cpp` `StopThread`, `StopSync` | - | delete `pcio` under `main_cs`, ask for a refresh |
| Receiver | `CosmosReadCommProc.cpp` | `flag`, `dwName`, `hfile`, `szLastFile`, `file_size`, `total_recv`, the folder | `proc` (header, content), `InitFile`, `DeinitFile`, `DeleteLastFile`, `checkFileExist` |
| Serial port | `ComIO.cpp`, `CosmosSpp.cpp` | `hCom`, the registered receiver, a *static* critical section | open, close, read thread, write |
| Log parser | `CosmosParser.cpp` | - (one thread per log) | read a `.tmp` file, write a `.cosmos` file |
| Firmware update | `UpdateGWatch.cpp`, `modem/ymodem.cpp` | `Form1->updateio`, `Image_data` | load image, open port, `BCB2WIN`, YMODEM sender |
| Port search | `checkComm`, `CheckAll`, `dlgBtInit`, `_tWinMain` | static result, the port being probed | probe COM0 to COM99 behind a dialog that can be closed early, offer the port found |
| MySQL wrapper | `sql_api/zlb_mysql.cpp` | connection `m_Data`; records, count and cursor | connect, statements, move the cursor, destroy. Compiled, its caller in this program is switched off (`__DIRECTLY_SQL__`) |
| Older updater | `Unit1.cxx` | image buffer, event, thread, port, button | load and send an image, close the form. Not part of the build |
| Auto-update | `sql_api/0_PC.cxx` | question and timer, two record sets, the image on disk | ask, look up, copy, delete the request, run, shut down. Not part of the build |
| MySQL headers | `sql_api/my*.h`, `m_*.h` | - | vendored, not modelled |

How they interact:

    window --CreateThread--> doSync, StopThread, doUpdate
    doSync, StopThread --SendMessage (blocks)--> window
    doSync, StopThread --PostMessage WM_UI_REFRESH--> window
    doSync, StopThread --main_cs--> pcio
    doSync --WriteCom "SPP+FREAD=i"--> watch --bytes--> read thread --proc()--> rProc
    doSync <--poll rProc.flag (no lock)--> read thread
    doSync --CreateThread--> doParseFile(i) --opens--> the file the receiver wrote
    _tWinMain --first dialog--> CheckAll --probes--> COM ports; main dialog <--static result
    pcio, updateio --static critical section cs--> read thread of each ComIO
    form of Unit1 --image buffer, event, button--> its thread
    0_PC --zlb_mysql--> table of requests, which others write to

What is hard, and the properties that answer it:

* `flag` is a four-valued handshake between two threads without a lock, read up
  to four times in one pass: `FinishedIsComplete`, `QuiescentClean`.
* 1 means both "requested" and "not found"; only the two `Sleep`s separate
  them: `NotFoundIsTrue`.
* Cleaning up after the loop happens outside `main_cs`, while the read thread
  may still run: `QuiescentClean`, `RefinesLogStore`.
* `pcio` is tested before the lock is taken, deleted by another thread, and read
  by the window without a lock: `PortAliveWhileUsed`, `NoOrphanPort`,
  `ButtonFitsPort`.
* `main_cs` is held over blocking messages to the window thread and left at five
  places: `LockDiscipline`, `StopCompletes`, `SyncEnds`.
* `_tWinMain` deletes `main_cs` under the threads that its closing has just
  started, and the process ends at any point; the next one trusts the mere
  existence of a file. Nothing in the code answers that: what survives is
  `NoOrphanPort`, and by proof `StoredForGood` and `ParsedAreStored`.
* Files may fail to be created and writes may do half of their work, and nobody
  looks: `FinishedIsComplete`, `SyncCompletes`.
* The update threads share one image buffer and one port pointer, and YMODEM
  runs over a line that may damage packets and lose replies:
  `SuccessIsInstalled`, `InstallsWholeImages`, `PortIsReleased`, `UpdateEnds`,
  `TransferCompletes`.
* All `ComIO` objects share one static critical section that each constructor
  initialises and each destructor deletes, and the read thread holds a pointer
  to an object that nobody keeps for it: `NobodyIsLost`, `ReadsOwnObject`,
  `RefinesPortUse`, `DeleteEnds`, and `ReaderEnds`, which fails.
* `ReadFile` cuts the stream where it likes, and `proc` decides by a tag and a
  comma whether a buffer is an answer: `LogArrives`.
* The search goes on behind the main dialog when the first one is closed early:
  `OffersFirstWatch`, `LeavesPortsFree`, `MainComesUp`.
* Packet sizes, decimal sizes, CRC and records that are cut short:
  `TransferArrives`, `DamageIsSeen`, `RowsAreRecords`.
* The earlier programs: a buffer that only a disabled button protects
  (`SendsOneImage`, `ButtonComesBack`), steps that never look back
  (`RunsWhatWasAsked`), a timer that finds its window by a title that two windows
  have (`SecondQuestionStays`, `SilenceIsYes`), and a wrapper whose cursor is unsigned
  (`CursorInside`) and which adds up the fields of all queries (`NamesFindValues`).

The complete list, each item at its line, is under `hazards` in `PROJECT.json`.

## 2. Modules

    LogReceiver  <-EXTENDS-  CosmosSync  <-EXTENDS-  MCCosmosSync
                                 |  \--EXTENDS-  CosmosSyncProofs
    LogStore  <-INSTANCE---------/
    WatchLoader  <-EXTENDS-  GWatchUpdate  <-EXTENDS-  MCGWatchUpdate
                                   \--EXTENDS-  GWatchUpdateProofs
    PortUse  <-INSTANCE-  ComPort  <-EXTENDS-  ComPortProofs
    PortSearch  <-EXTENDS-  PortSearchProofs
    YmodemCodec, LogFormat, AnswerTags  <-EXTENDS-  MCFormats
                 LogFormat, AnswerTags  <-EXTENDS-  FormatProofs
    ZlbMysql  <-EXTENDS-  ZlbClient  <-EXTENDS-  MCZlbClient
        |                     \--EXTENDS-  ZlbClientProofs
        \--EXTENDS-  AutoUpdate  <-EXTENDS-  MCAutoUpdate
                          \--EXTENDS-  AutoUpdateProofs
    UpdateTool  <-EXTENDS-  UpdateToolProofs

| Module | What it is |
|---|---|
| `LogReceiver` | `CosmosReadCommProc`: its members, the folder, and the pieces into which `proc`, `InitFile` and `DeleteLastFile` are cut. Operators only, no specification: the threads in `CosmosSync` use them. |
| `CosmosSync` | Everything around `doSync`: window, download, stop, read and parse threads, the process, the watch. |
| `LogStore` | What a download promises, without threads or protocol. |
| `MCCosmosSync` | Which logs are on the watch in the runs, and the symmetry of the download threads. |
| `CosmosSyncProofs` | Theorems about any number of threads and any timing, and about what one download thread stores and reports. |
| `WatchLoader` | External: boot loader of the watch and the serial line, as the update code uses them. |
| `GWatchUpdate` | `doUpdate`, `BCB2WIN` and the YMODEM sender. |
| `MCGWatchUpdate` | The image files of the runs. |
| `ComPort` | `ComIO` objects on reused heap blocks, their shared critical section, their users and read threads. |
| `PortUse` | What users of a port rely on: one open handle, one use of it at a time, never closed in use. |
| `PortSearch` | `CheckAll` and `checkComm` beside the two dialogs. |
| `YmodemCodec` | The bytes of YMODEM packets, as functions, and a receiver for reference. |
| `LogFormat` | `doParseFile`, from the bytes of a log to GPS rows, record by record, with the watch that writes the log. |
| `AnswerTags` | `ReadThread` and `proc`, on the tokens of what the watch sends, cut into reads anywhere. |
| `MCFormats` | Inputs for `YmodemCodec`, one per state, its properties, and the two machines of `LogFormat` and `AnswerTags` side by side. |
| `FormatProofs` | The theorems about `LogFormat` and `AnswerTags`. |
| `ZlbMysql` | `DataBase` and `RecordSet` of `zlb_mysql`, as functions of what they hold. |
| `ZlbClient`, `MCZlbClient` | A program that uses them in any order their declarations invite, and the columns it asks for. |
| `AutoUpdate`, `MCAutoUpdate` | `0_PC.cxx`, a client of `ZlbMysql`, and the requests of its run. |
| `UpdateTool` | `Unit1.cxx`: form, thread and closing. |
| `GWatchUpdateProofs`, `ComPortProofs`, `PortSearchProofs`, `ZlbClientProofs`, `AutoUpdateProofs`, `UpdateToolProofs` | The theorems about the module of that name. |

### How CosmosSync corresponds to the code

| State | Code |
|---|---|
| `ui`, `posted`, `stopShown` | the window thread, its posted `WM_UI_REFRESH`, which button is visible |
| `mainCs`, `pcio` | `main_cs`, `pcio` |
| `port[o]`, `registered[o]` | `hCom` and `objproc` of the `CosmosSpp` object `o` |
| `portName` | the static buffer in `getCommPort` |
| `pc[t]`, `i[t]`, `nameOk[t]` | a `doSync` thread, its `i`, its copy of the port name |
| `st[k]` | a `StopThread` |
| `rpc[o]`, `rbuf[o]` | the read thread of object `o` and its buffer |
| `req`, `chan` | bytes on the line, in either direction |
| `parsing`, `parsed` | running `doParseFile` threads, existing `.cosmos` files |
| `flag`, `dwName`, `hfile`, `lastFile`, `file_size`, `total_recv`, `disk` | members of `rProc`, and the folder |

An action is one step of one thread between two points where another thread can
interfere: a lock, a blocking message to the window, or an access to a variable
that is shared without a lock. `flag` is read anew by every test of the
else-if chain (it is not guarded), so `TestFlag` is one step per test. The steps:

| Code | Actions |
|---|---|
| `doSync` before the loop | `SyncTest`, `GetCommPort`, `CopyName`, `OpenEnter`, `Create`, `Announce`, `Post` |
| the loop | `LoopEnter`, `TestFlag`, `CheckFileExist`, `Ask`, `WriteRequest`, `Finish`, `GiveUp`, `Leave` |
| after the loop | `EndTest`, `DeleteLastFile` (two steps), `ResetFlag` |
| `StopThread`, `StopSync`, `~ComIO` | `StopText`, `StopEnter`, `CloseCom`, `FreePort`, `StopPost` |
| `ReadThread`, `proc` | `ReadCom`, `ReadEnd`, `Proc`, `ProcFile` (four steps) |
| `dlgMainProc`, `Refresh`, `_tWinMain` | `ClickSync`, `ClickStop`, `CloseWindow`, `TakeRefresh`, `Refresh`, `DeleteMainCs`, `Exit` |
| watch, `doParseFile` | `DevReply`, `ParseFile` |

Data is abstract. A log is a sequence of pieces `<<f, k>>`; the header
`"FREAD,<size>"` of log `f` is the item `<<f, 0>>`; `file_size` and `total_recv`
count pieces. `proc` looks for the tag in the whole buffer and drops the rest
when it finds one; that is kept. A comm port can be opened once at a time, and
opening may always fail. So may the `CreateFile` of `InitFile`, and a `WriteFile`
may write any part of its buffer or nothing; `doParseFile` may make no `.cosmos`
file of the numbers in `MayFail`.

When the window is gone, `_tWinMain` deletes `main_cs` (`DeleteMainCs`, `ui` is then
"over") whoever is in it, and the process goes on for some steps until it ends
(`Exit`). What a deleted section does is undefined. The model takes what Windows
does with one: it looks free and can be entered, also beside a thread that is
still inside. A step that would use a NULL `pcio`, or delete an object twice, does
not happen (`HasPort`): it is a fault that ends the process, which is `Exit`.

### How GWatchUpdate corresponds to the code

`upc[u]` is a `doUpdate` thread: load the image (`OpenImage`, `LoadImage`), open
the port (`InitPort`), talk to the boot loader (`SendCommand` for `a0`, `1` and
`3`; `Listen` for the four loops of reads), `Ymodem_Transmit` (`SendHeader`,
`SendData`, `SendEot`, `SendLast`, `WaitForChar` with `Accept`, `Proceed`,
`Advance` and `Miss`), `UART_CLOSE` (`CloseUpdate`, two steps). `pos`, `size` and
`blk` are `buf_ptr - buf`, `size` and `blkNumber`. Packet sizes and the size of
the flash are constants, so that 128, 1024 and 896 become 2, 4 and 3. The name
of the file is read from a stack frame that is gone, so `OpenImage` opens any of
the images, or none.

### How the other modules correspond to the code

`ComPort`: `cs`, `hCom[a]` and `obj[u]` are `ComIO::cs`, `hCom` of heap block `a`
and the pointer of user `u` (`pcio`, or `Form1->updateio`, which calls
`InitComIO(TRUE)` and so has no read thread). Construction is `New` and
`InitComIO`; `WriteCom`, and `ReadCom` called by a user, are `CallIo`, `EnterIo`,
`EndIo`; the read thread is `TestHandle`, `EnterRead`, `CheckHandle`, `ReadOn`;
the destructor and `delete` are `Delete`, `EnterDelete`, `DeinitComIO`,
`LeaveDelete`, `Free`. A freed block holds "junk", and a test of it may go
either way. A section that was initialised or deleted under its owner is beyond
use once that owner has left it. Nothing is assumed about timing, and the two
users may have their objects at the same time. Two history variables tell what
went wrong: `misused`, once `cs` was initialised while it was, or deleted while
somebody owned it; and `late`, the read threads that their destructor overtook,
either between their `getHandle` and their `Enter`, or because a pass took them
longer than its `Sleep(200)`.

`PortSearch`: `pc`, `i`, `result` and `open` are `CheckAll`'s position, its loop
variable, the static of `checkComm` and the handle it holds. `closed` remembers
that the user closed the first dialog, `closing` that its end is on the way.
`watches` are the ports where a watch answers the probe.

`YmodemCodec` keeps the names of the functions it translates.

`LogFormat`: `WriteRecord` is the watch, which appends a record to `log` and its
bytes to `bytes`, or a byte that is no tag. `Open(n)` is `doParseFile` up to line
84, on a file that holds the first `n` bytes; `ReadRecord` is one pass of its loop,
and `Record` what the pass does to file position, `buffer`, `w` (`more`) and rows. A
`.cosmos` file that cannot be created, and a row that cannot be written, end the
parse (`failed`): the result of the `WriteFile` overwrites `w`.
`buffer` starts with whatever is on the stack and is kept from record to record,
since a record that is cut short is filled up with what was there. `Needed` is
what each case compares `w` with: the case of a lap compares nothing, and the test
at the end of the loop then asks for one byte.

`AnswerTags`: a buffer is a sequence of tokens, fine enough that `FREAD` falls
apart into two; `CString` is the part before the first NUL, which is all that
`strstr` sees. `ReadOld` is a buffer with the rest of an earlier answer, `Answer` the
watch's answer to the FREAD, header and log, and `ReadCom` one pass of
`ReadThread`, which hands `proc` a stretch of them of any length, also one that
begins in the header and ends in the log. `spoilt` remembers that a read was cut
so, or held a tag and a comma.

`ZlbMysql`: a `DataBase` is the state of `m_Data` ("freed" when `mysql_close` was
called and the pointer kept) and whether an answer was left unfetched; a
`RecordSet` is its fields, its rows, its count and its unsigned position, and a
value of `ZlbClient` says which query, row and column it comes from. A client may
connect again at any time, and jump in a set that is empty; `astray` remembers
that its last move was such a jump. `AutoUpdate` runs
`_tmain` on them, one action per step that the outside can see or disturb, with
`TimerProc` dispatched while a question is up.

`UpdateTool`: `pc` is the step of `Process_Update`, `Following` the step after one
that works; every step may fail, and then the port is closed and the button
enabled. `FormClose` and `CloseTimerTimer` are the two steps of closing.

## 3. Runs

All runs say `CHECK_DEADLOCK FALSE`: once the window is closed, or the user does
nothing, the program rightly stops.

### Passing

| Run | Instance | Shows |
|---|---|---|
| `sync_single` | 1 download thread, 1 stop thread, logs of 1 and 2 pieces and a third number without a log, reads of up to 2 pieces that may join a header and the log behind it, files that cannot be created, writes of any part, prompt watch, fairness | "File NOT Found" is true; a skipped log is complete; what is handed to the parser is complete and closed; after everything has ended the folder holds no partial log; the folder implements `LogStore`; Stop ends; `doSync` ends; a download that nobody stops and that loses no byte stores all logs; a log that is stored (`flag = 3`) gets parsed unless a Stop comes in between |
| `sync_double` | 2 download threads (Sync clicked twice), 1 stop thread, symmetry | lock discipline, no use of a closed port, the right button in the end |
| `sync_restart` | 2 processes one after the other, the first with its `main_cs` deleted at the end, a full card, no assumption on timing | types, and no open port that nobody owns |
| `update_single` | 1 update thread, images of 0, 9, 11 and 12 bytes and one too long of 13 (flash: 3 blocks of 4; the 11 bytes are 4 packets), up to 3 faults of the line (damaged packets, lost replies, late answers), the line may go down, fairness | success means installed; only whole images are installed; the port is closed afterwards; every update ends while the line is up; without a fault an image arrives, unless its packets are more than the blocks |
| `com_port` | 2 users (one with read threads) whose objects may be alive together, 2 read threads, 2 heap blocks, any timing | until `cs` is misused: only a late read thread waits for a deleted section or looks at an object that is gone, and the port is used as `PortUse` says; destructors return |
| `port_search` | 6 ports, every subset of 4 of them with a watch, first dialog closed at any time or not | the offered port has a watch, the first one if the search was let run; no port stays open; the main dialog comes up |
| `formats` | images of 0 to 40 bytes with packets of 5 and 7, 2 names; sizes around every digit; all patterns of inverted bits within 12, all runs of up to 16 and all pairs in a packet; logs of up to 2 records or other bytes between them, over a buffer with anything in it, cut anywhere, with rows that cannot be written; contents of up to 4 tokens of 7, in any reads, after 4 kinds of older answers | a YMODEM receiver gets name, size and image back, and sizes are decimal; the CRC sees the damage; GPS rows are the records; a log arrives however it is cut, unless one read looks like an answer |
| `zlb_client` | up to 3 queries of up to 2 rows for 3 lists of columns, jumps of up to 8, numbers modulo 32 | where the cursor is after every move, in an empty set too; names find their columns |
| `auto_update` | 2 machines, 2 builds, up to 2 rows, a timer of 3 ticks, failures everywhere | a copy that worked runs what was asked; the timer leaves the second question alone; silence does not hold the update up |
| `update_tool` | 3 images, any number of updates and failures, one closing | the buffer does not change during a transfer; the button comes back |

### Expected violations

| Run | What TLC finds |
|---|---|
| `second_sync` | the second connection of a process uses the name `\\.\COM3COM3`: `getCommPort` appends to a static buffer (`MainProcFunc.cpp:111`) |
| `reader_ends` | "Do nothing! Since there is some comm event will be sent when the comm is closed" (`ComIO.cpp:66-67`): a read thread that has passed its `getHandle` (`:128`) and comes to `Enter` (`:77`) while the destructor has `cs` waits for a section that is deleted, and never ends |

### Known disagreements

The model shows more of these, and a run for each of them would say little that a
sentence does not. Change the constants of the run named and TLC prints the
counterexample.

| How to see it | What happens |
|---|---|
| `sync_single`, `LogSize <- OneLog`, `MaxSn = 2`, `PromptDevice = FALSE`: `NotFoundIsTrue` | `flag = 1` is set with the request and read as "not found" in the next pass (`MainProcFunc.cpp:167`, `:197`), though `CosmosReadCommProc.h:20` says "1: before writing": an answer later than 600 ms is reported as File NOT Found |
| same, `PromptDevice = TRUE`, `GraceSleep = FALSE`: `RefinesLogStore` | "file downloaded NOT completely" (`MainProcFunc.cpp:213`) is concluded from `flag = 2`, which a read thread still shows between its last `WriteFile` and `flag = 3`: a complete file is deleted |
| same, both `TRUE`, `MaxRuns = 2`: `SkipsOnlyStored` | a process that ends during a download leaves a partial file, and every later one skips it (`MainProcFunc.cpp:166`) |
| `update_single`, two `Updaters`, `ImageSize <- TwoSizes`, `MaxObjects = 3`: `SuccessIsInstalled`, `PortIsReleased` | `Image_data` is global (`UpdateGWatch.cpp:27`): a second Update changes the image under the first one, which reports success; `updateio` is overwritten (`modem/ymodem.cpp:16`) and the first port stays open |
| `sync_double`: `NoOrphanPort` | both download threads pass the test of `pcio` (`MainProcFunc.cpp:123`), and nobody can close the first one's port any more |
| `update_tool`, `CloseOnce = FALSE` | a second click on the close box calls `Terminate` of a thread that may have freed itself (`Unit1.cxx:32`, `:37`): `form = "crashed"` |

Others are exceptions written into a property or a module: bytes of a log that
are lost, since they come in one `ReadFile` with their header (they are dropped,
`CosmosReadCommProc.cpp:139-161`), are not written (`:162`) or have no file (`:29`),
after which `doSync` waits until a Stop comes (`Lossy` in `SyncCompletes` and
`SyncEnds`); `main_cs` deleted while threads are in it (`w10_pc_user.cpp:30`), after
which two of them can be in it and use or delete the same port (`ui # "over"` in
`LockDiscipline` and `PortAliveWhileUsed`); `cs` initialised anew and deleted under
its users when an update is started during a download (`ComIO.cpp:17`, `:21`;
`misused` in the properties of `ComPort`), and read threads that their destructor
overtakes, which then wait for ever or read freed memory (`late`); an image that
needs more packets than the flash has blocks, which `UpdateGWatch.cpp` accepts and
`modem/ymodem.cpp:363` gives up with bytes left (`TransferCompletes`); a Stop between the
last byte and the next pass leaves a complete log that is never parsed
(`DownloadedIsParsed`); a port that could not be opened is announced as opened; a
damaged packet ends the transfer, although `modem/ymodem.cpp:326` speaks of ten
repetitions (`TransferCompletes`); a write that fails keeps `Ymodem_SendPacket`
busy for ever (`UpdateEnds`); a log whose bytes contain a tag and a comma in one
read loses that read and, with an FSIZE, makes `proc` divide by zero
(`LogArrives`); an FCHECK answer is always taken for CHECK
(`CosmosReadCommProc.cpp:63`); a GPS record cut short by less than a heartbeat
still gives a row (`RowsAreRecords`); a step back over the first record lands on
the last one, since `l < 0` never holds (`Move`); a jump in an empty set leaves the
cursor at the largest number, since `size() - 1` wraps (`zlb_mysql.cpp:258`, `:279`),
and stays there when rows come (`CursorInside`); a connection that failed or was
hung up is closed once more at the end (`Destroy`), and a second `Connect` loses the
first connection (`Connect`); a name finds the wrong column, or none,
in the rows of a query whose columns are not those of the first one
(`NamesFindValues`); the program of `0_PC.cxx` runs whatever
image is on the disk when the copy failed, and deletes the request all the same
(`RunsWhatWasAsked` only speaks of copies that worked); the form of `Unit1.cxx`
closes while its thread may still send, and `'3'` goes out after a failed
transfer too.

## 4. Bounds and assumptions

* `MaxSn` stands for 1000000: 2 or 3. With 3 and two logs, a run passes a first
  log, a second one and a number without a log; with `FullCard` it meets the end
  of the `while` instead.
* `MaxPorts = 2`: `CosmosSpp` objects alive together. One download thread never
  needs more than the new object and the old one whose read thread has not ended.
* `MaxItems`: pieces in one `ReadFile`. 2 is enough for header + content and for
  a whole log in one read.
* `MaxRuns`: how often the program is started. The end of the last process is not
  followed, so that with `MaxRuns = 1` `main_cs` is never deleted.
* `MayFail`: 1 in `sync_single` and `sync_restart`, so that one log can make no
  `.cosmos` file and the other is bound to.
* Clicks are not bounded; user input is taken when no posted message is waiting,
  as Windows does.
* `PromptDevice`: the watch's answer to a request has been dealt with before
  `doSync`'s next pass (`Sleep(500)` + `Sleep(100)`). `GraceSleep`: the read
  thread is not in the middle of `proc` when the destructor's `Sleep(200)` ends.
  Both are what the sleeps in the code are there for, but nothing enforces them.
  `sync_single` needs both, as the table above shows. `sync_restart` needs
  neither, and neither do the first four theorems of `CosmosSyncProofs` and
  `OnePort`; its others need both.
* With a second click on Sync most properties of `sync_single` fail, and with a
  restart `SkipsOnlyStored`, `QuiescentClean` and `RefinesLogStore` do; what
  survives is in `sync_double`, `sync_restart` and the theorems. `NoOrphanPort` holds for one download thread
  only: two that both pass the test of `pcio` open two objects.
* `GWatchUpdate`: `Tries` stands for 20 (the loops of `WaitForChar` and
  `doUpdate`; the last one has 30), `SeqMod` for 256, small enough for packet
  numbers to wrap. `ShortRead` is the part that a `ReadFile` may return. At most
  `MaxFaults` faults happen: a damaged packet, a lost reply, or a late answer (a
  try of 500 reads that runs out while the watch has yet to answer).
* `getCommPort` gives a usable name once per process, so only the first update of
  a process can open the port; the others are in the model, with an invalid
  handle.

* `ComPort`: two heap blocks are enough for a block that is freed and reused under a
  pointer, and for two objects at a time; two read threads for one that its
  destructor has left behind beside that of the next object. `GoesOn = FALSE`: once `cs`
  is misused no further object is made, since all that is claimed of the time after
  is that each step has its types.
* `PortSearch`: six ports stand for 100. `Found` leaves out COM0, which Windows
  does not have and `result` could not tell from none.
* `YmodemCodec`: 5, 7 and 4 stand for 128, 1024 and 256. An image of 40 bytes has
  every remainder, each mix of large and small packets, and block numbers that
  wrap. The name and the size fit the first packet. The CRC is taken at its full
  width. `MaxBurst = 12`: the errors tried are every pattern within 12 bits, and of
  longer ones those without a gap, up to 16, and pairs; the patterns of 13 to 16
  bits with gaps are 15 times as many and are not.
* `LogFormat`: one byte per field is enough to tell records apart, and two values:
  `Data` has 0, which makes a position empty, and 16, the tag of a GPS record, so
  that data can look like a tag and a byte between records like a record. A GPS
  record is at least as long as a heartbeat, as the code's comparison supposes, and
  every record and the head fit the buffer. With `MaxRecords = 2` a record is behind
  another one and can be filled up with its rest.
* `AnswerTags`: `MaxContent = 4` tokens hold a tag, a comma and something around
  them, or a NUL in front. `Numerals` are the sizes 0 to 4 and the empty one, once
  with a zero in front; `OldAnswers` are three answers and a part of one, and none
  of them is an answer to an FREAD: `doSync` asks for a log when the one before is
  dealt with, as `PromptDevice` says.
* `ZlbMysql`: `Word` stands for 2^32; the theorems need only that all rows
  together stay below it.
* `AutoUpdate`: `Ticks` stands for 600 seconds, `MaxRows` bounds the table.
* `UpdateTool`: three images, so that an old, a loaded and a later one differ.
  `CloseOnce`: the user closes the form once.

## 5. Fairness

`LiveSpec` and `UpdateLiveSpec` assume that no thread, and not the watch, is
suspended for ever: weak fairness of each thread's steps. Waiting for `main_cs`
gets strong fairness: it is released in every pass for a `Sleep(100)`, so it is
free again and again but never for good, and a Windows critical section does not
starve a waiter for ever under this load. The window thread has weak fairness
for taking and handling messages. The user promises nothing: no click, close or
restart is ever assumed. Faults of the line are not fair either.

`ComLiveSpec` takes strong fairness for the steps that wait for `cs`, for the same
reason: the read thread leaves it in every pass, for a `Sleep(50)`. `SearchSpec`,
`AutoSpec` and `ToolSpec` only say that their threads run and, in `AutoSpec`, that
the timer ticks; in `ToolSpec` the user deals with an open file dialog in the end.
`FormatSpec` (with `ParseSpec` and `ReadSpec` in it) and `ClientSpec` have no fairness: their properties are invariants.

## 6. What is proved

`CosmosSyncProofs` proves first, for any number of download and stop threads, any set
of logs, any number of ports and runs, and without the timing assumptions:

| Theorem | States |
|---|---|
| `TypeCorrect` | `Spec => []SyncTypeOK` |
| `LockIsKept` | `Spec => []LockDiscipline`: as long as there is a `main_cs`, who is between Enter and Leave owns it, and the other way round |
| `PortStaysAlive` | `Spec => []PortAliveWhileUsed`: until `main_cs` is deleted, inside the loop `pcio` points to an object that is not closed |
| `ButtonFits` | `Spec => []ButtonFitsPort`: the unlocked read in `Refresh` is harmless |

They rest on the assumptions on constants `ReceiverAssumption` and
`SyncAssumption` only. The inductive invariant is `SyncInv`. The properties alone
are not inductive, for three reasons:

* `SyncTypeOK` says `i \in 1 .. MaxSn`, and `i` is incremented at two places; one
  needs `InBounds` (inside the loop `i` is still below its bound) to see that it
  does not pass it. It also says that `disk` holds sequences of pieces, and
  `WriteFile` appends to the open file; `OpenFileExists` says that there is one.
* `PortAliveWhileUsed` needs `LockDiscipline`: a second thread can only change
  `pcio` inside `main_cs`, and the thread in the loop owns it.
* It also needs `PointerIsLive`: on entering the lock, `pcio # 0` must mean a
  port that is not closed. That fails only between the destructor and
  `pcio = NULL`, and then the stop thread owns the lock. Like the two properties it
  is claimed only until `main_cs` is deleted.

`SyncInvInit` and `SyncInvNext` show that `SyncInv` holds initially and is kept;
the latter is split by conjunct (`UiTypeNext`, `PortTypeNext`, `ReceiverNext`,
`ThreadTypeNext`, `LinkTypeNext`, `ParseTypeNext`, `BoundsNext`, `LockNext`,
`PortAliveNext`), and each of those by action. `ButtonFitsPort` is inductive
together with the types (`ButtonNext`).

### What one download stores: the rest of CosmosSyncProofs

For one `doSync` thread (`Syncers = {t}`), and any number of stop threads, port
objects and numbers, logs of any size and reads of any length:

| Theorem | States |
|---|---|
| `OnePort` | `Spec => []NoOrphanPort`, with any timing and any number of runs |
| `NotFoundTrue` | `Spec => []NotFoundIsTrue` |
| `SkippedIsStored` | `Spec => []SkipsOnlyStored` |
| `FinishedComplete` | `Spec => []FinishedIsComplete` |
| `RestIsClean` | `Spec => []QuiescentClean` |
| `DownloadIsLogStore` | `Spec => RefinesLogStore` |
| `StoredForGood` | `Spec => [][\A f \in Sn : Complete(f) => Complete(f)']_vars`: a complete log is never touched again |
| `ParsedAreStored` | `Spec => [](\A n \in parsed : Complete(n))`: rows were only ever made of complete logs |

All but `OnePort` assume `PromptDevice` and `GraceSleep` besides, and
`SkippedIsStored`, `RestIsClean` and `DownloadIsLogStore` also `MaxRuns = 1`, since a
process that ends during a download leaves a partial file. What a process says of
its own downloads survives that: `NotFoundTrue` and `FinishedComplete` hold for any
number of runs. So do `StoredForGood` and `ParsedAreStored`, which say what a
restart leaves intact where `RefinesLogStore` fails: whatever was complete in one
process is so in all later ones, and what is skipped without being complete is
never parsed. The other hypotheses cannot go: "Known disagreements" and section 4
say what breaks without them.

`DownloadInv(t)` is `SyncInv` and four things more. The properties are each
about a single position of `doSync`, and nothing in them says how `flag`, the
file and the line got there; the invariant says it for every position:

* `Position`. A download is in one of eight phases: `Between` two numbers, `Asked`
  (the request is on its way), `Answered` (the log is), `Opening` (`InitFile`),
  `Writing`, `Ending` (the file is closed and `flag` not yet 3), `Settled` (not
  found, or stored) and `Torn` (interrupted and closed, not yet deleted). A phase
  fixes `flag`, `dwName`, `hfile`, `lastFile`, the counters, the folder, both
  directions of the line and the position of the read thread. `Position` says which
  phases go with each position of `doSync`, and that `i = dwName`. That the other
  files are whole (`AllWhole`, `WholeBut`) is claimed if there is no second run.
* In `Writing`, what there is of a log is cut into stretches: the buffer holds
  `Pieces(f, b, c)` and the line the rest from `c` on (`Reached`), and the file
  the pieces from 1 to `b`, or fewer than that (`Held`): some were dropped, since
  they came together with the header, or were not written, or there is no file.
  `Tally` says that `total_recv` counts what the file holds. Hence the count reaches
  `LogSize[f]` only if the file has all pieces in their order: once one is missing,
  too few are left to make it up (`NotYetWhole`). The lemmas `PiecesSplit` (a
  `ReadFile`), `PiecesJoin` (a `WriteFile`), `ShortLog` and `PiecesOnly` carry this.
* `PortsFit` and `ReadersFit`: only the object of `pcio` is open, and only its
  read thread does anything. A forgotten read thread could otherwise write into
  the next log. None of it speaks of `main_cs`, for the threads go on when that is
  deleted: two of them can then be inside. One stop thread at most can be between
  closing the port and `pcio = NULL`, since the port is closed once.
* `ParsesWhole`: who is parsed is complete, so no later step touches that file.

The proof is split by who moves. `Moves` is what a step of the read thread, the
watch or a stop thread may do to a phase, and `LineMoves` shows it for each of
them; `MovesKeepPosition` concludes for `Position`. The steps of `doSync` have a
lemma each (`CreateStep`, `CheckStep`, `AskStep`, ..., `ResetStep`), and so has the
end of the process (`ExitStep`); `DeleteMainCs` changes nothing that a phase speaks
of. All of them
also give `StoreStep`: one number changes at a time, and never a complete one,
which is what `LogStore` needs.

### Firmware update: GWatchUpdateProofs

| Theorem | States |
|---|---|
| `UpdateTypes` | `UpdateSpec => []UpdateTypeOK`, for any number of updates side by side |
| `UpdatePortReleased` | `UpdateSpec => []PortIsReleased` |
| `UpdateSuccess` | `UpdateSpec => []SuccessIsInstalled` |
| `UpdateWholeImages` | `UpdateSpec => []InstallsWholeImages` |

They hold for all sizes of images, packets and flash, all numbers of tries and
all numbers of faults. The last three are about one update thread, since two share
`Image_data` and the port ("Known disagreements").

* `UpdateTypes`: `pos` is bounded only because `pos + size` is the size of the
  image while packets are sent (`OwnFits`), and because a thread changes only what
  is its own (`OthersKeep`).
* `UpdateSuccess`: `Transfer` is stop-and-wait. Whenever the thread awaits an ACK,
  `Exchange` says: the packet is on its way or lost, the watch has what it had
  before, and no ACK is under way; or the watch has taken it, and at most one ACK
  for it is. So an ACK that is read is never an old one, `announced` and the first
  bytes in `got` are those of the file (`Received`), and after the last ACK the
  image is installed (`Installed`). `Dialogue` says the same for the menu of the
  boot loader, where a character that is left over would be taken for an answer;
  `Loaded` ties `Image_data` to the file, and `Unconnected` says that on an invalid
  handle nothing is heard.
* `UpdateWholeImages`: a thread that gives up closes the port while its last
  message may still be on the line, and the next one loads another file. `Residue`
  says that there is one such message at most, and that once an EOT is under way
  the watch holds one whole image, of whichever file.

### The parse and the tags: FormatProofs

| Theorem | States |
|---|---|
| `RowsAlwaysRecords` | `ParseSpec => []RowsAreRecords` |
| `LogAlwaysArrives` | `ReadSpec => []LogArrives` |

The first holds for heads and records of any size with any bytes in them, for logs
of any length, files that end anywhere and rows that cannot be written, under `FormatAssumption`: records and
head fit the buffer, and `Sizes[HEARTBEAT] <= Sizes[GPS]`, without which a whole GPS
record would be given up as cut. The second holds for any tokens, logs of any
length, and reads of any length, under `AnswerAssumption`: the watch prints its
sizes in digits, and nothing it said before is taken for an answer to an FREAD.

* `ParseInv`: `LogFits` says that records lie one behind the other and that `bytes`
  has them where they are said to be; `ParseFits` says that `next` is the place of
  a record or behind the end of the file, that each record before `next` has its
  row if it should, and each row its record. `RecordRead` is the step: at the
  place of a record a pass of the loop gives its row, or none, and ends at the
  place of the next record, or behind the file. `RecordsApart` is what makes that
  place unique. A record that is cut is the last one, since then `next > end`.
* `ReadInv`: until the header is read `flag` is 0; afterwards `file_size` is the
  length of the log, `total_recv` what was read of it and `file` its first part
  (`ReadFits`). `HeaderIs` and `HeaderIsAnswer` show that a header in a read of its
  own is an FREAD and its number the one that was sent, by `StrstrFinds` and `TagsAre`;
  `AnswersLookLikeIt` that a read which `proc` takes for an answer holds a tag and a
  comma before any NUL, which `spoilt` excludes. What a numeral means is a recursive
  function of its digits; the proof never computes it, since `Answer` sends a size
  that reads as the length of the log.

### The other proof modules

| Module | Theorem | States |
|---|---|---|
| `ComPortProofs` | `ComTypes` | `[]ComTypeOK` |
| | `NobodyLost` | `[]NobodyIsLost` |
| | `OwnObjectRead` | `[]ReadsOwnObject` |
| | `ComPortIsPortUse` | `ComSpec => RefinesPortUse` |
| `PortSearchProofs` | `SearchTypes`, `PortsAreFree`, `FirstWatchOffered` | `[]SearchTypeOK`, `[]LeavesPortsFree`, `[]OffersFirstWatch` |
| `ZlbClientProofs` | `CursorStaysInside`, `NamesFound` | `[]CursorInside`, `[]NamesFindValues` |
| `AutoUpdateProofs` | `AutoTypes`, `InstallsWhatWasAsked`, `SecondQuestion` | `[]AutoTypeOK`, `[]RunsWhatWasAsked`, `[]SecondQuestionStays` |
| `UpdateToolProofs` | `OneImageSent` | `[]SendsOneImage` |

They hold for all values of the constants that the modules' assumptions admit, and
assume nothing about timing.

* `ComInv` has the types and `PointerFits` for good, and until `cs` is `misused` who
  has what (`Orderly`): one user at a time has an object (`OneUser`), since a `New`
  beside another object misuses `cs`; `hCom` of its block fits where that user is
  (`HandleFits`), and no other block is open (`OpenIsOwned`). A read thread that no
  destructor has overtaken belongs to the object of that user; once the handle is
  closed it can only be on its way out, and it is gone when the destructor leaves
  `cs` (`ReaderFits`). One that was overtaken may look at any block, but reads from
  an open one only (`ReadingOpen`): if `cs` lives again by then, it is the section of
  the object that has this block. Who is between Enter and Leave owns `cs`, and `cs`
  is deleted only while nobody has an object (`SectionFits`). The refinement maps
  `InitComIO` to `Open`, `EnterIo` and `CheckHandle` to `Begin`, `EndIo` and
  `ReadOn` to `End`, `DeinitComIO` to `Close` and every other step to a stutter;
  that `using` has no second member at a `Begin` is what `SectionFits` gives.
* `SearchInv` adds which port `checkComm` holds (`HoldsOnePort`), what the ports
  below `i` have told (`FirstSoFar`), and what the dialogs took from it
  (`SearchedBefore`, `OfferFits`).
* `ZlbClientProofs` needs for the cursor that the rows of all queries together stay
  below `Word - 1`, so that the largest number is never a position, and that
  `MoveNext` is not called at the end; a jump brings the cursor in or, in an empty
  set, to the largest number, wherever it was. For the
  names, `NamesFit` says that the fields begin with those of the first query, so
  that a search from the front ends there, and that every row has a value for
  each column of its query. Its
  assumption that a query asks for a column at all is what SQL says too.
* `AutoUpdateProofs`: `AskFits` ties question, timer and shutdown to the position
  of `_tmain`: the timer is killed before the second question is put. `AutoInv`
  says that the two record sets hold the rows that their queries found
  (`SetsFit`), and that a copy comes from the path that these rows name
  (`ImageFits`). Others write to the table all the time, so nothing is said of
  what it holds now. A request is a pair of a machine and a build.
* `UpdateToolProofs` needs that a disabled button means one of three things (a
  dialog, a set event or a running thread) and never two of them.

### Only model-checked

Every safety property of the runs is proved, both refinements included, but for
`TransferArrives` and `DamageIsSeen`: those speak of functions that are recursive
over their data (packets, decimal digits, CRC, and a receiver that reads them
back), and induction over data is out of the prover's reach. So is liveness:
`StopCompletes`, `SyncEnds`, `SyncCompletes`, `DownloadedIsParsed`, `UpdateEnds`,
`TransferCompletes`, `DeleteEnds`, `MainComesUp`, `SilenceIsYes` and
`ButtonComesBack`. `OpensChosenPort` and `ReaderEnds`
are the expected violations.

The theorems say nothing of what `sync_single` and `update_single` leave to their
hypotheses: two downloads or two updates at once, a restart, and sleeps that are
too short. Those about `ComPort` say nothing of the time after `cs` was misused.

## 7. Not modelled

* Wording and layout of messages, the progress bars, memo and log files, debug
  output, resources.
* The variant of the receiver and of the request under
  `__COSMOS_MIN_DOWNLOAD_PROC__`, and the SQL under `__DIRECTLY_SQL__`; both are
  switched off in `EnvSettings.h`.
* File names longer than the first YMODEM packet, and the name of exactly 256
  bytes that `Unit1.cxx:218` accepts and does not terminate.
* The two summary lines that `doParseFile` writes first (`Storage.h`, which lays
  out their fields, is not in the repository).
* In `zlb_mysql`: `IsNum` to `IsBlob`, which only look at the type of a column
  (`IsBlob` at a bit that the flags have, so that every string is a blob),
  `IsNull`, which compares two addresses and is never true, the text of a row, and
  the calls that only pass a question on to the library.
* The headers of the MySQL client library (`sql_api/my*.h`, `m_*.h`, and others
  there): 9300 of the 12500 lines of C in the tree are vendored declarations, with
  no behaviour of this program. What is modelled is to be measured against the
  remaining 3200 lines, of which about 1000 are headers of resources, comments and
  precompiled-header boilerplate.

## 8. Plan

Done: all modules of section 2, the runs of section 3 and the theorems of section 6.
Left, most important first:

1. What a restart leaves intact of the folder, beyond `StoredForGood`: a number that was
   absent when the process started should obey `LogStore` as before. That takes a
   history variable for the folder at the start of the process.
2. The two summary lines of `doParseFile`, once `Storage.h` is at hand.
3. Lemmas about `YmodemCodec` that need no induction: sizes of packets, padding.
