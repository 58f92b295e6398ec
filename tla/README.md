# Verification of buildroot.rk3399.external

TLA+ models of the programs and boot scripts that this repository adds to a Buildroot
system for RK3399 boards, with TLC configurations that check them on small instances and
TLAPS proofs of the properties that matter most. Every definition is a translation of the
code it is mapped to in `PROJECT.json`; when the code and a comment disagree, the model
follows the code.

Run, in this directory, `tlc -config InfoLed.cfg MCInfoLed.tla` to check a configuration
and `tlapm InfoLedProofs.tla` to check proofs.

## 1. The system

The repository is an external tree for Buildroot: most of its directories are recipes
(`*.mk`, `Config.in`) for software kept elsewhere. What it carries itself are the programs
and scripts below, all under `src/package/rockchip`. They run on one board and meet in few
places: files, device nodes, partitions, the D-Bus system bus and kernel events.

| part | state it keeps | operations | talks to |
|---|---|---|---|
| **LED service** `led_control_app` | the posted and the shown LED state, two expiry timers, a volume not yet saved | `led_open` by any client thread; `mainloop`; `led_system_start_t` every 100 ms | a condition variable, `/data/cfg/device_info.txt` and its copy |
| **suspend notification** `pm-suspend-api` | a bus name and a registration file per application, calls in a queue | `register_suspend_listener`, `listen_dbus`, the hook for suspend and resume | D-Bus daemon, `dbus-send`, pm-utils |
| **firmware update** `update` | recovery and misc partitions, position in the copy and compare loops | `update ota PATH`, `update ota`, `update factory` | bootloader and recovery through misc |
| **video mode** `modeset` | which connector drives a CRTC, `enabled_`, `vsync_cnt`, a lock and a condition, the shared encoder pointer | hotplug handling in one thread, the boot animation in another, `main` | kernel uevents, DRM device |
| **boot animation frames** `modeset` | a ring of buffer objects | `bootAnimation` | DRM device |
| **partition init** `partinit` | file systems, labels, an archive in `/tmp` | `resizeall`, `checkall`, `mountall` at boot | udev, e2fsprogs, dosfstools, ntfs-3g |
| **JPEG decoder** `rkjpeg` | flags of a resumable parser, stream position, decoded components; DRM buffers, VPU registers | `oneframe`: image info, then decode until a frame or an error; init, release; allocator | VPU through a kernel service |
| **WiFi provisioning** `rtw_simple_config` | channel and mode of the interface, the profile and status of libsc, the wpa_supplicant configuration, a pending control command | `main` and its receiving thread; signals; control requests | libsc (a binary), wireless driver, wpa_supplicant, remote phone |
| vendor storage `vendor_storage` | items of a flash area | `-r`, `-w` | kernel ioctl |
| USB gadget `usbdevice`, `adbd` | configfs gadget, its UDC, servers | start and stop scripts, udev helper | kernel |
| hotplugged media `mdev_mount` | mount points | `insert`, `remove` | mdev |
| test, camera, WiFi and Bluetooth scripts; `io`; `jpegdemo`; recipes | little or none | run by hand or once | |

The parts interact as follows. At boot `S21mountall.sh` resizes, checks and mounts the
partitions, among them `/userdata`, where `update ota` looks for `update.img`; recovery
itself boots from a ramfs and takes the short path of the same script. `modeset` starts the
boot animation and follows hotplug events for as long as the system is up. Applications
link `pm-suspend-api` and are called by the pm-utils hook at every suspend. The LED service
is a library with its own threads, called by the applications that know about boot
progress, volume and WiFi. `S50usbdevice` may export the userdata partition to a USB host
that `S21mountall.sh` has mounted.

### What is hard, part by part

* **LED service.** The waiter holds `m_mtx`, the notifiers hold `led_mutex`: nothing orders
  a notification and the evaluation of the wait predicate, so notifications are lost. Two
  expiry timers overwrite the same posted state. Correct: the timers never run together, a
  posted scroll has LEDs, a volume that was shown gets saved, a request the predicate
  cannot see repeats the mode on the LEDs (its volume or count may be a new one, which is then
  not shown), a WiFi error ends although a notification was lost.
* **Suspend notification.** `dbus-send` gives up on a slow callback, whose call is then
  handled after the resume; processes die with their registration left behind; two
  processes compete for a name. Correct: one listener per name, nobody who answered runs
  while the system sleeps, every suspend ends, nobody stays suspended.
* **Firmware update.** Writes go through the page cache without an fsync, stdio drops the
  result of the last chunk, power can fail between any two writes, offsets are DWORDs, an
  error return of `bootCommand` falls through to another image. Correct: misc is written
  only for a verified recovery, the reboot finds it on the medium, a failed run leaves misc
  alone.
* **Video mode.** A mutex initialised when it may be held, a pointer that another thread
  frees, a counter updated outside its lock, page flip events that nobody reads. Correct:
  no lost wakeup, the animation runs and pauses as told, the screen follows the monitors.
* **Boot animation frames.** Any of five calls can fail for each picture, with the ring in a
  different state each time. Correct: no buffer is lost or destroyed twice, the shown one
  is not destroyed while a newer one can still replace it.
* **WiFi provisioning.** Two threads and a timer share the library's status without a lock;
  main restarts the library after a test of the status; a button may bring main back to its
  beginning; the configuration is written in one step, removed in the background and read in
  a third. Correct: one receiver, the network joined is that of the completed profile, a
  completed profile is not forgotten.
* **JPEG decoder.** `JpegDecDecode` is one function of a thousand lines that reads markers,
  starts the hardware, waits for it and may return in between for a slice or an empty
  buffer. What the next call must know is spread over a dozen flags of the instance; no
  return clears all of them, and the next picture meets what the last one left. After the scan
  of one component the parser goes on at an address read from a register, which is no address
  of the process. Correct: a frame that is announced was decoded, a good baseline picture comes
  out in however many slices and calls, the parser of one comes to an end, a picture that came
  out leaves no scan header or unfinished scan behind.
* **JPEG headers and tables.** The same headers are read twice by different code, once to tell
  the caller the size of its buffers and once to decode; tables, restart interval, fill flags
  and slice counts stay in the instance from one picture to the next. Correct: both readings
  agree, what was announced is not refused later, and the registers and the table memory of a
  scan hold what this picture's headers say.
* **JPEG buffers.** A buffer is a handle, a descriptor and a mapping, all of them small numbers
  that the kernel gives out again; any allocation may fail half way, few results are looked at,
  and the structures are copied by value. Correct, as far as the code goes: the hardware is
  given only buffers that are the decoder's own, and nothing of them is left after the release.
  That the caller's descriptors stay open is what one would ask for too; the code closes some
  (section 8).
* **Partition init.** The files of a partition are for a while only in a tmpfs; no step
  looks at the result of the one before; the power can go at any of them; udev may be late.
  Correct: what is stated in section 3 under MountAll.

## 2. Modules

| module | part | model checking | proofs |
|---|---|---|---|
| `InfoLed` | LED service | `MCInfoLed` | `InfoLedProofs` |
| `SuspendApi` | suspend notification | `MCSuspendApi` | `SuspendApiProofs` |
| `SuspendProtocol` | what suspend notification promises, without the bus | as a property of `MCSuspendApi` | as a theorem of `SuspendApiProofs` |
| `FwUpdate` | firmware update | `MCFwUpdate` | `FwUpdateProofs` |
| `UpdateProtocol` | what the update promises, without images and the page cache | as a property of `MCFwUpdate` | as a theorem of `FwUpdateProofs` |
| `Modeset` | hotplug and vsync threads | `MCModeset` | `ModesetProofs` |
| `BootAnimation` | frames of the boot animation | `MCBootAnimation` | `ModesetProofs` |
| `MountAll` | partition init | `MCMountAll` | `MountAllProofs` |
| `SimpleConfig` | WiFi provisioning | `MCSimpleConfig` | `SimpleConfigProofs` |
| `JpegDecode` | control of the JPEG decoder | `MCJpegDecode` | `JpegDecodeProofs` |
| `JpegSizes` | formats, sizes and slice counts of pictures, as operators | through `JpegHeaders` | through `JpegHeadersProofs` |
| `JpegHeaders` | headers, tables and registers of the JPEG decoder | `MCJpegHeaders` | `JpegHeadersProofs` |
| `JpegBuffers` | buffers, descriptors and mappings of the JPEG decoder | `MCJpegBuffers` | `JpegDecodeProofs` |

The modules share no variables: each program has its own state, and where two of them meet
(misc, a partition, a bus name) the other side is an external action of the module. The three
state machines of the JPEG decoder look at one program from three sides: what it does next,
what it tells the hardware, and what memory it works in. A
definition `X_word` is `X` with a bug of the kind its name says; the run that lists the
property in `PROJECT.json` must then find it violated.

## 3. How the models correspond to the code

**InfoLed** (`InfoLed.cpp`). A critical section of `led_mutex` is one action; the timer
thread's section contains file operations that are steps of their own, so its place is kept
in `timerPc`. `mainPc` says where `mainloop` is: starting, before the evaluation of the
predicate, before the block, blocked, or woken and waiting for `led_mutex`. `led_open` is
one action per mode and volume; the table of modes is `StateOf` and `ScrollOf`. `display` is
what the LEDs show, the mode with the volume or the scroll count that goes with it. The two
files of the volume start with any contents, since the power may have gone between the two
writes of an earlier run, and `cp` may fail. Time is the action `Second`, which ages both
timers; ages stop at the limit the code compares with. Properties:
* `TimersExclusive` - the two expiry timers never run together;
* `VolumeKept`, `VolumeSaved` - a shown volume stays due for saving, and is saved;
* `OnlyRepeatsMissed` - what the predicate of the wait cannot see repeats the mode on the LEDs,
  and an idle `mainloop` shows the last volume or count posted;
* `WifiErrorEnds` - the display of a WiFi error is taken down;
* proved and in no run, `ScrollHasLeds`; and, as a run that ends in a counterexample,
  `VolumeBarCloses`, which a comment of the code promises.

**SuspendApi** (`dbus_suspend_api.c`, `00rockchip-suspend`). Each process has one listener
thread with a place (`pc`), what its callbacks last completed (`mode`) and its queue of
calls (`inbox`). The hook is a loop over the registration files with a call in flight
(`callee`). The bus daemon's part - ownership with a queue, an error for a name without an
owner - is in `RequestName`, `Die` and `DbusSend`. `SuspendProtocol` says what all this is
for: rounds, clients waited for, clients that have answered. `Protocol` maps it to the
processes: a round waits for the processes that listen under a name still to be called, the
ready ones are those in `answered`, the suspended ones those whose `mode` says so, and a call
was missed when `failed` is not empty. `KeepsProtocol` is the refinement: the system sleeps
only on processes that answered and are suspended, were given up with an error, or are gone.
Other properties: `OneListener`, `SuspendEnds`, `EverybodyResumes`; proved and in no run,
`AnsweredIsSuspended` and `AsleepMeansAsked`, which the refinement contains.

**FwUpdate** (`update.c`, `update_recv.c`). An image is what the code reads of it: the tag,
the offset of the firmware, and the items with offset and size. A byte of the recovery
partition is the position in the image it came from, so "verified" means that every byte of
the item is there, in order and from the right place. The write loop and the compare loop
handle one chunk per action. Two copies of recovery and misc are kept, the page cache and
the medium; `PowerFail` keeps an arbitrary part of what was not synced. Properties:
`ArmedIsVerified`, `RebootedIsDurable`, `UpdateEnds`; proved and in no run,
`BadTagUntouched` and `FailedNotArmed`. `UpdateProtocol` says what all this is for, in terms
of which commands the run was asked for, which one the bootloader finds and whether the
recovery on the medium is the image's; `FwUpdate` implements it (`KeepsUpdateProtocol`).
It is as weak as the code: nothing makes recovery durable before misc is written, so a power
cut in a session that flashed may leave a command beside any mixture of old and new recovery,
and a run without a path, after one that failed, reboots with what that one had written.

**Modeset** (`modeset.cpp`, `bootanimation.cpp`, `drm_common.cpp`). Each thread has a place.
`vsync_control` is three actions (lock, set, unlock) that main and the uevent thread share.
`CountMonitors`, `CommitOff`, `SetMode`, `FreeEncoder` and `FindEncoder` are the steps of
`updateModes` between which the kernel's state can change. The encoder pointer is null,
valid or freed; to follow a freed one is a choice between going on and dying. The routine of
the vsync thread tests `enabled_` without the lock, decides to wait, blocks, and tests again
when it has the lock back, in four actions (`VsyncTest`, `VsyncWait`, `VsyncWake`,
`VsyncLook`). `torn` remembers that main initialised the mutex while the other thread held it;
after that nothing is promised of the waiter. Properties:
`WaiterIsWoken`, `AnimationRuns`, `AnimationPauses`, `ScreenFollows`.

**BootAnimation** (`bootanimation.cpp`). One picture takes the actions Evict, Create, AddFB,
Shift and Display, each with its failure. Properties: `BuffersHeldOnce`,
`KeptWhileReplaced`.

**MountAll** (`S21mountall.sh`). The script's place is `pc` and the line of fstab; a
partition has a file system (none, small or full), a label, its files and a dirty flag.
Each command of `resize_e2fs` that changes a disk or the tmpfs is an action, with its
failure where the script goes on regardless. `hurt` remembers the partitions whose
replacement was disturbed. Properties:
* `FilesKept` - only those can have lost files;
* `LabelledIsFull` - a label is never found on a small file system;
* `FullStaysFull` - nothing full is formatted, whatever became of the label;
* `RepairedBeforeMount` - the claim of the comment in `checkall`, that `resize_fat` and
  `resize_ntfs` have done what `fsck` cannot;
* `FatTried` - the comment "Try fatresize", refuted: `A || echo && return` always returns.

**SimpleConfig** (`rtw_simple_config/src/main.c`). `pc` is main's place; `rcv` that of the
thread; libsc is its status, the profile it holds and its timer. `Restart` is
`rtk_restart_simple_config`, which main calls before the loop and at the end of each turn,
and the library itself when a profile does not add up. A captured frame waits in `pkts`,
where it may outlive the channel it was captured on. A turn of `control_handler` reads any
datagram of the phone, or none, from each socket, which stands for lost, repeated and
reordered requests. Properties: `OneReceiver`, `JoinsTheProfile`, `DoneEnds`; proved and in no
run, `ManagedWhenConnected`.

**JpegDecode** (`jpegdecapi.c`, `jpegdecinternal.c`, `jpegdecscan.c`, under the loop of
`pv_rkJpegdecoder_oneframe`). A picture is a sequence of tokens, one per segment, and
`stream.pCurrPos` is the number of the next one. The flags of the instance keep their names.
`pc` is the place in the call: image info, entry, the marker loop (`marker`), the one of
`JpegDecNextScanHdrs` (`next`), before and in the hardware, and the end of the call. Both
marker loops read tokens by the same actions. `components` and `pfNeeded` are sets of
component numbers. Four variables serve the properties: `fresh`, nothing of an earlier
picture was set when this one was submitted, neither a flag nor a component, a slice height
or a component wanted (the first picture of a decoder, and any after pictures that left
nothing); `job` and `done`, the scans the hardware was
started for and finished; `hwOk`, it reported neither an error nor an empty buffer.
`color_conv` puts the post-processor in the pipeline and so excludes slices. Properties:
* `HonestFrame` - FRAME_READY is announced only for what the hardware decoded;
* `GoodPicture` - a baseline picture in one scan without faults comes out, in however many
  slices and calls;
* `FrameLeavesClean`, `LeftoverHeader` - what may be left for the next picture, and by which
  results;
* `NoEmptyScan` - the hardware is not asked for a scan whose buffer is never allocated;
* `DecodeReturns` - the marker loops end, for a stream that ends with EOI and has no scans of
  single components.

The first two, `FrameLeavesClean`, `NoEmptyScan` and `DecodeReturns` speak of a picture
submitted to a decoder that owes nothing to the one before (`fresh`); section 8 says what
happens otherwise.

After the scan of one component `JpegDecDecode` casts the contents of HWIF_RLC_VLC_BASE to a
pointer and reads the stream from there (jpegdecapi.c:2372-2391). Nothing makes that an address
of the process: the code wrote a descriptor and an offset into the register
(jpegdecinternal.c:1003, the descriptor from pv_jpegdec_api.cpp:273), and the hardware counts
it up from its own address of the stream. `ScanDone` is therefore a free choice: the parser goes
on anywhere in the stream or at its end, and the search for the next marker finds more scans or
none. `ScanLost` is the rest: nothing is mapped there, or memory that is not the stream; the
process is not followed any further. So no property says that a picture in several scans
comes out, and those that speak of such pictures (`HonestFrame`, `FrameLeavesClean`,
`LeftoverHeader`, `NoEmptyScan`) hold wherever in the stream the parser goes on.
Assumed of the streams: a frame header comes before the scans it is for, as in every picture
`JpegDecGetImageInfo` lets pass with its dimensions set.

**JpegSizes and JpegHeaders** (`jpegdecapi.c`, `jpegdechdrs.c`, `jpegdecscan.c`,
`jpegdecinternal.c`, the sizing in `pv_jpegdec_api.cpp`). `JpegSizes` has the two computations
of a picture's size and format side by side: `Info...` as `JpegDecGetImageInfo` does it, `Hdr...`
as `JpegDecDecodeFrameHdr` and `JpegDecMode` do, and `Frame...` what `oneframe` makes of the
first. In `JpegHeaders` a picture is the sequence of its segments and every table a value that
names where it came from, so that "its own table" can be asked. `vlc` and `quant` are what was
read, `tabs` and `regs` the table memory and the registers, whose layout (order of the tables,
swap of the two AC tables, tables padded or cut) is that of `JpegDecWriteTables`. `left`
remembers what an earlier picture left. Properties:
* `HeadersAgree` - the post-processor, the slices and the memory the caller set up from the
  first reading fit what the second one finds;
* `AcceptedIsDecodable` - nothing announced is refused later, but for big pictures scan by scan;
* `BlocksCounted` - the registers count exactly the blocks that are coded;
* `SlicesAddUp` - no slice is empty or goes beyond the picture;
* `OwnParameters` - tables, selectors and restart interval are those the stream defined last
  under the identifiers its headers name.

The scans of a picture come in the order of its stream. Of a picture scan by scan these are the
runs in which the parser goes on right behind each scan, a part of the choice that `ScanDone`
has in `JpegDecode`; what the registers of such a scan hold is asked only of them.

What an earlier picture leaves makes some properties fail; each property says in its text which
leftover it sets aside, and section 8 what it does.

**JpegBuffers** (`pv_jpegdec_api.cpp`, `allocator_drm.c`, `vpu.c`, `JpegDecInit` and
`JpegDecRelease`). The kernel is three tables - descriptors, handles, addresses - whose lowest
free number is given out next. A buffer is the structure `MppBufferInfo` with the object it was
allocated for (`of`), which only the properties read: a number that outlived its buffer is then
recognised when it means something else. Every operation of the allocator returns the tables
and the structure as the code leaves them, also when it fails half way. `faults` collects what
the code lets happen: a half allocation, a release of numbers that are no longer the buffer's,
an instance whose descriptor is lost. `FirstScan` and `NextScan` are `JpegDecDecodeScan`, which
allocates the tables and copies `pictureMem`; `GoOn` is the hardware started without it, as a
call does that finds a scan header read before (`scanRead`, the code's `headerReady`) - its own,
of a slice, or one an earlier picture left. Properties:
* `OwnBuffersOnly` - when the hardware runs, its descriptors are those of the decoder's three
  buffers, or of the memory the caller lent, and the processor has the same mapping; not so
  after a half allocation or a release of numbers that were no longer the buffer's;
* `NothingLeft` - after the release no descriptor, handle or mapping of the decoder is left,
  also when releases hit numbers that had come to mean something else; not so after a half
  allocation, or when the descriptor of the device was lost.

That the caller keeps its descriptors is no property: releases of the second kind close them.

The model is of the `DRM_LINUX` branch of the sources. The other one needs `VPUMallocLinear`
and headers that are not in this tree, and no file here defines the macro either: it comes
from the build. `color_conv` is 1 from the constructor on, so the hardware writes the result
through the post-processor to the address of `pictureMem`, and the copy `outLumaBuffer` matters
only when it is released.

Assumed of libsc, whose source is not here and whose symbols and status values the code
uses: it completes a profile only from frames of the sender it fixed on, and only the
receiving thread, the timer and main call it.

Assumed of the tools: `resize2fs` has nothing to do for a file system that fills its
partition, `umount` of the temporary directory works, the flashed images do not carry the
partition's name as their label, and a power cut during an online resize leaves the old or
the new size.

## 4. Runs and bounds

| run | bounds | shows |
|---|---|---|
| `infoled` | 7 modes, one of every kind, 2 volumes, 3 calls | invariants and liveness of the LED service |
| `infoled_volume_bar` | the same modes, 2 calls | the volume bar may stay for ever |
| `suspend` | 3 processes, 2 names, 2 suspends | invariants and liveness of the suspend hook |
| `update` | 8 images, chunks of 2, `Word` 16, 2 runs | invariants and liveness of the update tool |
| `modeset` | 2 HDMI and 1 other connector, 2 hotplugs, 2 events | both threads of modeset |
| `bootanimation_ring` | 6 buffers, 4 slots, 3 pictures | the ring of buffers |
| `mountall` | 3 partitions, 3 boots, 1 file | the boot script |
| `mountall_fatresize` | the same | fatresize is never run |
| `wifi` | 2 access points, 2 channels, 1 press, 1 waiting frame, 2 scans | the provisioning program and its receiver |
| `jpeg_decode` | 18 pictures of up to 13 tokens, 2 pictures, with and without `color_conv` | invariants and liveness of the decoder's control |
| `jpeg_headers` | 74 pictures, 2 in a behaviour, with and without `color_conv`, 2 table values | sizes, tables and registers of two pictures in a row |
| `jpeg_buffers` | 5 buffers at a time, numbers up to 11, 3 pictures, 2 failures, 2 files of the caller | who owns the numbers the decoder keeps |

Why the bounds are enough. Three calls of `led_open` are one to start a display, one to
interrupt it and one to come back while a timer runs; the modes of a run are one of every
kind that `StateOf` and `ScrollOf` tell apart, boot progress with two counts (the proofs are for
all 15). Two suspends are one that leaves a late answer and one that meets it; three
processes on two names give both an uncontended and a contended name. The images of the
update have every position of the recovery item that the loops treat differently, with
chunks shorter and longer than the rest; a second run meets what a failed first one left.
Two hotplugs take a monitor away and bring another; the queue of events is full after two.
Six buffers for four slots let two be forgotten or in the making while the slots are full.
Three boots are one that is interrupted, one that goes on and one that finds it finished;
one file stands for the files of a partition, which are treated alike. One access point of
the WiFi run can be listened to and one cannot; one press of the button is enough to start
over at any place; one waiting frame can be from an earlier channel. A first picture leaves
every combination of flags it can and a second one meets them; the pictures have one scan,
two or three, slices, repeated and mixed scans, refused segments of each kind and ends at
each kind of token. Slices and empty buffers of one picture are not counted. The pictures of
`jpeg_headers` have every format the decoder takes, sizes on both sides of each limit the code
compares with (16 pixels, half macroblocks, the pixel limit, the largest slice), tables shared,
swapped, replaced between scans and missing, in one scan and scan by scan; the first picture of
a behaviour leaves every kind of leftover and the second meets it. Of `jpeg_buffers`, two
failures are one that leaves a half buffer and one that meets it, two files of the caller one
to lend and one to be hit, three pictures a small one, one that makes the stream grow and one
after it; more numbers than are ever in use make the tables never full.

`CHECK_DEADLOCK FALSE` is given where the system may really stop: clients need not call,
nobody needs to suspend, plug, update or reboot again, and a process that follows a null
pointer is gone. The bounds `MaxCalls`, `MaxSuspends`, `MaxRuns`, `MaxPlugs` and
`MaxCycles` are guards of the environment's actions; the theorems hold for all values of
them.

## 5. Fairness

* InfoLed: both threads are scheduled and time passes (weak); `mainloop` gets `led_mutex`
  in the end (strong), because the timer thread sleeps 100 ms outside it on every pass.
  Clients, and spurious wakeups, owe nothing.
* SuspendApi: a live listener goes on and its callback returns; `dbus-send` ends by an
  answer, an error or its timeout; the system is woken up. No process has to start or die.
* FwUpdate: a running tool goes on. Nobody has to start one; the power need not fail.
* Modeset: each thread that can run does; the mutex is handed to a thread that keeps asking
  (strong on the four lock actions), since no thread holds it across a wait other than
  `pthread_cond_wait`. Hotplugs and spurious wakeups owe nothing.
* SimpleConfig: both threads are scheduled, the background `rm` runs and the timer, which
  only counts seconds, fires. The phone, the button and the driver owe nothing.
* JpegDecode: the code runs on (weak); the hardware ends every scan, by success or by its
  own timeout, however many slices it hands out and however often it asks for the buffer
  again (strong): a picture has finitely many. `DecodeReturns` excuses a hardware that runs
  dry, since the client then gives it the same buffer again, and leaves out the streams that
  may bring the parser to the end of the data, where the marker loop does not end.
* BootAnimation and MountAll have no liveness property: both are loops over a fixed list.
  JpegHeaders and JpegBuffers have none: that a decoding ends is asked of JpegDecode.

## 6. Proofs

All theorems are about `Spec`, hence about `FairSpec` too, and use the named assumptions of
the module on its constants, which TLC evaluates in every run.

* **InfoLedProofs**: type correctness and the four safety properties. `OldIsShown` says that
  `m_oldState` is the mode the LEDs show once `mainloop` has handled it, `LastIsShown` that an
  idle `mainloop` shows the value posted last.
* **SuspendApiProofs**: type correctness, `OneListener`, `AnsweredIsSuspended`,
  `AsleepMeansAsked`, and the refinement `KeepsProtocol`: the initial state maps to one of
  the protocol and every step to a step or a stutter. `RoundInv` is what the mapping needs
  beyond the invariants: dbus-send waits on the owner of the name it called, and the hook's
  status is 1 only after a call of this round failed. `BusInv` ties a listener to the
  ownership of its name; `CallInv` says that the call in flight is the last thing its callee
  will handle; two more parts say where an answered, and a not yet called, process can be.
* **FwUpdateProofs**: type correctness and the four safety properties, for images, chunks
  and partitions of any size. `CheckInv` is the loop invariant of the compare loop: the
  bytes compared so far are those of the item, in order. `TagInv` and `MiscInv` say what
  the offset and misc can be at each place. And the refinement of `UpdateProtocol`, step by
  step, with `AskedInv`: the command in `package` is one this run was asked for wherever it
  can still reach misc, and only a run with a path gets to the loops. That a reboot after
  flashing finds the image's recovery is `ArmedIsVerified` and the sync.
* **ModesetProofs**: for `Modeset`, type correctness and `WaiterIsWoken`, for any number of
  connectors, hotplugs and events. The invariant (`ThreadInvariance`) says which thread holds
  the mutex at each place of the other one, as long as it was not torn, and that a set
  `enabled_` reaches a blocked waiter before the mutex is free again. For `BootAnimation`, type
  correctness, `BuffersHeldOnce` and `KeptWhileReplaced`, for any number of slots and pictures.
  `ShownIsKept`: the shown picture is in the slot that its age says.
* **MountAllProofs**: type correctness and the four safety properties, for every fstab and
  any number of boots. `KeptInv` adds where the archive is complete; `FullInv` from which
  step on the partition is full; `SmallInv` that only a small file system gets to
  `mkfs.ext2`; `RepairInv` that the lines behind the script are settled.
* **SimpleConfigProofs**: type correctness and the three safety properties, for any access
  points, plan and number of presses. `RecvInv`: main is back at `pthread_create` only with
  `g_reinit` set. `JoinInv`: from DONE on, no frame is in the library, so nobody changes the
  profile between the scan, the configuration and wpa_supplicant.
* **JpegDecodeProofs**, the control: type correctness and the five safety properties, for any
  sequence of pictures that satisfy `JpegDecodeAssumption`. `HeaderInv`:
  `JpegDecNextScanHdrs` has no header and the marker loop with one reads only the first
  token. `FrameInv`: `components` counts finished scans, and the hardware is started without
  a header only for a component it has finished. `AllComponents`: three components come from
  three scans. `LeaveInv` (`FrameLeavesClean`): `imageReady` is set only between the last
  scan and the return, and a scan is started with neither an empty buffer nor an earlier scan
  to be taken up. `EmptyInv` (`NoEmptyScan`): components are wanted only for an interleaved
  scan, and without scans of single components none but the last can be there. `GoodInv`
  (`GoodPicture`): of a picture with one scan, the marker loop stays in front of it and the
  operation type is baseline. That the image information stops at the scan is `GoodInfo`.
* **JpegDecodeProofs**, the memory: type correctness of `JpegBuffers`, `OwnBuffersOnly` and
  `NothingLeft`, for any numbers of buffers, descriptors, pictures, failures and files of the
  caller. `OwnershipInv` is the inductive invariant. `Own`: every descriptor, handle and
  address that stands for an object of the device is the number of exactly one of the three
  buffers, which has all three of them or none. `InUse`: which of the buffers has an object at
  which stage of the call and of the release, and that the allocator and the instance it needs
  are there. `Descriptors`: what stands for no buffer - the caller's files, which are counted,
  the device of the allocator, the one of the instance - is where the code thinks it is. The
  lemmas say what the operations of the allocator do to `Own`: `TryOwn` (an attempt gives a
  buffer everything or leaves it alone), `FreeOwn` and `FreeNothing` (a release takes exactly
  what the buffer had), `OwnOther` (descriptors that are no buffers do not matter), and
  `LowestIsFree` and `RoomThere` that the kernel hands out what nobody has. This invariant stops
  at the first half allocation or stray release (`Intact`), as `OwnBuffersOnly` does.
  `NothingLeft` has to go on after stray releases, where buffers no longer have what they say,
  so it has a weaker invariant, `LeftInv`. `Cover`: every number that stands for an object of
  the device is one of a buffer that will still be released. `ToRelease`: which buffers those
  can be at each stage. `Devices`: the descriptors of the two devices are where the code thinks.
  `TryCover` and `FreeCover` are its lemmas: a release may take too much and never too little.
* **JpegHeadersProofs**: type correctness and the five properties, for any pictures that satisfy
  `JpegHeadersAssumption`, any sizes and any number of pictures. `InfoInv`: what `oneframe`
  computed is a function of the picture's announced size and format. `FrameInv`: from its frame
  header on, the instance has the size, format and fill flags of this picture, or of the scan's
  component; it needs `InfoInv` to know that the first reading accepted the picture. `RegsInv`:
  the registers of a scan are those the instance held when it was started, and `Ri` is the last
  interval read. `KindInv`: slices are cut only of pictures in one scan. `HeightInv` and
  `SlicesInv`: the slice height is set once, from the largest slice, and the rows decoded and
  the slice at work add up. `TypeInv`: the numbers stay within 16 bits. `TablesInv`: each
  identifier holds the table defined last, the selectors point at the half of the table memory
  it was written to, and the default tables replace none before a resumption. The arithmetic of
  `JpegSizes` is in lemmas of its own (rounding up, halves, largest slice).

Only model-checked: the liveness properties (`DecodeReturns`,
`DoneEnds`, `WifiErrorEnds`, `VolumeSaved`, `SuspendEnds`,
`EverybodyResumes`, `UpdateEnds`, `AnimationRuns`, `AnimationPauses`, `ScreenFollows`),
which are beyond the prover. Two theorem modules are about two models each
(`ModesetProofs`, `JpegDecodeProofs`), so the names of `BootAnimation` and `JpegBuffers` differ
from those of the module they share the proofs with (`FramesSpec`, `BuffersSpec`).

## 7. Not modelled, and why

* `pcba_cx20921_upgrade` and the destructor of InfoLed: nothing calls them.
* modeset with a mode argument, which starts no thread, and `stop_boot_thread`, which the
  endless loop in front of it keeps from running.
* Lines 59-72 of `S21mountall.sh`, behind the `return` that is always taken.
* What tools, the kernel, the bootloader and recovery do, beyond how this code uses them.
* Images of 4 GiB and more, and images with two recovery items (`SmallImages`): there the
  code's arithmetic wraps, or reads the second item from the wrong place, and nothing in
  the repository says what should happen.
* JPEG: thumbnails and user memory, which `oneframe` does not use; progressive decoding, which
  the fuse register refuses; what follows an empty scan, whose buffer is never allocated; the
  entropy-coded data, which only the hardware reads. `JpegHeaders` takes well-formed streams
  only: what a damaged one does to the control is in `JpegDecode`. Of `jpegdemo` and the
  constructor, the files written for debugging.
* The registers of the VPU that do not depend on the picture (`rkregdrv.h`, `6731enum.h` and
  `6731table.h` are tables of register fields).
* USB gadget and vendor storage: planned (section 9). Hotplugged media: two hooks of one mount
  and one umount each, which keep no state.
* LED colours and patterns, picture contents, mode numbers, log texts.
* Recipes, board files and test scripts: configuration, or one-shot commands.

## 8. Observations

Noticed while modelling; those with a run are in section 4.

* InfoLed: an OFF requested during a volume display is dropped; a request that equals the old
  state before the IDLE pass is not shown, which `OnlyRepeatsMissed` allows: the volume or
  count it brings stays off the LEDs until the next request. The two files of the volume
  differ after a power cut between their writes, or when `cp` fails. A comment says 10
  seconds where the code waits 5. The test of `mainloop` "to avoid led scrolling after system
  is ok" is never true (`ScrollHasLeds`), so a boot progress mode after SYSTEM_OK scrolls.
* update: recovery is never fsynced before misc is written, so a power cut inside
  `bootCommand` may boot a half-written recovery; a `factory` run after a failed `ota` run
  boots whatever that one left. `uiEntryOffset` is not reset between items;
  `EntryStartOffset` is computed and not used. When `bootCommand` failed, `rebootUpdate` goes
  on to another package (update.c:209), where the comment (:162) speaks of installing the given
  package.
* pm-suspend-api: the hook waits for a listener no longer than dbus-send's reply timeout and
  exits with the status of its last call, so the system can sleep under an application that
  is still in its suspend callback; the Readme (line 13) expects every application to be
  suspended before. The thread id of `pthread_create` goes through an uninitialised pointer.
* rkjpeg, control: after the scan of one component the address register of the hardware is cast
  to a pointer and followed (jpegdecapi.c:2372-2391), although it never held an address of
  the process, so a picture in several scans does not come out, however good it is, unless
  that address happens to fit. A failed wait, a refused scan header and a scan header cut by
  the end of the data leave `headerReady` set; the next picture then starts the hardware
  after its first marker, with the header of the last one. After a picture in slices
  `SliceReadyForPause` and `sliceHeight` are not cleared, so the scan of the next picture is
  continued and not started. `nonInterleavedScanReady` stays set when `JpegDecNextScanHdrs`
  fails, and the next picture is parsed from where the last one was. `components[]` is never
  cleared: if a non-interleaved picture ever is complete, a truncated one is announced as
  FRAME_READY or asks for the empty scan, whose buffer `tmpStrm` is NULL. A stream that ends
  exactly where a marker loop looks for the next marker is never left. `jpegdecmarkers.h`
  gives SOF9 the value of JPG, so an arithmetic-coded frame is passed over instead of
  refused. A slice height left by an earlier picture makes a non-interleaved scan stop for a
  slice, and the next call reads the picture from its first marker again; `fresh` excludes
  it.
* rkjpeg, headers: `fillRight` and `fillBottom` of an earlier picture are never cleared for an
  interleaved scan; `fillX` and `fillY`, set for chroma of an odd number of blocks, are not used
  by `JpegDecInitHW`. `Ri` is never cleared between pictures. Quantisation tables 2 and 3 are
  taken for table 1. A single AC table loses its last two values in a decoder that never had
  another (jpegdecinternal.c:1472). `SliceCount`, `sliceHeight` and `SliceReadyForPause` are not
  reset after a baseline picture; a left `sliceHeight` cuts later non-interleaved scans into
  slices, and each resumption loads the default tables over those of the stream
  (jpegdecapi.c:2074 and 2121, jpegdecinternal.c:415 and 1345). A big non-interleaved picture is
  announced, given slices by `oneframe`, and refused with SLICE_MODE_UNSUPPORTED. Without the
  post-processor the chroma address is the descriptor with an offset masked off; in its pipeline
  each non-interleaved scan overwrites the one before. The counters of the DQT and DHT loops
  start at 4. A bus or stream error clears `headerReady` and not `SliceReadyForPause`.
* rkjpeg, buffers: `outLumaBuffer` is a copy of `pictureMem` made at every scan, so a release
  after a decoded picture unmaps an address and closes a descriptor that were released with the
  picture, although jpegdecapi.c:363 says "if not user allocated memories". `j_end` frees
  `pictureMem` also when the call allocated none: descriptor 0 after a first picture that
  failed, and later the descriptor the caller had lent. When the first stream allocation failed,
  a big picture closes descriptor 0. The result of `alloc` is not looked at before `mmap`. After
  a failed growth `stream_size` stays and a later copy goes through NULL; a table memory without
  a mapping is not noticed before it is written. `VPUClientInit` takes descriptor 0 for a failure
  and forgets it, as it does when SET_CLIENT_TYPE fails. `jpegdemo` reads
  `mFrame.jpegmem.vir_addr` after `oneframe` has unmapped it. `streamMem.hnd` is uninitialised
  before the first allocation; 0 stands for a handle that names nothing.
* modeset: `start_boot_thread` initialises the mutex and the condition after the uevent thread
  was started; when that thread holds the mutex at that moment, two threads can hold it, and
  the vsync thread can block after the signal it waits for. Line 936 of bootanimation.cpp
  overwrites the path parsed from the configuration; the test `vsync_cnt == mfps` sits inside
  `vsync_cnt == 0`, so the animation is not replayed; `updateModes` assigns `isHdmiConnect`
  anew for each connector; a hotplug before the socket is bound is lost; the set given to
  `select` is not refilled.
* partinit: a root whose resize failed is labelled and not tried again; a power cut inside
  `mkfs.ext2` or `mkfs.fat` leaves a partition that no later boot formats; archives stay in
  `/tmp`. `S50usbdevice` exports the mounted userdata partition as mass storage.
* rtw_simple_config: pressed before the first `pthread_create`, the button leaves the program
  without a receiver, since every later pass skips the creation; a receiver that has seen
  DONE or STOP is gone when main restarts the library; `init_chplan` run again makes every
  bandwidth offset DONT_CARE; the result `SC_REINIT_WLAN` of `control_handler` is not looked
  at, so the button ends the program there; a repeated request that arrives within a second
  of its acknowledgement clears `sc_config_success`, and the command waits for another one.
  Option `-t` is described as a timeout in seconds (main.c:937), but the STOP its timer sets is
  overwritten when main restarts the library (:1307), and `find_channel` (:1266) does not look
  at the status.

## 9. Plan

In the order of importance of what is left:

1. **USB gadget** (`S50usbdevice`, the udev helper), composed with MountAll on `/userdata`.
2. **vendor_storage**: parsing of item names and the read and write paths.
