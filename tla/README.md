# TLA+ models of the BORA runtime

BORA runs a WebAssembly application on the desktop. The runtime loads the
application's module, gives it host functions, opens its windows, and draws them
through Vulkan, Direct3D or OpenGL. This directory holds TLA+ models of the
runtime's own logic, the TLC configurations that check them and TLAPS proofs about
them. Source paths below are relative to `src/src/`.

## The system

| Part | Source | State | Operations | Talks to |
|---|---|---|---|---|
| User window | `software/common/nWindow/bnUserWindow.*`, `bnWindow.*` | flags shared by three threads (`workAvailable`, `predraw`, `updateInProgress`, `frozenProcess`, `stopThread`, `pauseRender`, `messageBoxActive`, `invertAnimation`), `updateMutex`/`updateCv` | `run`, `RenderFrame`, `UserThreadLoop`, `StopThreads`, `shutdown`, `switchGraphics`, message handlers | command lists, message box, graphics device, the user's callback |
| Message box | `bnMessageBox.*` | `currentMessageBoxes`, `flickering`, countdown | `CreateBlockingMessageBox`, `DestroyMessageBox`, `run`, `RenderFrame`, `shutdown` | user window (blocks its dialog thread), audio device |
| Title bar | `bnWindowTitlebar.*` | `isHidden`, `hideOffset`, animation progress | `Update`, `UpdateHidePos`, hit tests | window |
| Win32 window | `software/win32/nWindow` | none of its own | message to `WindowEvent` | window callbacks |
| Audio device | `software/win32/nAudio`, `common/nAudio` | `activeStreams`, `pause`, device client | `Initialize`, `QueueStream`, `RemoveStream`, `UpdateFrame`, `Pause`, `Shutdown` | the window's audio thread |
| Command lists | `nCommon/CommandListContainers.h`, `nGraphics/bnGraphics.*` | `MutexableVector`, vectors of graphics objects | `push_back`, `clear`, `access`, `Submit` | worker (writes), UI thread (executes) |
| Drawing front end | `graphSimple.*`, `graphAdvanced.*` | the list it appends to | one command class per call | command lists |
| Vulkan device | `nGraphics/bnGraphicsVK.*` | `currentFrame`, `imageIndex`, fences, release queues | `BeginFrame`, `EndFrame`, `Present`, `Resize`, `Release*`, `ClearPendingReleases` | GPU |
| Direct3D 12 device | `win32/nGraphics/bnGraphicsD3D12.*` | `fenceValues`, `currentFrame`, release queues | the same | GPU |
| Direct3D 11, OpenGL | `bnGraphicsD3D11.*`, `bnGraphicsOGL.*` | immediate contexts | the same, executed at once | driver |
| WASM threads | `host/stl/thread.*` | `id_counter`, `threads`, `mutex` | `create_thread`, `join_thread` | guest threads |
| WASM atomics | `host/stl/atomic.*` | `atomic_map` | create, load, store, compare-exchange | guest threads |
| Host command lists | `host/Commands.h`, `nCommon/CommandRegistry.h` | `m_activeLists`, hooks, factories | `Initialize`, `Update`, `ExecuteCommandBuffer` | guest, graphics |
| WASI and strings | `host/stl/wasi.h`, `string.*`, `faults.h` | none | `fd_read`, `fd_write`, ... | guest memory |
| Host symbols, calls into WASM | `host/hostSymbols.*`, `host/WasmTools.h`, `host/bora` | `lastExecutionEnvironment` | registration, `CallByIndex` | every host function |
| Start-up | `mainDynamicLibrary.cpp`, `wrapper/mainWrapper.cpp` | module, instance, environment | `main` | everything |

`stb_image.h`, `dr_mp3.h`, `D3dx12.h`, `rcscle.*`, `contribs/` and `3rdparty/` are
vendored. The interfaces the graphics code implements (`GraphicsAbstractions.h`,
`ResourceHandle`, `Hashing.h`) come from a submodule that is not part of the
repository's tree. The repository has no tests.

What is hard, and what makes each part correct:

* **User window.** Three threads share plain `bool`s; one mutex protects two of them,
  and only on one side. A frame must go from the worker to the UI thread whole and
  once; the device must not be released under a running thread; the window must not
  stop asking for frames or hang while it closes.
* **Message box.** A map is filled on the dialog thread and emptied on the UI thread
  with no lock; a box must not be destroyed before it exists nor while it runs.
* **Audio device.** One thread mixes from a vector that others change; a stream must
  be played to its end, once, and never after its removal.
* **Command lists.** The commands and the objects they name are released by different
  threads; a command must not outlive what it points to.
* **Vulkan and Direct3D 12.** The CPU must not reuse what the GPU still reads; a
  resource handed to `Release*` must be freed exactly once; a swap chain reported out
  of date must be made anew.
* **WASM threads and atomics.** Ids are unique, a thread is joined by one caller and
  has ended when that caller returns; the table of atomics behaves as atomics.
* **Host command lists, WASI.** A walk over bytes stays inside them; byte counts
  returned to the guest are the bytes delivered.
* **Start-up.** Every exit releases what has been acquired and nothing else.

## Plan

Modules in the order they are written; the first six entries are done.

1. `UserWindow`, `UserWindowProofs` (done): the frame hand-off, freezing, stopping and
   restarting.
2. `FrameHandOff`, `UserWindowHandOff`, `UserWindowHandOffProofs` (done): the abstract
   hand-off, and `UserWindow` shown to implement it.
3. `ThreadRegistry`, `ThreadRegistryProofs` (done): creators and joiners of guest threads.
4. `GpuObjects`, `VulkanFrames`, `D3D12Frames` (done): what a graphics device promises
   about the objects it hands out, and the two devices with a queue of their own shown to
   keep it: frames in flight, fences, waits, deferred releases, the swap chain.
5. `MessageBox` (done): the dialog of a frozen window with its sound, that is the
   registry of open boxes, the owner, the flicker, the audio thread and its device.
6. `VulkanFramesProofs`, `D3D12FramesProofs`, `MessageBoxProofs` (done): every safety
   property of the three modules, with the refinement of `GpuObjects` by both devices.
7. `CommandQueue`: command lists with the lifetime of the objects they name, composed
   with the device's deferred releases through `GpuObjects`.
8. `HostCommands`, `AtomicTable`, `WasiRead`: handles, the buffer walk, atomics,
   byte counts.
9. `Titlebar`, `Startup`, and a weaker abstract hand-off for windows that are minimised
   or get another device, where frames may be partial.

## UserWindow: the model

One module describes the three threads of a window. Each thread has a program
counter; the values are named after what the code does next.

| Variable | Code |
|---|---|
| `ui` | the window's thread in `run`, a handler, `RenderFrame`, `StopThreads`, `shutdown` |
| `worker` | `updateThread` in `UserThreadLoop`; `"none"` once joined |
| `box` | `frozenMessageBoxThread`: the lambda of `MouseButtonUp` |
| `mutex`, `stopThread`, `workAvailable` | `updateMutex` and the two fields its condition reads |
| `updateInProgress`, `predraw`, `frozenProcess` | the fields of the same name |
| `overdue` | `updateItNum < updateIt`, the only use of the two counters |
| `listLock`, `commands` | `userGraphics->commands`, a `MutexableVector` |
| `update`, `pushed` | history: which update the worker is in and how much of it is recorded |
| `pauseRender`, `messageBoxActive`, `invertAnimation` | the fields of the same name |
| `iconic`, `resizing`, `stopFor` | whether the window is minimised, and the callers of `RenderFrame` and `StopThreads` |

* The worker: `WLock` to `WBlock` are `updateCv.wait`, with the mutex released and the
  wait begun in one step, and spurious wake-ups; `WClear` to `WUnmark` are the lines of
  one update. `WUpdate` and `WPush` are the user's callback, which records `Pushes`
  commands, each tagged with the update it belongs to.
* The UI thread: `PollNothing` and `Gate` are `run`; `Resize`, `Click`, `Close`,
  `Minimise` and `Switch` are messages, chosen by `\E` over `Events` through their
  guards; `Render` to `Present` are `RenderFrame` line by line wherever a line reads or
  writes something another thread writes; `StopLock` to `StopJoin` are `StopThreads`;
  `ClearList`, `Release`, `Restart` are the rest of `shutdown` and of `switchGraphics`.
  `Minimise`, which also restores, runs the handler of `Resize`: `longParameter` holds
  the packed size (`win32Window.cpp:41`), so the comparison with `SIZE_MINIMIZED` in
  line 348 passes, and the handler renders and clears `pauseRender`, minimised or not.
* The dialog thread: five steps, from `pauseRender = true` to `pauseRender = false`.
  `StopKillBox` is the `TerminateThread` of `StopThreads`, which leaves the box in the
  registry and `messageBoxActive` and `pauseRender` set.

**Memory.** `predraw` is a `std::atomic`; the other flags are plain fields written by one
thread and read by another, which C++ leaves undefined. The model takes them as single
accesses in program order. The properties that hold, and the theorems, are relative to
this reading; the violations below do not need anything weaker.

**What is abstracted.** Drawing and the graphics device; what the commands contain;
`renderReady`, `frameSkipped` (never set), `updateAll`; `boraThreadedLock`, which only
the UI thread takes; `rendering`, which is TRUE exactly in the steps of `RenderFrame`;
the branch of `switchGraphics` for devices that need a new window handle.
`DestroyMessageBox` is one step that waits for an open dialog to close: what lies behind
it, the registry that no lock protects included, is `MessageBox`. Of that module
`UserWindow` keeps what decides whether the wait ends: a dialog whose thread was
terminated (`box = "terminated"`) never sets `canBeDeleted`, so `DestroyBox` waits for
it for ever. A callback is assumed to return; one that never does makes `StopThreads` spin for ever unless a frame has been
rendered since it began.

**Bounds.** `Frames` are identities: two are enough to tell an update from the one
before it, and `WClear` always picks a different one, so the state space is finite
without a counter. `Pushes` commands per update: two or three make the list hold part of
a frame; one is enough for the liveness runs. `Events` limits what the person does.
There is no other bound: runs go on for ever.

**Deadlock** checking is off in all runs because the system really stops: a closed
window has ended, and a terminated worker may leave a lock taken for ever.

**Fairness** (`Fairness` in the module). Every thread is scheduled: weak fairness of the
UI thread, of the worker and of the dialog's own steps. The worker's callback returns
(weak fairness of `Worker` covers it). `PollMessages` empties its queue: strong fairness
of `PollNothing`. `StopThreads` gets a mutex that is free again and again: strong
fairness of `StopLock`. A dialog that `DestroyMessageBox` closes does close: weak
fairness of `BClose` while the UI thread waits there. Nothing is assumed of the person,
who need never close the dialog, nor of spurious wake-ups.

## FrameHandOff and its refinement

`FrameHandOff` is what a reader of the code would like to be true: one frame passes
between worker and UI thread, a `turn` that is `"asked"`, `"recording"`, `"finished"`,
`"lost"` or `"stopped"`, and what has been `recorded` of it. It has no threads, no mutex
and no flags. It does not hide what the code really does: a finished frame can be taken
back undrawn (`Ask`), and can be lost (`Lose`), after which nobody asks again.

`UserWindowHandOff` maps the code's flags to it. `turnOf` is `"stopped"` when
`stopThread` is set; else `"finished"` when `predraw` is set, except in the one step
between lines 966 and 967 (`Asking`), where it still belongs to the frame before; else
`"recording"` while the worker is in an update; else `"asked"` when `workAvailable` is
set; else `"lost"`. `recordedOf` is the command list, from the moment the update has
emptied it until the frame is taken back. `ImplementsHandOff` is the abstract
specification under this mapping. It is false with minimise or switch, for the reasons
given below for `WholeFrame`.

## GpuObjects and the two devices with a queue

`GpuObjects` is the promise: an object is created, released and freed, in this order and
once; it may be lost (`"leaked"`) instead of freed; the device's queue takes in only what
is not freed, and nothing is freed that the queue still uses. It has two variables, the
`stage` of each object and the set `inUse`, and one `Next` in which any number of objects
move, since both devices free everything that is due in one call. `VulkanFrames` and
`D3D12Frames` implement it with `inUse` mapped to the objects that queued work names
(`ImplementsGpuObjects`).

In both, one thread calls the device: the UI thread of the window, between whose
`BeginFrame` and `EndFrame` `Submit` runs any commands in any order. The queue beside it
is the GPU, which the code only sees through fences and waits; it works in order. Buffers stand
for everything that is copied to, pipelines for everything that is bound to a list:
textures, shaders, pools and layouts are created, bound and released by the same code
pattern.

| `VulkanFrames` | Code (`bnGraphicsVK.cpp`) |
|---|---|
| `pc` | where the thread is: a call that waits is one value per wait |
| `currentFrame`, `imageIndex` | the fields; `began` is history: `BeginFrame` got past its early return |
| `fence`, `available`, `rendered` | `inFlightFences`, `imageAvailableSemaphores`, `renderFinishedSemaphores` |
| `images`, `nextImage`, `surface` | the driver's side of the swap chain |
| `stage` | the `Release*` queues: `"released"` is to be in one |
| `bound`, `fresh` | `draw` of each slot's `CommandListVK`, which outlives its frame; history: what this frame bound |
| `pDraws`, `staged` | the collected draws; `mStagingBuffer` |

| `D3D12Frames` | Code (`bnGraphicsD3D12.cpp`) |
|---|---|
| `phase`, `target`, `slot` | a wait: signal queued, event asked for, event awaited; its fence and value; the loop over the fences |
| `fenceValues`, `completed` | `fenceValues` and `sFenceValue`; what each `ID3D12Fence` has reached |
| `event`, `armed` | the one auto-reset `fenceEvent`, and what `SetEventOnCompletion` asked for |
| `backBuffer`, `currentFrame`, `frameDone` | the swap chain's buffer and the fields (`frameDone` starts with any value: nothing sets it) |
| `singles`, `upload` | `SingleTimeCommandBuffers`; `upload` of each buffer |

* `BeginFrame` is the wait or waits, then `ClearPendingReleases`, then (Vulkan) the image.
  `Release` only queues. `ClearPendingReleases` frees all of it but a pipeline that a
  collected draw names, whose entry it forgets all the same: `LeakOnlyAtClose` shows that
  this happens only in the last submission of a closing window.
* `Upload` and `CopyToBuffer` make a staging buffer, put its address in the target among
  the releases at once and queue the copy; a second copy into the same target in one
  frame overwrites the address, and the first staging buffer is lost. `CreateFilled`
  is the same for a buffer created with data.
* `EndFrame` walks the collected draws. A list remembers its bindings from one frame to
  the next, so a draw can name an object that was freed long ago. What follows is
  undefined: the models go to `pc = "undefined"`, or, for Vulkan, return from the loop as
  the code does when the memory reads as null. `DanglingOnlyStale` shows that
  only a binding of an earlier frame can do this; never one made in the frame itself, even
  when the object is released in that frame.
* `Present` calls `Resize` with the size the device has, which does nothing
  (`RecreatedAfterPresent`, violated). An out-of-date swap chain gives no image, the
  frame is not begun, and nothing signals the fence that was reset: `stuck` and `began`
  follow this, and `FenceCovered` and `FrameReturns` except it by name.
* A window that is resized also waits for its next frame (`WaitForNewFrame`), whether
  `Resize` did anything or not.
* In Direct3D 12, `WaitForFence` signals the value the fence has, not the next, so
  `Present` and `Resize` as a rule wait for something already reached. `ResizeAlone` holds
  nevertheless, because `EndFrame` has waited. The waits of `BeginFrame` and that of
  `EndFrame` each suffice for `FreedNotInFlight`: dropping one of the two breaks nothing,
  freeing an upload buffer with its copy does.
* `CreateTexture` with data in an open frame frees the heap on return while the collected
  copy names it (`InitialDataUploaded`, violated). `CollectedCopiesWhole` excepts heaps
  and holds for all other collected copies.

**Assumed of the platform.** Submissions execute in order; a presentation gives its image
back; the driver hands out images in turn (which is what the code's `imageIndex` and
`currentFrame` rely on; `SlotIsImage` is relative to it). Failing calls of the Direct3D 12
device are left out, and so is, for both devices, a copy into or out of an object that was
released earlier in the same frame.

**Bounds.** Two frames in flight, as configured; one buffer and one pipeline, with two
staging or upload buffers so that a second copy into one target happens; for Direct3D 12 one
heap and fence values up to `MaxValue` = 4, which is a bound on the number of frames and
resizes (`CallBeginFrame` and `CallResize` respect it). `VulkanFrames` has no counter to
bound: runs go on for ever.

**Fairness.** The queue works (`Execute`), and a thread inside a call of the device runs
(`BeginFrame`, `Device`). That the window ever begins or ends a frame is not assumed.

## MessageBox: the model

| Variable | Code |
|---|---|
| `ui`, `messageBoxActive` | the UI thread of the frozen window, as far as it deals with dialogs; its flag |
| `dialog` | the dialog's thread: `CreateBlockingMessageBox`, the constructor, `run`, its handlers, the end of the lambda |
| `audio` | the thread that `create` starts: its loop and `UpdateFrame` |
| `entry` | `currentMessageBoxes[id]`: absent, inserted and still null, or a box |
| `handles`, `window` | the list of windows, whose last is the next dialog's owner; the dialog's own window |
| `running`, `canBeDeleted`, `posted` | the fields; `WM_CLOSE` is in the queue |
| `flickering`, `flickerFramesRemaining`, `iconic` | the fields; whether the dialog is minimised |
| `present`, `audioClient`, `pause`, `started`, `frameSize`, `room` | `rootAudioDevice`, its client (`"useless"`: made but not initialised), `pause`, whether the client runs, the mix format's frame, room in its buffer |
| `stream`, `active`, `bytesWritten` | the dialog's one stream, whether it is in `activeStreams`, how much of it is written |
| `fault` | undefined behaviour the program has met; it stops there |

* **Registry.** `Click` and `Join` start the thread; `Insert` to `Assign` are
  `currentMessageBoxes[id] = ...`, in which the entry is made before the box and the
  reference to it is used after. `Find` to `Destroy` are `DestroyMessageBox`: lookup,
  `running = false`, `WM_CLOSE`, the spin on `canBeDeleted`, and the erase that deletes the
  box. `Collect` is a collected frame, which always ends there; `Stop` to `StopJoin` the part of
  `StopThreads` that terminates and joins the dialog.
* **Loop.** `TestRunning`, `Handle` (one action for each kind of message), `Drained`,
  `Frame` with the flicker and the stream, `Exit`. A handler that calls into the audio
  device takes a step for each thing another thread can see.
* **Sound.** `AudioUpdate` to `AudioRelease` are one pass of the audio thread:
  another default device, pausing, reset, `Initialize` with its failures, `Unpause`, the
  test for a missing client with its recovery (`AudioCheck`, lines 297 to 299: pause, reset and
  another `Initialize`, after which the pass goes on), the buffer, the mix over `activeStreams`, the release. `Play` is the device (external).

**Faults.** Five things the code does not exclude are states of the model rather than
violations, for nothing in the repository says they cannot be:
`nullBox` (the entry is null when a frame is collected), `freedEntry` (it was erased before
the assignment), `nullDevice` and `nullClient` (a pause or a buffer of a device that did not
open), `freedStream` (the list is cleared under the mix). The properties say what
holds up to there and, for `freedStream`, when it can happen: `StreamWhole` shows that only
the shutdown of a closing window frees a stream under the mix, never `RenderFrame`, which
deletes finished streams without a lock too.

**What is abstracted.** One box record is reused: a second dialog can be made only when the
first one's handle is gone, and otherwise `Create` fails, as Win32 makes no window for a
destroyed owner; the constructor then waits for ever. The click comes at any moment with
`messageBoxActive` clear: whether the window is frozen is `UserWindow`'s. The stream is in the
format of the device it was queued for; `pause` starts FALSE, so the first `Unpause` does
not start the client and the dialog is silent until something pauses it and it is
activated again. Left out: the M-key
streams, `Resize`, drawing and the title bar's picture of the flicker, 16-bit samples.

**Bounds.** A stream of two frames and a buffer of two, so that a mix may end exactly at the
stream's end; device frames of 2 and 3 bytes against the stream's 2. `ReadsWithin` excepts smaller
device frames, with which the code reads past the stream, and the run leaves
them out. A flicker lasts two frames. Dialogs may be opened any number of times.

**Fairness.** Each of the three threads runs; the device plays what it has; one
that is asked for its buffer again and again gives it (strong fairness of `TakeBuffer`). The person
is never obliged to anything. `DestroyReturns` excepts `Abandoned`, a dialog whose
thread was terminated.

## ThreadRegistry: the model

| Variable | Code |
|---|---|
| `pc` | each thread's next step: `"born"` to `"ended"` for the lambda of `create_thread`, `"numbered"`, `"made"`, `"joining"` inside the two functions |
| `id_counter`, `threads` | the static members of the same name |
| `thread_id`, `t` | the locals of the same name, of `create_thread` or `join_thread` |
| `process` | whether the process runs, has exited, or was ended by `std::terminate` or undefined behaviour |
| `parent` | the thread whose `exec_env` the lambda has captured |
| `number`, `joined` | history: a thread's number, and the numbers joined with result 0 |

`TakeId`, `Make` and `Insert` are `create_thread`; `Extract` and `Join` are
`join_thread` on both sides of the mutex; `Enter`, `Trap` and `Return` are the new
thread's lambda; `Exit` is the end of the runtime's main. The guest is any program: each
thread creates and joins when it likes, with any number, its own included. The critical
sections of the mutex are single steps, as nothing else touches the map.

What the lambda does with the creator's `exec_env` (lines 24 and 30) is undefined once
the creator has ended and destroyed it (line 33): `Crash` is one outcome, going on the
other. `Exit` with a thread left in the static registry aborts too, and so does a thread
that joins itself. The host does nothing against any of these, so `AbortExplained` states
the discipline that rules them out: where no thread joins itself, and each thread, main
included, has had all it created joined by the time it ends, the process is never aborted.
Who joins does not matter, nor when, and the children of children are covered.

Abstracted: what the guest computes; the difference between a failed and a successful
call; `wasm_runtime_init_thread_env` and the creation of the environment, one failing step
(`Enter`); a null `exec_env`, which the runtime never passes; numbers beyond `int`
(`join_thread` takes a `u64` and looks up an `int`). `LastId` bounds the numbers and
`Threads` the threads: with three besides main, two can join a third, wait in a ring, or
join each other's children.

Fairness: every thread is scheduled, and the guest's functions return, apart from main.
Without that assumption on the guest a join may rightly wait for ever. Deadlock checking is off
because the process ends.

## Runs

| Run | Shows | Result |
|---|---|---|
| `WindowAll` | all events at any moment, two commands per update: `TypeOK`, `OneUpdate`, `ReleaseAlone`, `InProgressRuns` | holds, about 503 000 states |
| `WindowHandOff` | resize, clicks and close, three commands per update: `WholeFrame`, `RequestAfterCollect`, `ImplementsHandOff` | holds, about 91 000 states |
| `WindowLive` | minimise, resize, clicks, switch and close under fairness: `StopCompletes`, `FrameCollected` | holds, about 692 000 states |
| `Threads` | main and three more threads, three numbers: `TypeOK`, `OneOwner`, `JoinedEnded`, `AbortExplained`, `JoinReturns` | holds, about 88 000 states |
| `VkFrames` | two frames in flight, copies, releases, resizes, display changes and closing: `TypeOK`, `FreedNotInFlight`, `DanglingOnlyStale`, `SlotIsImage`, `FenceCovered`, `LeakOnlyAtClose`, `FrameReturns`, `ImplementsGpuObjects` | holds, about 2 150 000 states |
| `Dx12Frames` | the same for Direct3D 12: `TypeOK`, `EventOfThisWait`, `FreedNotInFlight`, `ResizeAlone`, `CollectedCopiesWhole`, `SlotIsBackBuffer`, `LeakOnlyAtClose`, `WaitsEnd`, `FrameReturns`, `ImplementsGpuObjects` | holds, about 1 240 000 states |
| `MessageBox` | dialogs opened, closed, collected and terminated at any moment, with an audio device that fails and changes: `TypeOK`, `OwnerAlive`, `StreamWhole`, `ReadsWithin`, `BoxOutlived`, `DestroyReturns`, `FlickerEnds`, `SoundEnds` | holds, about 629 000 states |
| `WindowLostRequest` | `RequestTaken`: a requested update is begun (`bnUserWindow.h:145`) | violated |
| `WindowUncleanStop` | `ExitsCleanly`: a stopped worker leaves no lock behind (`bnUserWindow.h:148`) | violated |
| `WindowNoCallback` | `TracksWorker`: `updateInProgress` is not set while the worker waits (`bnUserWindow.h:150`) | violated |
| `VkRecreate` | `RecreatedAfterPresent`: a swap chain that is out of date is recreated (`bnGraphicsVK.cpp:606`) | violated |
| `Dx12InitialData` | `InitialDataUploaded`: a texture's initial data is uploaded (`bnGraphicsD3D12.cpp:1101`) | violated |

Symmetry over `Frames` is used in `WindowAll` only: it is the largest run, and it checks
no temporal property.

The violations, as TLC finds them:

* **Lost request.** The worker finds no work and is about to block, holding the mutex.
  `RenderFrame` sets `workAvailable` without taking the mutex (line 966) and notifies
  (1008) before the worker blocks. The worker then waits with work available. Since
  `notify_one` is reached only when `predraw` is set, no later frame wakes it. The same
  trace shows a frame that is finished between lines 833 and 965: it is taken back
  without having been submitted.
* **Unclean stop.** A late worker is terminated (1112) inside `push_back`; `shutdown`
  then waits for the list's lock.
* **No callback.** A WASM window without a callback leaves its loop early (1170) with
  `updateInProgress` set.
* **Swap chain not recreated.** `Present` finds the swap chain out of date and calls
  `Resize(width, height)` (607), which returns at once for a size the device already has
  (620). After a change of the display that keeps the window's size the next frame gets
  no image.
* **Initial data.** `CreateTexture` in an open frame only collects the copy (1419); the
  heap it reads from is a `ComPtr` of the block and is destroyed at 1161.

`StopCompletes` and `FrameCollected` exclude by name the ways in which the UI thread gets
stuck: `Orphaned`, a lock held by a terminated or ended worker; `AwaitsPerson`, the UI
thread in `join` on a dialog that is open, which a second click can cause before the dialog
thread has set `messageBoxActive`; and, for `FrameCollected`, `DestroyMessageBox` waiting
for a dialog that was terminated, which happens when a window survives `switchGraphics`. `WholeFrame` and `RequestAfterCollect` are checked without minimise
and switch, and are false with them: a minimised window asks for work at every
frame (line 790), also while the worker is recording, and `predraw` survives
`switchGraphics`. `OneUpdate` holds even there: the list may then be part of a frame, but
never parts of two.

## Proofs

`UserWindowProofs` proves, for every set of frame identities, every number of commands
per update and every choice of events (`WindowAssumption` is all that is assumed of the
constants):

| Theorem | Statement |
|---|---|
| `TypeCorrect` | `Spec => [](TypeOK /\ PushInv)` |
| `OneUpdateHolds` | `Spec => []OneUpdate` |
| `ReleaseAloneHolds` | `Spec => []ReleaseAlone` |
| `StopHeardHolds` | `Spec => []StopHeard` |
| `InProgressHolds` | with a callback, `Spec => []InProgressRuns` |
| `WholeFrameHolds` | without minimise and switch, `Spec => [](WholeFrame /\ RequestAfterCollect)` |
| `RequestAfterCollectHolds` | the second conjunct by itself |

`TypeOK` is split by groups of fields, one lemma each; `PushInv` says that a callback
inside `push_back` has a command left to record. `ListChanges` names the seven actions
that touch the command list, and the proofs about the list go through them one by one.
`ReleaseAlone` needs `ReleaseInv`, which follows the two joins separately.
`InProgressRuns` needs `ReleaseInv` too: a terminated worker's flag is cleared only when
the join has returned.

`StopHeard` is the safety half of `StopCompletes` and the counterpart of the lost
request: `StopThreads` writes `stopThread` under the mutex, so that from its notification
on the worker neither blocks nor is about to. `StopInv` needs that a worker which
evaluates the predicate holds the mutex.

`WholeFrame` is far from inductive. Its invariant has four parts. `NoRestart`: the UI
thread is serving frames, or it is stopping for good with `stopThread` set. `InTurn`:
while it serves, an update is requested, or being recorded, or finished and not yet
taken back, never two of these, except in the one step between lines 966 and 967.
`Recorded`: the list holds exactly what the current update has recorded. `Kept`: a
finished frame stays whole until `Submit`. These parts were checked with TLC before they
were proved.

`UserWindowHandOffProofs` proves `HandOffHolds`: with a callback, without minimise and
switch, `Spec => ImplementsHandOff`. `ServingInv` gathers the invariants above; one lemma
per group of actions (stopping, the worker, rendering, the rest) shows that each step is
a step of `FrameHandOff` or changes neither `turnOf` nor `recordedOf`.

`ThreadRegistryProofs` assumes of the constants only that `Main` is a thread, that
`NoThread` is none and that `LastId` is a number:

| Theorem | Statement |
|---|---|
| `RegistryTypeCorrect` | `Spec => []TypeOK` |
| `OneOwnerHolds` | `Spec => []OneOwner` |
| `JoinedEndedHolds` | `Spec => []JoinedEnded` |
| `AbortExplainedHolds` | `Spec => []AbortExplained` |

The first three follow from one inductive invariant `Inv`. `OneOwner` is stated about threads,
the code works with numbers, and the invariant ties them: a number belongs to one thread
(`Numbered`); one that has been taken and not yet used is nowhere (`Unused`); a creator
or a joiner has the thread of its number and nobody else has (`Held`); so has the
registry (`Listed`); and no thread is missing (`Placed`). `Unused` is what the atomic
increment is for. `AbortExplained` needs one thing more, for the exit: a thread left in the registry may have
a creator that has not ended either, and is itself left over. `Younger` says that a thread
has a larger number than its creator. By the well-foundedness of `<` there is a thread of
the least number among those not joined (`OldestAbandoned`), and its creator is main, which
is ending, or was joined, and so has ended.

`VulkanFramesProofs` and `D3D12FramesProofs` assume `DeviceAssumption` only: at least one
frame in flight, sets of objects that do not meet, and for Direct3D 12 a number as the
bound of the fences. `MessageBoxProofs` assumes
`SoundAssumption` only: every length counts at least one byte or frame.

| Theorem | Statement |
|---|---|
| `VkTypeCorrect`, `DxTypeCorrect`, `MbTypeCorrect` | `Spec => []TypeOK` of each module |
| `VkFreedHolds`, `DxFreedHolds` | `Spec => []FreedNotInFlight` |
| `VkImplementsHolds`, `DxImplementsHolds` | `Spec => ImplementsGpuObjects` |
| `VkLeakHolds`, `DxLeakHolds` | `Spec => LeakOnlyAtClose` |
| `VkSlotHolds`, `DxSlotHolds` | `Spec => []SlotIsImage`, `Spec => []SlotIsBackBuffer` |
| `VkDanglingHolds` | `Spec => []DanglingOnlyStale` |
| `VkFenceHolds` | `Spec => []FenceCovered` |
| `VkWaitsHold` | `Spec => []WaitsCovered` |
| `DxEventHolds` | `Spec => []EventOfThisWait` |
| `DxWaitHolds` | `Spec => []WaitNotLost` |
| `DxResizeHolds` | `Spec => []ResizeAlone` |
| `DxCopiesHold` | `Spec => []CollectedCopiesWhole` |
| `MbOwnerHolds` | `Spec => []OwnerAlive` |
| `MbStreamHolds` | `Spec => []StreamWhole` |
| `MbReadsHold` | `Spec => []ReadsWithin` |
| `MbOutlivedHolds` | `Spec => BoxOutlived` |
| `MbCloseHeardHolds` | `Spec => []CloseHeard` |

Each of the three modules has one inductive invariant `IInv`, whose parts TLC checked on
the instances of the runs before they were proved; each part has a lemma of its own for
the step, over the few actions that can disturb it.

* **Vulkan.** `FenceCovered` ties the fences to the queue, and is not inductive alone:
  whether a fence is signalled depends on whether the frame before it can run.
  `QueueInv` says that a frame in the queue is followed by its presentation and that the
  queue holds copies only while a frame is open; `AvailableInv` says who waits for an image
  that has come; `TurnInv` keeps the driver's turn and the device's together. All of them
  except one case, which the proof had to name: `Blocked`, an item at which the queue
  stops for ever. A frame that got no image leaves it behind (`Lost` in the step before it is
  queued), and then nothing is idle again, so nothing is freed. With that the
  statement of `LeakOnlyAtClose` became stronger than it was: it needs no exception for a
  frame that was lost. `WaitsCovered`, the safety half of `FrameReturns` and of every other wait for
  the device (`FenceWaits`: `Resize`, `WaitForNewFrame`, the shutdown), is the other
  direction: while no frame was lost, the queue holds one frame at most, its image has come
  and its presentation is behind it (`RunsInv`), and an image that is not free is the open
  frame's or will be given back by a presentation in the queue (`ImagesInv`).
* **Direct3D 12.** `AwaitedInv` is the core: while the thread waits, the signal it waits
  for is the last thing in the queue, and once the queue is empty the fence has reached
  the value. With `WorkInv`, that work is in the queue only while the thread waits for
  `sFence`, it gives `FreedNotInFlight` and `ResizeAlone`, since everything that frees or
  resizes happens outside of waits. `FencesInv`, the signals of a fence rise and lie
  between what it has reached and what it was given, is what makes a wait for a value already
  given out return. `WaitNotLost` is the safety half of `WaitsEnd`: the
  event is set, or it was asked for and the signal that will set it is queued.
* **Objects.** In both, `BoundInv` (what is bound or drawn was created) and `StagedInv` or
  `UploadInv` (a buffer's copy source is its own and waits for release) make every change
  of `stage` a move of `GpuObjects`: one lemma, `StageMoves`, goes through the actions. A
  second, `UsesStep`, shows that what enters the queue exists. The refinement is the
  conjunction of the two.
* **Dialog.** `HandlesInv` describes the list of windows: the user's first, at most one
  dialog's, and the handle of a window that could not be made only after a dialog that
  failed, after which none begins. `DialogInv` says which dialog may follow which and who
  is last in the list at each of its steps; `OwnerAlive` is one line of it. `DeleteInv`
  says that `canBeDeleted` is clear while the dialog runs, and that the UI thread reaches the
  erase with it set. `CloseHeard` is the safety half of `DestroyReturns`: a box whose loop
  has not ended belongs to a dialog that is in it, and `SetRunning` cannot come after
  `close` has cleared `running`. `SoundInv` follows the audio thread between its test for something
  to play and the mix: from there the stream is queued or the window closes, which is
  `StreamWhole`. `ReadsWithin` is arithmetic on top of it, about division by the size of
  the device's frames.

Only model-checked: the liveness properties (`StopCompletes`, `FrameCollected`,
`JoinReturns`, `FrameReturns`, `WaitsEnd`, `DestroyReturns`, `FlickerEnds`, `SoundEnds`),
which rest on fairness and are out of the provers' reach, and what a violation run shows.
Every other property of a passing run is the statement of a theorem.

## Not modelled

* **Title bar, host command lists, WASM atomics, WASI, host symbols, start-up**: sequential
  code, or code under one lock; in the plan above, after the concurrent parts. `WasmTools`
  and the string functions keep no state.
* **Command lists** beyond what the hand-off uses, and the **drawing front end**: a call
  appends a command, a command calls the device. `UserWindow` models the list,
  the frame modules the calls; their composition is planned (`CommandQueue`).
* **Direct3D 11 and OpenGL**: immediate contexts, which call the driver in program order
  with no queue, fence or thread of their own.
* **Win32 window, logo window, logging, fonts, utilities**: translations of one interface
  into another, with no protocol to check. What matters of the Win32 window, the order in
  which handlers run on the UI thread, is in `UserWindow` and `MessageBox`.
* **Vendored code** (`contribs/`, `3rdparty/`, `stb_image.h`, `dr_mp3.h`, `D3dx12.h`): not
  this program's logic. It makes up nearly all lines of the repository, the WASM
  interpreter and its compilers first of all.

## Reproducing

    tlc -workers 2 -config WindowAll.cfg MCUserWindow
    tlc -workers 2 -config Threads.cfg MCThreadRegistry
    tlc -workers 2 -config VkFrames.cfg VulkanFrames
    tlc -workers 2 -config Dx12Frames.cfg D3D12Frames
    tlc -workers 2 -config MessageBox.cfg MessageBox
    tlapm UserWindowProofs.tla
    tlapm UserWindowHandOffProofs.tla
    tlapm ThreadRegistryProofs.tla
    tlapm VulkanFramesProofs.tla
    tlapm D3D12FramesProofs.tla
    tlapm MessageBoxProofs.tla
