# Verification of Oslec, the open source line echo canceller

Oslec removes line echo from telephone calls. The canceller proper is
`src/spandsp-0.0.3/src/echo.c`; `src/kernel/oslec_wrap.c` puts it into the
Linux kernel for the zaptel telephony drivers, patches under `src/kernel/`
hook it into zaptel and add a debugging tap (Zaptap), shell and C programs
control and record it from user space. `src/spandsp-0.0.3/` is the subset of
the spandsp library the canceller was developed in.

This directory holds TLA+ models of the parts of that system that have
control: concurrency, protocols, buffers, numeric limits. TLC checks them on
small instances and TLAPS proves the main properties for all instances.

## Inventory

| Part | State it keeps | Operations | What is hard |
|------|----------------|------------|--------------|
| Kernel wrapper, `kernel/oslec_wrap.c` | `mon_ec`, `num_ec`, `len_ec` under `oslec_lock`; `cycles_*` without a lock | create, free, update and hpf_tx (interrupt), four `/proc/oslec` handlers, module init | threads, interrupts and `/proc` readers interleave; the monitored canceller is freed by others; a creation that fails |
| Echo canceller, `spandsp/src/echo.c` | two adaptive filters, signal levels, hangover counter, transfer counter, noise estimate, DC filters | create, flush, update (one sample), hpf_tx, adaption_mode, snapshot | fixed-point limits; when which filter may change; a flush in the middle of a sample |
| Zaptel hooks and Zaptap, `kernel/zaptel-*.patch` | ping and pong buffers, `psample`, `samples`, `sample_state`, tapped channel, impulse flag | sample before and after the canceller, transmit hook, open, read, ioctl, release | producer in interrupt context, reader in user context, no lock between them |
| Control panel, `kernel/oslec-ctrl-panel.sh` | none of its own: the mode bits of the monitored call | disable, enable, filter and NLP menus, reset | read-modify-write of a file whose meaning changes from call to call |
| `user/sample.c`, `speedtest.c` | the de-multiplexed files | open, select channel, read, write | relies on the order in which Zaptap interleaves signals |
| spandsp queue, `queue.c` | a ring of bytes | write, read, view, test, contents, free space | wrap-around, full and empty limits |
| spandsp scheduler, `schedule.c` | a table of timed callbacks | schedule, delete, update, next | callbacks that schedule and delete while the table is scanned |
| spandsp playout, `playout.c` | a jitter buffer: two linked lists, a clock, two filters of lateness | put, get, get unconditional, restart, free | frames late, lost, repeated, out of order; a clock that goes back |
| spandsp V.42, `v42.c`, over `hdlc.c` | states, sequence numbers, kept frames, timers of two ends | detection, set-up, frames, acknowledgement, rejection, time-outs | lost frames against timers that pass from one to the other |
| spandsp T.30, `t30.c`, with `fax.c` over `hdlc.c` | state, phase, queued phase, retries, six timers, pages and blocks | a handler for each frame in each of some thirty states, timers, phases | two machines over one half duplex line that loses signals |
| spandsp async, V.42bis, V.8, T.38, T.31, AT | protocol states | bit, frame and timer handlers | timers and retries against a peer |
| spandsp modems, tones, codecs | filter and symbol state | sample handlers | numeric, not control |
| `kernel-test/` | the later mainline form of the canceller, and a bit-exact regression test | | same algorithm as above |

How they interact: zaptel calls create, free, the transmit filter and update of
the wrapper, and the wrapper those of the canceller. Update and the transmit
filter run in an interrupt handler under the channel's lock, once a sample;
create, free and `/proc` run in threads under `oslec_lock`, which the interrupt
handler does not take. Zaptap sits around the call of update in zaptel's
interrupt and is read by `sample.c`. The control panel reads and writes the
`/proc` files. The rest of spandsp is not called by the canceller. In it, V.42
and T.30 drive HDLC framing, which calls them back when a frame has been sent or
received; V.42 keeps its timers in the scheduler, T.30 its own, counted in
samples by the fax terminal, which also switches the modems. The playout buffer
stands between a packet network and a program that asks for a frame at a time.

What makes each part correct:

* wrapper: nothing uses a canceller that was freed; what `/proc` reports is of
  one canceller; the lock is always released; the counters written without it
  have one writer;
* canceller, control: the foreground filter only takes over contents that were
  better for a while, near end speech is not learnt, taps and history stay
  aligned, and adaption gets through in the end;
* canceller, numbers: running estimates stay near what they estimate and within
  their widths, DC goes and nothing else builds up, each tap meets the sample as
  old as itself;
* Zaptap: a recording is of consecutive blocks, none torn, and a read returns;
* V.42: octets come out as they went in, once and in order, whatever is lost;
  what was sent and not acknowledged is watched by a timer; the ends never wait
  for each other for ever;
* T.30: no page or block is skipped, each end believes only what the other did,
  a modem is never left between two phases, and a call ends;
* playout: the lists are whole, no frame is lost or played twice, only late
  frames are dropped, and all of them come out.

## Plan

Written, in this order, the most important first:

| Modules | Of | Abstract specification | Proofs |
|---------|----|------------------------|--------|
| `OslecWrap` | kernel wrapper | `EcMonitor`, by refinement | `OslecWrapProofs` |
| `EchoCan` | control of the canceller | | `EchoFilterProofs` |
| `EchoLevels` | levels and power | | `EchoNumbersProofs` |
| `DcFilter` | both DC filters | unbounded arithmetic, in `Exact` | `EchoNumbersProofs` |
| `Zaptap` | sampler and its program | | `ZaptapProofs` |
| `Fir` | filter history and adaption | `DelayLine`, by refinement | `EchoFilterProofs` |
| `Lapm` | V.42 with HDLC and the scheduler, two ends | `LossyStream`, by refinement | `LapmProofs` |
| `T30` | T.30 with HDLC and the modem switching, two ends | | `T30EndProofs`, `T30CallProofs` |
| `Playout` | playout buffer | its two lists as sequences, in `Linked` | `PlayoutProofs` |

What is left and could be written: a second program that opens Zaptap, and
interrupts of several processors; T.38 between two ends of `T30`.

## Modules and code

Every module begins with what it stands for; PROJECT.json maps each definition
to its lines. Operators called mutants are faulty variants kept next to the
definition they vary, to show that a property notices; no specification uses
them.

**OslecWrap** (`kernel/oslec_wrap.c`). A step is one assignment to shared state
with the test that guards it. Three kinds of thread: per channel a user thread
(`pc`: create, attach, detach, free), per channel an interrupt handler (`isr`:
the two comparisons with `mon_ec`, the work between them, the three stores to
the counters), and readers and writers of `/proc` (`ppc`: lock, look, use,
unlock). Memory is a set of addresses that come back after a free. A failing
allocation leads where the code goes, which is a dereference of NULL (`oops`, or
`stuck` when the lock is held). `module` is the loading of the module, where
`/proc` appears before the lock is initialised. Zaptel is external: it attaches
and detaches a canceller while the channel's handler is not inside it. The
reports are abstracted to the values they relate, `/proc` buffers to the mode.

**EcMonitor** is the wrapper with atomic operations and no lock: calls begin and
end, one that begins when none is monitored is monitored, `/proc` sets the mode
of that one.

**EchoCan** (`echo.c`). One sample is seven steps in the order of
`echo_can_update`, a flush six stores in the order of `echo_can_flush`. A
comparison of levels is a free outcome, except that two levels are equal while
the filters they are of always were (`twin`); that exception carries the reason
why `cond_met` may survive a flush. Filter contents are versions; positions are
kept exactly. With `SMP = FALSE` nothing comes between the steps of a sample or
of a flush (interrupts are off in both), with `SMP = TRUE` a flush and a write
of the mode may. `streak` and `since` are history variables.

**EchoLevels** (`echo.c`). One level stands for four that are computed alike,
next to the running power of the history, with the code's shifts as `\div` and
its rounding. `sums` is a history variable, the sums of the squares of the
history from its start, from which `energy` is read without recursion.

**DcFilter** (`echo.c`). One module for the two copies of the filter, with sums
that wrap as an `int` does, limits, the mode bit and a flush. `total` is a history
variable. `tick` flips with each sample, so that fairness speaks of samples that
change nothing else.

**Zaptap** (`kernel/zaptel-1.4.12.1.patch`, `user/sample.c`). An interrupt is
one action, one sample of a channel, with the swap and the wake-up when the
buffer is full; the program is open (three stores), the ioctl, read (sleep,
choose, copy slot by slot, return) and release (two stores), with interrupts
between any two. A sample is its signal, number and channel.

**Fir** (`spandsp/fir.h`, `echo.c`), with **FirBuffer** for the turning of the
history that it shares with `EchoCan`. The background filter and its adaption over
the circular history, in three builds: plain, doubled for MMX and SSE2, and
doubled with a straight adaption for the Blackfin. The filter and the canceller
keep a position each. Sums are exact before they are cut to 16 bits, which is
what sums that wrap at 32 bits give too; the Blackfin's accumulator, which
saturates, is not modelled, nor is the unrolling by 8 or 16, for which the
number of taps must be a multiple.

**DelayLine** is what a filter promises: tap i meets the sample i samples old.

**Lapm** (`v42.c`, `schedule.c`, `hdlc.c`). Two ends and a line each way. A
handler is one action, with every frame it queues, timer it sets and state it
changes: what `lapm_receive` does with each kind of frame, the time-outs of T400,
T401 and T403, the frame that `lapm_tx` sends next, the program that has
something to send or hangs up. A timer is a slot of the scheduler's table with
the handler that will be called, next to the handle that the end remembers; they
are separate, as in the code, which is what `TimersOwned` is about. Times are
left out: any timer that runs may expire first. Octets to send come in whole
pieces; the line corrupts up to `Faults` frames and each scenario says how many
pieces either end sends and whether detection comes first. A stray frame may
come from a far end that is not this code (`Foreign`). Frames handed to the HDLC
transmitter while it sends another are appended to that one, and the whole of what
comes of it goes to the application of the other end, behind the header of the
first I frame: `delivered` is the piece that the octets of one call begin with,
`behind` what follows it, header octets (0) and pieces. Not modelled: XID, TEST
and FRMR, which the code skips; a failing allocation in `lapm_tx_iframe`; the
window, which the code declares and never enforces.

**LossyStream** is what the two ends of V.42 promise their programs: each call
that gives octets begins with a piece of the other end, in the order in which they
were handed over and never the same one twice, though some may be missing. What comes
behind that piece is not promised: it may be nothing, or header octets and other pieces,
which may have been given before or be given again. That nothing else comes out
is `InOrderOnce`, which the code does not keep.

**T30** (`t30.c`, `fax.c`, `hdlc.c`). A caller and an answerer, with or without
error correction. A frame received is one action in which the handler of the
state runs to its end, with the phases and frames it queues; so are a timer that
expires, the end of what is being sent, and the modem's report of carrier,
training or its failure. The queued phase (`next_phase`), the step of sending and
the buffer of frames are as in the code, because what goes wrong goes wrong
between them. Abstracted: rates, resolutions and identities; time, to the order
of timers (an idle line lets T4, 3.45 s, expire before T2, 7 s; T0 and T1 may
expire at any time, which counts as a mishap unless nothing else would happen). A
signal whose beginning an end did not hear is not heard at all. A T2 that a frame
starts again is stopped by the flag behind it, as `hdlc.c` announces FRAMING_OK
again after every frame, and goes on only when the signal is cut there (`Heard`).
Not modelled:
V.17 with its short training, the list of rates to fall back to, NSF, polling,
operator interrupts, RR, RNR, EOR, EOM and CRP.

**Playout** (`playout.c`). Both lists with their pointers, next to the two
sequences they are meant to be (history variables `queue` and `free`). A put is
one action when the frame comes in sequence; otherwise the search goes frame by
frame (only the caller's own steps come between, so this only says that it ends).
A get is one action: nothing due, a control frame, a speech frame, or one that is
dropped. The counters and leaky integrators are exact, the frame length is a
constant. The network delays, reorders, repeats and loses frames; the program
asks at every tick, and at once again after a drop; it may clear out, restart and
free.

MC modules only give instances; theorems are in the `...Proofs` modules, those of
the canceller's four modules in two. Nothing is RECURSIVE; `Fir` sums with a fold.

## Runs

| Run | Distinct states | Question and answer |
|-----|-----------------|---------------------|
| `wrap` | 1,079,462 | NoUseAfterFree, MonitoredIsRegistered, ReportConsistent, CyclesOneWriter, ImplementsMonitor, LockReleased. Two channels, a `/proc` thread, reused addresses and a malloc that can fail, with every critical section taken apart into steps: the locked globals stay consistent with the cancellers that exist, nothing touches a destroyed one, the lock-free cycle counters have one writer, every return path releases the lock, and the wrapper implements the atomic monitor. |
| `echo_control` | 10,956 | Aligned, TransferEarned, HeldAfterSpeech, EventuallyAdopted. On one processor, with flushes and mode changes between any two samples: the foreground filter only takes over contents that earned it, near end speech is not learnt, the three positions agree, and once disturbance stops a background filter that stays better is adopted again and again. |
| `echo_smp_flush` | some 2,300 | violation of Aligned. A flush on another CPU in the middle of a sample leaves the positions of the filters and of the adaption apart. |
| `numbers` | 51,744 | Exact, NoDcLeft, TracksToZero (`DcFilter`), LevelBounded, PowerErrorStep, SilenceIsSeen (`EchoLevels`). Over every signal of a small range and flushes at any time. The DC filter, switched on and off too: wrapping sums do no harm, no DC is let through, and a constant input tracks down to 0. The estimates: the level stays within the signal's range and falls to zero in a pause, and the running power errs by at most half a unit more a sample. |
| `zaptap` | 6,796 | WritesInPlace, Faithful, ReadReturns. With interrupts between any two steps of open, ioctl, read and close: interrupts write in place, a program that is back in read in time gets every block whole and in sequence, and every read is woken. |
| `fir` | 454,629 | ImplementsDelayLine. With samples, adaptions, skipped adaptions and flushes in any order, in each of the three builds, every tap is applied to and adapted by the sample as old as the tap's number. |
| `lapm` | 1,236,461 | TypeOK, TimersOwned, OutstandingNumbered, OutstandingSupervised, ImplementsStream, SetUpEnds. Two ends that set up, send, lose frames, reject, time out, restart and release, with stray frames of another make: timers and their handles agree, kept frames are those between the last acknowledged and the next to send, a timer watches them, what each call to the application begins with went in, once and in order, and set-up ends. |
| `lapm_merged` | some 8,000 | violation of InOrderOnce. One piece each way over a line without a fault: the application of the caller gets header octets behind the piece. |
| `t30` | 251,818 | TypeOK, NothingSkipped, NothingLost, WaitsAreTimed, FileGrows, GoodCall, CallsRest. A whole call of two machines with two mishaps anywhere (a signal or a frame lost, the flags behind a frame lost, a training failed, a timer early): nothing of the document is left out, the sender goes on only when the receiver has what was sent, a call without mishaps delivers the document, and every call comes to rest. |
| `t30_ftt` | some 3,000 | violation of TriesAgain. After FTT the sender is in the state for sending DCS with a modem that does not transmit. |
| `playout` | 1,478,466 | TypeOK, Linked, NoLeak, Accounted, PlaysForward, DroppedForCause, ComesOut. A buffer of fixed or changing length under a network that loses, delays, reorders and repeats frames, with failing allocations, clearing out and restarts: the linked lists stay whole, no frame leaks or is counted wrong, speech goes forward, frames are dropped for cause only and all come out. |
| `playout_sorted` | some 6,000 | violation of Sorted. A frame that belongs right behind the first one is put before it. |

The numbers of the violation runs are the states found before the counterexample,
and vary with the order of the search.

Bounds, and why they do:

* `wrap`: two channels and two cancellers are what it takes for one to be
  monitored and another not, for one to outlive the other and for an address to
  come back. The counters are bounded by the two `Costs`; `Uptime` stands for a
  reading of the clock from which no start was subtracted. CHECK_DEADLOCK is off
  because an allocation may fail: then all threads may die. `/proc` during
  loading (`ProcDuringInit`) is left to the theorems, which assume `LoadedFirst`.
* `echo_control`: `Hangover` is longer than `Wins`, as 600 is than 6, and three taps
  let positions wrap inside both. `streak` and `since` are capped at `Wins` and
  `Hangover`, above which nothing distinguishes them. Three versions let the
  background filter differ from both the foreground one and zero.
* `numbers`: `MCEchoNumbers` puts the two modules side by side. They share no
  variable and every property is about one of them, so that a behaviour
  follows one and leaves the other as it began. The levels have four taps and
  samples of two magnitudes. `MaxPower` bounds the power, which drifts without
  limit; the proofs do not use it as a limit on anything but the guard of the
  model. For the DC filter, `Top` leaves as little room as the code's 32 bits do,
  so that the sum in the middle really wraps.
* `zaptap`: buffers of two samples of three signals, two channels, recordings of
  up to `MaxStamp` = 8 samples, which is four blocks: each buffer is used twice.
* `fir`: three taps have a first, a last and one between; samples and factors
  of both signs, and a unit so coarse that outputs and taps round and wrap.
* `lapm_merged`: one piece each way and no fault, the least that shows it; its
  premise leaves out whatever was sent again.
* `lapm`: two pieces in one direction, or one in each, or one with a frame
  corrupted anywhere, or detection first; `N_400` = 2 tries, four slots of the
  table (each end uses three and frees them in any order), at most two frames
  between two looks of the sender, one group on the line. Numbers are modulo 128
  and the window 15 as in the code, and are not reached. The link may end for
  good, so CHECK_DEADLOCK is off.
* `t30`: two pages (one that is followed by another, one that is last) of two
  blocks of two frames, three tries as in the code, and two mishaps, so that a
  repeated command can meet the loss of its answer. ExtraRcp = 0: the two extra
  RCP frames are repeats. A finished call stops, so CHECK_DEADLOCK is off.
* `playout`: four frames, one of them not speech, up to twice each and four in
  all; lengths of one frame, of part of a frame, and changing between none and
  two frames; four nodes. `Horizon` is five frames, after which the network
  delivers nothing and the queue drains. Growth by one step needs ten frames
  and is not reached (growth by three and shrinking's test are); the theorems
  have no such bound. A freed buffer stops, so CHECK_DEADLOCK is off.

Fairness is assumed of what cannot stop, and only where a run needs it:

* wrapper: a thread in a critical section goes on, as it holds a spin lock with
  interrupts off. Nothing makes a thread enter one.
* canceller, levels, DC filter: samples keep coming, as zaptel's clock does not
  stop during a call. For the level it is the zero samples of a pause that keep
  coming: `SilenceIsSeen` is conditional on the pause. A flush, with interrupts
  off, ends.
* Zaptap: each channel is served in every interrupt, and a program that is
  awake gets to run; it need not ever go back to read.
* V.42: the program calls `span_schedule_update` for ever, so that the timers of
  set-up and detection go off. Nothing makes the line deliver.
* T.30: `fax_rx` and `fax_tx` are called while the call lasts, so that a modem
  that sends comes to an end of it and a timer that runs expires.
* playout: the program goes on asking, and a put that searches goes on.

`EventuallyAdopted` assumes of the signal that the background filter is better
from some time on, which is a fact about signals and not about fairness.

### Where the code and its comments part

Shown by a run:

* `echo_smp_flush`: the reset by `/proc`, which its comment hopes is safe, leaves
  the positions apart for the rest of the call when it meets a sample on another
  processor.
* `t30_ftt`: "Trainability test failed. Try again." does not try again: the phase
  stays B_RX, the far end repeats its FTT, and the call ends with an error. The
  fallback to a lower rate never happens.
* `lapm_merged`: the application of tests/v42_tests.c compares every octet it is
  given with what it expects next (79-80). When an I frame is being sent while the
  peer's SABME arrives, the UA is appended to it (v42.c:1107, hdlc.c:443-463), and
  the octets of the UA come out behind the piece (v42.c:800) though the line was
  perfect. I frames sent again one after the other merge in the same way, and the
  second comes out behind the first and, as it was not counted, once more alone.
* `playout_sorted`: "Frames are kept in a list, sorted by the timestamp": the
  search that stops at the first frame puts a frame before it that belongs behind.

Met while modelling, in the models where they matter:

* wrapper: `echo_can_create` may return NULL, which nobody tests and which equals
  `mon_ec` when nothing is monitored, so that several threads take themselves for
  the monitored one (and then dereference NULL). `/proc` is open before
  `spin_lock_init`, which frees the lock that a reader may hold.
* canceller: the sample on which near end speech is first detected has been
  adapted to before the detector looks (echo.c:508).
* Zaptap: a program that is late loses blocks, or copies one that is being
  filled again, and `read` reports nothing.
* V.42: the window is never enforced; a time-out that finds nothing to send leaves
  no timer; `lapm_link_up` stops a T401 that retransmission needs, so that T403
  has to do; a DM without the final bit changes the state without its timers; an
  end that is released does not say so, and its peer finds out by time-outs; the
  test for acknowledgements outside the window takes what lies outside for inside,
  and the other way round, once the numbers have wrapped (v42.c:212); two
  ends that poll each other answer polls with polls.
* T.30: the page and block numbers of a PPS are read and compared with nothing
  (t30.c:2387), so that a lost MCF makes the receiver store a block twice; after
  RTP the same page is sent again though the comment says the next (2674);
  `repeat_last_command` has no case for D_POST_TCF; flags or a failed training
  stop T2 (471, 3118, 3152) and nothing restarts it, which leaves the end to T1 or the
  other side; CTC is a dead end; a DCN leaves the status at OK in most states;
  a repeated MPS, EOP or PPS does not close its signal with a flag; `t30_terminate`
  leaves timers running.
* playout: a minimum length in samples that is not a whole number of frames makes
  every frame fall due when it is already late (`DroppedForCause` excepts it), as the clock
  moves by whole frames; growth by three frames is tested as if lengths were
  frames and overshoots the maximum (137); the target starts halfway and not at
  the minimum as the comment says (327); a buffer that grows plays frames again,
  within what it grew; `since_last_step` starts at the largest int and is
  incremented (326, 178); a restart with frames queued leaks them, as documented.

## What is proved

For every value of the constants that satisfies the assumptions of the modules:

* **Wrapper.** From `LocklessInv` (types, who owns which canceller, the cycle
  counters, `num_ec`), which needs no assumption on scheduling: `TypeCorrect`,
  `CountIsRight`, `OneWriter`, `WorstIsWorst`. That there is one writer without a
  lock has a reason the invariant spells out: a canceller that runs is
  registered, `mon_ec` can only come to point to one at its registration, so the
  two comparisons of one update agree. From `IInv`, which adds the lock
  (`LockInv`: who is inside holds it), what `mon_ec` points to (`MonInv`) and the
  mode of an unregistered canceller, under `LoadedFirst` (no `/proc` access while
  the module loads): `LockExcludes`, `NoDanglingUse`, `MonitorNeverDangles`,
  `ReportIsConsistent` and the refinement `WrapperImplementsMonitor`.
  Without `LoadedFirst` a reader that enters before `spin_lock_init` loses its lock.
* **Canceller control.** `TypeCorrect` for one or many processors. On one
  (`Uniprocessor`, necessary by `echo_smp_flush`): `PositionsAgree`,
  `TransfersAreEarned`, `SpeechIsNotLearnt`. The invariant relates the positions
  at every step of a sample and of a flush, the hangover that is left to the time
  since speech, and says that a transfer counter that is ahead of the streak, as
  after a flush, is about to be reset.
* **Levels.** `TypeCorrect`, `LevelsAreBounded`, `PowerDriftsSlowly`. The
  invariant ties a level to its accumulator, and `sums` to the history; that
  changing one sample changes the sum by that square is linear once sums are
  kept from the start of the buffer.
* **DC filter.** `DcTypeCorrect`, `OverflowIsHarmless`, `DcIsRemoved`, from one
  invariant: the state is the last scaled sample less what leaked, and what
  leaked is at most a peak.
* **Zaptap.** `TypeCorrect` and `PointerInPlace` however the program is
  scheduled; `RecordingFaithful` when it is back in read before the next swap
  (`PromptReader`, without which blocks are lost or torn). The invariant says for every
  point of the program which block each buffer holds.
* **Filter.** `AlignedTaps`: `Fir` implements `DelayLine` in every build and for
  every number of taps. The invariant `FirInv` says how far apart
  the two positions are and that the copies of a doubled history agree; the lemmas
  `LineShifts`, `FirReads` and `LmsReads` say what each way of reading finds.
* **V.42.** `TimersAreOwned` and `FramesSupervised`, for any table of at least four
  slots, any number of tries, any scenario and any loss, under `DmFinal`: no DM
  arrives without its final bit, which orphans timers; this code sends no DM at all, and
  the run's `Foreign` only ones with the bit. The invariant `EndInv` is of one end:
  the handles and slots have their shapes, agree (`Owned`), kept frames are
  watched (`Supervised`), and what an end that is calling or detecting has and
  has not yet. There is a lemma for each operator that the handlers are built of,
  so that a handler is the composition of a few facts. The other three results
  rest on the same division, each with an invariant of its own:
  * `TypesKept`: `TypeInv` adds to the types why the count of retries keeps its range:
    an end that has tried once too often has no T401 and is not in the data state.
  * `QueueIsNumbered`: `NumberInv` says that the queue is numbered without a gap and
    that an end that has not sent an I frame yet is acknowledged nothing, neither by
    what its peer has nor by what is under way. It assumes `OwnNumbers`: no other make
    sends I, RR or REJ. An acknowledgement that reaches an end before it has sent
    anything is taken for good, as both tests of `lapm_ack_rx` fail while nothing is
    outstanding, and what is sent then is numbered from elsewhere. Acknowledgements
    that come later do no harm whatever they say.
  * `StreamKept`: `Lapm` implements `LossyStream`. `StreamInv` is about everything
    under way from one end to the other, in the order in which it can arrive:
    what is on the line, what is in the transmitter, what is kept and may be sent
    again. An old piece never carries the number that is expected next (`Unseen`),
    nor the one that follows any frame that is to arrive before it (`InOrder`), and
    behind a SABME or UA there are only pieces that are newer than all that arrived
    (`Fenced`) or will arrive (`Parted`) before it. So a frame may be dropped
    from anywhere, and the piece that the receiver's application gets first is new.
    For what comes behind it, `Recent` says that no frame on the way, first or
    merged, holds a piece that was not taken yet. It assumes `OwnData` (no
    other make sends I, SABME or UA) and `Few`: no frame is still kept when
    its number comes round again. The code has no such limit, as it does not
    enforce the window; in the run the bounds see to it.
* **T.30.** `TypesKept` and `WaitsTimed`, for documents of any number of pages,
  blocks and frames and any number of mishaps. What a state means is spread over
  the code: it is entered by whoever queued a phase, and left by a timer, a frame or the
  end of a signal. `EndInv` collects it for one end: the modems of each
  phase (`Radio`), what can be heard in it (`Signals`), and for every state the
  phases, steps, buffered frames and timers that go with it (`Mode`). Alone it is
  not inductive, as an end is only safe from a frame that its peer cannot be sending.
  `CallInv` adds that an end with an answer ready has heard the last frame of the
  signal it waits for (`Turns`, or a second frame would find the buffer full),
  that nothing of a block follows its RCP (`BlockSent`), and which states of the
  receiver a sender that trains, continues or has not begun can meet (`Training`,
  `Continues`, `Opening`), and that the answerer's tone meets no caller that
  speaks (`ToneFirst`). `T30EndProofs` has a lemma for every handler, from
  `set_phase` up to each `process_rx_...`; `T30CallProofs` one for every action.

  `NothingIsSkipped`, `NothingIsLost` and `FileOnlyGrows` say what the receiver
  has of the document. None of the three is inductive: that the file is in order
  says nothing of the page that is put together, and that nothing is lost says
  nothing of the answer that lets the sender go on. `BookInv` is about the book,
  which is the file and, with error correction, that page. The book has the
  document in order, up to what the sender has done with, or further, up to the
  end of what it is sending (`Filed`): the answer may be lost, and the
  receiver, which compares the numbers in a PPS with nothing, then takes the same
  block a second time. It says that an MCF that is still to be sent vouches
  for what was asked about, with no frame gathered (`Vouches`), so
  that the sender may go on whenever it comes; that the frames gathered are of the block that
  is being sent (`Gathers`), and the page that is being received is the
  sender's (`Draws`); that before the first block there is nothing (`Blank`), as
  DIS makes the sender start again; and that a receiver that would open
  its file has nothing in it, gets no DCS any more, or has been told of the
  end (`Unopened`). The proof rests on `CallInv`, which says whose frame can meet
  whom in which state. An MCF for one page is never taken for another's because a
  sender moves on only when an MCF comes, and its receiver then has none left in
  its buffer.
* **Playout.** `ListsWhole`, `FramesKept`, `FramesAccounted`, `TypeCorrect`,
  `SpeechGoesForward` and `DropsForCause`, for any memory, lengths, frames and
  network. The invariant `Inv` says that the two linked lists are the two
  sequences, that allocated nodes are split between them and the frame being put
  in, that a search has a frame that belongs before the last one (so that the
  place it finds has a frame behind it), and that the counts add up; `Clock` that
  the clock and the length of the buffer together never fall behind what was
  played last; `OnTime` that as long as frames come in sequence the queue is
  sorted, the clock shows whole frames and every frame queued is still due.

Only model-checked: liveness (`LockReleased`, `EventuallyAdopted`, `SilenceIsSeen`,
`TracksToZero`, `ReadReturns`, `SetUpEnds`, `GoodCall`, `CallsRest`, `ComesOut`),
which the prover can not treat under fairness; and the
violation runs, which are single behaviours. The types of `Fir`, whose outputs are sums by
a fold, are neither checked nor proved: only induction could say that they are
numbers. ENABLED, induction over data and RECURSIVE operators are beyond the
prover and not needed elsewhere.

Types of the wrapper, the canceller, the levels, the DC filter and Zaptap, mutual
exclusion, the count of cancellers and the bound on the cycle counters are proved
and therefore in no run.

## Not modelled

* In modelled parts: the non-linear processor, comfort noise and snapshot, which
  nothing reads back; module exit, identify and traintap of the wrapper; failures
  inside `echo_can_create` past the first allocation, which dereference NULL at
  once; Zaptap's impulse mode; and what the paragraphs on V.42, T.30 and playout
  leave out above. The wording of reports.
* Whole components, with the reason for each, are listed in PROJECT.json. The
  larger part of the library by size is signal processing (modems, tones,
  codecs), tables (`t4states.h`, `faxfont.h`, the recordings in `kernel-test/`) and
  parsers, where what matters is numbers or the layout of bytes. V.42bis would be
  worth a proof that its decoder inverts its encoder, which is an induction over data.
* Signal quality (how fast the filter converges, how much echo remains) is a
  question of real numbers and is not asked.
