------------------------------- MODULE EchoCan -------------------------------
(***************************************************************************)
(* The control of the dual path echo canceller,                            *)
(* src/spandsp-0.0.3/src/echo.c: when the background filter adapts, when   *)
(* it is copied to the foreground filter, and what a flush leaves behind.  *)
(*                                                                         *)
(* Signals are abstracted to the outcomes of the comparisons made on them: *)
(* a sample is loud when near end speech is detected, and the background   *)
(* filter is better when both its level conditions hold. The contents of a *)
(* filter are one of a few Versions, 0 being all taps zero.                *)
(*                                                                         *)
(* echo_can_update runs in an interrupt handler. With SMP = FALSE nothing  *)
(* runs between its steps; with SMP = TRUE echo_can_flush and the writer   *)
(* of adaption_mode, on another CPU, do: they hold oslec_lock, which the   *)
(* handler does not take.                                                  *)
(***************************************************************************)
EXTENDS Integers, FirBuffer

CONSTANTS
  Hangover,      \* DTD_HANGOVER
  Wins,          \* 6: samples the background filter must be better for
  Versions,      \* contents of a filter
  SMP

ASSUME SizesAssumption ==
  /\ Taps \in Nat \ {0} /\ Hangover \in Nat \ {0} /\ Wins \in Nat \ {0}
  /\ 0 \in Versions
  /\ SMP \in BOOLEAN

VARIABLES
  adaption,            \* adaption_mode & ECHO_CAN_USE_ADAPTION
  nonupdate_dwell, cond_met, adapt,
  fg, bg,              \* contents of fir_taps16[0] and fir_taps16[1]
  twin,                \* whether Lclean and Lclean_bg are known to be equal
  better,              \* 8*Lclean_bg < 7*Lclean and 8*Lclean_bg < Ltx
  loud,                \* Lrx > MIN_RX_POWER_FOR_ADAPTION and Lrx > Ltx
  curr_pos, fir_pos, bg_pos,   \* of ec, ec->fir_state and ec->fir_state_bg
  pc,                  \* where echo_can_update is
  flush,               \* the next store of echo_can_flush, 0 when not running
  streak,              \* history: samples in a row that met the conditions
  since                \* history: samples since speech was last detected

levels == <<twin, better, loud>>
control == <<nonupdate_dwell, cond_met, adapt>>
positions == <<curr_pos, fir_pos, bg_pos>>
histories == <<streak, since>>
vars == <<adaption, control, fg, bg, levels, positions, pc, flush, histories>>

CapAt(n, top) == IF n < top THEN n ELSE top

Init ==
  /\ adaption = TRUE
  /\ nonupdate_dwell = 0 /\ cond_met = 0 /\ adapt = 0
  /\ fg = 0 /\ bg = 0
  /\ twin = TRUE /\ better = FALSE /\ loud = FALSE
  /\ curr_pos = Taps - 1 /\ fir_pos = Taps - 1 /\ bg_pos = Taps - 1
  /\ pc = "idle" /\ flush = 0
  /\ streak = 0 /\ since = Hangover

-----------------------------------------------------------------------------
(* echo_can_update, one sample                                              *)

\* Scaling, DC filter, power of the filter states, levels of tx and rx.
UpdateLevels ==
  /\ pc = "idle" /\ (SMP \/ flush = 0)
  /\ loud' \in BOOLEAN
  /\ pc' = "foreground"
  /\ UNCHANGED <<adaption, control, fg, bg, twin, better, positions, flush, histories>>

UpdateForeground ==
  /\ pc = "foreground"
  /\ fir_pos' = Roll(fir_pos)
  /\ pc' = "background"
  /\ UNCHANGED <<adaption, control, fg, bg, levels, curr_pos, bg_pos, flush, histories>>

\* Two equal levels stay so while the filters agree, and neither is better.
UpdateBackground ==
  /\ pc = "background"
  /\ bg_pos' = Roll(bg_pos)
  /\ twin' = (twin /\ fg = bg)
  /\ better' \in IF twin /\ fg = bg THEN {FALSE} ELSE BOOLEAN
  /\ pc' = "lms"
  /\ UNCHANGED <<adaption, control, fg, bg, loud, curr_pos, fir_pos, flush, histories>>

\* Mutant: the hangover is not looked at.
UpdateLmsAlways ==
  /\ pc = "lms"
  /\ bg' \in Versions
  /\ pc' = "detect"
  /\ UNCHANGED <<adaption, control, fg, levels, positions, flush, histories>>

UpdateLms ==
  /\ pc = "lms"
  /\ bg' \in IF nonupdate_dwell = 0 THEN Versions ELSE {bg}
  /\ pc' = "detect"
  /\ UNCHANGED <<adaption, control, fg, levels, positions, flush, histories>>

\* Mutant: the hangover only starts to count when the channel is silent.
UpdateDetectLatched ==
  /\ pc = "detect"
  /\ adapt' = 0
  /\ nonupdate_dwell' = IF loud THEN Hangover - 1 ELSE nonupdate_dwell
  /\ since' = IF loud THEN 0 ELSE CapAt(since + 1, Hangover)
  /\ pc' = "transfer"
  /\ UNCHANGED <<adaption, cond_met, fg, bg, levels, positions, flush, streak>>

\* The double talk detector, which counts this sample at once.
UpdateDetect ==
  /\ pc = "detect"
  /\ adapt' = 0
  /\ nonupdate_dwell' = LET d == IF loud THEN Hangover ELSE nonupdate_dwell
                        IN  IF d = 0 THEN 0 ELSE d - 1
  /\ since' = IF loud THEN 0 ELSE CapAt(since + 1, Hangover)
  /\ pc' = "transfer"
  /\ UNCHANGED <<adaption, cond_met, fg, bg, levels, positions, flush, streak>>

Conditions == adaption /\ nonupdate_dwell = 0 /\ better

\* Mutant: a sample that does not meet the conditions does not restart the count.
UpdateTransferNoReset ==
  /\ pc = "transfer"
  /\ adapt' = IF Conditions /\ cond_met = Wins THEN 1 ELSE adapt
  /\ fg' = IF Conditions /\ cond_met = Wins THEN bg ELSE fg
  /\ cond_met' = IF Conditions THEN CapAt(cond_met + 1, Wins) ELSE cond_met
  /\ streak' = IF Conditions THEN CapAt(streak + 1, Wins) ELSE 0
  /\ pc' = "finish"
  /\ UNCHANGED <<adaption, nonupdate_dwell, bg, levels, positions, flush, since>>

\* The foreground filter becomes a copy of one that has proved itself.
UpdateTransfer ==
  /\ pc = "transfer"
  /\ adapt' = IF Conditions /\ cond_met = Wins THEN 1 ELSE adapt
  /\ fg' = IF Conditions /\ cond_met = Wins THEN bg ELSE fg
  /\ cond_met' = IF Conditions THEN CapAt(cond_met + 1, Wins) ELSE 0
  /\ streak' = IF Conditions THEN CapAt(streak + 1, Wins) ELSE 0
  /\ pc' = "finish"
  /\ UNCHANGED <<adaption, nonupdate_dwell, bg, levels, positions, flush, since>>

\* Mutant: the position is not wrapped before it is decremented.
UpdateFinishNoWrap ==
  /\ pc = "finish"
  /\ curr_pos' = IF curr_pos < 0 THEN Taps - 1 ELSE curr_pos - 1
  /\ pc' = "idle"
  /\ UNCHANGED <<adaption, control, fg, bg, levels, fir_pos, bg_pos, flush, histories>>

\* Non-linear processing, which feeds back into none of this, and the position.
UpdateFinish ==
  /\ pc = "finish"
  /\ curr_pos' = Roll(curr_pos)
  /\ pc' = "idle"
  /\ UNCHANGED <<adaption, control, fg, bg, levels, fir_pos, bg_pos, flush, histories>>

Update ==
  \/ UpdateLevels \/ UpdateForeground \/ UpdateBackground \/ UpdateLms
  \/ UpdateDetect \/ UpdateTransfer \/ UpdateFinish

-----------------------------------------------------------------------------
(* echo_can_flush and echo_can_adaption_mode, called under oslec_lock       *)

FlushBegin ==
  /\ flush = 0 /\ (SMP \/ pc = "idle")
  /\ flush' = 1
  /\ UNCHANGED <<adaption, control, fg, bg, levels, positions, pc, histories>>

\* Mutant: the levels are not reset.
FlushStepKeepLevels ==
  /\ flush \in 1..6
  /\ flush' = (flush + 1) % 7
  /\ nonupdate_dwell' = IF flush = 1 THEN 0 ELSE nonupdate_dwell
  /\ fir_pos' = IF flush = 2 THEN Taps - 1 ELSE fir_pos
  /\ bg_pos' = IF flush = 3 THEN Taps - 1 ELSE bg_pos
  /\ fg' = IF flush = 4 THEN 0 ELSE fg
  /\ bg' = IF flush = 5 THEN 0 ELSE bg
  /\ curr_pos' = IF flush = 6 THEN Taps - 1 ELSE curr_pos
  /\ streak' = 0
  /\ since' = IF flush = 1 THEN Hangover ELSE since
  /\ UNCHANGED <<adaption, cond_met, adapt, levels, pc>>

\* The stores of echo_can_flush in their order; cond_met is not among them.
FlushStep ==
  /\ flush \in 1..6
  /\ flush' = (flush + 1) % 7
  /\ IF flush = 1
       THEN /\ twin' = (pc # "background") /\ better' = FALSE /\ loud' = FALSE
            /\ nonupdate_dwell' = 0 /\ since' = Hangover
       ELSE UNCHANGED <<levels, nonupdate_dwell, since>>
  /\ fir_pos' = IF flush = 2 THEN Taps - 1 ELSE fir_pos
  /\ bg_pos' = IF flush = 3 THEN Taps - 1 ELSE bg_pos
  /\ fg' = IF flush = 4 THEN 0 ELSE fg
  /\ bg' = IF flush = 5 THEN 0 ELSE bg
  /\ curr_pos' = IF flush = 6 THEN Taps - 1 ELSE curr_pos
  /\ streak' = 0
  /\ UNCHANGED <<adaption, cond_met, adapt, pc>>

WriteMode ==
  /\ SMP \/ (pc = "idle" /\ flush = 0)
  /\ adaption' \in BOOLEAN
  /\ UNCHANGED <<control, fg, bg, levels, positions, pc, flush, histories>>

Next == Update \/ FlushBegin \/ FlushStep \/ WriteMode
Spec == Init /\ [][Next]_vars

\* The sample clock does not stop, and a flush, with interrupts off, ends.
FairSpec == Spec /\ WF_vars(Update) /\ WF_vars(FlushStep)

-----------------------------------------------------------------------------
\* Every variable has its type; the positions index the history buffers.
TypeOK ==
  /\ adaption \in BOOLEAN
  /\ nonupdate_dwell \in 0..Hangover - 1 /\ cond_met \in 0..Wins /\ adapt \in {0, 1}
  /\ fg \in Versions /\ bg \in Versions
  /\ twin \in BOOLEAN /\ better \in BOOLEAN /\ loud \in BOOLEAN
  /\ curr_pos \in 0..Taps - 1 /\ fir_pos \in 0..Taps - 1 /\ bg_pos \in 0..Taps - 1
  /\ pc \in {"idle", "foreground", "background", "lms", "detect", "transfer", "finish"}
  /\ flush \in 0..6
  /\ streak \in 0..Wins /\ since \in 0..Hangover

\* The foreground filter only changes to a background filter that was better
\* for Wins samples in a row before this one, all since the last flush, with
\* adaption on and no speech in the hangover (echo.c 517-533), although a
\* flush leaves cond_met as it was.
TransferEarned ==
  [][pc = "transfer" /\ fg' # fg =>
       streak = Wins /\ adaption /\ since >= Hangover - 1]_vars

\* After speech was detected the background filter stays as it is for
\* Hangover - 1 samples (echo.c 462, 508-515): near end speech is not learnt.
HeldAfterSpeech ==
  [][pc = "lms" /\ bg' # bg => since >= Hangover - 1]_vars

\* The three positions agree between samples: the adaption correlates each
\* tap with the sample the tap was applied to (echo.c 226-253, fir.h 248-266).
Aligned == pc = "idle" /\ flush = 0 => curr_pos = fir_pos /\ curr_pos = bg_pos

\* The hangover cannot latch: when the background filter stays better and
\* speech, flushes and mode changes stop, it is adopted again and again.
EventuallyAdopted ==
  <>[](adaption /\ better /\ ~loud /\ flush = 0) => []<>(adapt = 1)
=============================================================================
