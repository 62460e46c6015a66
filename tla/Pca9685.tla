------------------------------ MODULE Pca9685 ------------------------------
(***************************************************************************)
(* The PWM controller at the level of its registers (src/pca9685.rs): a    *)
(* call is a sequence of register writes over I2C, and the bus may fail at *)
(* any of them; what was written stays written.  A channel gives a pulse   *)
(* when the oscillator runs and its full-off bit is clear.  The pulse is   *)
(* spread over two registers, here named by the servo position it stands   *)
(* for.  The eight channels the stand does not use are always off.         *)
(***************************************************************************)
EXTENDS Stand, SequencesExt

VARIABLES
  chip,    \* the registers: mode, PWM rate, and per channel the pulse and full-off
  writes   \* the writes the call in progress has still to do

NoPulse == "0"

WithoutPower ==
  [mode |-> "asleep", rate |-> "other", fullOff |-> [c \in Channel |-> TRUE],
   low |-> [c \in Channel |-> NoPulse], high |-> [c \in Channel |-> NoPulse]]

-----------------------------------------------------------------------------
(* The writes of a call.                                                   *)

Sleep          == [reg |-> "mode", to |-> "asleep"]
Wake           == [reg |-> "mode", to |-> "awake"]
Prescale       == [reg |-> "rate", to |-> "servo"]
ClearGlobal    == [reg |-> "global"]
Disable(c)     == [reg |-> "fullOff", channel |-> c]
PulseLow(c, p) == [reg |-> "low", channel |-> c, to |-> p]
Enable(c, p)   == [reg |-> "high", channel |-> c, to |-> p]

\* The channels of C in the order of their numbers.
InOrder(C) ==
  LET first[i \in 0 .. Len(ChannelOrder)] ==
        IF i = 0 THEN <<>>
        ELSE IF ChannelOrder[i] \in C THEN Append(first[i - 1], ChannelOrder[i])
        ELSE first[i - 1]
  IN first[Len(ChannelOrder)]

\* disable_channels and force_all_channels_off.
DisableChannels(C) == LET cs == InOrder(C) IN [i \in DOMAIN cs |-> Disable(cs[i])]
ForceAllChannelsOff == [i \in DOMAIN ChannelOrder |-> Disable(ChannelOrder[i])]

\* initialize_safe_pwm.  The four ALL_LED writes are one: they load every
\* channel's registers with zero, the full-off bit included.
InitializeSafePwm ==
  << Sleep, ClearGlobal >> \o ForceAllChannelsOff \o << Prescale, Wake >>

\* Mutant of WriteChannels: the channel enabled before its pulse is complete.
EnableFirst(to) ==
  LET cs == InOrder(DOMAIN to)
  IN DisableChannels(DOMAIN to) \o [i \in DOMAIN cs |-> Enable(cs[i], to[cs[i]])]
                                \o [i \in DOMAIN cs |-> PulseLow(cs[i], to[cs[i]])]

\* write_channels: the named channels off, their low registers, and last the
\* register that enables each of them.
WriteChannels(to) ==
  LET cs == InOrder(DOMAIN to)
  IN DisableChannels(DOMAIN to) \o [i \in DOMAIN cs |-> PulseLow(cs[i], to[cs[i]])]
                                \o [i \in DOMAIN cs |-> Enable(cs[i], to[cs[i]])]

\* ready_status, read at the start of set_channels.
ReadyStatus == chip.mode = "awake" /\ chip.rate = "servo"

-----------------------------------------------------------------------------
\* What one write does to the registers.
Written(w) ==
  CASE w.reg = "mode"    -> [chip EXCEPT !.mode = w.to]
    [] w.reg = "rate"    -> [chip EXCEPT !.rate = w.to]
    [] w.reg = "global"  -> [chip EXCEPT !.fullOff = [c \in Channel |-> FALSE],
                                         !.low = [c \in Channel |-> NoPulse],
                                         !.high = [c \in Channel |-> NoPulse]]
    [] w.reg = "fullOff" -> [chip EXCEPT !.fullOff[w.channel] = TRUE]
    [] w.reg = "low"     -> [chip EXCEPT !.low[w.channel] = w.to]
    [] w.reg = "high"    -> [chip EXCEPT !.high[w.channel] = w.to,
                                         !.fullOff[w.channel] = FALSE]

WriteByte == /\ writes # <<>>
             /\ chip' = Written(Head(writes))
             /\ writes' = Tail(writes)

\* The channels that give a pulse.
Driven == {c \in Channel : chip.mode = "awake" /\ ~chip.fullOff[c]}

\* No servo is ever sent a pulse made of the halves of two positions, or one
\* that does not stand for a position of it: not while a call is under way,
\* nor after one that failed, nor after the process that made it was killed.
NoMixedPulse ==
  \A c \in Driven : /\ chip.low[c] = chip.high[c]
                    /\ chip.low[c] \in (IF c[1] = "rail" THEN RailPosition ELSE Orientation)
=============================================================================
