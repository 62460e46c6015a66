---------------------------- MODULE BenchProofs ----------------------------
(***************************************************************************)
(* What the bench tools never do to the registers of the PWM controller,   *)
(* and what they always do to the cube: for any solutions, whichever write *)
(* fails and whenever a tool is killed.  The first part is about the       *)
(* registers, up to PulsesAreWhole; the second is about the cube, up to    *)
(* MovesAreAsAsked; the third is about the outputs the runtime counts on.  *)
(***************************************************************************)
EXTENDS BenchTools, SequenceTheorems, TLAPS

-----------------------------------------------------------------------------
(* Registers and writes.                                                   *)

Pulse == RailPosition \cup Orientation \cup {NoPulse}

Chip == [mode : {"asleep", "awake"}, rate : {"other", "servo"},
         fullOff : [Channel -> BOOLEAN], low : [Channel -> Pulse], high : [Channel -> Pulse]]

ModeWrite    == [reg : {"mode"}, to : {"asleep", "awake"}]
RateWrite    == [reg : {"rate"}, to : {"servo"}]
GlobalWrite  == [reg : {"global"}]
FullOffWrite == [reg : {"fullOff"}, channel : Channel]
PulseWrite   == [reg : {"low", "high"}, channel : Channel, to : Pulse]
Write == ModeWrite \cup RateWrite \cup GlobalWrite \cup FullOffWrite \cup PulseWrite

\* The positions the servo of a channel has.
Fits(c, p) == p \in (IF c[1] = "rail" THEN RailPosition ELSE Orientation)

LEMMA WriteKinds ==
  ASSUME NEW w \in Write
  PROVE  /\ w.reg \in {"mode", "rate", "global", "fullOff", "low", "high"}
         /\ w.reg = "mode" => w = Sleep \/ w = Wake
         /\ w.reg = "rate" => w.to = "servo"
         /\ w.reg = "fullOff" => w.channel \in Channel /\ w = Disable(w.channel)
         /\ w.reg \in {"low", "high"} => w.channel \in Channel /\ w.to \in Pulse
  BY DEF Write, ModeWrite, RateWrite, GlobalWrite, FullOffWrite, PulseWrite, Sleep, Wake, Disable

LEMMA WritesAre ==
  /\ Sleep \in Write /\ Wake \in Write /\ Prescale \in Write /\ ClearGlobal \in Write
  /\ \A c \in Channel : Disable(c) \in Write
  /\ \A c \in Channel, p \in Pulse : PulseLow(c, p) \in Write /\ Enable(c, p) \in Write
  BY DEF Write, ModeWrite, RateWrite, GlobalWrite, FullOffWrite, PulseWrite, Sleep, Wake,
         Prescale, ClearGlobal, Disable, PulseLow, Enable

LEMMA Registers ==
  /\ Sleep.reg = "mode" /\ Wake.reg = "mode" /\ Prescale.reg = "rate" /\ ClearGlobal.reg = "global"
  /\ Sleep # Wake
  /\ \A c : Disable(c).reg = "fullOff" /\ Disable(c).channel = c
  /\ \A c, p : /\ PulseLow(c, p).reg = "low" /\ PulseLow(c, p).channel = c
               /\ PulseLow(c, p).to = p
               /\ Enable(c, p).reg = "high" /\ Enable(c, p).channel = c /\ Enable(c, p).to = p
  BY DEF Sleep, Wake, Prescale, ClearGlobal, Disable, PulseLow, Enable

-----------------------------------------------------------------------------
(* Writes still to do that do no harm, wherever they stop.                 *)

\* The writes that may switch a channel on.
Clears(w, c) == w.reg = "global" \/ (w.reg = "high" /\ w.channel = c)

\* By the i-th write of ws the channel is off.
OffBy(ch, ws, c, i) ==
  \/ ch.fullOff[c] /\ \A k \in 1 .. (i - 1) : ~Clears(ws[k], c)
  \/ \E j \in 1 .. (i - 1) : /\ ws[j] = Disable(c)
                             /\ \A k \in (j + 1) .. (i - 1) : ~Clears(ws[k], c)

\* By the i-th write of ws the oscillator has stopped.
AsleepBy(ch, ws, i) ==
  \/ ch.mode = "asleep" /\ \A k \in 1 .. (i - 1) : ws[k].reg # "mode"
  \/ \E j \in 1 .. (i - 1) : /\ ws[j] = Sleep
                             /\ \A k \in (j + 1) .. (i - 1) : ws[k].reg # "mode"

KeepsLow(w, c, p) == w.reg # "global" /\ (w.reg = "low" /\ w.channel = c => w.to = p)

\* By the i-th write of ws the low register of the channel holds the pulse p.
LowBy(ch, ws, c, p, i) ==
  \/ ch.low[c] = p /\ \A k \in 1 .. (i - 1) : KeepsLow(ws[k], c, p)
  \/ \E j \in 1 .. (i - 1) : /\ ws[j] = PulseLow(c, p)
                             /\ \A k \in (j + 1) .. (i - 1) : KeepsLow(ws[k], c, p)

HarmlessAt(ch, ws, i) ==
  /\ ws[i].reg = "low" => OffBy(ch, ws, ws[i].channel, i)
  /\ ws[i].reg = "high" => /\ Fits(ws[i].channel, ws[i].to)
                           /\ LowBy(ch, ws, ws[i].channel, ws[i].to, i)
  /\ ws[i].reg = "global" => AsleepBy(ch, ws, i)
  /\ ws[i] = Wake => \A c \in Channel : OffBy(ch, ws, c, i)

Harmless(ch, ws) == \A i \in 1 .. Len(ws) : HarmlessAt(ch, ws, i)

\* Every pulse given is whole.
WholePulses(ch) ==
  \A c \in Channel : ch.mode = "awake" /\ ~ch.fullOff[c] =>
                       ch.low[c] = ch.high[c] /\ Fits(c, ch.low[c])

LEMMA WholePulsesAre == WholePulses(chip) <=> NoMixedPulse
  BY DEF WholePulses, NoMixedPulse, Driven, Fits

PwmInv == chip \in Chip /\ writes \in Seq(Write) /\ WholePulses(chip) /\ Harmless(chip, writes)

\* The write that is done keeps what the ones behind it rely on.
LEMMA OffByLater ==
  ASSUME NEW ch \in Chip, NEW later \in Chip, NEW ws \in Seq(Write), ws # <<>>,
         NEW c \in Channel, NEW i \in 1 .. Len(ws), OffBy(ch, ws, c, i + 1),
         ch.fullOff[c] /\ ~Clears(ws[1], c) => later.fullOff[c],
         ws[1] = Disable(c) => later.fullOff[c]
  PROVE  OffBy(later, Tail(ws), c, i)
<1>1. Len(ws) \in Nat /\ Len(Tail(ws)) = Len(ws) - 1 /\ Len(ws) > 0
      /\ \A k \in 1 .. Len(ws) - 1 : Tail(ws)[k] = ws[k + 1]
  BY HeadTailProperties, LenProperties, EmptySeq
<1>2. CASE ch.fullOff[c] /\ \A k \in 1 .. i : ~Clears(ws[k], c)
  <2>1. later.fullOff[c]
    BY <1>1, <1>2
  <2>2. \A k \in 1 .. i - 1 : ~Clears(Tail(ws)[k], c)
    BY <1>1, <1>2
  <2> QED
    BY <2>1, <2>2 DEF OffBy
<1>3. ASSUME NEW j \in 1 .. i, ws[j] = Disable(c), \A k \in (j + 1) .. i : ~Clears(ws[k], c)
      PROVE  OffBy(later, Tail(ws), c, i)
  <2>1. CASE j = 1
    <3>1. later.fullOff[c]
      BY <1>3, <2>1
    <3>2. \A k \in 1 .. i - 1 : ~Clears(Tail(ws)[k], c)
      BY <1>1, <1>3, <2>1
    <3> QED
      BY <3>1, <3>2 DEF OffBy
  <2>2. CASE j > 1
    <3>1. j - 1 \in 1 .. i - 1 /\ Tail(ws)[j - 1] = Disable(c)
      BY <1>1, <1>3, <2>2
    <3>2. \A k \in (j - 1) + 1 .. i - 1 : ~Clears(Tail(ws)[k], c)
      BY <1>1, <1>3, <2>2
    <3> QED
      BY <3>1, <3>2 DEF OffBy
  <2> QED
    BY <2>1, <2>2
<1>4. i + 1 - 1 = i
  OBVIOUS
<1> QED
  BY <1>2, <1>3, <1>4 DEF OffBy

LEMMA AsleepByLater ==
  ASSUME NEW ch \in Chip, NEW later \in Chip, NEW ws \in Seq(Write), ws # <<>>,
         NEW i \in 1 .. Len(Tail(ws)), AsleepBy(ch, ws, i + 1),
         ch.mode = "asleep" /\ ws[1].reg # "mode" => later.mode = "asleep",
         ws[1] = Sleep => later.mode = "asleep"
  PROVE  AsleepBy(later, Tail(ws), i)
<1>1. Len(ws) \in Nat /\ Len(Tail(ws)) = Len(ws) - 1 /\ Len(ws) > 0
      /\ \A k \in 1 .. Len(ws) - 1 : Tail(ws)[k] = ws[k + 1]
  BY HeadTailProperties, LenProperties, EmptySeq
<1>2. CASE ch.mode = "asleep" /\ \A k \in 1 .. i : ws[k].reg # "mode"
  <2>1. later.mode = "asleep"
    BY <1>1, <1>2
  <2>2. \A k \in 1 .. i - 1 : Tail(ws)[k].reg # "mode"
    BY <1>1, <1>2
  <2> QED
    BY <2>1, <2>2 DEF AsleepBy
<1>3. ASSUME NEW j \in 1 .. i, ws[j] = Sleep, \A k \in (j + 1) .. i : ws[k].reg # "mode"
      PROVE  AsleepBy(later, Tail(ws), i)
  <2>1. CASE j = 1
    <3>1. later.mode = "asleep"
      BY <1>3, <2>1
    <3>2. \A k \in 1 .. i - 1 : Tail(ws)[k].reg # "mode"
      BY <1>1, <1>3, <2>1
    <3> QED
      BY <3>1, <3>2 DEF AsleepBy
  <2>2. CASE j > 1
    <3>1. j - 1 \in 1 .. i - 1 /\ Tail(ws)[j - 1] = Sleep
      BY <1>1, <1>3, <2>2
    <3>2. \A k \in (j - 1) + 1 .. i - 1 : Tail(ws)[k].reg # "mode"
      BY <1>1, <1>3, <2>2
    <3> QED
      BY <3>1, <3>2 DEF AsleepBy
  <2> QED
    BY <2>1, <2>2
<1>4. i + 1 - 1 = i
  OBVIOUS
<1> QED
  BY <1>2, <1>3, <1>4 DEF AsleepBy

LEMMA LowByLater ==
  ASSUME NEW ch \in Chip, NEW later \in Chip, NEW ws \in Seq(Write), ws # <<>>,
         NEW c \in Channel, NEW p \in Pulse,
         NEW i \in 1 .. Len(Tail(ws)), LowBy(ch, ws, c, p, i + 1),
         ch.low[c] = p /\ KeepsLow(ws[1], c, p) => later.low[c] = p,
         ws[1] = PulseLow(c, p) => later.low[c] = p
  PROVE  LowBy(later, Tail(ws), c, p, i)
<1>1. Len(ws) \in Nat /\ Len(Tail(ws)) = Len(ws) - 1 /\ Len(ws) > 0
      /\ \A k \in 1 .. Len(ws) - 1 : Tail(ws)[k] = ws[k + 1]
  BY HeadTailProperties, LenProperties, EmptySeq
<1>2. CASE ch.low[c] = p /\ \A k \in 1 .. i : KeepsLow(ws[k], c, p)
  <2>1. later.low[c] = p
    BY <1>1, <1>2
  <2>2. \A k \in 1 .. i - 1 : KeepsLow(Tail(ws)[k], c, p)
    BY <1>1, <1>2
  <2> QED
    BY <2>1, <2>2 DEF LowBy
<1>3. ASSUME NEW j \in 1 .. i, ws[j] = PulseLow(c, p),
             \A k \in (j + 1) .. i : KeepsLow(ws[k], c, p)
      PROVE  LowBy(later, Tail(ws), c, p, i)
  <2>1. CASE j = 1
    <3>1. later.low[c] = p
      BY <1>3, <2>1
    <3>2. \A k \in 1 .. i - 1 : KeepsLow(Tail(ws)[k], c, p)
      BY <1>1, <1>3, <2>1
    <3> QED
      BY <3>1, <3>2 DEF LowBy
  <2>2. CASE j > 1
    <3>1. j - 1 \in 1 .. i - 1 /\ Tail(ws)[j - 1] = PulseLow(c, p)
      BY <1>1, <1>3, <2>2
    <3>2. \A k \in (j - 1) + 1 .. i - 1 : KeepsLow(Tail(ws)[k], c, p)
      BY <1>1, <1>3, <2>2
    <3> QED
      BY <3>1, <3>2 DEF LowBy
  <2> QED
    BY <2>1, <2>2
<1>4. i + 1 - 1 = i
  OBVIOUS
<1> QED
  BY <1>2, <1>3, <1>4 DEF LowBy

\* What one write does to the registers.
LEMMA WrittenIs ==
  ASSUME chip \in Chip, NEW w \in Write, NEW later, later = Written(w)
  PROVE  /\ w.reg = "mode" => later = [chip EXCEPT !.mode = w.to]
         /\ w.reg = "rate" => later = [chip EXCEPT !.rate = w.to]
         /\ w.reg = "global" => later = [chip EXCEPT !.fullOff = [c \in Channel |-> FALSE],
                                                     !.low = [c \in Channel |-> NoPulse],
                                                     !.high = [c \in Channel |-> NoPulse]]
         /\ w.reg = "fullOff" => later = [chip EXCEPT !.fullOff[w.channel] = TRUE]
         /\ w.reg = "low" => later = [chip EXCEPT !.low[w.channel] = w.to]
         /\ w.reg = "high" => later = [chip EXCEPT !.high[w.channel] = w.to,
                                                   !.fullOff[w.channel] = FALSE]
  BY DEF Written

LEMMA WrittenEffects ==
  ASSUME chip \in Chip, NEW w \in Write, NEW later, later = Written(w)
  PROVE  /\ later \in Chip
         /\ \A c \in Channel : /\ chip.fullOff[c] /\ ~Clears(w, c) => later.fullOff[c]
                               /\ w = Disable(c) => later.fullOff[c]
         /\ chip.mode = "asleep" /\ w.reg # "mode" => later.mode = "asleep"
         /\ w = Sleep => later.mode = "asleep"
         /\ \A c \in Channel, p \in Pulse :
              /\ chip.low[c] = p /\ KeepsLow(w, c, p) => later.low[c] = p
              /\ w = PulseLow(c, p) => later.low[c] = p
<1>1. CASE w.reg = "mode"
  <2>0. w = Sleep \/ w = Wake
    BY <1>1, WriteKinds
  <2>1. PICK m \in {"asleep", "awake"} : m = w.to /\ (w = Sleep => m = "asleep")
    BY <2>0 DEF Sleep, Wake
  <2>2. later = [chip EXCEPT !.mode = m]
    BY <1>1, <2>1, WrittenIs
  <2>3. /\ later \in Chip /\ later.fullOff = chip.fullOff /\ later.low = chip.low
        /\ later.mode = m
    BY <2>2 DEF Chip
  <2> QED
    BY <1>1, <2>1, <2>3, Registers
<1>2. CASE w.reg = "rate"
  <2>1. later = [chip EXCEPT !.rate = w.to] /\ w.to = "servo"
    BY <1>2, WrittenIs, WriteKinds
  <2>2. /\ later \in Chip /\ later.fullOff = chip.fullOff /\ later.low = chip.low
        /\ later.mode = chip.mode
    BY <2>1 DEF Chip
  <2> QED
    BY <1>2, <2>2, Registers
<1>3. CASE w.reg = "global"
  <2>1. PICK off \in [Channel -> BOOLEAN], none \in [Channel -> Pulse] :
          off = [c \in Channel |-> FALSE] /\ none = [c \in Channel |-> NoPulse]
    BY DEF Pulse
  <2>2. later = [chip EXCEPT !.fullOff = off, !.low = none, !.high = none]
    BY <1>3, <2>1, WrittenIs
  <2>3. later \in Chip /\ later.mode = chip.mode
    BY <2>2 DEF Chip
  <2> QED
    BY <1>3, <2>3, Registers DEF Clears, KeepsLow
<1>4. CASE w.reg = "fullOff"
  <2>1. PICK d \in Channel : d = w.channel /\ w = Disable(d)
    BY <1>4, WriteKinds
  <2>2. later = [chip EXCEPT !.fullOff[d] = TRUE]
    BY <1>4, <2>1, WrittenIs
  <2>3. PICK off \in [Channel -> BOOLEAN] : off = [chip.fullOff EXCEPT ![d] = TRUE]
    BY DEF Chip
  <2>4. /\ later \in Chip /\ later.fullOff = off /\ later.low = chip.low
        /\ later.mode = chip.mode
    BY <2>2, <2>3 DEF Chip
  <2>5. \A c \in Channel : chip.fullOff[c] \/ c = d => off[c]
    BY <2>3 DEF Chip
  <2> QED
    BY <1>4, <2>1, <2>4, <2>5, Registers
<1>5. CASE w.reg = "low"
  <2>1. PICK d \in Channel, q \in Pulse : d = w.channel /\ q = w.to
    BY <1>5, WriteKinds
  <2>2. later = [chip EXCEPT !.low[d] = q]
    BY <1>5, <2>1, WrittenIs
  <2>3. PICK low \in [Channel -> Pulse] : low = [chip.low EXCEPT ![d] = q]
    BY DEF Chip
  <2>4. /\ later \in Chip /\ later.fullOff = chip.fullOff /\ later.low = low
        /\ later.mode = chip.mode
    BY <2>2, <2>3 DEF Chip
  <2>5. low[d] = q /\ \A c \in Channel : c # d => low[c] = chip.low[c]
    BY <2>3 DEF Chip
  <2>6. ASSUME NEW c \in Channel, NEW p \in Pulse
        PROVE  /\ chip.low[c] = p /\ KeepsLow(w, c, p) => low[c] = p
               /\ w = PulseLow(c, p) => low[c] = p
    BY <1>5, <2>1, <2>5, Registers DEF KeepsLow
  <2> QED
    BY <1>5, <2>4, <2>6, Registers
<1>6. CASE w.reg = "high"
  <2>1. PICK d \in Channel, q \in Pulse : d = w.channel /\ q = w.to
    BY <1>6, WriteKinds
  <2>2. later = [chip EXCEPT !.high[d] = q, !.fullOff[d] = FALSE]
    <3>1. later = [chip EXCEPT !.high[w.channel] = w.to, !.fullOff[w.channel] = FALSE]
      BY <1>6, WrittenIs
    <3> QED
      BY <2>1, <3>1, Zenon
  <2>3. PICK high \in [Channel -> Pulse], off \in [Channel -> BOOLEAN] :
          high = [chip.high EXCEPT ![d] = q] /\ off = [chip.fullOff EXCEPT ![d] = FALSE]
    BY DEF Chip
  <2>4. /\ later \in Chip /\ later.fullOff = off /\ later.low = chip.low
        /\ later.mode = chip.mode
    BY <2>2, <2>3 DEF Chip
  <2>5. \A c \in Channel : c # d => off[c] = chip.fullOff[c]
    BY <2>3 DEF Chip
  <2> QED
    BY <1>6, <2>1, <2>4, <2>5, Registers DEF Clears
<1> QED
  BY <1>1, <1>2, <1>3, <1>4, <1>5, <1>6, WriteKinds

\* The first write is harmless as it is done.
LEMMA WrittenWhole ==
  ASSUME chip \in Chip, WholePulses(chip), NEW w \in Write, NEW later, later = Written(w),
         w.reg = "low" => chip.fullOff[w.channel],
         w.reg = "high" => Fits(w.channel, w.to) /\ chip.low[w.channel] = w.to,
         w.reg = "global" => chip.mode = "asleep",
         w = Wake => \A c \in Channel : chip.fullOff[c]
  PROVE  WholePulses(later)
<1>1. CASE w.reg = "mode"
  <2>1. later = [chip EXCEPT !.mode = w.to]
    BY <1>1, WrittenIs
  <2>2. later.fullOff = chip.fullOff /\ later.mode = w.to
    BY <2>1 DEF Chip
  <2>3. CASE w = Sleep
    <3>1. later.mode = "asleep"
      BY <2>2, <2>3 DEF Sleep
    <3> QED
      BY <3>1 DEF WholePulses
  <2>4. CASE w = Wake
    <3>1. \A c \in Channel : later.fullOff[c]
      BY <2>2, <2>4
    <3> QED
      BY <3>1 DEF WholePulses
  <2> QED
    BY <1>1, <2>3, <2>4, WriteKinds
<1>2. CASE w.reg = "rate"
  <2>1. later = [chip EXCEPT !.rate = w.to]
    BY <1>2, WrittenIs
  <2>2. /\ later.fullOff = chip.fullOff /\ later.low = chip.low /\ later.high = chip.high
        /\ later.mode = chip.mode
    BY <2>1 DEF Chip
  <2> QED
    BY <2>2 DEF WholePulses
<1>3. CASE w.reg = "global"
  <2>1. PICK off, none :
          off = [c \in Channel |-> FALSE] /\ none = [c \in Channel |-> NoPulse]
    OBVIOUS
  <2>2. later = [chip EXCEPT !.fullOff = off, !.low = none, !.high = none]
    BY <1>3, <2>1, WrittenIs
  <2>3. later.mode = "asleep"
    BY <1>3, <2>2 DEF Chip
  <2> QED
    BY <2>3 DEF WholePulses
<1>4. CASE w.reg = "fullOff"
  <2>1. PICK d \in Channel : later = [chip EXCEPT !.fullOff[d] = TRUE]
    BY <1>4, WrittenIs, WriteKinds
  <2>2. PICK off : off = [chip.fullOff EXCEPT ![d] = TRUE]
    OBVIOUS
  <2>3. /\ later.fullOff = off /\ later.low = chip.low /\ later.high = chip.high
        /\ later.mode = chip.mode
    BY <2>1, <2>2 DEF Chip
  <2>4. \A c \in Channel : ~off[c] => ~chip.fullOff[c]
    BY <2>2 DEF Chip
  <2> QED
    BY <2>3, <2>4 DEF WholePulses
<1>5. CASE w.reg = "low"
  <2>1. PICK d \in Channel, q \in Pulse : d = w.channel /\ q = w.to
    BY <1>5, WriteKinds
  <2>2. later = [chip EXCEPT !.low[d] = q]
    BY <1>5, <2>1, WrittenIs
  <2>3. PICK low : low = [chip.low EXCEPT ![d] = q]
    OBVIOUS
  <2>4. /\ later.fullOff = chip.fullOff /\ later.low = low /\ later.high = chip.high
        /\ later.mode = chip.mode
    BY <2>2, <2>3 DEF Chip
  <2>5. \A c \in Channel : c # d => low[c] = chip.low[c]
    BY <2>3 DEF Chip
  <2>6. chip.fullOff[d]
    BY <1>5, <2>1
  <2> QED
    BY <2>4, <2>5, <2>6 DEF WholePulses
<1>6. CASE w.reg = "high"
  <2>1. PICK d \in Channel, q \in Pulse : d = w.channel /\ q = w.to
    BY <1>6, WriteKinds
  <2>2. later = [chip EXCEPT !.high[d] = q, !.fullOff[d] = FALSE]
    <3>1. later = [chip EXCEPT !.high[w.channel] = w.to, !.fullOff[w.channel] = FALSE]
      BY <1>6, WrittenIs
    <3> QED
      BY <2>1, <3>1, Zenon
  <2>3. PICK high, off :
          high = [chip.high EXCEPT ![d] = q] /\ off = [chip.fullOff EXCEPT ![d] = FALSE]
    OBVIOUS
  <2>4. /\ later.fullOff = off /\ later.low = chip.low /\ later.high = high
        /\ later.mode = chip.mode
    BY <2>2, <2>3 DEF Chip
  <2>5. /\ high[d] = q
        /\ \A c \in Channel : c # d => off[c] = chip.fullOff[c] /\ high[c] = chip.high[c]
    BY <2>3 DEF Chip
  <2>6. Fits(d, q) /\ chip.low[d] = q
    BY <1>6, <2>1
  <2> QED
    BY <2>4, <2>5, <2>6 DEF WholePulses
<1> QED
  BY <1>1, <1>2, <1>3, <1>4, <1>5, <1>6, WriteKinds

\* The first of harmless writes.
LEMMA FirstHarmless ==
  ASSUME NEW ch, NEW ws, HarmlessAt(ch, ws, 1), NEW w \in Write, w = ws[1]
  PROVE  /\ w.reg = "low" => ch.fullOff[w.channel]
         /\ w.reg = "high" => Fits(w.channel, w.to) /\ ch.low[w.channel] = w.to
         /\ w.reg = "global" => ch.mode = "asleep"
         /\ w = Wake => \A c \in Channel : ch.fullOff[c]
<1>1. 1 .. (1 - 1) = {}
  OBVIOUS
<1> QED
  BY <1>1 DEF HarmlessAt, OffBy, LowBy, AsleepBy

LEMMA WriteByteKeepsPulses == ASSUME PwmInv, WriteByte PROVE PwmInv'
<1>1. PICK ch, ws, later, w : /\ ch = chip /\ ws = writes /\ later = chip' /\ w = Head(writes)
  OBVIOUS
<1>2. /\ ws \in Seq(Write) /\ ws # <<>> /\ writes' = Tail(ws) /\ later = Written(w)
      /\ ch \in Chip /\ WholePulses(ch) /\ Harmless(ch, ws)
  BY <1>1 DEF PwmInv, WriteByte
<1>3. /\ Len(ws) \in Nat /\ Len(Tail(ws)) = Len(ws) - 1 /\ Len(ws) > 0 /\ Tail(ws) \in Seq(Write)
      /\ \A k \in 1 .. Len(ws) - 1 : Tail(ws)[k] = ws[k + 1]
      /\ w = ws[1] /\ w \in Write
      /\ \A k \in 1 .. Len(ws) : ws[k] \in Write
  BY <1>1, <1>2, HeadTailProperties, LenProperties, EmptySeq, ElementOfSeq
<1>4. /\ later \in Chip
      /\ \A c \in Channel : /\ ch.fullOff[c] /\ ~Clears(w, c) => later.fullOff[c]
                            /\ w = Disable(c) => later.fullOff[c]
      /\ ch.mode = "asleep" /\ w.reg # "mode" => later.mode = "asleep"
      /\ w = Sleep => later.mode = "asleep"
      /\ \A c \in Channel, p \in Pulse :
           /\ ch.low[c] = p /\ KeepsLow(w, c, p) => later.low[c] = p
           /\ w = PulseLow(c, p) => later.low[c] = p
  BY <1>1, <1>2, <1>3, WrittenEffects
<1>5. WholePulses(later)
  <2>1. HarmlessAt(ch, ws, 1)
    BY <1>2, <1>3 DEF Harmless
  <2> QED
    BY <1>1, <1>2, <1>3, <2>1, FirstHarmless, WrittenWhole
<1>6. ASSUME NEW i \in 1 .. Len(Tail(ws)) PROVE HarmlessAt(later, Tail(ws), i)
  <2>1. PICK v \in Write : v = Tail(ws)[i] /\ v = ws[i + 1]
    BY <1>3
  <2>2. HarmlessAt(ch, ws, i + 1)
    BY <1>2, <1>3 DEF Harmless
  <2>3. \A c \in Channel : OffBy(ch, ws, c, i + 1) => OffBy(later, Tail(ws), c, i)
    BY <1>2, <1>3, <1>4, OffByLater
  <2>4. \A c \in Channel, p \in Pulse :
          LowBy(ch, ws, c, p, i + 1) => LowBy(later, Tail(ws), c, p, i)
    BY <1>2, <1>3, <1>4, LowByLater
  <2>5. AsleepBy(ch, ws, i + 1) => AsleepBy(later, Tail(ws), i)
    BY <1>2, <1>3, <1>4, AsleepByLater
  <2>6. v.reg \in {"low", "high"} => v.channel \in Channel /\ v.to \in Pulse
    BY WriteKinds
  <2> QED
    BY <2>1, <2>2, <2>3, <2>4, <2>5, <2>6 DEF HarmlessAt
<1> QED
  BY <1>1, <1>2, <1>3, <1>4, <1>5, <1>6 DEF PwmInv, Harmless

-----------------------------------------------------------------------------
(* The writes of the calls.                                                *)

\* What InOrder has of the first n channels.
FirstOf(f, C, n) ==
  f = [i \in 0 .. n |-> IF i = 0 THEN <<>>
                        ELSE IF ChannelOrder[i] \in C THEN Append(f[i - 1], ChannelOrder[i])
                        ELSE f[i - 1]]

LEMMA OneMoreChannel ==
  ASSUME NEW C, NEW n \in Nat, NEW f, FirstOf(f, C, n)
  PROVE  \E g : FirstOf(g, C, n + 1)
<1> DEFINE Next1(i, before) == IF ChannelOrder[i] \in C THEN Append(before, ChannelOrder[i]) ELSE before
           g == [i \in 0 .. n + 1 |-> IF i = n + 1 THEN Next1(n + 1, f[n]) ELSE f[i]]
<1>1. f = [i \in 0 .. n |-> IF i = 0 THEN <<>> ELSE Next1(i, f[i - 1])]
  BY Zenon DEF FirstOf
<1> HIDE DEF Next1
<1>2. \A i \in 0 .. n : g[i] = f[i]
  OBVIOUS
<1>3. ASSUME NEW i \in 0 .. n + 1
      PROVE  g[i] = IF i = 0 THEN <<>> ELSE Next1(i, g[i - 1])
  <2>1. CASE i = 0
    BY <1>1, <1>2, <2>1
  <2>2. CASE i \in 1 .. n
    <3>1. f[i] = Next1(i, f[i - 1]) /\ g[i] = f[i] /\ g[i - 1] = f[i - 1]
      BY <1>1, <1>2, <2>2
    <3> QED
      BY <2>2, <3>1
  <2>3. CASE i = n + 1
    <3>1. g[i] = Next1(n + 1, f[n]) /\ i - 1 = n /\ g[n] = f[n] /\ i # 0
      BY <1>2, <2>3
    <3> QED
      BY <2>3, <3>1
  <2> QED
    BY <2>1, <2>2, <2>3
<1>4. g = [i \in 0 .. n + 1 |-> IF i = 0 THEN <<>> ELSE Next1(i, g[i - 1])]
  BY <1>3
<1>5. PICK h : h = [i \in 0 .. n + 1 |-> IF i = 0 THEN <<>> ELSE Next1(i, h[i - 1])]
  BY <1>4
<1> QED
  BY <1>5, Zenon DEF FirstOf, Next1

LEMMA ChannelsInOrder == \A c \in Channel : \E j \in 1 .. 8 : ChannelOrder[j] = c
<1>1. PICK o : o = ChannelOrder
  OBVIOUS
<1>2. /\ o[1] = << "gripper", "Right" >> /\ o[2] = << "gripper", "Bottom" >>
      /\ o[3] = << "gripper", "Top" >> /\ o[4] = << "gripper", "Left" >>
      /\ o[5] = << "rail", "Top" >> /\ o[6] = << "rail", "Left" >>
      /\ o[7] = << "rail", "Bottom" >> /\ o[8] = << "rail", "Right" >>
  BY <1>1 DEF ChannelOrder
<1>3. \A c \in Channel : \/ c = << "gripper", "Right" >> \/ c = << "gripper", "Bottom" >>
                         \/ c = << "gripper", "Top" >> \/ c = << "gripper", "Left" >>
                         \/ c = << "rail", "Top" >> \/ c = << "rail", "Left" >>
                         \/ c = << "rail", "Bottom" >> \/ c = << "rail", "Right" >>
  BY DEF Channel, Axis
<1>4. /\ 1 \in 1 .. 8 /\ 2 \in 1 .. 8 /\ 3 \in 1 .. 8 /\ 4 \in 1 .. 8
      /\ 5 \in 1 .. 8 /\ 6 \in 1 .. 8 /\ 7 \in 1 .. 8 /\ 8 \in 1 .. 8
  OBVIOUS
<1> QED
  BY <1>1, <1>2, <1>3, <1>4

LEMMA EightChannels == Len(ChannelOrder) = 8 /\ \A i \in 1 .. 8 : ChannelOrder[i] \in Channel
  BY DEF ChannelOrder, Channel, Axis

LEMMA InOrderExists == ASSUME NEW C PROVE \E f : FirstOf(f, C, 8)
<1>0. \E f : FirstOf(f, C, 0)
  <2> DEFINE f == [i \in 0 .. 0 |-> <<>>]
  <2>1. f = [i \in 0 .. 0 |-> IF i = 0 THEN <<>>
                              ELSE IF ChannelOrder[i] \in C THEN Append(f[i - 1], ChannelOrder[i])
                              ELSE f[i - 1]]
    OBVIOUS
  <2> QED
    BY <2>1 DEF FirstOf
<1> DEFINE Has(n) == \E f : FirstOf(f, C, n)
<1>1. ASSUME NEW k \in Nat, Has(k) PROVE Has(k + 1)
  BY <1>1, OneMoreChannel
<1>2. Has(0)
  BY <1>0
<1> HIDE DEF Has
<1>3. Has(1) /\ Has(2) /\ Has(3) /\ Has(4)
  BY <1>1, <1>2
<1>4. Has(5) /\ Has(6) /\ Has(7) /\ Has(8)
  BY <1>1, <1>3
<1> QED
  BY <1>4 DEF Has

\* The channels of a set in order, channel by channel.
LEMMA InOrderSteps ==
  ASSUME NEW C
  PROVE  \E f : /\ f[0] = <<>> /\ InOrder(C) = f[8]
               /\ \A i \in 1 .. 8 : f[i] = IF ChannelOrder[i] \in C THEN Append(f[i - 1], ChannelOrder[i])
                                           ELSE f[i - 1]
<1>1. PICK h : FirstOf(h, C, 8)
  BY InOrderExists
<1>2. h = [i \in 0 .. 8 |-> IF i = 0 THEN <<>>
                            ELSE IF ChannelOrder[i] \in C THEN Append(h[i - 1], ChannelOrder[i])
                            ELSE h[i - 1]]
  BY <1>1, Zenon DEF FirstOf
<1>3. PICK f : /\ f = [i \in 0 .. 8 |-> IF i = 0 THEN <<>>
                                ELSE IF ChannelOrder[i] \in C THEN Append(f[i - 1], ChannelOrder[i])
                                ELSE f[i - 1]]
               /\ InOrder(C) = f[8]
  <2>1. PICK n : n = 8 /\ n = Len(ChannelOrder)
    BY EightChannels
  <2>2. \E f : f = [i \in 0 .. n |-> IF i = 0 THEN <<>>
                            ELSE IF ChannelOrder[i] \in C THEN Append(f[i - 1], ChannelOrder[i])
                            ELSE f[i - 1]]
    BY <1>2, <2>1
  <2>3. \E f : /\ f = [i \in 0 .. n |-> IF i = 0 THEN <<>>
                                ELSE IF ChannelOrder[i] \in C THEN Append(f[i - 1], ChannelOrder[i])
                                ELSE f[i - 1]]
               /\ InOrder(C) = f[n]
    BY <2>1, <2>2 DEF InOrder
  <2> QED
    BY <2>1, <2>3
<1>4. f[0] = <<>>
  BY <1>3
<1>5. ASSUME NEW i \in 1 .. 8
      PROVE  f[i] = IF ChannelOrder[i] \in C THEN Append(f[i - 1], ChannelOrder[i]) ELSE f[i - 1]
  <2>1. i \in 0 .. 8 /\ i # 0
    OBVIOUS
  <2> QED
    BY <1>3, <2>1, Zenon
<1> QED
  BY <1>3, <1>4, <1>5

\* They are in the set, and they are all of it.
LEMMA InOrderHas ==
  ASSUME NEW C
  PROVE  /\ InOrder(C) \in Seq(C)
         /\ \A c \in C \cap Channel : \E i \in 1 .. Len(InOrder(C)) : InOrder(C)[i] = c
<1>1. PICK f : /\ f[0] = <<>> /\ InOrder(C) = f[8]
               /\ \A i \in 1 .. 8 : f[i] = IF ChannelOrder[i] \in C THEN Append(f[i - 1], ChannelOrder[i])
                                           ELSE f[i - 1]
  BY InOrderSteps, Zenon
<1> DEFINE Has(s, c)  == \E i \in 1 .. Len(s) : s[i] = c
           Done(i)    == /\ f[i] \in Seq(C)
                         /\ \A j \in 1 .. i : ChannelOrder[j] \in C => Has(f[i], ChannelOrder[j])
<1>2. Done(0)
  BY <1>1
<1>3. ASSUME NEW i \in 1 .. 8, Done(i - 1) PROVE Done(i)
  <2>0. PICK d : d = ChannelOrder[i]
    OBVIOUS
  <2>1. PICK s \in Seq(C) : s = f[i - 1] /\ d = ChannelOrder[i]
    BY <1>3, <2>0
  <2>2. \A j \in 1 .. i - 1 : ChannelOrder[j] \in C => Has(s, ChannelOrder[j])
    BY <1>3, <2>1
  <2>3. CASE d \in C
    <3>1. PICK t : t = Append(s, d)
      OBVIOUS
    <3>2. /\ t \in Seq(C) /\ Len(t) = Len(s) + 1 /\ Len(s) \in Nat /\ t[Len(s) + 1] = d
          /\ \A k \in 1 .. Len(s) : t[k] = s[k]
      BY <2>3, <3>1, AppendProperties
    <3>3. f[i] = t
      BY <1>1, <2>1, <2>3, <3>1
    <3>4. \A c : Has(s, c) => Has(t, c)
      BY <3>2
    <3>5. Has(t, d)
      BY <3>2
    <3>6. ASSUME NEW j \in 1 .. i, ChannelOrder[j] \in C PROVE Has(t, ChannelOrder[j])
      <4>1. CASE j = i
        BY <2>1, <3>5, <4>1
      <4>2. CASE j # i
        <5>1. j \in 1 .. i - 1
          BY <4>2
        <5>2. Has(s, ChannelOrder[j])
          BY <2>2, <3>6, <5>1
        <5> QED
          BY <3>4, <5>2
      <4> QED
        BY <4>1, <4>2
    <3> QED
      BY <3>2, <3>3, <3>6
  <2>4. CASE d \notin C
    <3>1. f[i] = s
      BY <1>1, <2>1, <2>4
    <3>2. \A j \in 1 .. i : ChannelOrder[j] \in C => j \in 1 .. i - 1
      BY <2>1, <2>4
    <3> QED
      BY <2>2, <3>1, <3>2
  <2> QED
    BY <2>3, <2>4
<1>4. Done(1) /\ Done(2) /\ Done(3) /\ Done(4)
  <2> HIDE DEF Done
  <2>1. \A i \in 1 .. 8 : Done(i - 1) => Done(i)
    BY <1>3
  <2>2. Done(0) => Done(1)
    BY <2>1
  <2>3. (Done(1) => Done(2)) /\ (Done(2) => Done(3)) /\ (Done(3) => Done(4))
    BY <2>1
  <2> QED
    BY <1>2, <2>2, <2>3
<1>5. Done(5) /\ Done(6) /\ Done(7) /\ Done(8)
  <2> HIDE DEF Done
  <2>1. \A i \in 1 .. 8 : Done(i - 1) => Done(i)
    BY <1>3
  <2>2. (Done(4) => Done(5)) /\ (Done(5) => Done(6)) /\ (Done(6) => Done(7)) /\ (Done(7) => Done(8))
    BY <2>1
  <2> QED
    BY <1>4, <2>2
<1>6. \A c \in Channel : \E j \in 1 .. 8 : ChannelOrder[j] = c
  BY ChannelsInOrder
<1>7. ASSUME NEW c \in C \cap Channel PROVE Has(f[8], c)
  <2>1. PICK j \in 1 .. 8 : ChannelOrder[j] = c
    BY <1>6
  <2>2. Has(f[8], ChannelOrder[j])
    BY <1>5, <2>1
  <2> QED
    BY <2>1, <2>2
<1>8. f[8] \in Seq(C)
  BY <1>5
<1> QED
  BY <1>1, <1>7, <1>8

LEMMA OnlyDisables ==
  ASSUME NEW ch, NEW cs \in Seq(Channel), NEW ws, ws = [i \in DOMAIN cs |-> Disable(cs[i])]
  PROVE  ws \in Seq(Write) /\ Harmless(ch, ws)
<1>1. PICK n \in Nat : n = Len(cs) /\ DOMAIN cs = 1 .. n
  BY LenProperties
<1>2. ws = [i \in 1 .. n |-> Disable(cs[i])]
  BY <1>1
<1>3. \A i \in 1 .. n : cs[i] \in Channel /\ ws[i] = Disable(cs[i]) /\ ws[i] \in Write
  BY <1>1, <1>2, WritesAre, ElementOfSeq
<1>4. ws \in Seq(Write) /\ Len(ws) = n
  BY <1>2, <1>3
<1>5. ASSUME NEW i \in 1 .. n PROVE HarmlessAt(ch, ws, i)
  <2>1. ws[i].reg = "fullOff" /\ Wake.reg # "fullOff"
    BY <1>3, Registers
  <2> QED
    BY <2>1 DEF HarmlessAt
<1> QED
  BY <1>4, <1>5 DEF Harmless

LEMMA DisablingIsHarmless ==
  ASSUME NEW ch, NEW C \in SUBSET Channel
  PROVE  DisableChannels(C) \in Seq(Write) /\ Harmless(ch, DisableChannels(C))
<1>1. PICK cs \in Seq(Channel) : cs = InOrder(C)
  BY InOrderHas
<1> QED
  BY <1>1, OnlyDisables DEF DisableChannels

LEMMA AllOffIsHarmless ==
  ASSUME NEW ch
  PROVE  ForceAllChannelsOff \in Seq(Write) /\ Harmless(ch, ForceAllChannelsOff)
<1>1. ChannelOrder \in Seq(Channel)
  BY DEF ChannelOrder, Channel, Axis
<1> QED
  BY <1>1, OnlyDisables DEF ForceAllChannelsOff

LEMMA ListIs ==
  ASSUME NEW S, NEW n \in Nat, NEW f \in [1 .. n -> S]
  PROVE  f \in Seq(S) /\ Len(f) = n
  OBVIOUS

\* A sequence made of m writes and n writes.
Joins(ab, a, m, b, n) ==
  /\ ab \in Seq(Write) /\ Len(ab) = m + n
  /\ \A i \in 1 .. m : ab[i] = a[i]
  /\ \A i \in 1 .. n : ab[m + i] = b[i]

LEMMA TwoInOne ==
  ASSUME NEW a \in Seq(Write), NEW b \in Seq(Write), NEW m \in Nat, NEW n \in Nat,
         Len(a) = m, Len(b) = n
  PROVE  Joins(a \o b, a, m, b, n)
<1>1. /\ a \o b \in Seq(Write) /\ Len(a \o b) = m + n
      /\ \A i \in 1 .. m + n : (a \o b)[i] = IF i <= m THEN a[i] ELSE b[i - m]
  BY ConcatProperties
<1>2. \A i \in 1 .. m : i \in 1 .. m + n /\ i <= m
  OBVIOUS
<1>3. \A i \in 1 .. n : m + i \in 1 .. m + n /\ ~(m + i <= m) /\ (m + i) - m = i
  OBVIOUS
<1> QED
  BY <1>1, <1>2, <1>3 DEF Joins

\* What write_channels writes, place by place: n disables, n low and n high registers.
SetsChannels(ws, to, cs, n) ==
  /\ ws \in Seq(Write) /\ Len(ws) = n + n + n
  /\ \A i \in 1 .. n : /\ cs[i] \in DOMAIN to
                       /\ ws[i] = Disable(cs[i])
                       /\ ws[n + i] = PulseLow(cs[i], to[cs[i]])
                       /\ ws[n + n + i] = Enable(cs[i], to[cs[i]])
  /\ \A c \in DOMAIN to : \E i \in 1 .. n : cs[i] = c

LEMMA WriteChannelsIs ==
  ASSUME NEW to, DOMAIN to \in SUBSET Channel, \A c \in DOMAIN to : to[c] \in Pulse,
         NEW ws, ws = WriteChannels(to)
  PROVE  \E cs \in Seq(DOMAIN to), n \in Nat : SetsChannels(ws, to, cs, n)
<1>1. PICK cs \in Seq(DOMAIN to) : cs = InOrder(DOMAIN to)
  BY InOrderHas
<1>2. PICK n \in Nat : n = Len(cs) /\ DOMAIN cs = 1 .. n
  BY LenProperties
<1>3. \A i \in 1 .. n : cs[i] \in DOMAIN to
  BY <1>2, ElementOfSeq
<1>4. PICK off, low, high : /\ off = [i \in 1 .. n |-> Disable(cs[i])]
                            /\ low = [i \in 1 .. n |-> PulseLow(cs[i], to[cs[i]])]
                            /\ high = [i \in 1 .. n |-> Enable(cs[i], to[cs[i]])]
  OBVIOUS
<1>5. ws = off \o low \o high
  BY <1>1, <1>2, <1>4 DEF WriteChannels, DisableChannels
<1>6. \A i \in 1 .. n : off[i] \in Write /\ low[i] \in Write /\ high[i] \in Write
  BY <1>3, <1>4, WritesAre
<1>7. /\ off \in Seq(Write) /\ low \in Seq(Write) /\ high \in Seq(Write)
      /\ Len(off) = n /\ Len(low) = n /\ Len(high) = n
  <2>1. off \in [1 .. n -> Write] /\ low \in [1 .. n -> Write] /\ high \in [1 .. n -> Write]
    BY <1>4, <1>6
  <2> QED
    BY <2>1, ListIs
<1>8. PICK front \in Seq(Write) :
        /\ front = off \o low /\ Len(front) = n + n
        /\ \A i \in 1 .. n : front[i] = off[i] /\ front[n + i] = low[i]
  <2>1. PICK front : front = off \o low
    OBVIOUS
  <2>2. Joins(front, off, n, low, n)
    BY <1>7, <2>1, TwoInOne
  <2> QED
    BY <2>1, <2>2 DEF Joins
<1>9. /\ ws \in Seq(Write) /\ Len(ws) = (n + n) + n
      /\ \A i \in 1 .. n + n : ws[i] = front[i]
      /\ \A i \in 1 .. n : ws[(n + n) + i] = high[i]
  <2>1. ws = front \o high
    BY <1>5, <1>8
  <2>2. n + n \in Nat
    OBVIOUS
  <2>3. Joins(ws, front, n + n, high, n)
    BY <1>7, <1>8, <2>1, <2>2, TwoInOne
  <2> QED
    BY <2>3, Zenon DEF Joins
<1>10. ASSUME NEW i \in 1 .. n
       PROVE  ws[i] = off[i] /\ ws[n + i] = low[i] /\ ws[n + n + i] = high[i]
  <2>1. i \in 1 .. n + n /\ n + i \in 1 .. n + n
    OBVIOUS
  <2> QED
    BY <1>8, <1>9, <2>1
<1>11. SetsChannels(ws, to, cs, n)
  <2>1. Len(ws) = n + n + n
    BY <1>9
  <2>2. ASSUME NEW i \in 1 .. n
        PROVE  /\ ws[i] = Disable(cs[i])
               /\ ws[n + i] = PulseLow(cs[i], to[cs[i]])
               /\ ws[n + n + i] = Enable(cs[i], to[cs[i]])
    BY <1>4, <1>10
  <2>3. \A c \in DOMAIN to : \E i \in 1 .. n : cs[i] = c
    BY <1>1, <1>2, InOrderHas
  <2> QED
    BY <1>3, <1>9, <2>1, <2>2, <2>3 DEF SetsChannels
<1> QED
  BY <1>11

\* set_channels never sends half a pulse.
LEMMA SettingIsHarmless ==
  ASSUME NEW ch, NEW to, DOMAIN to \in SUBSET Channel, \A c \in DOMAIN to : Fits(c, to[c])
  PROVE  WriteChannels(to) \in Seq(Write) /\ Harmless(ch, WriteChannels(to))
<1>1. \A c \in DOMAIN to : to[c] \in Pulse
  BY DEF Fits, Pulse
<1>2. PICK ws : ws = WriteChannels(to)
  OBVIOUS
<1>0. PICK cs \in Seq(DOMAIN to), n \in Nat : SetsChannels(ws, to, cs, n)
  BY <1>1, <1>2, WriteChannelsIs
<1>3. /\ ws \in Seq(Write) /\ Len(ws) = n + n + n
      /\ \A i \in 1 .. n : /\ cs[i] \in DOMAIN to
                           /\ ws[i] = Disable(cs[i])
                           /\ ws[n + i] = PulseLow(cs[i], to[cs[i]])
                           /\ ws[n + n + i] = Enable(cs[i], to[cs[i]])
  BY <1>0, Zenon DEF SetsChannels
<1>4. \A i \in 1 .. n + n + n : i \in 1 .. n \/ (\E k \in 1 .. n : i = n + k)
                                             \/ (\E k \in 1 .. n : i = n + n + k)
  <2>1. ASSUME NEW i \in 1 .. n + n + n, ~(i \in 1 .. n), i <= n + n
        PROVE  \E k \in 1 .. n : i = n + k
    <3>1. i - n \in 1 .. n /\ i = n + (i - n)
      BY <2>1
    <3> QED
      BY <3>1
  <2>2. ASSUME NEW i \in 1 .. n + n + n, i > n + n PROVE \E k \in 1 .. n : i = n + n + k
    <3>1. i - (n + n) \in 1 .. n /\ i = n + n + (i - (n + n))
      BY <2>2
    <3> QED
      BY <3>1
  <2> QED
    BY <2>1, <2>2
<1>5. \A i \in 1 .. n : /\ ws[i].reg = "fullOff"
                        /\ ws[n + i].reg = "low" /\ ws[n + i].channel = cs[i]
                        /\ ws[n + i].to = to[cs[i]]
                        /\ ws[n + n + i].reg = "high" /\ ws[n + n + i].channel = cs[i]
                        /\ ws[n + n + i].to = to[cs[i]]
  BY <1>3, Registers
<1>6. Wake.reg = "mode"
  BY Registers
<1>7. ASSUME NEW i \in 1 .. n PROVE HarmlessAt(ch, ws, i)
  BY <1>5, <1>6, <1>7 DEF HarmlessAt
<1>8. ASSUME NEW k \in 1 .. n PROVE HarmlessAt(ch, ws, n + k)
  <2>1. \A j \in 1 .. (n + k) - 1 : ~Clears(ws[j], cs[k])
    <3>1. ASSUME NEW j \in 1 .. (n + k) - 1 PROVE ws[j].reg \in {"fullOff", "low"}
      <4>1. j \in 1 .. n \/ \E i \in 1 .. n : j = n + i
        <5>1. ~\E i \in 1 .. n : j = n + n + i
          OBVIOUS
        <5>2. j \in 1 .. n + n + n
          OBVIOUS
        <5> QED
          BY <1>4, <5>1, <5>2
      <4> QED
        BY <1>5, <4>1
    <3> QED
      BY <3>1 DEF Clears
  <2>2. k \in 1 .. (n + k) - 1 /\ \A j \in (k + 1) .. (n + k) - 1 : j \in 1 .. (n + k) - 1
    OBVIOUS
  <2>3. OffBy(ch, ws, cs[k], n + k)
    BY <1>3, <2>1, <2>2 DEF OffBy
  <2> QED
    BY <1>5, <1>6, <2>3 DEF HarmlessAt
<1>9. ASSUME NEW k \in 1 .. n PROVE HarmlessAt(ch, ws, n + n + k)
  <2>1. ASSUME NEW j \in 1 .. (n + n + k) - 1 PROVE KeepsLow(ws[j], cs[k], to[cs[k]])
    <3>1. j \in 1 .. n \/ (\E i \in 1 .. n : j = n + i) \/ (\E i \in 1 .. n : j = n + n + i)
      <4>1. j \in 1 .. n + n + n
        OBVIOUS
      <4> QED
        BY <1>4, <4>1
    <3>2. CASE j \in 1 .. n
      BY <1>5, <3>2 DEF KeepsLow
    <3>3. ASSUME NEW i \in 1 .. n, j = n + i PROVE KeepsLow(ws[j], cs[k], to[cs[k]])
      <4>1. ws[j].reg = "low" /\ ws[j].channel = cs[i] /\ ws[j].to = to[cs[i]]
        BY <1>5, <3>3
      <4> QED
        BY <4>1 DEF KeepsLow
    <3>4. ASSUME NEW i \in 1 .. n, j = n + n + i PROVE KeepsLow(ws[j], cs[k], to[cs[k]])
      <4>1. ws[j].reg = "high"
        BY <1>5, <3>4
      <4> QED
        BY <4>1 DEF KeepsLow
    <3> QED
      BY <3>1, <3>2, <3>3, <3>4
  <2>2. /\ n + k \in 1 .. (n + n + k) - 1
        /\ \A j \in (n + k + 1) .. (n + n + k) - 1 : j \in 1 .. (n + n + k) - 1
    OBVIOUS
  <2>3. LowBy(ch, ws, cs[k], to[cs[k]], n + n + k)
    BY <1>3, <2>1, <2>2 DEF LowBy
  <2>4. Fits(cs[k], to[cs[k]])
    BY <1>3
  <2> QED
    BY <1>5, <1>6, <2>3, <2>4 DEF HarmlessAt
<1>10. Harmless(ch, ws)
  <2>1. ASSUME NEW i \in 1 .. n + n + n PROVE HarmlessAt(ch, ws, i)
    BY <1>4, <1>7, <1>8, <1>9, Zenon
  <2> QED
    BY <1>3, <2>1 DEF Harmless
<1> QED
  BY <1>2, <1>3, <1>10

\* initialize_safe_pwm stops the oscillator before it clears the registers,
\* and starts it when every channel is off.
LEMMA InitializingIsHarmless ==
  ASSUME NEW ch
  PROVE  InitializeSafePwm \in Seq(Write) /\ Harmless(ch, InitializeSafePwm)
<1>1. PICK off \in Seq(Write) : off = ForceAllChannelsOff
  BY AllOffIsHarmless
<1>2. Len(off) = 8 /\ \A i \in 1 .. 8 : off[i] = Disable(ChannelOrder[i])
  <2>1. ChannelOrder \in Seq(Channel)
    BY DEF ChannelOrder, Channel, Axis
  <2>2. DOMAIN ChannelOrder = 1 .. 8
    BY <2>1, EightChannels, LenProperties
  <2>3. off = [i \in 1 .. 8 |-> Disable(ChannelOrder[i])]
    BY <1>1, <2>2 DEF ForceAllChannelsOff
  <2> QED
    BY <2>3
<1>3. PICK first, last : first = << Sleep, ClearGlobal >> /\ last = << Prescale, Wake >>
  OBVIOUS
<1>4. PICK ws : ws = InitializeSafePwm
  OBVIOUS
<1>5. /\ first \in Seq(Write) /\ last \in Seq(Write) /\ Len(first) = 2 /\ Len(last) = 2
      /\ first[1] = Sleep /\ first[2] = ClearGlobal /\ last[1] = Prescale /\ last[2] = Wake
  <2>1. first \in Seq(Write) /\ last \in Seq(Write)
    BY <1>3, WritesAre
  <2> QED
    BY <1>3, <2>1
<1>6. PICK front \in Seq(Write) :
        /\ front = first \o off /\ Len(front) = 10
        /\ front[1] = Sleep /\ front[2] = ClearGlobal
        /\ \A i \in 1 .. 8 : front[2 + i] = off[i]
  <2>1. PICK front : front = first \o off
    OBVIOUS
  <2>2. Joins(front, first, 2, off, 8)
    BY <1>2, <1>5, <2>1, TwoInOne
  <2>3. 1 \in 1 .. 2 /\ 2 \in 1 .. 2 /\ 2 + 8 = 10
    OBVIOUS
  <2>4. front[1] = Sleep /\ front[2] = ClearGlobal /\ Len(front) = 10 /\ front \in Seq(Write)
        /\ \A i \in 1 .. 8 : front[2 + i] = off[i]
    BY <1>5, <2>2, <2>3, Zenon DEF Joins
  <2> QED
    BY <2>1, <2>4, Zenon
<1>7. /\ ws \in Seq(Write) /\ Len(ws) = 12
      /\ ws[1] = Sleep /\ ws[2] = ClearGlobal /\ ws[11] = Prescale /\ ws[12] = Wake
      /\ \A i \in 1 .. 8 : ws[i + 2] = off[i]
  <2>1. ws = front \o last
    BY <1>1, <1>3, <1>4, <1>6, Zenon DEF InitializeSafePwm
  <2>2. /\ ws \in Seq(Write) /\ Len(ws) = 12
        /\ \A i \in 1 .. 10 : ws[i] = front[i]
        /\ \A i \in 1 .. 2 : ws[10 + i] = last[i]
    <3>1. Joins(ws, front, 10, last, 2)
      BY <1>5, <1>6, <2>1, TwoInOne
    <3>2. 10 + 2 = 12
      OBVIOUS
    <3> QED
      BY <3>1, <3>2, Zenon DEF Joins
  <2>3. ws[1] = Sleep /\ ws[2] = ClearGlobal /\ ws[11] = Prescale /\ ws[12] = Wake
    <3>1. ws[10 + 1] = last[1] /\ ws[10 + 2] = last[2] /\ ws[1] = front[1] /\ ws[2] = front[2]
      BY <2>2
    <3> QED
      BY <1>5, <1>6, <3>1
  <2>4. ASSUME NEW i \in 1 .. 8 PROVE ws[i + 2] = off[i]
    <3>1. i + 2 = 2 + i /\ i + 2 \in 1 .. 10
      OBVIOUS
    <3>2. ws[i + 2] = front[i + 2] /\ front[2 + i] = off[i]
      BY <1>6, <2>2, <3>1
    <3> QED
      BY <3>1, <3>2
  <2> QED
    BY <2>2, <2>3, <2>4
<1>8. \A i \in 1 .. 8 : ws[i + 2] = Disable(ChannelOrder[i])
  BY <1>2, <1>7
<1>9. \A i \in 3 .. 10 : ws[i].reg = "fullOff"
  <2>1. ASSUME NEW i \in 3 .. 10 PROVE ws[i].reg = "fullOff"
    <3>1. i - 2 \in 1 .. 8 /\ (i - 2) + 2 = i
      OBVIOUS
    <3> QED
      BY <1>8, <3>1, Registers
  <2> QED
    BY <2>1
<1>10. ws[1].reg = "mode" /\ ws[2].reg = "global" /\ ws[11].reg = "rate" /\ ws[12].reg = "mode"
       /\ ws[1] # Wake /\ Wake.reg = "mode"
  BY <1>7, Registers
<1>11. HarmlessAt(ch, ws, 1) /\ \A i \in 3 .. 11 : HarmlessAt(ch, ws, i)
  <2>1. \A i \in 3 .. 11 : i \in 3 .. 10 \/ i = 11
    OBVIOUS
  <2> QED
    BY <1>9, <1>10, <2>1 DEF HarmlessAt
<1>12. HarmlessAt(ch, ws, 2)
  <2>1. AsleepBy(ch, ws, 2)
    <3>1. 1 \in 1 .. (2 - 1) /\ (1 + 1) .. (2 - 1) = {}
      OBVIOUS
    <3> QED
      BY <1>7, <3>1 DEF AsleepBy
  <2> QED
    BY <1>10, <2>1 DEF HarmlessAt
<1>13. HarmlessAt(ch, ws, 12)
  <2>1. ASSUME NEW c \in Channel PROVE OffBy(ch, ws, c, 12)
    <3>1. PICK i \in 1 .. 8 : ChannelOrder[i] = c
      BY DEF ChannelOrder, Channel, Axis
    <3>2. i + 2 \in 1 .. (12 - 1) /\ \A k \in ((i + 2) + 1) .. (12 - 1) : k \in 3 .. 10 \/ k = 11
      OBVIOUS
    <3>3. \A k \in ((i + 2) + 1) .. (12 - 1) : ~Clears(ws[k], c)
      BY <1>9, <1>10, <3>2 DEF Clears
    <3> QED
      BY <1>8, <3>1, <3>2, <3>3 DEF OffBy
  <2> QED
    BY <1>10, <2>1 DEF HarmlessAt
<1>14. \A i \in 1 .. 12 : i = 1 \/ i = 2 \/ i \in 3 .. 11 \/ i = 12
  OBVIOUS
<1>15. Harmless(ch, ws)
  BY <1>7, <1>11, <1>12, <1>13, <1>14 DEF Harmless
<1> QED
  BY <1>4, <1>7, <1>15

-----------------------------------------------------------------------------
(* The steps of the scripts.                                               *)

RunStep == [op : {"rails", "letgo"}, to : Targets(RailPosition)] \cup GripperStep

LEMMA TargetsAre ==
  ASSUME NEW A \in SUBSET Axis, NEW V, NEW to \in [A -> V]
  PROVE  to \in Targets(V)
  BY DEF Targets

LEMMA RailStepsAre ==
  ASSUME NEW A \in SUBSET Axis
  PROVE  OpenPair(A) \in RunStep /\ ClosePair(A) \in RunStep /\ LetGo(A) \in RunStep
<1>1. [a \in A |-> "Open"] \in Targets(RailPosition) /\ [a \in A |-> "Grip"] \in Targets(RailPosition)
  <2>1. [a \in A |-> "Open"] \in [A -> RailPosition] /\ [a \in A |-> "Grip"] \in [A -> RailPosition]
    BY DEF RailPosition
  <2> QED
    BY <2>1, TargetsAre
<1> QED
  BY <1>1 DEF RunStep, OpenPair, ClosePair, LetGo, MoveRails

LEMMA TurnsAre ==
  ASSUME NEW A \in SUBSET Axis, NEW o \in Orientation, NEW p \in Orientation
  PROVE  TurnAll(A, o) \in RunStep /\ TopBottomTurn(o, p) \in RunStep /\ LeftRightTurn(o, p) \in RunStep
<1>1. TopBottom \in SUBSET Axis /\ LeftRight \in SUBSET Axis
  BY DEF TopBottom, LeftRight, Axis
<1>2. /\ [a \in A |-> o] \in Targets(Orientation)
      /\ [a \in TopBottom |-> IF a = "Top" THEN o ELSE p] \in Targets(Orientation)
      /\ [a \in LeftRight |-> IF a = "Left" THEN o ELSE p] \in Targets(Orientation)
  <2>1. /\ [a \in A |-> o] \in [A -> Orientation]
        /\ [a \in TopBottom |-> IF a = "Top" THEN o ELSE p] \in [TopBottom -> Orientation]
        /\ [a \in LeftRight |-> IF a = "Left" THEN o ELSE p] \in [LeftRight -> Orientation]
    OBVIOUS
  <2> QED
    BY <1>1, <2>1, TargetsAre
<1> QED
  BY <1>2 DEF RunStep, GripperStep, TurnAll, TopBottomTurn, LeftRightTurn, Turn

\* The steps the scripts are made of.
LEMMA NamedSteps ==
  /\ LeftView \in RunStep /\ RightView \in RunStep /\ UprightTB \in RunStep
  /\ DownView \in RunStep /\ UpView \in RunStep /\ UprightLR \in RunStep
  /\ \A A \in {LeftRight, TopBottom, Axis} :
       OpenPair(A) \in RunStep /\ ClosePair(A) \in RunStep /\ LetGo(A) \in RunStep
  /\ TurnAll(Axis, "Perpendicular") \in RunStep
  /\ OtherPair(LeftRight) = TopBottom /\ OtherPair(TopBottom) = LeftRight
<1>1. /\ "Parallel" \in Orientation /\ "Reversed" \in Orientation /\ "Perpendicular" \in Orientation
  BY DEF Orientation
<1>2. \A A \in {LeftRight, TopBottom, Axis} : A \in SUBSET Axis
  BY DEF LeftRight, TopBottom, Axis
<1>3. /\ LeftView \in RunStep /\ RightView \in RunStep /\ UprightTB \in RunStep
      /\ DownView \in RunStep /\ UpView \in RunStep /\ UprightLR \in RunStep
  BY <1>1, <1>2, TurnsAre DEF LeftView, RightView, UprightTB, DownView, UpView, UprightLR
<1>4. \A A \in {LeftRight, TopBottom, Axis} :
        OpenPair(A) \in RunStep /\ ClosePair(A) \in RunStep /\ LetGo(A) \in RunStep
  BY <1>2, RailStepsAre
<1>5. TurnAll(Axis, "Perpendicular") \in RunStep
  BY <1>1, <1>2, TurnsAre
<1>6. OtherPair(LeftRight) = TopBottom /\ OtherPair(TopBottom) = LeftRight
  BY DEF OtherPair, LeftRight, TopBottom, Axis
<1> QED
  BY <1>3, <1>4, <1>5, <1>6

LEMMA ScriptsJoin ==
  ASSUME NEW S, NEW s \in Seq(S), NEW t \in Seq(S)
  PROVE  s \o t \in Seq(S)
  BY ConcatProperties

LEMMA OpenScripts ==
  OpenAllRails \in Seq(RunStep) /\ SafeOpenScript \in Seq(RunStep) /\ GripScript \in Seq(RunStep)
<1>1. OpenAllRails \in Seq(RunStep)
  BY NamedSteps DEF OpenAllRails
<1>2. SafeOpenScript \in Seq(RunStep)
  <2>1. << TurnAll(Axis, "Perpendicular") >> \in Seq(RunStep)
    BY NamedSteps
  <2> QED
    BY <1>1, <2>1, ScriptsJoin DEF SafeOpenScript
<1>3. GripScript \in Seq(RunStep)
  <2>1. << ClosePair(Axis) >> \in Seq(RunStep)
    BY NamedSteps
  <2>2. (IF commanded.state = "SafeOpen" THEN <<>> ELSE SafeOpenScript) \in Seq(RunStep)
    BY <1>2
  <2> QED
    BY <2>1, <2>2, ScriptsJoin DEF GripScript
<1> QED
  BY <1>1, <1>2, <1>3

LEMMA HandToIs ==
  ASSUME NEW turn \in RunStep, NEW A \in {LeftRight, TopBottom}
  PROVE  HandTo(A, turn) \in Seq(RunStep)
<1>1. ClosePair(A) \in RunStep /\ OpenPair(OtherPair(A)) \in RunStep
  BY NamedSteps
<1> QED
  BY <1>1 DEF HandTo

\* The scripts that pass the cube from hand to hand.
LEMMA HandScripts ==
  /\ HandTo(LeftRight, DownView) \in Seq(RunStep) /\ HandTo(LeftRight, UpView) \in Seq(RunStep)
  /\ HandTo(TopBottom, LeftView) \in Seq(RunStep)
  BY NamedSteps, HandToIs

LEMMA ScanPoseScripts == ASSUME NEW face \in CubeFace PROVE ScanPoseScript(face) \in Seq(RunStep)
<1>1. /\ << OpenPair(LeftRight) >> \in Seq(RunStep) /\ << OpenPair(TopBottom) >> \in Seq(RunStep)
      /\ << UprightLR >> \in Seq(RunStep) /\ << UprightTB, RightView >> \in Seq(RunStep)
      /\ << OpenPair(LeftRight), LeftView >> \in Seq(RunStep)
      /\ << OpenPair(LeftRight), RightView >> \in Seq(RunStep)
  BY NamedSteps
<1>2. << OpenPair(LeftRight) >> \o HandTo(LeftRight, DownView) \in Seq(RunStep)
  BY <1>1, HandScripts, ScriptsJoin
<1>3. << OpenPair(LeftRight) >> \o HandTo(LeftRight, DownView) \o << UprightLR >>
        \o HandTo(TopBottom, LeftView) \in Seq(RunStep)
  BY <1>1, <1>2, HandScripts, ScriptsJoin
<1>4. << OpenPair(LeftRight) >> \o HandTo(LeftRight, UpView) \o << UprightLR >>
        \o HandTo(TopBottom, LeftView) \in Seq(RunStep)
  BY <1>1, HandScripts, ScriptsJoin
<1>5. << OpenPair(TopBottom) >> \o HandTo(TopBottom, LeftView) \o << UprightTB, RightView >>
        \in Seq(RunStep)
  BY <1>1, HandScripts, ScriptsJoin
<1> QED
  BY <1>1, <1>2, <1>3, <1>4, <1>5 DEF ScanPoseScript, CubeFace

LEMMA ScanNextScripts ==
  ASSUME NEW t \in ScanTransitions
  PROVE  ScanNextScript(t[1], t[3]) \in Seq(RunStep)
<1>1. /\ << UprightLR >> \o HandTo(TopBottom, LeftView) \in Seq(RunStep)
      /\ << UprightTB, RightView >> \in Seq(RunStep) /\ << RightView >> \in Seq(RunStep)
      /\ << UprightTB, ClosePair(LeftRight), OpenPair(TopBottom), DownView >> \in Seq(RunStep)
      /\ << UprightLR, UpView >> \in Seq(RunStep)
  <2>1. << UprightLR >> \in Seq(RunStep)
    BY NamedSteps
  <2>2. << UprightLR >> \o HandTo(TopBottom, LeftView) \in Seq(RunStep)
    BY <2>1, HandScripts, ScriptsJoin
  <2>3. ClosePair(LeftRight) \in RunStep /\ OpenPair(TopBottom) \in RunStep
    BY NamedSteps
  <2> QED
    BY <2>2, <2>3, NamedSteps
<1>2. PICK from, to : from = t[1] /\ to = t[3]
  OBVIOUS
<1>3. << from, to >> \in { << "Front", "Up" >>, << "Left", "Right" >>, << "Right", "Down" >>,
                          << "Down", "Up" >>, << "Up", "Front" >>, << "Front", "Back" >> }
  BY <1>2 DEF ScanTransitions
<1> QED
  BY <1>1, <1>2, <1>3 DEF ScanNextScript

LEMMA ReturnScript == ReturnFrontAfterScan \in Seq(RunStep)
<1>1. /\ ClosePair(LeftRight) \in RunStep /\ OpenPair(TopBottom) \in RunStep
      /\ ClosePair(TopBottom) \in RunStep
  BY NamedSteps
<1> QED
  BY <1>1, NamedSteps DEF ReturnFrontAfterScan

LEMMA FaceTurnScripts ==
  ASSUME NEW a \in Axis, NEW turn \in {"CW", "Half", "CCW"}
  PROVE  DirectFaceTurn(a, turn) \in Seq(RunStep)
<1>1. {a} \in SUBSET Axis
  OBVIOUS
<1>2. /\ "Parallel" \in Orientation /\ "Reversed" \in Orientation /\ "Perpendicular" \in Orientation
  BY DEF Orientation
<1>3. /\ TurnAll({a}, "Reversed") \in RunStep /\ TurnAll({a}, "Parallel") \in RunStep
      /\ TurnAll({a}, "Perpendicular") \in RunStep
      /\ OpenPair({a}) \in RunStep /\ ClosePair({a}) \in RunStep
  BY <1>1, <1>2, TurnsAre, RailStepsAre
<1>4. PICK s : s = (CASE turn = "CW"   -> << TurnAll({a}, "Reversed") >>
                      [] turn = "CCW"  -> << TurnAll({a}, "Parallel") >>
                      [] turn = "Half" -> << OpenPair({a}), TurnAll({a}, "Parallel"), ClosePair({a}),
                                             TurnAll({a}, "Reversed") >>)
  OBVIOUS
<1>5. s \in Seq(RunStep)
  BY <1>3, <1>4
<1>6. << OpenPair({a}), TurnAll({a}, "Perpendicular"), ClosePair({a}) >> \in Seq(RunStep)
  BY <1>3
<1>7. DirectFaceTurn(a, turn) = s \o << OpenPair({a}), TurnAll({a}, "Perpendicular"), ClosePair({a}) >>
  BY <1>4, Zenon DEF DirectFaceTurn
<1> QED
  BY <1>5, <1>6, <1>7, ScriptsJoin

LEMMA RegripScripts ==
  ASSUME NEW view \in RunStep
  PROVE  TurnBetweenRegrips(view) \in Seq(RunStep)
<1>1. /\ ClosePair(LeftRight) \in RunStep /\ OpenPair(TopBottom) \in RunStep
      /\ ClosePair(TopBottom) \in RunStep /\ OpenPair(LeftRight) \in RunStep
  BY NamedSteps
<1> QED
  BY <1>1, NamedSteps DEF TurnBetweenRegrips

LEMMA MoveScripts == ASSUME NEW move \in FaceTurns PROVE ProbeMoveScript(move) \in Seq(RunStep)
<1>1. PICK face \in CubeFace, turn \in {"CW", "Half", "CCW"} : face = move.face /\ turn = move.turn
  BY DEF FaceTurns
<1>2. \A a \in {"Left", "Right", "Top", "Bottom"} : DirectFaceTurn(a, turn) \in Seq(RunStep)
  BY FaceTurnScripts DEF Axis
<1>3. PositionFrontBack \in Seq(RunStep) /\ RestoreFront \in Seq(RunStep)
  BY NamedSteps, RegripScripts DEF PositionFrontBack, RestoreFront
<1>4. \A a \in {"Left", "Right"} :
        PositionFrontBack \o DirectFaceTurn(a, turn) \o RestoreFront \in Seq(RunStep)
  BY <1>2, <1>3, ScriptsJoin
<1> QED
  BY <1>1, <1>2, <1>4 DEF ProbeMoveScript, CubeFace

\* What set_channels is asked to set.
LEMMA StepsFit ==
  ASSUME NEW step \in RunStep, NEW to, to = [c \in Channels(step) |-> step.to[c[2]]]
  PROVE  DOMAIN to \in SUBSET Channel /\ \A c \in DOMAIN to : Fits(c, to[c])
<1>1. CASE step \in GripperStep
  <2>1. PICK A, given : A \in SUBSET Axis /\ given \in [A -> Orientation] /\ given = step.to
                     /\ step.op = "grippers"
    BY <1>1 DEF GripperStep, Targets
  <2>2. Channels(step) = {"gripper"} \X A
    BY <2>1 DEF Channels, Grippers
  <2>3. DOMAIN to = {"gripper"} \X A /\ \A c \in DOMAIN to : to[c] = given[c[2]]
    BY <2>1, <2>2
  <2>4. {"gripper"} \X A \in SUBSET Channel
    BY <2>1 DEF Channel
  <2>5. ASSUME NEW c \in DOMAIN to PROVE Fits(c, to[c])
    <3>1. c[1] = "gripper" /\ c[2] \in A
      BY <2>3
    <3>2. to[c] \in Orientation
      BY <2>1, <2>3, <3>1
    <3> QED
      BY <3>1, <3>2 DEF Fits
  <2> QED
    BY <2>3, <2>4, <2>5
<1>2. CASE step \in [op : {"rails", "letgo"}, to : Targets(RailPosition)]
  <2>1. PICK A, given : A \in SUBSET Axis /\ given \in [A -> RailPosition] /\ given = step.to
                     /\ step.op # "grippers"
    BY <1>2 DEF Targets
  <2>2. Channels(step) = {"rail"} \X A
    BY <2>1 DEF Channels, Rails
  <2>3. DOMAIN to = {"rail"} \X A /\ \A c \in DOMAIN to : to[c] = given[c[2]]
    BY <2>1, <2>2
  <2>4. {"rail"} \X A \in SUBSET Channel
    BY <2>1 DEF Channel
  <2>5. ASSUME NEW c \in DOMAIN to PROVE Fits(c, to[c])
    <3>1. c[1] = "rail" /\ c[2] \in A
      BY <2>3
    <3>2. to[c] \in RailPosition
      BY <2>1, <2>3, <3>1
    <3> QED
      BY <3>1, <3>2 DEF Fits
  <2> QED
    BY <2>3, <2>4, <2>5
<1> QED
  BY <1>1, <1>2 DEF RunStep

LEMMA ChannelsAre == ASSUME NEW step \in RunStep PROVE Channels(step) \in SUBSET Channel
<1>1. PICK to : to = [c \in Channels(step) |-> step.to[c[2]]]
  OBVIOUS
<1> QED
  BY <1>1, StepsFit

-----------------------------------------------------------------------------
(* The items of a command.                                                 *)

PlainItem  == [name : {"initialize_safe_pwm", "reset", "safe_open", "grip", "finish_scan",
                       "finish_scan_for_execution", "quit"}]
FaceItem   == [name : {"scan_pose", "scan_next", "record_face"}, face : CubeFace]
MoveItem   == [name : {"execute_probe_move"}, move : FaceTurns]
AcceptItem == [name : {"accept"}, auto : BOOLEAN]
Item       == PlainItem \cup FaceItem \cup MoveItem \cup AcceptItem

LEMMA ItemsAre ==
  /\ Initialize \in Item /\ Reset \in Item /\ SafeOpenCall \in Item /\ Grip \in Item /\ Quit \in Item
  /\ Call("finish_scan") \in Item /\ Call("finish_scan_for_execution") \in Item
  /\ \A f \in CubeFace : ScanPose(f) \in Item /\ ScanNext(f) \in Item /\ Record(f) \in Item
  /\ Accept(TRUE) \in Item /\ Accept(FALSE) \in Item
  BY DEF Item, PlainItem, FaceItem, AcceptItem, Initialize, Reset, SafeOpenCall, Grip, Quit, Call,
         ScanPose, ScanNext, Record, Accept

LEMMA ItemKinds ==
  ASSUME NEW c \in Item
  PROVE  /\ c.name \in {"initialize_safe_pwm", "reset", "safe_open", "grip", "finish_scan",
                        "finish_scan_for_execution", "quit", "scan_pose", "scan_next",
                        "record_face", "execute_probe_move", "accept"}
         /\ c.name \in {"scan_pose", "scan_next", "record_face"} => c.face \in CubeFace
         /\ c.name = "execute_probe_move" => c.move \in FaceTurns
  BY DEF Item, PlainItem, FaceItem, MoveItem, AcceptItem

LEMMA MovesAre == ASSUME NEW s \in Solutions PROVE Moves(s) \in Seq(Item)
<1>1. s \in Seq(FaceTurns)
  BY SolutionsAssumption
<1>2. PICK n \in Nat : n = Len(s) /\ DOMAIN s = 1 .. n
  BY <1>1, LenProperties
<1>3. \A i \in 1 .. n : s[i] \in FaceTurns
  BY <1>1, <1>2, ElementOfSeq
<1>4. PICK f : f = [i \in 1 .. n |-> [name |-> "execute_probe_move", move |-> s[i]]]
  OBVIOUS
<1>5. f \in [1 .. n -> Item]
  BY <1>3, <1>4 DEF Item, MoveItem
<1>6. Moves(s) = f
  BY <1>2, <1>4 DEF Moves
<1> QED
  BY <1>5, <1>6, ListIs

LEMMA ViewsAre ==
  ASSUME NEW faces \in Seq(CubeFace)
  PROVE  ViewAndRecord(faces) \in Seq(Item)
<1>1. PICK n \in Nat : n = Len(faces) /\ \A i \in 1 .. n : faces[i] \in CubeFace
  BY LenProperties, ElementOfSeq
<1>2. PICK f : f = [i \in 1 .. 2 * n |-> LET g == faces[(i + 1) \div 2]
                                        IN IF i % 2 = 1 THEN ScanNext(g) ELSE Record(g)]
  OBVIOUS
<1>3. ASSUME NEW i \in 1 .. 2 * n PROVE f[i] \in Item
  <2>1. (i + 1) \div 2 \in 1 .. n
    OBVIOUS
  <2>2. PICK g \in CubeFace : g = faces[(i + 1) \div 2]
    BY <1>1, <2>1
  <2>3. f[i] = IF i % 2 = 1 THEN ScanNext(g) ELSE Record(g)
    BY <1>2, <2>2
  <2> QED
    BY <2>3, ItemsAre
<1>4. 2 * n \in Nat /\ f \in [1 .. 2 * n -> Item]
  BY <1>2, <1>3
<1>5. ViewAndRecord(faces) = f
  BY <1>1, <1>2, Zenon DEF ViewAndRecord
<1> QED
  BY <1>4, <1>5, ListIs

LEMMA ScanItems ==
  ASSUME NEW auto \in BOOLEAN
  PROVE  FullScanCalls(IF auto THEN "finish_scan_for_execution" ELSE "finish_scan")
           \o << Accept(auto) >> \in Seq(Item)
<1>1. PICK finish : finish = (IF auto THEN "finish_scan_for_execution" ELSE "finish_scan")
  OBVIOUS
<1>2. Call(finish) \in Item /\ Accept(auto) \in Item
  BY <1>1, ItemsAre
<1>3. << "Right", "Down", "Up", "Front", "Back" >> \in Seq(CubeFace) /\ "Left" \in CubeFace
  BY DEF CubeFace
<1>4. ViewAndRecord(<< "Right", "Down", "Up", "Front", "Back" >>) \in Seq(Item)
  BY <1>3, ViewsAre
<1>5. /\ << Grip, ScanPose("Left"), Record("Left") >> \in Seq(Item)
      /\ << Call(finish) >> \in Seq(Item) /\ << Accept(auto) >> \in Seq(Item)
  BY <1>2, <1>3, ItemsAre
<1>6. FullScanCalls(finish) \in Seq(Item)
  BY <1>4, <1>5, ScriptsJoin DEF FullScanCalls
<1> QED
  BY <1>1, <1>5, <1>6, ScriptsJoin

LEMMA ExecuteItems ==
  ASSUME NEW s \in Solutions
  PROVE  ExecuteCalls(s) \in Seq(Item) /\ ExecuteCalls(s) \o << SafeOpenCall >> \in Seq(Item)
<1>1. << Grip >> \in Seq(Item) /\ << SafeOpenCall >> \in Seq(Item)
  BY ItemsAre
<1>2. << Grip >> \o Moves(s) \in Seq(Item)
  BY <1>1, MovesAre, ScriptsJoin
<1>3. ExecuteCalls(s) \in Seq(Item)
  BY <1>2, MovesAre DEF ExecuteCalls
<1> QED
  BY <1>1, <1>3, ScriptsJoin

LEMMA StartItems ==
  ASSUME NEW t \in {FullScan, Shell, Probe}, NEW s \in Solutions
  PROVE  StartUp(t) \o (IF t = Probe THEN << Grip >> \o Moves(s) ELSE <<>>) \in Seq(Item)
<1>1. /\ << Grip >> \in Seq(Item) /\ << SafeOpenCall >> \in Seq(Item)
      /\ << Initialize, Reset >> \in Seq(Item) /\ <<>> \in Seq(Item)
  BY ItemsAre
<1>2. << Grip >> \o Moves(s) \in Seq(Item)
  BY <1>1, MovesAre, ScriptsJoin
<1>3. PICK open : open = (CASE t = FullScan -> << SafeOpenCall >>
                            [] t = Shell    -> <<>>
                            [] t = Probe    -> << SafeOpenCall >>)
  OBVIOUS
<1>4. open \in Seq(Item)
  BY <1>1, <1>3
<1>5. StartUp(t) = << Initialize, Reset >> \o open
  BY <1>3, Zenon DEF StartUp
<1>6. StartUp(t) \in Seq(Item)
  BY <1>1, <1>4, <1>5, ScriptsJoin
<1> QED
  BY <1>1, <1>2, <1>6, ScriptsJoin

\* The scripts of the calls that are admitted.
LEMMA AdmittedScripts ==
  ASSUME NEW c \in Item, NEW s \in Admitted(c),
         c.name \notin {"reset", "initialize_safe_pwm", "record_face", "accept", "quit"}
  PROVE  s[1] \in Seq(RunStep)
<1>1. CASE c.name = "safe_open"
  <2>1. Admitted(c) = IF Operational THEN { << SafeOpenScript, OpenPose >> } ELSE {}
    BY <1>1 DEF Admitted
  <2> QED
    BY <2>1, OpenScripts
<1>2. CASE c.name = "grip"
  <2>1. Admitted(c) = IF Operational /\ commanded.state # "ScanHold"
                      THEN { << GripScript, GripPose >> } ELSE {}
    BY <1>2 DEF Admitted
  <2> QED
    BY <2>1, OpenScripts
<1>3. CASE c.name = "scan_pose"
  <2>1. PICK face \in CubeFace : face = c.face
    BY <1>3, ItemKinds
  <2>2. s = << ScanPoseScript(face),
               ScanHold(face, IF face = "Front" THEN LeftRight ELSE TopBottom) >>
    BY <1>3, <2>1 DEF Admitted
  <2> QED
    BY <2>2, ScanPoseScripts
<1>4. CASE c.name = "scan_next"
  <2>1. PICK t \in ScanTransitions : s = << ScanNextScript(t[1], t[3]), ScanHold(t[3], t[4]) >>
    BY <1>4 DEF Admitted
  <2> QED
    BY <2>1, ScanNextScripts
<1>5. CASE c.name = "finish_scan"
  <2>1. s = << ReturnFrontAfterScan \o OpenAllRails, OpenPose >>
    BY <1>5 DEF Admitted
  <2> QED
    BY <2>1, ReturnScript, OpenScripts, ScriptsJoin
<1>6. CASE c.name = "finish_scan_for_execution"
  <2>1. s = << ReturnFrontAfterScan, GripPose >>
    BY <1>6 DEF Admitted
  <2> QED
    BY <2>1, ReturnScript
<1>7. CASE c.name = "execute_probe_move"
  <2>1. s = << ProbeMoveScript(c.move), GripPose >> /\ c.move \in FaceTurns
    BY <1>7, ItemKinds DEF Admitted
  <2> QED
    BY <2>1, MoveScripts
<1> QED
  BY <1>1, <1>2, <1>3, <1>4, <1>5, <1>6, <1>7, ItemKinds

-----------------------------------------------------------------------------
(* The invariant, and that every step keeps it.                            *)

\* A step under way is a step of the script.
InStep == phase \in {"setting", "releasing"} => script # <<>>

BenchInv == /\ PwmInv
            /\ script \in Seq(RunStep) /\ InStep
            /\ todo \in Seq(Item) /\ pending \in SUBSET Solutions

LEMMA QuietKeeps == ASSUME PwmInv, UNCHANGED <<chip, writes>> PROVE PwmInv'
<1>1. PICK ch, ws : ch = chip /\ ws = writes /\ ch = chip' /\ ws = writes'
  OBVIOUS
<1>2. /\ ch \in Chip /\ ws \in Seq(Write) /\ WholePulses(ch) /\ Harmless(ch, ws)
  BY <1>1 DEF PwmInv
<1> QED
  BY <1>1, <1>2 DEF PwmInv

\* A call that begins to write ws.
LEMMA WritingKeeps ==
  ASSUME PwmInv, UNCHANGED chip, NEW ws \in Seq(Write), Harmless(chip, ws), writes' = ws
  PROVE  PwmInv'
<1>1. PICK ch : ch = chip /\ ch = chip'
  OBVIOUS
<1>2. ch \in Chip /\ WholePulses(ch) /\ Harmless(ch, ws)
  BY <1>1 DEF PwmInv
<1> QED
  BY <1>1, <1>2 DEF PwmInv

LEMMA NothingLeft == ASSUME PwmInv, UNCHANGED chip, writes' = <<>> PROVE PwmInv'
<1>0. <<>> \in Seq(Write) /\ Len(<<>>) = 0
  OBVIOUS
<1>1. PICK ws \in Seq(Write) : ws = <<>> /\ Len(ws) = 0
  BY <1>0, Zenon
<1>2. Harmless(chip, ws)
  BY <1>1 DEF Harmless
<1> QED
  BY <1>1, <1>2, WritingKeeps

LEMMA BenchInitInv == BenchInit => BenchInv
<1> SUFFICES ASSUME BenchInit PROVE BenchInv
  OBVIOUS
<1>1. chip \in Chip /\ chip.mode = "asleep"
  BY DEF BenchInit, WithoutPower, Chip, Pulse
<1>2. WholePulses(chip)
  BY <1>1 DEF WholePulses
<1>3. writes \in Seq(Write) /\ Len(writes) = 0
  BY DEF BenchInit
<1>4. Harmless(chip, writes)
  BY <1>3 DEF Harmless
<1> QED
  BY <1>1, <1>2, <1>3, <1>4 DEF BenchInit, BenchInv, PwmInv, InStep

LEMMA GoneKeeps == ASSUME BenchInv, Gone, UNCHANGED chip PROVE BenchInv'
<1>1. PwmInv'
  BY NothingLeft DEF BenchInv, Gone
<1>2. script' = <<>> /\ todo' = <<>> /\ pending' = {} /\ phase' = "idle"
  BY DEF Gone
<1>3. InStep'
  BY <1>2 DEF InStep
<1> QED
  BY <1>1, <1>2, <1>3 DEF BenchInv

\* A step of the tool at rest.
LEMMA ToolKeeps ==
  ASSUME BenchInv, UNCHANGED <<chip, writes, call>>,
         todo' \in Seq(Item), pending' \in SUBSET Solutions
  PROVE  BenchInv'
<1>1. PwmInv'
  BY QuietKeeps DEF BenchInv
<1>2. script' = script /\ phase' = phase
  BY DEF call
<1>3. script' \in Seq(RunStep) /\ InStep'
  BY <1>2 DEF BenchInv, InStep
<1> QED
  BY <1>1, <1>3 DEF BenchInv

LEMMA StopKeeps == ASSUME BenchInv, StopCommand, UNCHANGED <<chip, writes, call>> PROVE BenchInv'
<1>1. todo' \in Seq(Item) /\ pending' \in SUBSET Solutions
  BY DEF StopCommand, BenchInv
<1> QED
  BY <1>1, ToolKeeps

\* The steps of the runtime.
LEMMA RuntimeStepKeeps == ASSUME BenchInv, RuntimeStep, UNCHANGED toolVars PROVE BenchInv'
<1>1. todo' \in Seq(Item) /\ pending' \in SUBSET Solutions
  BY DEF BenchInv, toolVars
<1>2. PwmInv /\ script \in Seq(RunStep) /\ InStep
  BY DEF BenchInv
<1>3. SUFFICES PwmInv' /\ script' \in Seq(RunStep) /\ InStep'
  BY <1>1 DEF BenchInv
<1>4. script # <<>> => Head(script) \in RunStep /\ Tail(script) \in Seq(RunStep)
  BY <1>2, HeadTailProperties
<1>5. CASE StartStep
  <2>1. PICK step \in RunStep : step = Head(script)
    BY <1>4, <1>5 DEF StartStep
  <2>2. PICK to : to = [c \in Channels(step) |-> step.to[c[2]]]
    OBVIOUS
  <2>3. PICK ws : ws = WriteChannels(to)
    OBVIOUS
  <2>4. ws \in Seq(Write) /\ Harmless(chip, ws)
    BY <2>2, <2>3, StepsFit, SettingIsHarmless
  <2>5. writes' = ws /\ UNCHANGED chip
    BY <1>5, <2>1, <2>2, <2>3 DEF StartStep
  <2>6. PwmInv'
    BY <1>2, <2>4, <2>5, WritingKeeps
  <2>7. script' = script /\ script # <<>>
    BY <1>5 DEF StartStep
  <2> QED
    BY <1>2, <2>6, <2>7 DEF InStep
<1>6. CASE DelayOver
  <2>1. script # <<>> /\ UNCHANGED chip
    BY <1>2, <1>6 DEF DelayOver, InStep
  <2>2. CASE Head(script).op = "grippers"
    <3>1. script' = Tail(script) /\ phase' = "idle" /\ writes' = <<>>
      BY <1>6, <2>2 DEF DelayOver, EndStep
    <3>2. PwmInv'
      BY <1>2, <2>1, <3>1, NothingLeft
    <3> QED
      BY <1>4, <2>1, <3>1, <3>2 DEF InStep
  <2>3. CASE Head(script).op # "grippers"
    <3>1. PICK C, ws : C = Channels(Head(script)) /\ ws = DisableChannels(C)
      OBVIOUS
    <3>2. ws \in Seq(Write) /\ Harmless(chip, ws)
      BY <1>4, <2>1, <3>1, ChannelsAre, DisablingIsHarmless
    <3>3. writes' = ws /\ script' = script
      BY <1>6, <2>3, <3>1 DEF DelayOver
    <3>4. PwmInv'
      BY <1>2, <2>1, <3>2, <3>3, WritingKeeps
    <3> QED
      BY <1>2, <2>1, <3>3, <3>4 DEF InStep
  <2> QED
    BY <2>2, <2>3
<1>7. CASE RailsReleased
  <2>1. script # <<>> /\ script' = Tail(script) /\ phase' = "idle" /\ UNCHANGED <<chip, writes>>
    BY <1>2, <1>7 DEF RailsReleased, EndStep, InStep
  <2>2. PwmInv'
    BY <1>2, <2>1, QuietKeeps
  <2> QED
    BY <1>4, <2>1, <2>2 DEF InStep
<1>8. CASE ResetDone
  <2>1. script' = script /\ phase' = "idle" /\ UNCHANGED <<chip, writes>>
    BY <1>8 DEF ResetDone
  <2>2. PwmInv'
    BY <1>2, <2>1, QuietKeeps
  <2> QED
    BY <1>2, <2>1, <2>2 DEF InStep
<1>9. CASE WriteSucceeds
  <2>1. script' = script /\ phase' = phase /\ WriteByte
    BY <1>9 DEF WriteSucceeds, call
  <2>2. PwmInv'
    BY <1>2, <2>1, WriteByteKeepsPulses
  <2> QED
    BY <1>2, <2>1, <2>2 DEF InStep
<1>10. CASE Fault
  <2>1. PICK ws \in Seq(Write) : ws = ForceAllChannelsOff /\ Harmless(chip, ws)
    BY AllOffIsHarmless
  <2>2. script' = <<>> /\ phase' = "stopping" /\ writes' = ws /\ UNCHANGED chip
    BY <1>10, <2>1 DEF Fault
  <2>3. PwmInv'
    BY <1>2, <2>1, <2>2, WritingKeeps
  <2> QED
    BY <2>2, <2>3 DEF InStep
<1>11. CASE AllOffEnds
  <2>1. script' = script /\ phase' = "failed" /\ writes' = <<>> /\ UNCHANGED chip
    BY <1>11 DEF AllOffEnds
  <2>2. PwmInv'
    BY <1>2, <2>1, NothingLeft
  <2> QED
    BY <1>2, <2>1, <2>2 DEF InStep
<1> QED
  BY <1>5, <1>6, <1>7, <1>8, <1>9, <1>10, <1>11 DEF RuntimeStep

\* The calls of a command.
LEMMA StartCallKeeps == ASSUME BenchInv, StartCall PROVE BenchInv'
<1>1. PwmInv /\ script \in Seq(RunStep) /\ InStep /\ todo \in Seq(Item) /\ pending \in SUBSET Solutions
  BY DEF BenchInv
<1>2. todo # <<>> /\ phase = "idle" /\ script = <<>>
  BY DEF StartCall, AtItem
<1>3. PICK c \in Item : c = Head(todo)
  BY <1>1, <1>2, HeadTailProperties
<1>4. todo' \in Seq(Item) /\ pending' = pending
  BY <1>1, <1>2, HeadTailProperties DEF StartCall
<1>5. CASE c.name = "reset"
  <2>1. PICK ws \in Seq(Write) : ws = ForceAllChannelsOff /\ Harmless(chip, ws)
    BY AllOffIsHarmless
  <2>2. BeginReset
    BY <1>3, <1>5 DEF StartCall
  <2>3. writes' = ws /\ phase' = "resetting" /\ UNCHANGED <<chip, script>>
    BY <2>1, <2>2 DEF BeginReset
  <2>4. PwmInv'
    BY <1>1, <2>1, <2>3, WritingKeeps
  <2> QED
    BY <1>1, <1>4, <2>3, <2>4 DEF BenchInv, InStep
<1>6. CASE c.name = "initialize_safe_pwm"
  <2>1. PICK ws \in Seq(Write) : ws = InitializeSafePwm /\ Harmless(chip, ws)
    BY InitializingIsHarmless
  <2>2. writes' = ws /\ UNCHANGED <<chip, call>>
    BY <1>3, <1>6, <2>1 DEF StartCall
  <2>3. script' = script /\ phase' = phase
    BY <2>2 DEF call
  <2>4. PwmInv'
    BY <1>1, <2>1, <2>2, WritingKeeps
  <2> QED
    BY <1>1, <1>4, <2>3, <2>4 DEF BenchInv, InStep
<1>7. CASE c.name \notin {"reset", "initialize_safe_pwm"}
  <2>1. c.name \notin {"record_face", "accept", "quit"} /\ Begin(c)
    BY <1>3, <1>7 DEF StartCall
  <2>2. PICK s \in Admitted(c) : script' = s[1]
    BY <2>1 DEF Begin
  <2>3. script' \in Seq(RunStep)
    BY <1>7, <2>1, <2>2, AdmittedScripts
  <2>4. phase' = "idle" /\ UNCHANGED <<chip, writes>>
    BY <1>2, <2>1 DEF Begin
  <2>5. PwmInv'
    BY <1>1, <2>4, QuietKeeps
  <2> QED
    BY <1>1, <1>4, <2>3, <2>4, <2>5 DEF BenchInv, InStep
<1> QED
  BY <1>5, <1>6, <1>7

\* The commands.
LEMMA CommandKeeps ==
  ASSUME BenchInv,
         \/ Start \/ ShellCommand \/ ScanCommand(TRUE) \/ ScanCommand(FALSE)
         \/ SolveCommand \/ ExecuteCommand \/ Cancel \/ Off \/ QuitCommand
  PROVE  BenchInv'
<1>1. todo \in Seq(Item) /\ pending \in SUBSET Solutions
  BY DEF BenchInv
<1>2. /\ <<>> \in Seq(Item) /\ << Reset >> \in Seq(Item) /\ << Reset, Quit >> \in Seq(Item)
  BY ItemsAre
<1>3. SUFFICES /\ UNCHANGED <<chip, writes, call>>
               /\ todo' \in Seq(Item) /\ pending' \in SUBSET Solutions
  BY ToolKeeps
<1>4. CASE Start
  <2>1. PICK t \in {FullScan, Shell, Probe}, s \in Solutions :
          todo' = StartUp(t) \o (IF t = Probe THEN << Grip >> \o Moves(s) ELSE <<>>)
    BY <1>4 DEF Start
  <2>2. todo' \in Seq(Item)
    BY <2>1, StartItems
  <2> QED
    BY <1>4, <2>2 DEF Start
<1>5. CASE ShellCommand
  <2>1. PICK c : /\ c \in {SafeOpenCall, Grip, Reset} \cup {ScanPose(f) : f \in CubeFace}
                          \cup {ScanNext(f) : f \in CubeFace}
                 /\ todo' = << c >>
    BY <1>5 DEF ShellCommand
  <2>2. c \in Item
    BY <2>1, ItemsAre
  <2>3. todo' \in Seq(Item)
    BY <2>1, <2>2
  <2> QED
    BY <1>1, <1>5, <2>3 DEF ShellCommand, runtimeVars
<1>6. ASSUME NEW auto \in BOOLEAN, ScanCommand(auto)
      PROVE  /\ UNCHANGED <<chip, writes, call>>
             /\ todo' \in Seq(Item) /\ pending' \in SUBSET Solutions
  <2>1. PICK items \in Seq(Item) :
          items = FullScanCalls(IF auto THEN "finish_scan_for_execution" ELSE "finish_scan")
                    \o << Accept(auto) >>
    BY ScanItems
  <2>2. todo' = (IF commanded # OpenPose THEN <<>> ELSE items)
    BY <1>6, <2>1, Zenon DEF ScanCommand
  <2> QED
    BY <1>2, <1>6, <2>2 DEF ScanCommand
<1>7. CASE SolveCommand
  BY <1>1, <1>7 DEF SolveCommand, runtimeVars
<1>8. CASE ExecuteCommand
  <2>1. PICK s \in pending : todo' = ExecuteCalls(s)
    BY <1>8 DEF ExecuteCommand
  <2>2. todo' \in Seq(Item)
    BY <1>1, <2>1, ExecuteItems
  <2> QED
    BY <1>8, <2>2 DEF ExecuteCommand
<1>9. CASE Cancel
  BY <1>1, <1>9 DEF Cancel, runtimeVars
<1>10. CASE Off
  BY <1>1, <1>2, <1>10 DEF Off, runtimeVars
<1>11. CASE QuitCommand
  BY <1>1, <1>2, <1>11 DEF QuitCommand, runtimeVars
<1> QED
  BY <1>4, <1>5, <1>6, <1>7, <1>8, <1>9, <1>10, <1>11

\* What ends a call, a command or a tool.
LEMMA EndingKeeps ==
  ASSUME BenchInv,
         \/ RefuseCall \/ RecordFace \/ AcceptScan \/ Exit
         \/ InitializeFails \/ CallFails \/ ProbeEnds \/ Killed
  PROVE  BenchInv'
<1>1. todo \in Seq(Item) /\ pending \in SUBSET Solutions
  BY DEF BenchInv
<1>2. CASE RefuseCall
  BY <1>2, StopKeeps DEF RefuseCall, runtimeVars
<1>3. CASE RecordFace
  <2>1. UNCHANGED <<chip, writes, call>>
    BY <1>3 DEF RecordFace, runtimeVars
  <2>2. CASE StopCommand
    BY <2>1, <2>2, StopKeeps
  <2>3. CASE todo' = Tail(todo) /\ UNCHANGED pending
    <3>1. todo' \in Seq(Item)
      BY <1>1, <1>3, <2>3, HeadTailProperties DEF RecordFace, AtItem
    <3> QED
      BY <1>1, <2>1, <2>3, <3>1, ToolKeeps
  <2> QED
    BY <1>3, <2>2, <2>3 DEF RecordFace
<1>4. CASE AcceptScan
  <2>1. UNCHANGED <<chip, writes, call>>
    BY <1>4 DEF AcceptScan, runtimeVars
  <2>2. CASE StopCommand
    BY <2>1, <2>2, StopKeeps
  <2>3. CASE ~StopCommand
    <3>1. pending' = pending
      BY <1>4, <2>3 DEF AcceptScan
    <3>2. todo' = <<>> \/ \E s \in Solutions : todo' = ExecuteCalls(s) \o << SafeOpenCall >>
      BY <1>4, <2>3 DEF AcceptScan
    <3>3. <<>> \in Seq(Item)
      OBVIOUS
    <3>4. todo' \in Seq(Item)
      BY <3>2, <3>3, ExecuteItems, Zenon
    <3> QED
      BY <1>1, <2>1, <3>1, <3>4, ToolKeeps
  <2> QED
    BY <2>2, <2>3
<1>5. CASE Exit
  BY <1>5, GoneKeeps DEF Exit
<1>6. CASE InitializeFails
  BY <1>6, GoneKeeps DEF InitializeFails
<1>7. CASE CallFails
  <2>1. CASE fatal
    BY <1>7, <2>1, GoneKeeps DEF CallFails
  <2>2. CASE ~fatal
    <3>1. /\ StopCommand /\ phase' = "idle" /\ UNCHANGED <<chip, writes, script>>
      BY <1>7, <2>2 DEF CallFails
    <3>2. PwmInv'
      BY <3>1, QuietKeeps DEF BenchInv
    <3>3. todo' = <<>> /\ pending' = pending
      BY <3>1 DEF StopCommand
    <3>4. script' \in Seq(RunStep) /\ InStep'
      BY <3>1 DEF BenchInv, InStep
    <3> QED
      BY <1>1, <3>2, <3>3, <3>4 DEF BenchInv
  <2> QED
    BY <2>1, <2>2
<1>8. CASE ProbeEnds
  BY <1>8, GoneKeeps DEF ProbeEnds
<1>9. CASE Killed
  BY <1>9, GoneKeeps DEF Killed
<1> QED
  BY <1>2, <1>3, <1>4, <1>5, <1>6, <1>7, <1>8, <1>9

LEMMA BenchStepsKeep == BenchInv /\ [BenchNext]_benchVars => BenchInv'
<1> SUFFICES ASSUME BenchInv, [BenchNext]_benchVars PROVE BenchInv'
  OBVIOUS
<1>1. CASE UNCHANGED benchVars
  <2>1. UNCHANGED <<chip, writes, call, todo, pending>>
    BY <1>1 DEF benchVars, runtimeVars, toolVars
  <2> QED
    BY <2>1, ToolKeeps DEF BenchInv
<1>2. CASE BenchNext
  BY <1>2, CommandKeeps, StartCallKeeps, EndingKeeps, RuntimeStepKeeps DEF BenchNext
<1> QED
  BY <1>1, <1>2

\* No servo is ever sent a pulse made of the halves of two positions, or one
\* that is no position of it: whatever the tools are asked to do, whichever
\* write of a call fails, and whenever the process is killed and another
\* tool finds the registers as they are.
THEOREM PulsesAreWhole == BenchSpec => []NoMixedPulse
<1>1. BenchInit => BenchInv
  BY BenchInitInv
<1>2. BenchInv /\ [BenchNext]_benchVars => BenchInv'
  BY BenchStepsKeep
<1>3. BenchInv => NoMixedPulse
  BY WholePulsesAre DEF BenchInv, PwmInv
<1> QED
  BY <1>1, <1>2, <1>3, PTL DEF BenchSpec

-----------------------------------------------------------------------------
(* The stand with a cube in it, and what a step of a script does to it.    *)

\* The positions as the mechanism has them.
After(w, step) ==
  IF step.op = "grippers"
  THEN [rails |-> w.rails, grippers |-> Moved(w.grippers, step.to), held |-> w.held,
        cube |-> IF w.held THEN TurnedCube(w.cube, w.rails, w.grippers, step.to) ELSE w.cube]
  ELSE [rails |-> Moved(w.rails, step.to), grippers |-> w.grippers,
        held |-> (w.held /\ step.op # "letgo") \/ step = ClosePair(Axis),
        cube |-> IF step.op = "letgo" \/ ~w.held THEN NewCube
                 ELSE MovedRails(w.cube, w.rails, step.to)]

Good(w) == w.held => w.cube.intact

\* Opposite grippers seen from one side.
Mirror(o) == CASE o = "Parallel" -> "Reversed" [] o = "Reversed" -> "Parallel"
               [] o = "Perpendicular" -> "Perpendicular"

\* The left and right grippers turned by x, top and bottom by y.
Posed(x, y) == [a \in Axis |-> CASE a = "Left" -> x [] a = "Right"  -> Mirror(x)
                                 [] a = "Top"  -> y [] a = "Bottom" -> Mirror(y)]
Straight    == [a \in Axis |-> "Perpendicular"]
Only(a, o)  == [b \in Axis |-> IF b = a THEN o ELSE "Perpendicular"]
RailsIn(A)  == [a \in Axis |-> IF a \in A THEN "Grip" ELSE "Open"]

\* A cube in the grip of the axes in A.
HeldBy(A, g, sees, turns) ==
  [rails |-> RailsIn(A), grippers |-> g, held |-> TRUE,
   cube |-> [sees |-> sees, turns |-> turns, intact |-> TRUE]]

\* One step from a world with the cube in good hands to another.
Does(w, step, v) == Good(w) /\ v = After(w, step) /\ Good(v)

Quarters(x, y) == (Quarter(y) - Quarter(x)) % 4

LEMMA QuartersAre ==
  /\ Quarters("Perpendicular", "Parallel") = 3 /\ Quarters("Parallel", "Perpendicular") = 1
  /\ Quarters("Perpendicular", "Reversed") = 1 /\ Quarters("Reversed", "Perpendicular") = 3
  /\ Quarters("Parallel", "Reversed") = 2      /\ Quarters("Reversed", "Parallel") = 2
  /\ Mirror("Parallel") = "Reversed" /\ Mirror("Reversed") = "Parallel"
  /\ Mirror("Perpendicular") = "Perpendicular"
<1>1. /\ Quarter("Parallel") = 0 /\ Quarter("Perpendicular") = 1 /\ Quarter("Reversed") = 2
  BY DEF Quarter
<1>2. /\ Mirror("Parallel") = "Reversed" /\ Mirror("Reversed") = "Parallel"
      /\ Mirror("Perpendicular") = "Perpendicular"
  BY DEF Mirror
<1> QED
  BY <1>1, <1>2 DEF Quarters

LEMMA MirrorTurns ==
  \A x, y \in Orientation : x # y =>
    /\ Quarters(x, y) \in 1 .. 3 /\ Quarters(Mirror(x), Mirror(y)) \in 1 .. 3
    /\ (Quarters(x, y) + Quarters(Mirror(x), Mirror(y))) % 4 = 0
<1>1. \A x \in Orientation : x = "Parallel" \/ x = "Perpendicular" \/ x = "Reversed"
  BY DEF Orientation
<1> QED
  BY <1>1, QuartersAre

LEMMA Axes ==
  /\ LeftRight \subseteq Axis /\ TopBottom \subseteq Axis /\ Axis = LeftRight \cup TopBottom
  /\ LeftRight \cap TopBottom = {} /\ LeftRight = {"Left", "Right"} /\ TopBottom = {"Top", "Bottom"}
  /\ Axis \ LeftRight = TopBottom /\ Axis \ TopBottom = LeftRight /\ LeftRight # Axis
  /\ OtherPair(LeftRight) = TopBottom /\ OtherPair(TopBottom) = LeftRight
  BY DEF OtherPair, LeftRight, TopBottom, Axis

LEMMA StraightIs ==
  /\ Posed("Perpendicular", "Perpendicular") = Straight
  /\ \A a \in Axis : Only(a, "Perpendicular") = Straight
<1>1. \A a \in Axis : a = "Left" \/ a = "Right" \/ a = "Top" \/ a = "Bottom"
  BY DEF Axis
<1> QED
  BY <1>1, QuartersAre DEF Posed, Straight, Only

\* What the steps of the scripts set.
LEMMA PosesMove ==
  ASSUME NEW x, NEW y, NEW z
  PROVE  /\ Moved(Posed(x, y), TopBottomTurn(z, Mirror(z)).to) = Posed(x, z)
         /\ Moved(Posed(x, y), LeftRightTurn(z, Mirror(z)).to) = Posed(z, y)
         /\ TopBottomTurn(z, Mirror(z)).op = "grippers" /\ LeftRightTurn(z, Mirror(z)).op = "grippers"
         /\ DOMAIN TopBottomTurn(z, Mirror(z)).to = TopBottom
         /\ DOMAIN LeftRightTurn(z, Mirror(z)).to = LeftRight
<1>1. /\ TopBottomTurn(z, Mirror(z)).to = [a \in TopBottom |-> IF a = "Top" THEN z ELSE Mirror(z)]
      /\ LeftRightTurn(z, Mirror(z)).to = [a \in LeftRight |-> IF a = "Left" THEN z ELSE Mirror(z)]
      /\ TopBottomTurn(z, Mirror(z)).op = "grippers" /\ LeftRightTurn(z, Mirror(z)).op = "grippers"
  BY DEF TopBottomTurn, LeftRightTurn, Turn
<1>2. PICK mx, my, mz : mx = Mirror(x) /\ my = Mirror(y) /\ mz = Mirror(z)
  OBVIOUS
<1>3. \A a \in Axis : a = "Left" \/ a = "Right" \/ a = "Top" \/ a = "Bottom"
  BY DEF Axis
<1>4. Moved(Posed(x, y), TopBottomTurn(z, Mirror(z)).to) = Posed(x, z)
  BY <1>1, <1>2, <1>3 DEF Moved, Posed, TopBottom
<1>5. Moved(Posed(x, y), LeftRightTurn(z, Mirror(z)).to) = Posed(z, y)
  BY <1>1, <1>2, <1>3 DEF Moved, Posed, LeftRight
<1> QED
  BY <1>1, <1>4, <1>5

\* Open grippers turn freely.
LEMMA FreeTurn ==
  ASSUME NEW A \in SUBSET Axis, NEW g, NEW sees, NEW turns, NEW step,
         step.op = "grippers", DOMAIN step.to \subseteq Axis \ A
  PROVE  Does(HeldBy(A, g, sees, turns), step, HeldBy(A, Moved(g, step.to), sees, turns))
<1>1. PICK w, b : w = HeldBy(A, g, sees, turns) /\ b = w.cube
  OBVIOUS
<1>2. w.held /\ b.intact /\ w.rails = RailsIn(A) /\ w.grippers = g
  BY <1>1 DEF HeldBy
<1>3. {a \in DOMAIN step.to : w.rails[a] = "Grip" /\ Delta(w.grippers, step.to, a) # 0} = {}
  BY <1>2 DEF RailsIn
<1>4. TurnedCube(b, w.rails, w.grippers, step.to) = b
  BY <1>3 DEF TurnedCube
<1>5. After(w, step) = HeldBy(A, Moved(g, step.to), sees, turns)
  BY <1>1, <1>2, <1>4 DEF After, HeldBy
<1> QED
  BY <1>1, <1>5 DEF Does, Good, HeldBy

\* The two grippers that hold the cube turn it.
LEMMA PairTurns ==
  ASSUME NEW b, NEW at, NEW g, NEW to, NEW A \in {TopBottom, LeftRight}, DOMAIN to = A,
         \A a \in A : at[a] = "Grip", Released(at, OtherPair(A)),
         \A a \in A : Delta(g, to, a) \in 1 .. 3,
         \E a, c \in A : a # c /\ (Delta(g, to, a) + Delta(g, to, c)) % 4 = 0
  PROVE  /\ A = TopBottom =>
              TurnedCube(b, at, g, to) = [b EXCEPT !.sees = Rotated(@, FromAboutTop, Delta(g, to, "Top"))]
         /\ A = LeftRight =>
              TurnedCube(b, at, g, to) = [b EXCEPT !.sees = Rotated(@, FromAboutRight, Delta(g, to, "Right"))]
<1>0. A = {a \in DOMAIN to : at[a] = "Grip" /\ Delta(g, to, a) # 0}
  OBVIOUS
<1>1. A # {} /\ ~\E a \in A : A = {a}
  BY DEF LeftRight, TopBottom
<1>2. CASE A = TopBottom
  <2>1. OtherPair({"Top", "Bottom"}) = OtherPair(A) /\ A = {"Top", "Bottom"} /\ A # {"Right", "Left"}
    BY <1>2 DEF TopBottom
  <2>2. (Delta(g, to, "Top") + Delta(g, to, "Bottom")) % 4 = 0
    BY <2>1
  <2> QED
    BY <1>0, <1>1, <1>2, <2>1, <2>2 DEF TurnedCube, TopBottom, LeftRight
<1>3. CASE A = LeftRight
  <2>1. OtherPair({"Right", "Left"}) = OtherPair(A) /\ A = {"Right", "Left"} /\ A # {"Top", "Bottom"}
    BY <1>3 DEF LeftRight
  <2>2. (Delta(g, to, "Right") + Delta(g, to, "Left")) % 4 = 0
    BY <2>1
  <2> QED
    BY <1>0, <1>1, <1>3, <2>1, <2>2 DEF TurnedCube, TopBottom, LeftRight
<1> QED
  BY <1>2, <1>3

LEMMA TopBottomRotates ==
  ASSUME NEW x, NEW y \in Orientation, NEW z \in Orientation, y # z, NEW sees, NEW turns
  PROVE  Does(HeldBy(TopBottom, Posed(x, y), sees, turns), TopBottomTurn(z, Mirror(z)),
              HeldBy(TopBottom, Posed(x, z), Rotated(sees, FromAboutTop, Quarters(y, z)), turns))
<1>1. PICK w, b, at, g, to :
        /\ w = HeldBy(TopBottom, Posed(x, y), sees, turns) /\ b = w.cube /\ at = RailsIn(TopBottom)
        /\ g = Posed(x, y) /\ to = TopBottomTurn(z, Mirror(z)).to
  OBVIOUS
<1>2. /\ w.held /\ b = [sees |-> sees, turns |-> turns, intact |-> TRUE] /\ w.rails = at
      /\ w.grippers = g
  BY <1>1 DEF HeldBy
<1>3. DOMAIN to = TopBottom /\ TopBottomTurn(z, Mirror(z)).op = "grippers"
      /\ Moved(g, to) = Posed(x, z)
  BY <1>1, PosesMove
<1>4. PICK q, r : q = Quarters(y, z) /\ r = Quarters(Mirror(y), Mirror(z))
  OBVIOUS
<1>5. q \in 1 .. 3 /\ r \in 1 .. 3 /\ (q + r) % 4 = 0
  BY <1>4, MirrorTurns
<1>6. \A a \in TopBottom : /\ a = "Top" => Delta(g, to, a) = q
                           /\ a = "Bottom" => Delta(g, to, a) = r
  <2>1. \A a \in TopBottom : /\ a = "Top" => g[a] = y /\ to[a] = z
                             /\ a = "Bottom" => g[a] = Mirror(y) /\ to[a] = Mirror(z)
    BY <1>1, Axes DEF Posed, TopBottomTurn, Turn
  <2> QED
    BY <1>4, <2>1 DEF Delta, Quarters
<1>7. /\ \A a \in TopBottom : at[a] = "Grip"
      /\ Released(at, OtherPair(TopBottom))
  BY <1>1, Axes DEF RailsIn, Released
<1>8. \A a \in TopBottom : a = "Top" \/ a = "Bottom"
  BY DEF TopBottom
<1>9. \E a, c \in TopBottom : a # c /\ (Delta(g, to, a) + Delta(g, to, c)) % 4 = 0
  <2>1. PICK a, c \in TopBottom : a = "Top" /\ c = "Bottom"
    BY DEF TopBottom
  <2> QED
    BY <1>5, <1>6, <2>1
<1>10. PICK d : d = Delta(g, to, "Top") /\ d = q
  BY <1>6, <1>8 DEF TopBottom
<1>11. TurnedCube(b, at, g, to) = [b EXCEPT !.sees = Rotated(@, FromAboutTop, d)]
  BY <1>3, <1>5, <1>6, <1>7, <1>8, <1>9, <1>10, PairTurns
<1>12. TurnedCube(b, at, g, to)
         = [sees |-> Rotated(sees, FromAboutTop, q), turns |-> turns, intact |-> TRUE]
  BY <1>2, <1>10, <1>11
<1>13. PICK s : s = Rotated(sees, FromAboutTop, q)
  OBVIOUS
<1>14. After(w, TopBottomTurn(z, Mirror(z))) = HeldBy(TopBottom, Posed(x, z), s, turns)
  BY <1>1, <1>2, <1>3, <1>12, <1>13 DEF After, HeldBy
<1> QED
  BY <1>1, <1>4, <1>13, <1>14 DEF Does, Good, HeldBy

LEMMA LeftRightRotates ==
  ASSUME NEW x \in Orientation, NEW y, NEW z \in Orientation, x # z, NEW sees, NEW turns
  PROVE  Does(HeldBy(LeftRight, Posed(x, y), sees, turns), LeftRightTurn(z, Mirror(z)),
              HeldBy(LeftRight, Posed(z, y),
                     Rotated(sees, FromAboutRight, Quarters(Mirror(x), Mirror(z))), turns))
<1>1. PICK w, b, at, g, to :
        /\ w = HeldBy(LeftRight, Posed(x, y), sees, turns) /\ b = w.cube /\ at = RailsIn(LeftRight)
        /\ g = Posed(x, y) /\ to = LeftRightTurn(z, Mirror(z)).to
  OBVIOUS
<1>2. /\ w.held /\ b = [sees |-> sees, turns |-> turns, intact |-> TRUE] /\ w.rails = at
      /\ w.grippers = g
  BY <1>1 DEF HeldBy
<1>3. DOMAIN to = LeftRight /\ LeftRightTurn(z, Mirror(z)).op = "grippers"
      /\ Moved(g, to) = Posed(z, y)
  BY <1>1, PosesMove
<1>4. PICK q, r : q = Quarters(x, z) /\ r = Quarters(Mirror(x), Mirror(z))
  OBVIOUS
<1>5. q \in 1 .. 3 /\ r \in 1 .. 3 /\ (q + r) % 4 = 0
  BY <1>4, MirrorTurns
<1>6. \A a \in LeftRight : /\ a = "Left" => Delta(g, to, a) = q
                           /\ a = "Right" => Delta(g, to, a) = r
  <2>1. \A a \in LeftRight : /\ a = "Left" => g[a] = x /\ to[a] = z
                             /\ a = "Right" => g[a] = Mirror(x) /\ to[a] = Mirror(z)
    BY <1>1, Axes DEF Posed, LeftRightTurn, Turn
  <2> QED
    BY <1>4, <2>1 DEF Delta, Quarters
<1>7. /\ \A a \in LeftRight : at[a] = "Grip"
      /\ Released(at, OtherPair(LeftRight))
  BY <1>1, Axes DEF RailsIn, Released
<1>8. \A a \in LeftRight : a = "Left" \/ a = "Right"
  BY DEF LeftRight
<1>9. \E a, c \in LeftRight : a # c /\ (Delta(g, to, a) + Delta(g, to, c)) % 4 = 0
  <2>1. PICK a, c \in LeftRight : a = "Left" /\ c = "Right"
    BY DEF LeftRight
  <2> QED
    BY <1>5, <1>6, <2>1
<1>10. PICK d : d = Delta(g, to, "Right") /\ d = r
  BY <1>6, <1>8 DEF LeftRight
<1>11. TurnedCube(b, at, g, to) = [b EXCEPT !.sees = Rotated(@, FromAboutRight, d)]
  BY <1>3, <1>5, <1>6, <1>7, <1>8, <1>9, <1>10, PairTurns
<1>12. TurnedCube(b, at, g, to)
         = [sees |-> Rotated(sees, FromAboutRight, r), turns |-> turns, intact |-> TRUE]
  BY <1>2, <1>10, <1>11
<1>13. PICK s : s = Rotated(sees, FromAboutRight, r)
  OBVIOUS
<1>14. After(w, LeftRightTurn(z, Mirror(z))) = HeldBy(LeftRight, Posed(z, y), s, turns)
  BY <1>1, <1>2, <1>3, <1>12, <1>13 DEF After, HeldBy
<1> QED
  BY <1>1, <1>4, <1>13, <1>14 DEF Does, Good, HeldBy

\* Rails that move while a pair keeps its grip.
LEMMA RailsMove ==
  ASSUME NEW A \in SUBSET Axis, NEW B \in SUBSET Axis, NEW p \in RailPosition,
         NEW C, C = (IF p = "Grip" THEN A \cup B ELSE A \ B),
         LeftRight \subseteq C \/ TopBottom \subseteq C, NEW g, NEW sees, NEW turns
  PROVE  Does(HeldBy(A, g, sees, turns), MoveRails(B, p), HeldBy(C, g, sees, turns))
<1>1. PICK w, b, to : w = HeldBy(A, g, sees, turns) /\ b = w.cube /\ to = [a \in B |-> p]
  OBVIOUS
<1>2. w.held /\ b = [sees |-> sees, turns |-> turns, intact |-> TRUE] /\ w.rails = RailsIn(A)
      /\ w.grippers = g
  BY <1>1 DEF HeldBy
<1>a. MoveRails(B, p).op = "rails" /\ MoveRails(B, p).to = to
  BY <1>1 DEF MoveRails
<1>3. PICK step : step = MoveRails(B, p) /\ step.op = "rails" /\ step.to = to
  BY <1>a
<1>4. Moved(RailsIn(A), to) = RailsIn(C)
  BY <1>1 DEF Moved, RailsIn, RailPosition
<1>5. Gripped(RailsIn(C), LeftRight) \/ Gripped(RailsIn(C), TopBottom)
  BY Axes DEF Gripped, RailsIn
<1>6. MovedRails(b, RailsIn(A), to) = b
  BY <1>4, <1>5 DEF MovedRails, Moved
<1>7. After(w, step) = HeldBy(C, g, sees, turns)
  BY <1>1, <1>2, <1>3, <1>4, <1>6 DEF After, HeldBy
<1> QED
  BY <1>1, <1>3, <1>7 DEF Does, Good, HeldBy

\* One gripper turns the face of a cube that all four hold.
Turned(sees, turns, a, o, p) ==
  Append(turns, [face |-> sees[Facing(a)], turn |-> TurnName(Quarters(o, p))])

LEMMA OnlyMoves ==
  ASSUME NEW a \in Axis, NEW o, NEW p
  PROVE  /\ TurnAll({a}, p).op = "grippers" /\ DOMAIN TurnAll({a}, p).to = {a}
         /\ Moved(Only(a, o), TurnAll({a}, p).to) = Only(a, p)
         /\ \A g : Delta(g, TurnAll({a}, p).to, a) = Quarters(g[a], p)
<1>1. TurnAll({a}, p).op = "grippers" /\ TurnAll({a}, p).to = [b \in {a} |-> p]
  BY DEF TurnAll, Turn
<1> QED
  BY <1>1 DEF Moved, Only, Delta, Quarters

LEMMA FaceTurns1 ==
  ASSUME NEW a \in Axis, NEW o \in Orientation, NEW p \in Orientation, o # p, NEW sees, NEW turns
  PROVE  Does(HeldBy(Axis, Only(a, o), sees, turns), TurnAll({a}, p),
              HeldBy(Axis, Only(a, p), sees, Turned(sees, turns, a, o, p)))
<1>1. PICK w, b, at, g, step, to :
        /\ w = HeldBy(Axis, Only(a, o), sees, turns) /\ b = w.cube /\ at = RailsIn(Axis)
        /\ g = Only(a, o) /\ step = TurnAll({a}, p) /\ to = step.to
  OBVIOUS
<1>2. /\ w.held /\ b = [sees |-> sees, turns |-> turns, intact |-> TRUE] /\ w.rails = at
      /\ w.grippers = g
  BY <1>1 DEF HeldBy
<1>3. DOMAIN to = {a} /\ step.op = "grippers" /\ Moved(g, to) = Only(a, p)
  BY <1>1, OnlyMoves
<1>b. Delta(g, to, a) = Quarters(o, p)
  <2>1. g[a] = o
    BY <1>1 DEF Only
  <2> QED
    BY <1>1, <2>1, OnlyMoves
<1>4. PICK d : d = Delta(g, to, a) /\ d = Quarters(o, p)
  BY <1>b
<1>5. d \in 1 .. 3
  BY <1>4, MirrorTurns
<1>6. {c \in DOMAIN to : at[c] = "Grip" /\ Delta(g, to, c) # 0} = {a}
  BY <1>1, <1>3, <1>4, <1>5 DEF RailsIn
<1>7. Gripped(at, OtherPair(PairOf(a)))
  BY <1>1 DEF Gripped, OtherPair, RailsIn
<1>8. (CHOOSE c \in {a} : TRUE) = a
  OBVIOUS
<1>9. PICK n : n = TurnName(d)
  OBVIOUS
<1>10. TurnedCube(b, at, g, to)
         = [b EXCEPT !.turns = Append(@, [face |-> b.sees[Facing(a)], turn |-> n])]
  <2>1. \E c \in {a} : {a} = {c} /\ Gripped(at, OtherPair(PairOf(c)))
    BY <1>7
  <2>2. PICK A : A = {c \in DOMAIN to : at[c] = "Grip" /\ Delta(g, to, c) # 0} /\ A = {a}
    BY <1>6
  <2>3. /\ A # {} /\ (CHOOSE c \in A : TRUE) = a
        /\ \E c \in A : A = {c} /\ Gripped(at, OtherPair(PairOf(c)))
    BY <1>8, <2>1, <2>2
  <2>4. TurnedCube(b, at, g, to)
          = [b EXCEPT !.turns = Append(@, [face |-> b.sees[Facing(CHOOSE c \in A : TRUE)],
                                           turn |-> TurnName(Delta(g, to, CHOOSE c \in A : TRUE))])]
    BY <2>2, <2>3 DEF TurnedCube
  <2> QED
    BY <1>4, <1>9, <2>3, <2>4
<1>11. PICK ts : ts = Turned(sees, turns, a, o, p)
  OBVIOUS
<1>12. TurnedCube(b, at, g, to) = [sees |-> sees, turns |-> ts, intact |-> TRUE]
  <2>1. ts = Append(turns, [face |-> sees[Facing(a)], turn |-> n])
    BY <1>4, <1>9, <1>11 DEF Turned
  <2> QED
    BY <1>2, <1>10, <2>1
<1>13. After(w, step) = HeldBy(Axis, Only(a, p), sees, ts)
  BY <1>1, <1>2, <1>3, <1>12 DEF After, HeldBy
<1> QED
  BY <1>1, <1>11, <1>13 DEF Does, Good, HeldBy

-----------------------------------------------------------------------------
(* How the whole cube is turned.                                           *)

AboutTop(q)   == Rotated(Canonical, FromAboutTop, q)
AboutRight(q) == Rotated(Canonical, FromAboutRight, q)

LEMMA Rotations ==
  /\ Rotated(AboutTop(3), FromAboutTop, 1) = Canonical
  /\ Rotated(AboutTop(1), FromAboutTop, 3) = Canonical
  /\ Rotated(AboutTop(2), FromAboutTop, 2) = Canonical
  /\ Rotated(AboutTop(1), FromAboutTop, 1) = AboutTop(2)
  /\ Rotated(AboutRight(1), FromAboutRight, 3) = Canonical
  /\ Rotated(AboutRight(3), FromAboutRight, 1) = Canonical
<1>1. \A s, from : /\ Rotated(s, from, 1) = Quartered(s, from)
                   /\ Rotated(s, from, 2) = Quartered(Quartered(s, from), from)
                   /\ Rotated(s, from, 3) = Quartered(Quartered(Quartered(s, from), from), from)
  BY DEF Rotated
<1>2. ASSUME NEW from \in {FromAboutTop, FromAboutRight}
      PROVE  Quartered(Quartered(Quartered(Quartered(Canonical, from), from), from), from) = Canonical
  <2>1. /\ \A d \in CubeFace : FromAboutTop[d] \in CubeFace
        /\ \A d \in CubeFace : FromAboutTop[FromAboutTop[FromAboutTop[FromAboutTop[d]]]] = d
    BY DEF FromAboutTop, CubeFace
  <2>2. /\ \A d \in CubeFace : FromAboutRight[d] \in CubeFace
        /\ \A d \in CubeFace : FromAboutRight[FromAboutRight[FromAboutRight[FromAboutRight[d]]]] = d
    BY DEF FromAboutRight, CubeFace
  <2>3. \A d \in CubeFace : from[d] \in CubeFace /\ from[from[from[from[d]]]] = d
    BY <2>1, <2>2
  <2> QED
    BY <2>3 DEF Quartered, Canonical
<1>3. /\ AboutTop(1) = Quartered(Canonical, FromAboutTop)
      /\ AboutTop(2) = Quartered(Quartered(Canonical, FromAboutTop), FromAboutTop)
      /\ AboutTop(3) = Quartered(Quartered(Quartered(Canonical, FromAboutTop), FromAboutTop), FromAboutTop)
      /\ AboutRight(1) = Quartered(Canonical, FromAboutRight)
      /\ AboutRight(3) = Quartered(Quartered(Quartered(Canonical, FromAboutRight), FromAboutRight), FromAboutRight)
  BY <1>1 DEF AboutTop, AboutRight
<1> QED
  BY <1>1, <1>2, <1>3

-----------------------------------------------------------------------------
(* The course of a script: the cube is in good hands all along.            *)

Leads(w, steps, v) ==
  /\ Good(w)
  /\ \E ws : /\ ws[0] = w /\ ws[Len(steps)] = v
             /\ \A i \in 1 .. Len(steps) : Does(ws[i - 1], steps[i], ws[i])

LEMMA LeadsNowhere ==
  ASSUME NEW w, NEW v
  PROVE  Leads(w, <<>>, v) <=> v = w /\ Good(w)
<1>1. Len(<<>>) = 0 /\ 1 .. 0 = {}
  OBVIOUS
<1>2. ASSUME v = w, Good(w) PROVE Leads(w, <<>>, v)
  <2>1. PICK ws : ws = [i \in {0} |-> w]
    OBVIOUS
  <2>2. ws[0] = w
    BY <2>1
  <2> QED
    BY <1>1, <1>2, <2>2 DEF Leads
<1> QED
  BY <1>1, <1>2 DEF Leads

LEMMA LeadsStep == ASSUME NEW w, NEW step, NEW v, Does(w, step, v) PROVE Leads(w, << step >>, v)
<1>1. PICK ws : ws = [i \in 0 .. 1 |-> IF i = 0 THEN w ELSE v]
  OBVIOUS
<1>2. ws[0] = w /\ ws[1] = v /\ Len(<< step >>) = 1 /\ << step >>[1] = step /\ Good(w)
  BY <1>1 DEF Does
<1>3. \A i \in 1 .. 1 : Does(ws[i - 1], << step >>[i], ws[i])
  BY <1>2
<1> QED
  BY <1>2, <1>3 DEF Leads

LEMMA LeadsOn ==
  ASSUME NEW S, NEW steps \in Seq(S), NEW more \in Seq(S), NEW w, NEW u, NEW v,
         Leads(w, steps, u), Leads(u, more, v)
  PROVE  Leads(w, steps \o more, v)
<1>1. PICK n \in Nat, m \in Nat : n = Len(steps) /\ m = Len(more)
  OBVIOUS
<1>2. PICK f : /\ f[0] = w /\ f[n] = u
               /\ \A i \in 1 .. n : Does(f[i - 1], steps[i], f[i])
  BY <1>1 DEF Leads
<1>3. PICK g : /\ g[0] = u /\ g[m] = v
               /\ \A i \in 1 .. m : Does(g[i - 1], more[i], g[i])
  BY <1>1 DEF Leads
<1>4. PICK ws : ws = [i \in 0 .. n + m |-> IF i <= n THEN f[i] ELSE g[i - n]]
  OBVIOUS
<1>5. PICK all : all = steps \o more
  OBVIOUS
<1>6. /\ Len(all) = n + m
      /\ \A i \in 1 .. n : all[i] = steps[i]
      /\ \A i \in (n + 1) .. (n + m) : all[i] = more[i - n]
  BY <1>1, <1>5
<1>7. ws[0] = w
  BY <1>2, <1>4
<1>8. ws[n + m] = v
  <2>1. CASE m = 0
    BY <1>2, <1>3, <1>4, <2>1
  <2>2. CASE m > 0
    <3>1. n + m \in 0 .. n + m /\ ~(n + m <= n) /\ (n + m) - n = m
      BY <2>2
    <3> QED
      BY <1>3, <1>4, <3>1
  <2> QED
    BY <2>1, <2>2
<1>9. ASSUME NEW i \in 1 .. n + m PROVE Does(ws[i - 1], all[i], ws[i])
  <2>1. CASE i <= n
    <3>1. ws[i - 1] = f[i - 1] /\ ws[i] = f[i] /\ all[i] = steps[i] /\ i \in 1 .. n
      BY <1>4, <1>6, <2>1
    <3> QED
      BY <1>2, <3>1
  <2>2. CASE i > n
    <3>0. i \in (n + 1) .. (n + m) /\ i \in 0 .. n + m /\ ~(i <= n)
      BY <2>2
    <3>1. ws[i] = g[i - n] /\ all[i] = more[i - n]
      BY <1>4, <1>6, <3>0
    <3>2. ws[i - 1] = g[(i - n) - 1]
      <4>1. CASE i - 1 = n
        BY <1>2, <1>3, <1>4, <4>1
      <4>2. CASE i - 1 > n
        BY <1>4, <2>2, <4>2
      <4> QED
        BY <2>2, <4>1, <4>2
    <3>3. i - n \in 1 .. m
      BY <2>2
    <3> QED
      BY <1>3, <3>1, <3>2, <3>3
  <2> QED
    BY <2>1, <2>2
<1>10. Good(w)
  BY DEF Leads
<1> QED
  BY <1>5, <1>6, <1>7, <1>8, <1>9, <1>10 DEF Leads

LEMMA LeadsFirst ==
  ASSUME NEW S, NEW steps \in Seq(S), steps # <<>>, NEW w, NEW v, Leads(w, steps, v)
  PROVE  \E u : Does(w, Head(steps), u) /\ Leads(u, Tail(steps), v)
<1>1. PICK n \in Nat : n = Len(Tail(steps)) /\ Len(steps) = n + 1
  OBVIOUS
<1>2. PICK f : /\ f[0] = w /\ f[n + 1] = v
               /\ \A i \in 1 .. n + 1 : Does(f[i - 1], steps[i], f[i])
  BY <1>1 DEF Leads
<1>3. PICK rest : rest = Tail(steps)
  OBVIOUS
<1>4. Head(steps) = steps[1] /\ \A i \in 1 .. n : rest[i] = steps[i + 1]
  BY <1>1, <1>3
<1>5. PICK u : u = f[1]
  OBVIOUS
<1>6. Does(w, Head(steps), u)
  BY <1>2, <1>4, <1>5
<1>7. PICK ws : ws = [i \in 0 .. n |-> f[i + 1]]
  OBVIOUS
<1>8. ws[0] = u /\ ws[n] = v
  BY <1>2, <1>5, <1>7
<1>9. ASSUME NEW i \in 1 .. n PROVE Does(ws[i - 1], rest[i], ws[i])
  <2>1. ws[i - 1] = f[(i + 1) - 1] /\ ws[i] = f[i + 1] /\ i + 1 \in 1 .. n + 1
    BY <1>7
  <2> QED
    BY <1>2, <1>4, <2>1
<1>10. Good(u)
  BY <1>6 DEF Does
<1> QED
  BY <1>1, <1>3, <1>6, <1>8, <1>9, <1>10 DEF Leads

\* Scripts of a few steps.
LEMMA LeadsTwo ==
  ASSUME NEW a, NEW b, NEW w0, NEW w1, NEW w2, Does(w0, a, w1), Does(w1, b, w2)
  PROVE  Leads(w0, << a, b >>, w2)
<1>1. PICK s : s = << a, b >>
  OBVIOUS
<1>2. Len(s) = 2 /\ s[1] = a /\ s[2] = b
  BY <1>1
<1>3. PICK ws : ws = [i \in 0 .. 2 |-> IF i = 0 THEN w0 ELSE IF i = 1 THEN w1 ELSE w2]
  OBVIOUS
<1>4. ws[0] = w0 /\ ws[1] = w1 /\ ws[2] = w2
  BY <1>3
<1>5. \A i \in 1 .. 2 : 
        \/ (i = 1 /\ i - 1 = 0) \/ (i = 2 /\ i - 1 = 1)
  OBVIOUS
<1>6. \A i \in 1 .. 2 : Does(ws[i - 1], s[i], ws[i])
  BY <1>2, <1>4, <1>5
<1> QED
  BY <1>1, <1>2, <1>4, <1>6 DEF Leads, Does

LEMMA LeadsThree ==
  ASSUME NEW a, NEW b, NEW c, NEW w0, NEW w1, NEW w2, NEW w3, Does(w0, a, w1), Does(w1, b, w2),
         Does(w2, c, w3)
  PROVE  Leads(w0, << a, b, c >>, w3)
<1>1. PICK s : s = << a, b, c >>
  OBVIOUS
<1>2. Len(s) = 3 /\ s[1] = a /\ s[2] = b /\ s[3] = c
  BY <1>1
<1>3. PICK ws : ws = [i \in 0 .. 3 |-> IF i = 0 THEN w0 ELSE IF i = 1 THEN w1 ELSE IF i = 2
                   THEN w2 ELSE w3]
  OBVIOUS
<1>4. ws[0] = w0 /\ ws[1] = w1 /\ ws[2] = w2 /\ ws[3] = w3
  BY <1>3
<1>5. \A i \in 1 .. 3 : 
        \/ (i = 1 /\ i - 1 = 0) \/ (i = 2 /\ i - 1 = 1) \/ (i = 3 /\ i - 1 = 2)
  OBVIOUS
<1>6. \A i \in 1 .. 3 : Does(ws[i - 1], s[i], ws[i])
  BY <1>2, <1>4, <1>5
<1> QED
  BY <1>1, <1>2, <1>4, <1>6 DEF Leads, Does

LEMMA LeadsFour ==
  ASSUME NEW a, NEW b, NEW c, NEW d, NEW w0, NEW w1, NEW w2, NEW w3, NEW w4, Does(w0, a, w1),
         Does(w1, b, w2), Does(w2, c, w3), Does(w3, d, w4)
  PROVE  Leads(w0, << a, b, c, d >>, w4)
<1>1. PICK s : s = << a, b, c, d >>
  OBVIOUS
<1>2. Len(s) = 4 /\ s[1] = a /\ s[2] = b /\ s[3] = c /\ s[4] = d
  BY <1>1
<1>3. PICK ws : ws = [i \in 0 .. 4 |-> IF i = 0 THEN w0 ELSE IF i = 1 THEN w1 ELSE IF i = 2
                   THEN w2 ELSE IF i = 3 THEN w3 ELSE w4]
  OBVIOUS
<1>4. ws[0] = w0 /\ ws[1] = w1 /\ ws[2] = w2 /\ ws[3] = w3 /\ ws[4] = w4
  BY <1>3
<1>5. \A i \in 1 .. 4 : 
        \/ (i = 1 /\ i - 1 = 0) \/ (i = 2 /\ i - 1 = 1) \/ (i = 3 /\ i - 1 = 2)
        \/ (i = 4 /\ i - 1 = 3)
  OBVIOUS
<1>6. \A i \in 1 .. 4 : Does(ws[i - 1], s[i], ws[i])
  BY <1>2, <1>4, <1>5
<1> QED
  BY <1>1, <1>2, <1>4, <1>6 DEF Leads, Does

LEMMA LeadsFive ==
  ASSUME NEW a, NEW b, NEW c, NEW d, NEW e, NEW w0, NEW w1, NEW w2, NEW w3, NEW w4, NEW w5,
         Does(w0, a, w1), Does(w1, b, w2), Does(w2, c, w3), Does(w3, d, w4), Does(w4, e, w5)
  PROVE  Leads(w0, << a, b, c, d, e >>, w5)
<1>1. PICK s : s = << a, b, c, d, e >>
  OBVIOUS
<1>2. Len(s) = 5 /\ s[1] = a /\ s[2] = b /\ s[3] = c /\ s[4] = d /\ s[5] = e
  BY <1>1
<1>3. PICK ws : ws = [i \in 0 .. 5 |-> IF i = 0 THEN w0 ELSE IF i = 1 THEN w1 ELSE IF i = 2
                   THEN w2 ELSE IF i = 3 THEN w3 ELSE IF i = 4 THEN w4 ELSE w5]
  OBVIOUS
<1>4. ws[0] = w0 /\ ws[1] = w1 /\ ws[2] = w2 /\ ws[3] = w3 /\ ws[4] = w4 /\ ws[5] = w5
  BY <1>3
<1>5. \A i \in 1 .. 5 : 
        \/ (i = 1 /\ i - 1 = 0) \/ (i = 2 /\ i - 1 = 1) \/ (i = 3 /\ i - 1 = 2)
        \/ (i = 4 /\ i - 1 = 3) \/ (i = 5 /\ i - 1 = 4)
  OBVIOUS
<1>6. \A i \in 1 .. 5 : Does(ws[i - 1], s[i], ws[i])
  BY <1>2, <1>4, <1>5
<1> QED
  BY <1>1, <1>2, <1>4, <1>6 DEF Leads, Does

LEMMA LeadsSix ==
  ASSUME NEW a, NEW b, NEW c, NEW d, NEW e, NEW f, NEW w0, NEW w1, NEW w2, NEW w3, NEW w4, NEW
         w5, NEW w6, Does(w0, a, w1), Does(w1, b, w2), Does(w2, c, w3), Does(w3, d, w4),
         Does(w4, e, w5), Does(w5, f, w6)
  PROVE  Leads(w0, << a, b, c, d, e, f >>, w6)
<1>1. PICK s : s = << a, b, c, d, e, f >>
  OBVIOUS
<1>2. Len(s) = 6 /\ s[1] = a /\ s[2] = b /\ s[3] = c /\ s[4] = d /\ s[5] = e /\ s[6] = f
  BY <1>1
<1>3. PICK ws : ws = [i \in 0 .. 6 |-> IF i = 0 THEN w0 ELSE IF i = 1 THEN w1 ELSE IF i = 2
                   THEN w2 ELSE IF i = 3 THEN w3 ELSE IF i = 4 THEN w4 ELSE IF i = 5 THEN w5
                   ELSE w6]
  OBVIOUS
<1>4. ws[0] = w0 /\ ws[1] = w1 /\ ws[2] = w2 /\ ws[3] = w3 /\ ws[4] = w4 /\ ws[5] = w5 /\ ws[6] = w6
  BY <1>3
<1>5. \A i \in 1 .. 6 : 
        \/ (i = 1 /\ i - 1 = 0) \/ (i = 2 /\ i - 1 = 1) \/ (i = 3 /\ i - 1 = 2)
        \/ (i = 4 /\ i - 1 = 3) \/ (i = 5 /\ i - 1 = 4) \/ (i = 6 /\ i - 1 = 5)
  OBVIOUS
<1>6. \A i \in 1 .. 6 : Does(ws[i - 1], s[i], ws[i])
  BY <1>2, <1>4, <1>5
<1> QED
  BY <1>1, <1>2, <1>4, <1>6 DEF Leads, Does

-----------------------------------------------------------------------------
(* The steps of the scripts.                                               *)

LEMMA ViewTurns ==
  /\ LeftView  = TopBottomTurn("Parallel", Mirror("Parallel"))
  /\ RightView = TopBottomTurn("Reversed", Mirror("Reversed"))
  /\ UprightTB = TopBottomTurn("Perpendicular", Mirror("Perpendicular"))
  /\ DownView  = LeftRightTurn("Parallel", Mirror("Parallel"))
  /\ UpView    = LeftRightTurn("Reversed", Mirror("Reversed"))
  /\ UprightLR = LeftRightTurn("Perpendicular", Mirror("Perpendicular"))
  BY QuartersAre DEF LeftView, RightView, UprightTB, DownView, UpView, UprightLR

LEMMA FreeViews ==
  ASSUME NEW x, NEW y, NEW s, NEW t
  PROVE  /\ Does(HeldBy(LeftRight, Posed(x, y), s, t), LeftView,
                 HeldBy(LeftRight, Posed(x, "Parallel"), s, t))
         /\ Does(HeldBy(LeftRight, Posed(x, y), s, t), UprightTB,
                 HeldBy(LeftRight, Posed(x, "Perpendicular"), s, t))
         /\ Does(HeldBy(TopBottom, Posed(x, y), s, t), DownView,
                 HeldBy(TopBottom, Posed("Parallel", y), s, t))
         /\ Does(HeldBy(TopBottom, Posed(x, y), s, t), UpView,
                 HeldBy(TopBottom, Posed("Reversed", y), s, t))
<1>1. \A z : Does(HeldBy(LeftRight, Posed(x, y), s, t), TopBottomTurn(z, Mirror(z)),
                  HeldBy(LeftRight, Posed(x, z), s, t))
  <2> TAKE z
  <2>1. PICK g, step : g = Posed(x, y) /\ step = TopBottomTurn(z, Mirror(z))
    OBVIOUS
  <2>2. step.op = "grippers" /\ DOMAIN step.to = TopBottom /\ Moved(g, step.to) = Posed(x, z)
    BY <2>1, PosesMove
  <2>3. Does(HeldBy(LeftRight, g, s, t), step, HeldBy(LeftRight, Moved(g, step.to), s, t))
    BY <2>2, Axes, FreeTurn
  <2> QED
    BY <2>1, <2>2, <2>3
<1>2. \A z : Does(HeldBy(TopBottom, Posed(x, y), s, t), LeftRightTurn(z, Mirror(z)),
                  HeldBy(TopBottom, Posed(z, y), s, t))
  <2> TAKE z
  <2>1. PICK g, step : g = Posed(x, y) /\ step = LeftRightTurn(z, Mirror(z))
    OBVIOUS
  <2>2. step.op = "grippers" /\ DOMAIN step.to = LeftRight /\ Moved(g, step.to) = Posed(z, y)
    BY <2>1, PosesMove
  <2>3. Does(HeldBy(TopBottom, g, s, t), step, HeldBy(TopBottom, Moved(g, step.to), s, t))
    BY <2>2, Axes, FreeTurn
  <2> QED
    BY <2>1, <2>2, <2>3
<1> QED
  BY <1>1, <1>2, ViewTurns

LEMMA RailsSteps ==
  ASSUME NEW g, NEW s, NEW t
  PROVE  /\ Does(HeldBy(Axis, g, s, t), OpenPair(LeftRight), HeldBy(TopBottom, g, s, t))
         /\ Does(HeldBy(Axis, g, s, t), OpenPair(TopBottom), HeldBy(LeftRight, g, s, t))
         /\ Does(HeldBy(TopBottom, g, s, t), OpenPair(LeftRight), HeldBy(TopBottom, g, s, t))
         /\ Does(HeldBy(TopBottom, g, s, t), ClosePair(LeftRight), HeldBy(Axis, g, s, t))
         /\ Does(HeldBy(LeftRight, g, s, t), ClosePair(TopBottom), HeldBy(Axis, g, s, t))
<1>1. "Open" \in RailPosition /\ "Grip" \in RailPosition /\ "Open" # "Grip"
  BY DEF RailPosition
<1>2. /\ Axis \in SUBSET Axis /\ LeftRight \in SUBSET Axis /\ TopBottom \in SUBSET Axis
      /\ Axis \ LeftRight = TopBottom /\ Axis \ TopBottom = LeftRight
      /\ TopBottom \ LeftRight = TopBottom
      /\ TopBottom \cup LeftRight = Axis /\ LeftRight \cup TopBottom = Axis
      /\ LeftRight \subseteq Axis
  BY Axes
<1>3. /\ Does(HeldBy(Axis, g, s, t), MoveRails(LeftRight, "Open"), HeldBy(TopBottom, g, s, t))
      /\ Does(HeldBy(Axis, g, s, t), MoveRails(TopBottom, "Open"), HeldBy(LeftRight, g, s, t))
      /\ Does(HeldBy(TopBottom, g, s, t), MoveRails(LeftRight, "Open"), HeldBy(TopBottom, g, s, t))
  BY <1>1, <1>2, RailsMove
<1>4. /\ Does(HeldBy(TopBottom, g, s, t), MoveRails(LeftRight, "Grip"), HeldBy(Axis, g, s, t))
      /\ Does(HeldBy(LeftRight, g, s, t), MoveRails(TopBottom, "Grip"), HeldBy(Axis, g, s, t))
  BY <1>1, <1>2, RailsMove
<1> QED
  BY <1>3, <1>4 DEF OpenPair, ClosePair

LEMMA WholeTurns ==
  ASSUME NEW x, NEW t
  PROVE  /\ Does(HeldBy(TopBottom, Posed(x, "Perpendicular"), Canonical, t), LeftView,
                 HeldBy(TopBottom, Posed(x, "Parallel"), AboutTop(3), t))
         /\ Does(HeldBy(TopBottom, Posed(x, "Perpendicular"), Canonical, t), RightView,
                 HeldBy(TopBottom, Posed(x, "Reversed"), AboutTop(1), t))
         /\ Does(HeldBy(TopBottom, Posed(x, "Parallel"), AboutTop(3), t), UprightTB,
                 HeldBy(TopBottom, Posed(x, "Perpendicular"), Canonical, t))
         /\ Does(HeldBy(TopBottom, Posed(x, "Reversed"), AboutTop(1), t), UprightTB,
                 HeldBy(TopBottom, Posed(x, "Perpendicular"), Canonical, t))
         /\ Does(HeldBy(TopBottom, Posed(x, "Parallel"), Canonical, t), UprightTB,
                 HeldBy(TopBottom, Posed(x, "Perpendicular"), AboutTop(1), t))
         /\ Does(HeldBy(TopBottom, Posed(x, "Perpendicular"), AboutTop(1), t), RightView,
                 HeldBy(TopBottom, Posed(x, "Reversed"), AboutTop(2), t))
         /\ Does(HeldBy(TopBottom, Posed(x, "Parallel"), Canonical, t), RightView,
                 HeldBy(TopBottom, Posed(x, "Reversed"), AboutTop(2), t))
         /\ Does(HeldBy(TopBottom, Posed(x, "Reversed"), AboutTop(2), t), LeftView,
                 HeldBy(TopBottom, Posed(x, "Parallel"), Canonical, t))
         /\ Does(HeldBy(TopBottom, Posed(x, "Perpendicular"), AboutTop(3), t), RightView,
                 HeldBy(TopBottom, Posed(x, "Reversed"), Canonical, t))
<1>1. /\ "Parallel" \in Orientation /\ "Reversed" \in Orientation /\ "Perpendicular" \in Orientation
      /\ "Parallel" # "Reversed" /\ "Reversed" # "Perpendicular" /\ "Parallel" # "Perpendicular"
  BY DEF Orientation
<1>2. ASSUME NEW y \in Orientation, NEW z \in Orientation, y # z, NEW s, NEW v, NEW q,
             q = Quarters(y, z), Rotated(s, FromAboutTop, q) = v
      PROVE  Does(HeldBy(TopBottom, Posed(x, y), s, t), TopBottomTurn(z, Mirror(z)),
                  HeldBy(TopBottom, Posed(x, z), v, t))
  BY <1>2, TopBottomRotates
<1>3. /\ Rotated(Canonical, FromAboutTop, 3) = AboutTop(3)
      /\ Rotated(Canonical, FromAboutTop, 1) = AboutTop(1)
      /\ Rotated(Canonical, FromAboutTop, 2) = AboutTop(2)
  BY DEF AboutTop
<1>4. /\ Does(HeldBy(TopBottom, Posed(x, "Perpendicular"), Canonical, t), LeftView,
              HeldBy(TopBottom, Posed(x, "Parallel"), AboutTop(3), t))
      /\ Does(HeldBy(TopBottom, Posed(x, "Perpendicular"), Canonical, t), RightView,
              HeldBy(TopBottom, Posed(x, "Reversed"), AboutTop(1), t))
      /\ Does(HeldBy(TopBottom, Posed(x, "Parallel"), Canonical, t), UprightTB,
              HeldBy(TopBottom, Posed(x, "Perpendicular"), AboutTop(1), t))
      /\ Does(HeldBy(TopBottom, Posed(x, "Parallel"), Canonical, t), RightView,
              HeldBy(TopBottom, Posed(x, "Reversed"), AboutTop(2), t))
  BY <1>1, <1>2, <1>3, QuartersAre, ViewTurns
<1>5. /\ Does(HeldBy(TopBottom, Posed(x, "Parallel"), AboutTop(3), t), UprightTB,
              HeldBy(TopBottom, Posed(x, "Perpendicular"), Canonical, t))
      /\ Does(HeldBy(TopBottom, Posed(x, "Reversed"), AboutTop(1), t), UprightTB,
              HeldBy(TopBottom, Posed(x, "Perpendicular"), Canonical, t))
      /\ Does(HeldBy(TopBottom, Posed(x, "Perpendicular"), AboutTop(1), t), RightView,
              HeldBy(TopBottom, Posed(x, "Reversed"), AboutTop(2), t))
      /\ Does(HeldBy(TopBottom, Posed(x, "Reversed"), AboutTop(2), t), LeftView,
              HeldBy(TopBottom, Posed(x, "Parallel"), Canonical, t))
      /\ Does(HeldBy(TopBottom, Posed(x, "Perpendicular"), AboutTop(3), t), RightView,
              HeldBy(TopBottom, Posed(x, "Reversed"), Canonical, t))
  BY <1>1, <1>2, Rotations, QuartersAre, ViewTurns
<1> QED
  BY <1>4, <1>5

LEMMA WholeTilts ==
  ASSUME NEW y, NEW t
  PROVE  /\ Does(HeldBy(LeftRight, Posed("Perpendicular", y), Canonical, t), DownView,
                 HeldBy(LeftRight, Posed("Parallel", y), AboutRight(1), t))
         /\ Does(HeldBy(LeftRight, Posed("Perpendicular", y), Canonical, t), UpView,
                 HeldBy(LeftRight, Posed("Reversed", y), AboutRight(3), t))
         /\ Does(HeldBy(LeftRight, Posed("Parallel", y), Canonical, t), UprightLR,
                 HeldBy(LeftRight, Posed("Perpendicular", y), AboutRight(3), t))
         /\ Does(HeldBy(LeftRight, Posed("Reversed", y), Canonical, t), UprightLR,
                 HeldBy(LeftRight, Posed("Perpendicular", y), AboutRight(1), t))
         /\ Does(HeldBy(LeftRight, Posed("Parallel", y), AboutRight(1), t), UprightLR,
                 HeldBy(LeftRight, Posed("Perpendicular", y), Canonical, t))
         /\ Does(HeldBy(LeftRight, Posed("Reversed", y), AboutRight(3), t), UprightLR,
                 HeldBy(LeftRight, Posed("Perpendicular", y), Canonical, t))
<1>1. /\ "Parallel" \in Orientation /\ "Reversed" \in Orientation /\ "Perpendicular" \in Orientation
      /\ "Parallel" # "Reversed" /\ "Reversed" # "Perpendicular" /\ "Parallel" # "Perpendicular"
  BY DEF Orientation
<1>2. ASSUME NEW x \in Orientation, NEW z \in Orientation, x # z, NEW s, NEW v, NEW q,
             q = Quarters(Mirror(x), Mirror(z)), Rotated(s, FromAboutRight, q) = v
      PROVE  Does(HeldBy(LeftRight, Posed(x, y), s, t), LeftRightTurn(z, Mirror(z)),
                  HeldBy(LeftRight, Posed(z, y), v, t))
  BY <1>2, LeftRightRotates
<1>3. /\ Rotated(Canonical, FromAboutRight, 3) = AboutRight(3)
      /\ Rotated(Canonical, FromAboutRight, 1) = AboutRight(1)
  BY DEF AboutRight
<1>4. /\ Does(HeldBy(LeftRight, Posed("Perpendicular", y), Canonical, t), DownView,
              HeldBy(LeftRight, Posed("Parallel", y), AboutRight(1), t))
      /\ Does(HeldBy(LeftRight, Posed("Perpendicular", y), Canonical, t), UpView,
              HeldBy(LeftRight, Posed("Reversed", y), AboutRight(3), t))
      /\ Does(HeldBy(LeftRight, Posed("Parallel", y), Canonical, t), UprightLR,
              HeldBy(LeftRight, Posed("Perpendicular", y), AboutRight(3), t))
      /\ Does(HeldBy(LeftRight, Posed("Reversed", y), Canonical, t), UprightLR,
              HeldBy(LeftRight, Posed("Perpendicular", y), AboutRight(1), t))
  BY <1>1, <1>2, <1>3, QuartersAre, ViewTurns
<1>5. /\ Does(HeldBy(LeftRight, Posed("Parallel", y), AboutRight(1), t), UprightLR,
              HeldBy(LeftRight, Posed("Perpendicular", y), Canonical, t))
      /\ Does(HeldBy(LeftRight, Posed("Reversed", y), AboutRight(3), t), UprightLR,
              HeldBy(LeftRight, Posed("Perpendicular", y), Canonical, t))
  BY <1>1, <1>2, Rotations, QuartersAre, ViewTurns
<1> QED
  BY <1>4, <1>5

-----------------------------------------------------------------------------
(* The poses of the stand, and the scripts that lead from one to another.  *)

InGrip(s, t) == HeldBy(Axis, Straight, s, t)

\* The views of a scan: the face the camera sees, the pair that holds the
\* cube, and the stand with it.
Views(t) ==
  LET tilted(x, s) == HeldBy(LeftRight, Posed(x, "Perpendicular"), s, t)
      turned(y, s) == HeldBy(TopBottom, Posed("Perpendicular", y), s, t)
  IN { << "Front", LeftRight, tilted("Parallel", Canonical) >>,
       << "Down",  LeftRight, tilted("Parallel", AboutRight(1)) >>,
       << "Up",    LeftRight, tilted("Reversed", AboutRight(3)) >>,
       << "Left",  TopBottom, turned("Parallel", AboutTop(3)) >>,
       << "Right", TopBottom, turned("Reversed", AboutTop(1)) >>,
       << "Front", TopBottom, turned("Parallel", Canonical) >>,
       << "Back",  TopBottom, turned("Reversed", AboutTop(2)) >>,
       << "Up",    TopBottom, turned("Parallel", AboutRight(3)) >>,
       << "Down",  TopBottom, turned("Parallel", AboutRight(1)) >> }

\* What a rotated cube shows the camera.
LEMMA FrontShows ==
  /\ Canonical["Front"] = "Front" /\ AboutTop(3)["Front"] = "Left"
  /\ AboutTop(1)["Front"] = "Right" /\ AboutTop(2)["Front"] = "Back"
  /\ AboutRight(1)["Front"] = "Down" /\ AboutRight(3)["Front"] = "Up"
  /\ AboutTop(3)["Right"] = "Front" /\ AboutTop(3)["Left"] = "Back"
  /\ \A f \in CubeFace : Canonical[f] = f
<1>1. \A f \in CubeFace : Canonical[f] = f
  BY DEF Canonical
<1>2. \A s, from : \A f \in CubeFace : Quartered(s, from)[f] = s[from[f]]
  BY DEF Quartered
<1>3. \A f \in CubeFace :
        /\ FromAboutTop[f] \in CubeFace /\ FromAboutRight[f] \in CubeFace
        /\ f = "Front" => FromAboutTop[f] = "Right" /\ FromAboutRight[f] = "Down"
        /\ f = "Right" => FromAboutTop[f] = "Back"
        /\ f = "Back" => FromAboutTop[f] = "Left" /\ FromAboutRight[f] = "Up"
        /\ f = "Left" => FromAboutTop[f] = "Front"
        /\ f = "Down" => FromAboutRight[f] = "Back"
        /\ f = "Up" => FromAboutRight[f] = "Front"
  BY DEF FromAboutTop, FromAboutRight, CubeFace
<1>4. "Front" \in CubeFace /\ "Right" \in CubeFace /\ "Back" \in CubeFace /\ "Left" \in CubeFace
      /\ "Up" \in CubeFace /\ "Down" \in CubeFace
  BY DEF CubeFace
<1>5. /\ AboutTop(1) = Quartered(Canonical, FromAboutTop)
      /\ AboutTop(2) = Quartered(Quartered(Canonical, FromAboutTop), FromAboutTop)
      /\ AboutTop(3) = Quartered(Quartered(Quartered(Canonical, FromAboutTop), FromAboutTop),
                                 FromAboutTop)
      /\ AboutRight(1) = Quartered(Canonical, FromAboutRight)
      /\ AboutRight(3) = Quartered(Quartered(Quartered(Canonical, FromAboutRight), FromAboutRight),
                                   FromAboutRight)
  BY DEF AboutTop, AboutRight, Rotated
<1>6. /\ AboutTop(1)["Front"] = "Right" /\ AboutTop(2)["Front"] = "Back"
      /\ AboutRight(1)["Front"] = "Down"
  BY <1>1, <1>2, <1>3, <1>4, <1>5
<1>7. AboutTop(3)["Front"] = "Left" /\ AboutRight(3)["Front"] = "Up"
  BY <1>1, <1>2, <1>3, <1>4, <1>5
<1>8. AboutTop(3)["Right"] = "Front" /\ AboutTop(3)["Left"] = "Back"
  BY <1>1, <1>2, <1>3, <1>4, <1>5
<1> QED
  BY <1>1, <1>4, <1>6, <1>7, <1>8

LEMMA ViewsShow ==
  ASSUME NEW t, NEW v \in Views(t)
  PROVE  /\ v[3].held /\ v[3].cube.turns = t /\ v[3].cube.intact
         /\ v[3].cube.sees["Front"] = v[1] /\ v[1] \in CubeFace
         /\ v[2] \in {LeftRight, TopBottom}
         /\ Gripped(v[3].rails, v[2]) /\ Released(v[3].rails, Axis \ v[2])
<1>1. \A A, g, s : /\ HeldBy(A, g, s, t).held /\ HeldBy(A, g, s, t).cube.turns = t
                   /\ HeldBy(A, g, s, t).cube.intact /\ HeldBy(A, g, s, t).cube.sees = s
                   /\ HeldBy(A, g, s, t).rails = RailsIn(A)
  BY DEF HeldBy
<1>2. /\ Gripped(RailsIn(LeftRight), LeftRight) /\ Released(RailsIn(LeftRight), Axis \ LeftRight)
      /\ Gripped(RailsIn(TopBottom), TopBottom) /\ Released(RailsIn(TopBottom), Axis \ TopBottom)
  BY Axes DEF RailsIn, Gripped, Released
<1>3. PICK face, A, w : v = << face, A, w >>
  BY DEF Views
<1>4. PICK g, s : /\ A \in {LeftRight, TopBottom} /\ w = HeldBy(A, g, s, t)
                  /\ s["Front"] = face /\ face \in CubeFace
  BY <1>3, FrontShows DEF Views, CubeFace
<1>5. v[1] = face /\ v[2] = A /\ v[3] = w
  BY <1>3
<1>6. /\ w.held /\ w.cube.turns = t /\ w.cube.intact /\ w.cube.sees = s /\ w.rails = RailsIn(A)
  BY <1>1, <1>4
<1>7. Gripped(w.rails, A) /\ Released(w.rails, Axis \ A)
  BY <1>2, <1>4, <1>6
<1> QED
  BY <1>4, <1>5, <1>6, <1>7

LEMMA HandOvers ==
  ASSUME NEW x, NEW y, NEW s, NEW t
  PROVE  /\ Leads(HeldBy(LeftRight, Posed(x, y), s, t), HandTo(TopBottom, LeftView),
                  HeldBy(TopBottom, Posed(x, "Parallel"), s, t))
         /\ Leads(HeldBy(TopBottom, Posed(x, y), s, t), HandTo(LeftRight, DownView),
                  HeldBy(LeftRight, Posed("Parallel", y), s, t))
         /\ Leads(HeldBy(TopBottom, Posed(x, y), s, t), HandTo(LeftRight, UpView),
                  HeldBy(LeftRight, Posed("Reversed", y), s, t))
<1>1. /\ HandTo(TopBottom, LeftView) = << LeftView, ClosePair(TopBottom), OpenPair(LeftRight) >>
      /\ HandTo(LeftRight, DownView) = << DownView, ClosePair(LeftRight), OpenPair(TopBottom) >>
      /\ HandTo(LeftRight, UpView) = << UpView, ClosePair(LeftRight), OpenPair(TopBottom) >>
  BY Axes DEF HandTo
<1>2. Leads(HeldBy(LeftRight, Posed(x, y), s, t), HandTo(TopBottom, LeftView),
            HeldBy(TopBottom, Posed(x, "Parallel"), s, t))
  BY <1>1, FreeViews, RailsSteps, LeadsThree
<1>3. Leads(HeldBy(TopBottom, Posed(x, y), s, t), HandTo(LeftRight, DownView),
            HeldBy(LeftRight, Posed("Parallel", y), s, t))
  BY <1>1, FreeViews, RailsSteps, LeadsThree
<1>4. Leads(HeldBy(TopBottom, Posed(x, y), s, t), HandTo(LeftRight, UpView),
            HeldBy(LeftRight, Posed("Reversed", y), s, t))
  BY <1>1, FreeViews, RailsSteps, LeadsThree
<1> QED
  BY <1>2, <1>3, <1>4

LEMMA ScanPoseLeads ==
  ASSUME NEW face \in CubeFace, NEW t
  PROVE  \E v : /\ Leads(InGrip(Canonical, t), ScanPoseScript(face), v)
                /\ << face, IF face = "Front" THEN LeftRight ELSE TopBottom, v >> \in Views(t)
<1> DEFINE P == "Perpendicular"
<1>1. InGrip(Canonical, t) = HeldBy(Axis, Posed(P, P), Canonical, t)
  BY StraightIs DEF InGrip
<1>2. /\ << OpenPair(LeftRight) >> \in Seq(RunStep) /\ << OpenPair(TopBottom) >> \in Seq(RunStep)
      /\ << UprightLR >> \in Seq(RunStep) /\ << UprightTB, RightView >> \in Seq(RunStep)
  BY NamedSteps
<1>3. /\ Leads(InGrip(Canonical, t), << OpenPair(LeftRight) >>,
               HeldBy(TopBottom, Posed(P, P), Canonical, t))
      /\ Leads(InGrip(Canonical, t), << OpenPair(TopBottom) >>,
               HeldBy(LeftRight, Posed(P, P), Canonical, t))
  BY <1>1, RailsSteps, LeadsStep
\* The cube handed to the left and right grippers.
<1>4. /\ << OpenPair(LeftRight) >> \o HandTo(LeftRight, DownView) \in Seq(RunStep)
      /\ << OpenPair(LeftRight) >> \o HandTo(LeftRight, UpView) \in Seq(RunStep)
      /\ << OpenPair(TopBottom) >> \o HandTo(TopBottom, LeftView) \in Seq(RunStep)
  BY <1>2, HandScripts, ScriptsJoin
<1>5. /\ Leads(InGrip(Canonical, t), << OpenPair(LeftRight) >> \o HandTo(LeftRight, DownView),
               HeldBy(LeftRight, Posed("Parallel", P), Canonical, t))
      /\ Leads(InGrip(Canonical, t), << OpenPair(LeftRight) >> \o HandTo(LeftRight, UpView),
               HeldBy(LeftRight, Posed("Reversed", P), Canonical, t))
      /\ Leads(InGrip(Canonical, t), << OpenPair(TopBottom) >> \o HandTo(TopBottom, LeftView),
               HeldBy(TopBottom, Posed(P, "Parallel"), Canonical, t))
  BY <1>2, <1>3, HandScripts, HandOvers, LeadsOn
<1>6. CASE face = "Front"
  <2>1. ScanPoseScript(face) = << OpenPair(LeftRight) >> \o HandTo(LeftRight, DownView)
    BY <1>6 DEF ScanPoseScript
  <2> QED
    BY <1>5, <1>6, <2>1 DEF Views
<1>7. CASE face = "Left"
  <2>1. ScanPoseScript(face) = << OpenPair(LeftRight), LeftView >>
    BY <1>7 DEF ScanPoseScript
  <2>2. Leads(InGrip(Canonical, t), << OpenPair(LeftRight), LeftView >>,
              HeldBy(TopBottom, Posed(P, "Parallel"), AboutTop(3), t))
    BY <1>1, RailsSteps, WholeTurns, LeadsTwo
  <2> QED
    BY <1>7, <2>1, <2>2 DEF Views
<1>8. CASE face = "Right"
  <2>1. ScanPoseScript(face) = << OpenPair(LeftRight), RightView >>
    BY <1>8 DEF ScanPoseScript
  <2>2. Leads(InGrip(Canonical, t), << OpenPair(LeftRight), RightView >>,
              HeldBy(TopBottom, Posed(P, "Reversed"), AboutTop(1), t))
    BY <1>1, RailsSteps, WholeTurns, LeadsTwo
  <2> QED
    BY <1>8, <2>1, <2>2 DEF Views
\* Turned upright there, and handed back.
<1>9. ASSUME NEW script0 \in Seq(RunStep), NEW x, NEW s, NEW u,
             Leads(InGrip(Canonical, t), script0, HeldBy(LeftRight, Posed(x, P), s, t)),
             Does(HeldBy(LeftRight, Posed(x, P), s, t), UprightLR,
                  HeldBy(LeftRight, Posed(P, P), u, t))
      PROVE  Leads(InGrip(Canonical, t), script0 \o << UprightLR >> \o HandTo(TopBottom, LeftView),
                   HeldBy(TopBottom, Posed(P, "Parallel"), u, t))
  <2>1. Leads(InGrip(Canonical, t), script0 \o << UprightLR >>, HeldBy(LeftRight, Posed(P, P), u, t))
    BY <1>2, <1>9, LeadsStep, LeadsOn
  <2>2. script0 \o << UprightLR >> \in Seq(RunStep)
    BY <1>2, ScriptsJoin
  <2> QED
    BY <2>1, <2>2, HandScripts, HandOvers, LeadsOn
<1>10. CASE face = "Up"
  <2>1. ScanPoseScript(face) = << OpenPair(LeftRight) >> \o HandTo(LeftRight, DownView)
                               \o << UprightLR >> \o HandTo(TopBottom, LeftView)
    BY <1>10 DEF ScanPoseScript
  <2>2. Leads(InGrip(Canonical, t), ScanPoseScript(face),
              HeldBy(TopBottom, Posed(P, "Parallel"), AboutRight(3), t))
    BY <1>4, <1>5, <1>9, <2>1, WholeTilts
  <2> QED
    BY <1>10, <2>2 DEF Views
<1>11. CASE face = "Down"
  <2>1. ScanPoseScript(face) = << OpenPair(LeftRight) >> \o HandTo(LeftRight, UpView)
                               \o << UprightLR >> \o HandTo(TopBottom, LeftView)
    BY <1>11 DEF ScanPoseScript
  <2>2. Leads(InGrip(Canonical, t), ScanPoseScript(face),
              HeldBy(TopBottom, Posed(P, "Parallel"), AboutRight(1), t))
    BY <1>4, <1>5, <1>9, <2>1, WholeTilts
  <2> QED
    BY <1>11, <2>2 DEF Views
<1>12. CASE face = "Back"
  <2>1. ScanPoseScript(face) = << OpenPair(TopBottom) >> \o HandTo(TopBottom, LeftView)
                               \o << UprightTB, RightView >>
    BY <1>12 DEF ScanPoseScript
  <2>2. Leads(HeldBy(TopBottom, Posed(P, "Parallel"), Canonical, t), << UprightTB, RightView >>,
              HeldBy(TopBottom, Posed(P, "Reversed"), AboutTop(2), t))
    BY WholeTurns, LeadsTwo
  <2>3. Leads(InGrip(Canonical, t), ScanPoseScript(face),
              HeldBy(TopBottom, Posed(P, "Reversed"), AboutTop(2), t))
    BY <1>2, <1>4, <1>5, <2>1, <2>2, LeadsOn
  <2> QED
    BY <1>12, <2>3 DEF Views
<1> QED
  BY <1>6, <1>7, <1>8, <1>10, <1>11, <1>12 DEF CubeFace

LEMMA ScanNextLeads ==
  ASSUME NEW tr \in ScanTransitions, NEW t, NEW w, << tr[1], tr[2], w >> \in Views(t)
  PROVE  \E v : /\ Leads(w, ScanNextScript(tr[1], tr[3]), v)
                /\ << tr[3], tr[4], v >> \in Views(t)
<1> DEFINE P == "Perpendicular"
<1>1. PICK from, A, to, B : from = tr[1] /\ A = tr[2] /\ to = tr[3] /\ B = tr[4]
  OBVIOUS
<1>2. << from, A, to, B >> \in ScanTransitions /\ << from, A, w >> \in Views(t)
  BY <1>1 DEF ScanTransitions
<1>3. LeftRight # TopBottom
  BY Axes
<1>4. << UprightLR >> \in Seq(RunStep)
  BY NamedSteps
<1>5. ASSUME NEW x, NEW s, NEW u,
             Does(HeldBy(LeftRight, Posed(x, P), s, t), UprightLR,
                  HeldBy(LeftRight, Posed(P, P), u, t))
      PROVE  Leads(HeldBy(LeftRight, Posed(x, P), s, t), << UprightLR >> \o HandTo(TopBottom, LeftView),
                   HeldBy(TopBottom, Posed(P, "Parallel"), u, t))
  BY <1>4, <1>5, HandScripts, HandOvers, LeadsStep, LeadsOn
<1>6. CASE from = "Front" /\ A = LeftRight /\ to = "Up" /\ B = TopBottom
  <2>1. w = HeldBy(LeftRight, Posed("Parallel", P), Canonical, t)
    BY <1>2, <1>3, <1>6 DEF Views
  <2>2. ScanNextScript(from, to) = << UprightLR >> \o HandTo(TopBottom, LeftView)
    BY <1>6 DEF ScanNextScript
  <2>3. Leads(w, ScanNextScript(from, to), HeldBy(TopBottom, Posed(P, "Parallel"), AboutRight(3), t))
    BY <1>5, <2>1, <2>2, WholeTilts
  <2> QED
    BY <1>1, <1>6, <2>3 DEF Views
<1>7. CASE from = "Left" /\ A = TopBottom /\ to = "Right" /\ B = TopBottom
  <2>1. w = HeldBy(TopBottom, Posed(P, "Parallel"), AboutTop(3), t)
    BY <1>2, <1>3, <1>7 DEF Views
  <2>2. ScanNextScript(from, to) = << UprightTB, RightView >>
    BY <1>7 DEF ScanNextScript
  <2>3. Leads(w, ScanNextScript(from, to), HeldBy(TopBottom, Posed(P, "Reversed"), AboutTop(1), t))
    BY <2>1, <2>2, WholeTurns, LeadsTwo
  <2> QED
    BY <1>1, <1>7, <2>3 DEF Views
<1>8. CASE from = "Right" /\ A = TopBottom /\ to = "Down" /\ B = LeftRight
  <2>1. w = HeldBy(TopBottom, Posed(P, "Reversed"), AboutTop(1), t)
    BY <1>2, <1>3, <1>8 DEF Views
  <2>2. ScanNextScript(from, to) = << UprightTB, ClosePair(LeftRight), OpenPair(TopBottom), DownView >>
    BY <1>8 DEF ScanNextScript
  <2>3. Leads(w, ScanNextScript(from, to), HeldBy(LeftRight, Posed("Parallel", P), AboutRight(1), t))
    BY <2>1, <2>2, WholeTurns, WholeTilts, RailsSteps, LeadsFour
  <2> QED
    BY <1>1, <1>8, <2>3 DEF Views
<1>9. CASE from = "Down" /\ A = LeftRight /\ to = "Up" /\ B = LeftRight
  <2>1. w = HeldBy(LeftRight, Posed("Parallel", P), AboutRight(1), t)
    BY <1>2, <1>3, <1>9 DEF Views
  <2>2. ScanNextScript(from, to) = << UprightLR, UpView >>
    BY <1>9 DEF ScanNextScript
  <2>3. Leads(w, ScanNextScript(from, to), HeldBy(LeftRight, Posed("Reversed", P), AboutRight(3), t))
    BY <2>1, <2>2, WholeTilts, LeadsTwo
  <2> QED
    BY <1>1, <1>9, <2>3 DEF Views
<1>10. CASE from = "Up" /\ A = LeftRight /\ to = "Front" /\ B = TopBottom
  <2>1. w = HeldBy(LeftRight, Posed("Reversed", P), AboutRight(3), t)
    BY <1>2, <1>3, <1>10 DEF Views
  <2>2. ScanNextScript(from, to) = << UprightLR >> \o HandTo(TopBottom, LeftView)
    BY <1>10 DEF ScanNextScript
  <2>3. Leads(w, ScanNextScript(from, to), HeldBy(TopBottom, Posed(P, "Parallel"), Canonical, t))
    BY <1>5, <2>1, <2>2, WholeTilts
  <2> QED
    BY <1>1, <1>10, <2>3 DEF Views
<1>11. CASE from = "Front" /\ A = TopBottom /\ to = "Back" /\ B = TopBottom
  <2>1. w = HeldBy(TopBottom, Posed(P, "Parallel"), Canonical, t)
    BY <1>2, <1>3, <1>11 DEF Views
  <2>2. ScanNextScript(from, to) = << RightView >>
    BY <1>11 DEF ScanNextScript
  <2>3. Leads(w, ScanNextScript(from, to), HeldBy(TopBottom, Posed(P, "Reversed"), AboutTop(2), t))
    BY <2>1, <2>2, WholeTurns, LeadsStep
  <2> QED
    BY <1>1, <1>11, <2>3 DEF Views
<1> QED
  BY <1>2, <1>6, <1>7, <1>8, <1>9, <1>10, <1>11 DEF ScanTransitions

LEMMA ReturnLeads ==
  ASSUME NEW t, NEW w, << "Back", TopBottom, w >> \in Views(t)
  PROVE  Leads(w, ReturnFrontAfterScan, InGrip(Canonical, t))
<1> DEFINE P == "Perpendicular"
<1>1. w = HeldBy(TopBottom, Posed(P, "Reversed"), AboutTop(2), t)
  BY Axes DEF Views
<1>2. InGrip(Canonical, t) = HeldBy(Axis, Posed(P, P), Canonical, t)
  BY StraightIs DEF InGrip
<1>3. /\ Does(w, LeftView, HeldBy(TopBottom, Posed(P, "Parallel"), Canonical, t))
      /\ Does(HeldBy(TopBottom, Posed(P, "Parallel"), Canonical, t), ClosePair(LeftRight),
              HeldBy(Axis, Posed(P, "Parallel"), Canonical, t))
      /\ Does(HeldBy(Axis, Posed(P, "Parallel"), Canonical, t), OpenPair(TopBottom),
              HeldBy(LeftRight, Posed(P, "Parallel"), Canonical, t))
      /\ Does(HeldBy(LeftRight, Posed(P, "Parallel"), Canonical, t), UprightTB,
              HeldBy(LeftRight, Posed(P, P), Canonical, t))
      /\ Does(HeldBy(LeftRight, Posed(P, P), Canonical, t), ClosePair(TopBottom),
              InGrip(Canonical, t))
  BY <1>1, <1>2, WholeTurns, RailsSteps, FreeViews
<1> QED
  BY <1>3, LeadsFive DEF ReturnFrontAfterScan

\* The whole cube turned between two regrips.
LEMMA RegripLeads ==
  ASSUME NEW t
  PROVE  /\ Leads(InGrip(Canonical, t), PositionFrontBack, InGrip(AboutTop(3), t))
         /\ Leads(InGrip(AboutTop(3), t), RestoreFront, InGrip(Canonical, t))
<1> DEFINE P == "Perpendicular"
<1>1. ASSUME NEW s, NEW u, NEW y, NEW view,
             Does(HeldBy(TopBottom, Posed(P, P), s, t), view, HeldBy(TopBottom, Posed(P, y), u, t))
      PROVE  Leads(InGrip(s, t), TurnBetweenRegrips(view), InGrip(u, t))
  <2>1. /\ InGrip(s, t) = HeldBy(Axis, Posed(P, P), s, t)
        /\ InGrip(u, t) = HeldBy(Axis, Posed(P, P), u, t)
    BY StraightIs DEF InGrip
  <2>2. /\ Does(InGrip(s, t), OpenPair(LeftRight), HeldBy(TopBottom, Posed(P, P), s, t))
        /\ Does(HeldBy(TopBottom, Posed(P, y), u, t), ClosePair(LeftRight),
                HeldBy(Axis, Posed(P, y), u, t))
        /\ Does(HeldBy(Axis, Posed(P, y), u, t), OpenPair(TopBottom),
                HeldBy(LeftRight, Posed(P, y), u, t))
        /\ Does(HeldBy(LeftRight, Posed(P, y), u, t), UprightTB, HeldBy(LeftRight, Posed(P, P), u, t))
        /\ Does(HeldBy(LeftRight, Posed(P, P), u, t), ClosePair(TopBottom), InGrip(u, t))
    BY <2>1, RailsSteps, FreeViews
  <2> QED
    BY <1>1, <2>2, LeadsSix DEF TurnBetweenRegrips
<1> QED
  BY <1>1, WholeTurns DEF PositionFrontBack, RestoreFront

\* A face turned by the gripper that holds it.
LEMMA DirectLeads ==
  ASSUME NEW a \in Axis, NEW turn \in {"CW", "Half", "CCW"}, NEW s, NEW t
  PROVE  Leads(InGrip(s, t), DirectFaceTurn(a, turn),
               InGrip(s, Append(t, [face |-> s[Facing(a)], turn |-> turn])))
<1> DEFINE P == "Perpendicular"
<1>1. /\ "Parallel" \in Orientation /\ "Reversed" \in Orientation /\ "Perpendicular" \in Orientation
      /\ "Parallel" # "Reversed" /\ "Reversed" # "Perpendicular" /\ "Parallel" # "Perpendicular"
  BY DEF Orientation
<1>2. \A u, v : InGrip(u, v) = HeldBy(Axis, Only(a, P), u, v)
  BY StraightIs DEF InGrip
<1>3. ASSUME NEW g, NEW u
      PROVE  /\ Does(HeldBy(Axis, g, s, u), OpenPair({a}), HeldBy(Axis \ {a}, g, s, u))
             /\ Does(HeldBy(Axis \ {a}, g, s, u), ClosePair({a}), HeldBy(Axis, g, s, u))
  <2>1. /\ Axis \in SUBSET Axis /\ {a} \in SUBSET Axis /\ Axis \ {a} \in SUBSET Axis
        /\ (Axis \ {a}) \cup {a} = Axis
        /\ LeftRight \subseteq Axis \ {a} \/ TopBottom \subseteq Axis \ {a}
        /\ LeftRight \subseteq Axis
    BY Axes
  <2>2. "Open" \in RailPosition /\ "Grip" \in RailPosition /\ "Open" # "Grip"
    BY DEF RailPosition
  <2>3. Does(HeldBy(Axis, g, s, u), MoveRails({a}, "Open"), HeldBy(Axis \ {a}, g, s, u))
    BY <2>1, <2>2, RailsMove
  <2>4. Does(HeldBy(Axis \ {a}, g, s, u), MoveRails({a}, "Grip"), HeldBy(Axis, g, s, u))
    BY <2>1, <2>2, RailsMove
  <2> QED
    BY <2>3, <2>4 DEF OpenPair, ClosePair
<1>4. ASSUME NEW o, NEW p, NEW u
      PROVE  Does(HeldBy(Axis \ {a}, Only(a, o), s, u), TurnAll({a}, p),
                  HeldBy(Axis \ {a}, Only(a, p), s, u))
  <2>1. PICK g, step : g = Only(a, o) /\ step = TurnAll({a}, p)
    OBVIOUS
  <2>2. step.op = "grippers" /\ DOMAIN step.to = {a} /\ Moved(g, step.to) = Only(a, p)
    BY <2>1, OnlyMoves
  <2>3. Axis \ {a} \in SUBSET Axis /\ DOMAIN step.to \subseteq Axis \ (Axis \ {a})
    BY <2>2
  <2>4. Does(HeldBy(Axis \ {a}, g, s, u), step, HeldBy(Axis \ {a}, Moved(g, step.to), s, u))
    BY <2>2, <2>3, FreeTurn
  <2> QED
    BY <2>1, <2>2, <2>4
<1>5. PICK t1 : t1 = Append(t, [face |-> s[Facing(a)], turn |-> turn])
  OBVIOUS
<1>6. PICK back : back = << OpenPair({a}), TurnAll({a}, P), ClosePair({a}) >>
  OBVIOUS
<1>7. /\ TurnAll({a}, "Reversed") \in RunStep /\ TurnAll({a}, "Parallel") \in RunStep
      /\ TurnAll({a}, P) \in RunStep /\ OpenPair({a}) \in RunStep /\ ClosePair({a}) \in RunStep
  <2>1. {a} \in SUBSET Axis
    OBVIOUS
  <2> QED
    BY <1>1, <2>1, TurnsAre, RailStepsAre
<1>8. back \in Seq(RunStep)
  BY <1>6, <1>7
<1>9. \A o : Leads(HeldBy(Axis, Only(a, o), s, t1), back, InGrip(s, t1))
  BY <1>2, <1>3, <1>4, <1>6, LeadsThree
<1>10. /\ TurnName(1) = "CW" /\ TurnName(2) = "Half" /\ TurnName(3) = "CCW"
  BY DEF TurnName
<1>11. ASSUME NEW o \in Orientation, NEW p \in Orientation, o # p, TurnName(Quarters(o, p)) = turn
       PROVE  Does(HeldBy(Axis, Only(a, o), s, t), TurnAll({a}, p), HeldBy(Axis, Only(a, p), s, t1))
  <2>1. Turned(s, t, a, o, p) = t1
    BY <1>5, <1>11 DEF Turned
  <2> QED
    BY <1>11, <2>1, FaceTurns1
<1>12. ASSUME NEW first \in Seq(RunStep), NEW o,
              Leads(InGrip(s, t), first, HeldBy(Axis, Only(a, o), s, t1)),
              DirectFaceTurn(a, turn) = first \o back
       PROVE  Leads(InGrip(s, t), DirectFaceTurn(a, turn), InGrip(s, t1))
  BY <1>8, <1>9, <1>12, LeadsOn
<1>13. CASE turn = "CW"
  <2>1. DirectFaceTurn(a, turn) = << TurnAll({a}, "Reversed") >> \o back
    BY <1>6, <1>13 DEF DirectFaceTurn
  <2>2. Leads(InGrip(s, t), << TurnAll({a}, "Reversed") >>, HeldBy(Axis, Only(a, "Reversed"), s, t1))
    BY <1>1, <1>2, <1>10, <1>11, <1>13, QuartersAre, LeadsStep
  <2>3. << TurnAll({a}, "Reversed") >> \in Seq(RunStep)
    BY <1>7
  <2> QED
    BY <1>5, <1>12, <2>1, <2>2, <2>3
<1>14. CASE turn = "CCW"
  <2>1. DirectFaceTurn(a, turn) = << TurnAll({a}, "Parallel") >> \o back
    BY <1>6, <1>14 DEF DirectFaceTurn
  <2>2. Leads(InGrip(s, t), << TurnAll({a}, "Parallel") >>, HeldBy(Axis, Only(a, "Parallel"), s, t1))
    BY <1>1, <1>2, <1>10, <1>11, <1>14, QuartersAre, LeadsStep
  <2>3. << TurnAll({a}, "Parallel") >> \in Seq(RunStep)
    BY <1>7
  <2> QED
    BY <1>5, <1>12, <2>1, <2>2, <2>3
<1>15. CASE turn = "Half"
  <2>1. DirectFaceTurn(a, turn) = << OpenPair({a}), TurnAll({a}, "Parallel"), ClosePair({a}),
                                     TurnAll({a}, "Reversed") >> \o back
    BY <1>6, <1>15 DEF DirectFaceTurn
  <2>2. Does(HeldBy(Axis, Only(a, "Parallel"), s, t), TurnAll({a}, "Reversed"),
             HeldBy(Axis, Only(a, "Reversed"), s, t1))
    BY <1>1, <1>10, <1>11, <1>15, QuartersAre
  <2>3. Leads(InGrip(s, t), << OpenPair({a}), TurnAll({a}, "Parallel"), ClosePair({a}),
                               TurnAll({a}, "Reversed") >>,
              HeldBy(Axis, Only(a, "Reversed"), s, t1))
    BY <1>2, <1>3, <1>4, <2>2, LeadsFour
  <2>4. << OpenPair({a}), TurnAll({a}, "Parallel"), ClosePair({a}), TurnAll({a}, "Reversed") >>
          \in Seq(RunStep)
    BY <1>7
  <2> QED
    BY <1>5, <1>12, <2>1, <2>3, <2>4
<1> QED
  BY <1>5, <1>13, <1>14, <1>15

\* A move of a solution turns the face it names, as it says.
LEMMA MoveLeads ==
  ASSUME NEW move \in FaceTurns, NEW t
  PROVE  Leads(InGrip(Canonical, t), ProbeMoveScript(move), InGrip(Canonical, Append(t, move)))
<1>1. PICK face \in CubeFace, turn \in {"CW", "Half", "CCW"} :
        face = move.face /\ turn = move.turn /\ move = [face |-> face, turn |-> turn]
  BY DEF FaceTurns
<1>2. Facing("Left") = "Left" /\ Facing("Right") = "Right" /\ Facing("Top") = "Up"
      /\ Facing("Bottom") = "Down"
  BY DEF Facing
<1>3. CASE face \in {"Left", "Right", "Up", "Down"}
  <2>1. PICK a \in Axis : Facing(a) = face /\ ProbeMoveScript(move) = DirectFaceTurn(a, turn)
    BY <1>1, <1>2, <1>3 DEF ProbeMoveScript, Axis
  <2>2. Canonical[Facing(a)] = face
    BY <2>1, FrontShows
  <2> QED
    BY <1>1, <2>1, <2>2, DirectLeads
<1>4. CASE face \in {"Front", "Back"}
  <2>1. PICK a \in Axis : /\ AboutTop(3)[Facing(a)] = face
                          /\ ProbeMoveScript(move) =
                               PositionFrontBack \o DirectFaceTurn(a, turn) \o RestoreFront
    BY <1>1, <1>2, <1>4, FrontShows DEF ProbeMoveScript, Axis
  <2>2. PICK t1 : t1 = Append(t, move)
    OBVIOUS
  <2>3. Leads(InGrip(AboutTop(3), t), DirectFaceTurn(a, turn), InGrip(AboutTop(3), t1))
    BY <1>1, <2>1, <2>2, DirectLeads
  <2>4. /\ PositionFrontBack \in Seq(RunStep) /\ RestoreFront \in Seq(RunStep)
        /\ DirectFaceTurn(a, turn) \in Seq(RunStep)
    BY NamedSteps, RegripScripts, FaceTurnScripts DEF PositionFrontBack, RestoreFront
  <2>5. Leads(InGrip(Canonical, t), PositionFrontBack \o DirectFaceTurn(a, turn),
              InGrip(AboutTop(3), t1))
    BY <2>3, <2>4, RegripLeads, LeadsOn
  <2>6. PositionFrontBack \o DirectFaceTurn(a, turn) \in Seq(RunStep)
    BY <2>4, ScriptsJoin
  <2> QED
    BY <2>1, <2>2, <2>4, <2>5, <2>6, RegripLeads, LeadsOn
<1> QED
  BY <1>3, <1>4 DEF CubeFace

-----------------------------------------------------------------------------
(* The calls.                                                              *)

\* The stand is where the runtime takes it to be.
IsAt(c, w) ==
  \/ c = OpenPose /\ ~w.held /\ w.rails = RailsIn({}) /\ w.grippers = Straight
  \/ c = GripPose /\ w = InGrip(Canonical, w.cube.turns)
  \/ \E v \in Views(w.cube.turns) : c = ScanHold(v[1], v[2]) /\ w = v[3]
  \/ c.state \in {"Unknown", "OutputsOff", "Faulted"} /\ ~w.held

LEMMA PosesAre ==
  /\ OpenPose.state = "SafeOpen" /\ OpenPose.holder = {} /\ OpenPose.face = None
  /\ GripPose.state = "Gripped" /\ GripPose.holder = {} /\ GripPose.face = None
  /\ Unknown.state = "Unknown" /\ OutputsOff.state = "OutputsOff" /\ OutputsOff.holder = {}
  /\ \A f, A : /\ ScanHold(f, A).state = "ScanHold" /\ ScanHold(f, A).face = f
               /\ ScanHold(f, A).holder = A
  BY DEF OpenPose, GripPose, Unknown, OutputsOff, InState, ScanHold

LEMMA AtIsGood ==
  ASSUME NEW c, NEW w, IsAt(c, w)
  PROVE  /\ Good(w)
         /\ c.state \in {"SafeOpen", "Gripped", "ScanHold", "Unknown", "OutputsOff", "Faulted"}
         /\ c.state = "SafeOpen" => /\ c = OpenPose /\ ~w.held
                                    /\ w.rails = RailsIn({}) /\ w.grippers = Straight
         /\ c.state = "Gripped" => c = GripPose /\ w = InGrip(Canonical, w.cube.turns)
         /\ c.state = "ScanHold" => \E v \in Views(w.cube.turns) : c = ScanHold(v[1], v[2]) /\ w = v[3]
         /\ c.state \in {"Unknown", "OutputsOff", "Faulted"} => ~w.held
<1>1. CASE c = OpenPose /\ ~w.held /\ w.rails = RailsIn({}) /\ w.grippers = Straight
  BY <1>1, PosesAre DEF Good
<1>2. CASE c = GripPose /\ w = InGrip(Canonical, w.cube.turns)
  <2>1. PICK t : t = w.cube.turns /\ w = InGrip(Canonical, t)
    BY <1>2
  <2>2. w.cube.intact
    BY <2>1 DEF InGrip, HeldBy
  <2> QED
    BY <1>2, <2>2, PosesAre DEF Good
<1>3. CASE \E v \in Views(w.cube.turns) : c = ScanHold(v[1], v[2]) /\ w = v[3]
  <2>1. PICK t : t = w.cube.turns
    OBVIOUS
  <2>2. PICK v \in Views(t) : c = ScanHold(v[1], v[2]) /\ w = v[3]
    BY <1>3, <2>1
  <2>3. w.cube.intact
    BY <2>2, ViewsShow
  <2> QED
    BY <1>3, <2>2, <2>3, PosesAre DEF Good
<1>4. CASE c.state \in {"Unknown", "OutputsOff", "Faulted"} /\ ~w.held
  BY <1>4 DEF Good
<1> QED
  BY <1>1, <1>2, <1>3, <1>4 DEF IsAt

LEMMA LetsGo ==
  ASSUME NEW w, NEW A, Good(w)
  PROVE  Does(w, LetGo(A), [rails |-> Moved(w.rails, [a \in A |-> "Open"]), grippers |-> w.grippers,
                            held |-> FALSE, cube |-> NewCube])
<1>1. LetGo(A).op = "letgo" /\ LetGo(A).to = [a \in A |-> "Open"] /\ ClosePair(Axis).op = "rails"
  BY DEF LetGo, ClosePair, MoveRails
<1>2. LetGo(A) # ClosePair(Axis)
  BY <1>1
<1> QED
  BY <1>1, <1>2 DEF Does, After, Good

\* Without a cube nothing happens to one.
LEMMA EmptySteps ==
  ASSUME NEW w, ~w.held
  PROVE  /\ Does(w, OpenPair(LeftRight),
                 [rails |-> Moved(w.rails, [a \in LeftRight |-> "Open"]), grippers |-> w.grippers,
                  held |-> FALSE, cube |-> NewCube])
         /\ Does(w, TurnAll(Axis, "Perpendicular"),
                 [rails |-> w.rails, grippers |-> Straight, held |-> w.held, cube |-> w.cube])
         /\ w.rails = RailsIn({}) /\ w.grippers = Straight =>
              Does(w, ClosePair(Axis), InGrip(Canonical, <<>>))
<1>1. /\ OpenPair(LeftRight).op = "rails" /\ OpenPair(LeftRight).to = [a \in LeftRight |-> "Open"]
      /\ ClosePair(Axis).op = "rails" /\ ClosePair(Axis).to = [a \in Axis |-> "Grip"]
      /\ TurnAll(Axis, "Perpendicular").op = "grippers"
      /\ TurnAll(Axis, "Perpendicular").to = [a \in Axis |-> "Perpendicular"]
  BY DEF OpenPair, ClosePair, MoveRails, TurnAll, Turn
<1>2. OpenPair(LeftRight) # ClosePair(Axis)
  <2>1. "Left" \in LeftRight /\ "Left" \in Axis
    BY DEF LeftRight, Axis
  <2>2. OpenPair(LeftRight).to["Left"] = "Open" /\ ClosePair(Axis).to["Left"] = "Grip"
    BY <1>1, <2>1
  <2> QED
    BY <2>2
<1>3. Does(w, OpenPair(LeftRight),
           [rails |-> Moved(w.rails, [a \in LeftRight |-> "Open"]), grippers |-> w.grippers,
            held |-> FALSE, cube |-> NewCube])
  BY <1>1, <1>2 DEF Does, After, Good
<1>4. Moved(w.grippers, [a \in Axis |-> "Perpendicular"]) = Straight
  BY DEF Moved, Straight
<1>5. Does(w, TurnAll(Axis, "Perpendicular"),
           [rails |-> w.rails, grippers |-> Straight, held |-> w.held, cube |-> w.cube])
  BY <1>1, <1>4 DEF Does, After, Good
<1>6. ASSUME w.rails = RailsIn({}), w.grippers = Straight
      PROVE  Does(w, ClosePair(Axis), InGrip(Canonical, <<>>))
  <2>1. Moved(w.rails, [a \in Axis |-> "Grip"]) = RailsIn(Axis)
    BY DEF Moved, RailsIn
  <2>2. PICK step : step = ClosePair(Axis) /\ step.op = "rails" /\ step.to = [a \in Axis |-> "Grip"]
    BY <1>1
  <2>3. After(w, step) = [rails |-> RailsIn(Axis), grippers |-> Straight, held |-> TRUE, cube |-> NewCube]
    BY <1>6, <2>1, <2>2 DEF After
  <2>4. InGrip(Canonical, <<>>)
          = [rails |-> RailsIn(Axis), grippers |-> Straight, held |-> TRUE, cube |-> NewCube]
    BY DEF InGrip, HeldBy, NewCube
  <2>5. NewCube.intact
    BY DEF NewCube
  <2> QED
    BY <2>2, <2>3, <2>4, <2>5 DEF Does, Good
<1> QED
  BY <1>3, <1>5, <1>6

\* The rails opened on purpose: the cube is let go by the pair that holds it.
LEMMA OpenAllLeads ==
  ASSUME NEW w, Good(w),
         \/ ~w.held
         \/ commanded.holder = LeftRight
         \/ \E A \in {Axis, TopBottom} : \E g, s, t : w = HeldBy(A, g, s, t)
  PROVE  \E v : /\ Leads(w, OpenAllRails, v)
                /\ ~v.held /\ v.rails = RailsIn({}) /\ v.grippers = w.grippers
<1>1. PICK first : first = IF commanded.holder = LeftRight THEN LetGo(LeftRight) ELSE OpenPair(LeftRight)
  OBVIOUS
<1>2. OpenAllRails = << first, LetGo(TopBottom) >>
  BY <1>1 DEF OpenAllRails
<1>3. ASSUME NEW u, Does(w, first, u), u.grippers = w.grippers,
             \A a \in LeftRight : u.rails[a] = "Open"
      PROVE  \E v : /\ Leads(w, OpenAllRails, v)
                    /\ ~v.held /\ v.rails = RailsIn({}) /\ v.grippers = w.grippers
  <2>1. PICK v : v = [rails |-> Moved(u.rails, [a \in TopBottom |-> "Open"]), grippers |-> u.grippers,
                      held |-> FALSE, cube |-> NewCube]
    OBVIOUS
  <2>2. Does(u, LetGo(TopBottom), v)
    BY <1>3, <2>1, LetsGo DEF Does
  <2>3. Moved(u.rails, [a \in TopBottom |-> "Open"]) = RailsIn({})
    BY <1>3, Axes DEF Moved, RailsIn
  <2> QED
    BY <1>2, <1>3, <2>1, <2>2, <2>3, LeadsTwo
<1>4. \A a \in LeftRight : Moved(w.rails, [b \in LeftRight |-> "Open"])[a] = "Open"
  BY Axes DEF Moved
<1>8. PICK r : /\ r = [rails |-> Moved(w.rails, [a \in LeftRight |-> "Open"]),
                       grippers |-> w.grippers, held |-> FALSE, cube |-> NewCube]
               /\ r.grippers = w.grippers /\ \A a \in LeftRight : r.rails[a] = "Open"
  <2>1. PICK q : q = [rails |-> Moved(w.rails, [a \in LeftRight |-> "Open"]),
                      grippers |-> w.grippers, held |-> FALSE, cube |-> NewCube]
    OBVIOUS
  <2> QED
    BY <1>4, <2>1
<1>5. CASE commanded.holder = LeftRight
  BY <1>1, <1>3, <1>5, <1>8, LetsGo
<1>6. CASE commanded.holder # LeftRight /\ ~w.held
  BY <1>1, <1>3, <1>6, <1>8, EmptySteps
<1>7. CASE commanded.holder # LeftRight /\ w.held
  <2>0. PICK A \in {Axis, TopBottom} : \E g, s, t : w = HeldBy(A, g, s, t)
    BY <1>7
  <2>1. PICK g, s, t : w = HeldBy(A, g, s, t)
    BY <2>0
  <2>2. PICK u : u = HeldBy(TopBottom, g, s, t)
    OBVIOUS
  <2>3. Does(w, first, u)
    BY <1>1, <1>7, <2>1, <2>2, RailsSteps
  <2>4. u.grippers = g /\ w.grippers = g /\ u.rails = RailsIn(TopBottom)
    BY <2>1, <2>2 DEF HeldBy
  <2>5. \A a \in LeftRight : RailsIn(TopBottom)[a] = "Open"
    BY Axes DEF RailsIn
  <2> QED
    BY <1>3, <2>3, <2>4, <2>5
<1> QED
  BY <1>5, <1>6, <1>7

LEMMA SafeOpenLeads ==
  ASSUME NEW w, IsAt(commanded, w)
  PROVE  \E v : Leads(w, SafeOpenScript, v) /\ IsAt(OpenPose, v) /\ ~v.held
<1>1. PICK u : /\ Leads(w, OpenAllRails, u)
               /\ ~u.held /\ u.rails = RailsIn({}) /\ u.grippers = w.grippers
  <2>1. CASE ~w.held
    BY <2>1, AtIsGood, OpenAllLeads
  <2>2. CASE commanded = GripPose /\ w = InGrip(Canonical, w.cube.turns)
    <3>1. \E A \in {Axis, TopBottom} : \E g, s, t : w = HeldBy(A, g, s, t)
      BY <2>2 DEF InGrip
    <3> QED
      BY <3>1, AtIsGood, OpenAllLeads
  <2>3. CASE \E v \in Views(w.cube.turns) : commanded = ScanHold(v[1], v[2]) /\ w = v[3]
    <3>1. PICK t : t = w.cube.turns
      OBVIOUS
    <3>2. PICK v \in Views(t) : commanded = ScanHold(v[1], v[2]) /\ w = v[3]
      BY <2>3, <3>1
    <3>3. commanded.holder = v[2]
      BY <3>2, PosesAre
    <3>4. v[2] = LeftRight \/ \E g, s : v[3] = HeldBy(TopBottom, g, s, t)
      BY DEF Views
    <3> QED
      BY <3>2, <3>3, <3>4, AtIsGood, OpenAllLeads
  <2> QED
    BY <2>1, <2>2, <2>3 DEF IsAt
<1>2. PICK v : v = [rails |-> u.rails, grippers |-> Straight, held |-> u.held, cube |-> u.cube]
  OBVIOUS
<1>3. Leads(u, << TurnAll(Axis, "Perpendicular") >>, v)
  BY <1>1, <1>2, EmptySteps, LeadsStep
<1>4. OpenAllRails \in Seq(RunStep) /\ << TurnAll(Axis, "Perpendicular") >> \in Seq(RunStep)
  BY OpenScripts, NamedSteps
<1>5. Leads(w, SafeOpenScript, v)
  BY <1>1, <1>3, <1>4, LeadsOn DEF SafeOpenScript
<1> QED
  BY <1>1, <1>2, <1>5 DEF IsAt

LEMMA GripLeads ==
  ASSUME NEW w, IsAt(commanded, w)
  PROVE  Leads(w, GripScript, InGrip(Canonical, <<>>))
<1>1. ASSUME NEW u, IsAt(OpenPose, u)
      PROVE  Leads(u, << ClosePair(Axis) >>, InGrip(Canonical, <<>>))
  <2>1. ~u.held /\ u.rails = RailsIn({}) /\ u.grippers = Straight
    BY <1>1, AtIsGood, PosesAre
  <2> QED
    BY <2>1, EmptySteps, LeadsStep
<1>2. CASE commanded.state = "SafeOpen"
  <2>1. commanded = OpenPose
    BY <1>2, AtIsGood
  <2>2. GripScript = << ClosePair(Axis) >>
    BY <1>2 DEF GripScript
  <2> QED
    BY <1>1, <2>1, <2>2
<1>3. CASE commanded.state # "SafeOpen"
  <2>1. PICK u : Leads(w, SafeOpenScript, u) /\ IsAt(OpenPose, u)
    BY SafeOpenLeads
  <2>2. SafeOpenScript \in Seq(RunStep) /\ << ClosePair(Axis) >> \in Seq(RunStep)
    BY OpenScripts, NamedSteps
  <2>3. GripScript = SafeOpenScript \o << ClosePair(Axis) >>
    BY <1>3 DEF GripScript
  <2> QED
    BY <1>1, <2>1, <2>2, <2>3, LeadsOn
<1> QED
  BY <1>2, <1>3

LEMMA JoinedNotEmpty ==
  ASSUME NEW S, NEW s \in Seq(S), NEW t \in Seq(S), s # <<>> \/ t # <<>>
  PROVE  s \o t # <<>>
<1>1. PICK n \in Nat, m \in Nat : n = Len(s) /\ m = Len(t)
  OBVIOUS
<1>2. n # 0 \/ m # 0
  BY <1>1
<1>3. Len(s \o t) = n + m
  BY <1>1
<1> QED
  BY <1>2, <1>3

LEMMA ScriptsStart ==
  /\ SafeOpenScript # <<>> /\ GripScript # <<>>
  /\ \A face \in CubeFace : ScanPoseScript(face) # <<>>
  /\ \A tr \in ScanTransitions : ScanNextScript(tr[1], tr[3]) # <<>>
  /\ ReturnFrontAfterScan # <<>> /\ ReturnFrontAfterScan \o OpenAllRails # <<>>
  /\ \A move \in FaceTurns : ProbeMoveScript(move) # <<>>
<1>1. /\ << TurnAll(Axis, "Perpendicular") >> \in Seq(RunStep) /\ << ClosePair(Axis) >> \in Seq(RunStep)
      /\ << OpenPair(LeftRight) >> \in Seq(RunStep) /\ << OpenPair(TopBottom) >> \in Seq(RunStep)
      /\ << UprightLR >> \in Seq(RunStep) /\ << UprightTB, RightView >> \in Seq(RunStep)
  BY NamedSteps
<1>2. /\ OpenAllRails \in Seq(RunStep) /\ SafeOpenScript \in Seq(RunStep)
      /\ ReturnFrontAfterScan \in Seq(RunStep)
  BY OpenScripts, ReturnScript
<1>3. SafeOpenScript # <<>>
  BY <1>1, <1>2, JoinedNotEmpty DEF SafeOpenScript
<1>4. GripScript # <<>>
  <2>1. PICK s : s = (IF commanded.state = "SafeOpen" THEN <<>> ELSE SafeOpenScript)
    OBVIOUS
  <2>2. s \in Seq(RunStep) /\ GripScript = s \o << ClosePair(Axis) >>
    BY <1>2, <2>1 DEF GripScript
  <2> QED
    BY <1>1, <2>2, JoinedNotEmpty
<1>5. ReturnFrontAfterScan # <<>> /\ ReturnFrontAfterScan \o OpenAllRails # <<>>
  <2>1. ReturnFrontAfterScan # <<>>
    BY DEF ReturnFrontAfterScan
  <2> QED
    BY <1>2, <2>1, JoinedNotEmpty
<1>6. ASSUME NEW face \in CubeFace PROVE ScanPoseScript(face) # <<>>
  <2>1. /\ << OpenPair(LeftRight) >> \o HandTo(LeftRight, DownView) \in Seq(RunStep)
        /\ << OpenPair(LeftRight) >> \o HandTo(LeftRight, UpView) \in Seq(RunStep)
        /\ << OpenPair(TopBottom) >> \o HandTo(TopBottom, LeftView) \in Seq(RunStep)
        /\ << OpenPair(LeftRight) >> \o HandTo(LeftRight, DownView) # <<>>
        /\ << OpenPair(LeftRight) >> \o HandTo(LeftRight, UpView) # <<>>
        /\ << OpenPair(TopBottom) >> \o HandTo(TopBottom, LeftView) # <<>>
    BY <1>1, HandScripts, ScriptsJoin, JoinedNotEmpty
  <2>2. /\ << OpenPair(LeftRight) >> \o HandTo(LeftRight, DownView) \o << UprightLR >> \in Seq(RunStep)
        /\ << OpenPair(LeftRight) >> \o HandTo(LeftRight, UpView) \o << UprightLR >> \in Seq(RunStep)
        /\ << OpenPair(LeftRight) >> \o HandTo(LeftRight, DownView) \o << UprightLR >> # <<>>
        /\ << OpenPair(LeftRight) >> \o HandTo(LeftRight, UpView) \o << UprightLR >> # <<>>
    BY <1>1, <2>1, ScriptsJoin, JoinedNotEmpty
  <2>3. /\ << OpenPair(LeftRight) >> \o HandTo(LeftRight, DownView) \o << UprightLR >>
             \o HandTo(TopBottom, LeftView) # <<>>
        /\ << OpenPair(LeftRight) >> \o HandTo(LeftRight, UpView) \o << UprightLR >>
             \o HandTo(TopBottom, LeftView) # <<>>
        /\ << OpenPair(TopBottom) >> \o HandTo(TopBottom, LeftView) \o << UprightTB, RightView >> # <<>>
    BY <1>1, <2>1, <2>2, HandScripts, JoinedNotEmpty
  <2>4. << OpenPair(LeftRight), LeftView >> # <<>> /\ << OpenPair(LeftRight), RightView >> # <<>>
    OBVIOUS
  <2> QED
    BY <2>1, <2>3, <2>4 DEF ScanPoseScript, CubeFace
<1>7. ASSUME NEW tr \in ScanTransitions PROVE ScanNextScript(tr[1], tr[3]) # <<>>
  <2>1. << UprightLR >> \o HandTo(TopBottom, LeftView) # <<>>
    BY <1>1, HandScripts, JoinedNotEmpty
  <2>2. PICK from, to : from = tr[1] /\ to = tr[3]
    OBVIOUS
  <2>3. << from, to >> \in { << "Front", "Up" >>, << "Left", "Right" >>, << "Right", "Down" >>,
                            << "Down", "Up" >>, << "Up", "Front" >>, << "Front", "Back" >> }
    BY <2>2 DEF ScanTransitions
  <2>4. << UprightTB, RightView >> # <<>> /\ << RightView >> # <<>> /\ << UprightLR, UpView >> # <<>>
        /\ << UprightTB, ClosePair(LeftRight), OpenPair(TopBottom), DownView >> # <<>>
    OBVIOUS
  <2> QED
    BY <2>1, <2>2, <2>3, <2>4 DEF ScanNextScript
<1>8. ASSUME NEW move \in FaceTurns PROVE ProbeMoveScript(move) # <<>>
  <2>1. PICK face \in CubeFace, turn \in {"CW", "Half", "CCW"} : face = move.face /\ turn = move.turn
    BY DEF FaceTurns
  <2>2. ASSUME NEW a \in Axis PROVE DirectFaceTurn(a, turn) # <<>>
    <3>1. \A s : s \in Seq(RunStep) =>
            s \o << OpenPair({a}), TurnAll({a}, "Perpendicular"), ClosePair({a}) >> # <<>>
      <4>1. {a} \in SUBSET Axis /\ "Perpendicular" \in Orientation
        BY DEF Orientation
      <4>2. << OpenPair({a}), TurnAll({a}, "Perpendicular"), ClosePair({a}) >> \in Seq(RunStep)
        BY <4>1, TurnsAre, RailStepsAre
      <4>3. << OpenPair({a}), TurnAll({a}, "Perpendicular"), ClosePair({a}) >> # <<>>
        OBVIOUS
      <4> QED
        BY <4>2, <4>3, JoinedNotEmpty
    <3>2. /\ << TurnAll({a}, "Reversed") >> \in Seq(RunStep) /\ << TurnAll({a}, "Parallel") >> \in Seq(RunStep)
          /\ << OpenPair({a}), TurnAll({a}, "Parallel"), ClosePair({a}), TurnAll({a}, "Reversed") >>
               \in Seq(RunStep)
      <4>1. {a} \in SUBSET Axis /\ "Parallel" \in Orientation /\ "Reversed" \in Orientation
        BY DEF Orientation
      <4>2. /\ TurnAll({a}, "Reversed") \in RunStep /\ TurnAll({a}, "Parallel") \in RunStep
            /\ OpenPair({a}) \in RunStep /\ ClosePair({a}) \in RunStep
        BY <4>1, TurnsAre, RailStepsAre
      <4> QED
        BY <4>2
    <3> QED
      BY <3>1, <3>2 DEF DirectFaceTurn
  <2>3. /\ PositionFrontBack \in Seq(RunStep) /\ RestoreFront \in Seq(RunStep)
        /\ \A a \in {"Left", "Right"} : DirectFaceTurn(a, turn) \in Seq(RunStep)
    BY NamedSteps, RegripScripts, FaceTurnScripts DEF PositionFrontBack, RestoreFront, Axis
  <2>4. \A a \in {"Left", "Right"} :
          PositionFrontBack \o DirectFaceTurn(a, turn) \o RestoreFront # <<>>
    <3>1. \A a \in {"Left", "Right"} : DirectFaceTurn(a, turn) # <<>>
      BY <2>2 DEF Axis
    <3> QED
      BY <2>3, <3>1, ScriptsJoin, JoinedNotEmpty
  <2> QED
    BY <2>1, <2>2, <2>4 DEF ProbeMoveScript, CubeFace, Axis
<1> QED
  BY <1>3, <1>4, <1>5, <1>6, <1>7, <1>8

\* A call done from the world w ends in the commanded state h and the world v.
CallDoes(c, w, h, v) ==
  /\ c.name = "safe_open" => h = OpenPose
  /\ c.name = "grip" => h = GripPose /\ v.cube.turns = <<>>
  /\ c.name = "scan_pose" =>
       /\ commanded = GripPose /\ v.cube.turns = w.cube.turns
       /\ h = ScanHold(c.face, IF c.face = "Front" THEN LeftRight ELSE TopBottom)
  /\ c.name = "scan_next" =>
       /\ v.cube.turns = w.cube.turns
       /\ \E tr \in ScanTransitions : /\ commanded = ScanHold(tr[1], tr[2]) /\ c.face = tr[3]
                                      /\ h = ScanHold(tr[3], tr[4])
  /\ c.name = "finish_scan" => h = OpenPose
  /\ c.name = "finish_scan_for_execution" => h = GripPose /\ v.cube.turns = w.cube.turns
  /\ c.name = "execute_probe_move" =>
       commanded = GripPose /\ h = GripPose /\ v.cube.turns = Append(w.cube.turns, c.move)

LEMMA TurnsOfGrip == \A s, t : InGrip(s, t).cube.turns = t /\ InGrip(s, t).held
  BY DEF InGrip, HeldBy

LEMMA GripIsAt == ASSUME NEW t PROVE IsAt(GripPose, InGrip(Canonical, t))
<1>1. PICK w : w = InGrip(Canonical, t)
  OBVIOUS
<1>2. w.cube.turns = t
  BY <1>1, TurnsOfGrip
<1> QED
  BY <1>1, <1>2 DEF IsAt

LEMMA ViewIsAt ==
  ASSUME NEW t, NEW f, NEW A, NEW w, << f, A, w >> \in Views(t)
  PROVE  IsAt(ScanHold(f, A), w) /\ w.cube.turns = t
<1>1. PICK v \in Views(t) : v = << f, A, w >>
  OBVIOUS
<1>2. v[1] = f /\ v[2] = A /\ v[3] = w
  BY <1>1
<1>3. w.cube.turns = t
  BY <1>2, ViewsShow
<1> QED
  BY <1>1, <1>2, <1>3 DEF IsAt

\* The stand in a scan pose.
LEMMA AtView ==
  ASSUME NEW f, NEW A, NEW w, IsAt(ScanHold(f, A), w)
  PROVE  << f, A, w >> \in Views(w.cube.turns)
<1>1. PICK c, t : c = ScanHold(f, A) /\ t = w.cube.turns
  OBVIOUS
<1>2. PICK v \in Views(t) : c = ScanHold(v[1], v[2]) /\ w = v[3]
  BY <1>1, AtIsGood, PosesAre
<1>3. PICK g, B : g = v[1] /\ B = v[2]
  OBVIOUS
<1>4. ScanHold(f, A) = ScanHold(g, B)
  BY <1>1, <1>2, <1>3
<1>5. \A r : r = ScanHold(f, A) => r.face = f /\ r.holder = A
  BY DEF ScanHold
<1>6. \A r : r = ScanHold(g, B) => r.face = g /\ r.holder = B
  BY DEF ScanHold
<1>7. v = << v[1], v[2], v[3] >>
  BY DEF Views
<1> QED
  BY <1>1, <1>2, <1>3, <1>4, <1>5, <1>6, <1>7

LEMMA CallLeads ==
  ASSUME NEW c \in Item, NEW w, IsAt(commanded, w), NEW s \in Admitted(c),
         c.name \notin {"reset", "initialize_safe_pwm", "record_face", "accept", "quit"}
  PROVE  s[1] # <<>> /\ \E v : Leads(w, s[1], v) /\ IsAt(s[2], v) /\ CallDoes(c, w, s[2], v)
<1>1. CASE c.name = "safe_open"
  <2>1. s = << SafeOpenScript, OpenPose >>
    BY <1>1 DEF Admitted
  <2>2. s[1] = SafeOpenScript /\ s[2] = OpenPose
    BY <2>1
  <2> QED
    BY <1>1, <2>2, SafeOpenLeads, ScriptsStart DEF CallDoes
<1>2. CASE c.name = "grip"
  <2>1. s = << GripScript, GripPose >>
    BY <1>2 DEF Admitted
  <2>2. s[1] = GripScript /\ s[2] = GripPose
    BY <2>1
  <2>3. CallDoes(c, w, GripPose, InGrip(Canonical, <<>>))
    BY <1>2, TurnsOfGrip DEF CallDoes
  <2> QED
    BY <2>2, <2>3, GripLeads, GripIsAt, ScriptsStart
<1>3. CASE c.name = "scan_pose"
  <2>1. PICK face \in CubeFace : face = c.face
    BY <1>3, ItemKinds
  <2>2. PICK A : A = IF face = "Front" THEN LeftRight ELSE TopBottom
    OBVIOUS
  <2>3. s = << ScanPoseScript(face), ScanHold(face, A) >> /\ commanded = GripPose
    BY <1>3, <2>1, <2>2 DEF Admitted
  <2>4. s[1] = ScanPoseScript(face) /\ s[2] = ScanHold(face, A)
    BY <2>3
  <2>5. PICK t : t = w.cube.turns /\ w = InGrip(Canonical, t)
    BY <2>3, AtIsGood, PosesAre
  <2>6. PICK v : Leads(w, ScanPoseScript(face), v) /\ << face, A, v >> \in Views(t)
    BY <2>2, <2>5, ScanPoseLeads
  <2>7. IsAt(ScanHold(face, A), v) /\ v.cube.turns = t
    BY <2>6, ViewIsAt
  <2>8. CallDoes(c, w, ScanHold(face, A), v)
    BY <1>3, <2>1, <2>2, <2>3, <2>5, <2>7 DEF CallDoes
  <2> QED
    BY <2>4, <2>6, <2>7, <2>8, ScriptsStart
<1>4. CASE c.name = "scan_next"
  <2>1. PICK tr \in ScanTransitions : /\ s = << ScanNextScript(tr[1], tr[3]), ScanHold(tr[3], tr[4]) >>
                                      /\ commanded = ScanHold(tr[1], tr[2]) /\ tr[3] = c.face
    BY <1>4 DEF Admitted
  <2>2. s[1] = ScanNextScript(tr[1], tr[3]) /\ s[2] = ScanHold(tr[3], tr[4])
    BY <2>1
  <2>3. PICK t : t = w.cube.turns /\ << tr[1], tr[2], w >> \in Views(t)
    BY <2>1, AtView
  <2>4. PICK v : Leads(w, ScanNextScript(tr[1], tr[3]), v) /\ << tr[3], tr[4], v >> \in Views(t)
    BY <2>3, ScanNextLeads
  <2>5. IsAt(ScanHold(tr[3], tr[4]), v) /\ v.cube.turns = t
    BY <2>4, ViewIsAt
  <2>6. CallDoes(c, w, ScanHold(tr[3], tr[4]), v)
    BY <1>4, <2>1, <2>3, <2>5 DEF CallDoes
  <2> QED
    BY <2>2, <2>4, <2>5, <2>6, ScriptsStart
<1>5. ASSUME commanded = ScanHold("Back", TopBottom)
      PROVE  \E t : t = w.cube.turns /\ Leads(w, ReturnFrontAfterScan, InGrip(Canonical, t))
  BY <1>5, AtView, ReturnLeads
<1>6. CASE c.name = "finish_scan"
  <2>1. s = << ReturnFrontAfterScan \o OpenAllRails, OpenPose >> /\ commanded = ScanHold("Back", TopBottom)
    BY <1>6 DEF Admitted
  <2>2. s[1] = ReturnFrontAfterScan \o OpenAllRails /\ s[2] = OpenPose
    BY <2>1
  <2>3. PICK u, t : u = InGrip(Canonical, t) /\ Leads(w, ReturnFrontAfterScan, u)
    BY <1>5, <2>1
  <2>4. Good(u) /\ u = HeldBy(Axis, Straight, Canonical, t) /\ u.grippers = Straight
    BY <2>3 DEF InGrip, HeldBy, Good
  <2>5. PICK v : /\ Leads(u, OpenAllRails, v)
                 /\ ~v.held /\ v.rails = RailsIn({}) /\ v.grippers = Straight
    BY <2>4, OpenAllLeads
  <2>6. Leads(w, s[1], v)
    BY <2>2, <2>3, <2>5, ReturnScript, OpenScripts, LeadsOn
  <2>7. IsAt(OpenPose, v) /\ CallDoes(c, w, OpenPose, v)
    BY <1>6, <2>5 DEF IsAt, CallDoes
  <2> QED
    BY <2>2, <2>6, <2>7, ScriptsStart
<1>7. CASE c.name = "finish_scan_for_execution"
  <2>1. s = << ReturnFrontAfterScan, GripPose >> /\ commanded = ScanHold("Back", TopBottom)
    BY <1>7 DEF Admitted
  <2>2. s[1] = ReturnFrontAfterScan /\ s[2] = GripPose
    BY <2>1
  <2>3. PICK t : t = w.cube.turns /\ Leads(w, ReturnFrontAfterScan, InGrip(Canonical, t))
    BY <1>5, <2>1
  <2>4. CallDoes(c, w, GripPose, InGrip(Canonical, t))
    BY <1>7, <2>3, TurnsOfGrip DEF CallDoes
  <2> QED
    BY <2>2, <2>3, <2>4, GripIsAt, ScriptsStart
<1>8. CASE c.name = "execute_probe_move"
  <2>1. PICK move \in FaceTurns : move = c.move
    BY <1>8, ItemKinds
  <2>2. s = << ProbeMoveScript(move), GripPose >> /\ commanded = GripPose
    BY <1>8, <2>1 DEF Admitted
  <2>3. s[1] = ProbeMoveScript(move) /\ s[2] = GripPose
    BY <2>2
  <2>4. PICK t : t = w.cube.turns /\ w = InGrip(Canonical, t)
    BY <2>2, AtIsGood, PosesAre
  <2>5. Leads(w, ProbeMoveScript(move), InGrip(Canonical, Append(t, move)))
    BY <2>4, MoveLeads
  <2>6. CallDoes(c, w, GripPose, InGrip(Canonical, Append(t, move)))
    BY <1>8, <2>1, <2>2, <2>4, TurnsOfGrip DEF CallDoes
  <2> QED
    BY <2>3, <2>5, <2>6, GripIsAt, ScriptsStart
<1> QED
  BY <1>1, <1>2, <1>3, <1>4, <1>6, <1>7, <1>8, ItemKinds

-----------------------------------------------------------------------------
(* What the tool has still to do, and what it may count on meanwhile.      *)

\* The stand as it is, what the call under way has still to do to it, and
\* the commanded state it ends in.
Now     == [rails |-> rails, grippers |-> grippers, held |-> held, cube |-> cube]
Ahead   == IF phase = "releasing" THEN Tail(script) ELSE script
Heading == IF script = <<>> THEN commanded ELSE goal
Steady  == phase \in {"idle", "setting", "releasing"}

Rest(s, k) == SubSeq(s, k + 1, Len(s))

\* A full scan: its items, the views it goes through, and the faces it has
\* recorded when the i-th view is to be.
ScanList(auto) ==
  FullScanCalls(IF auto THEN "finish_scan_for_execution" ELSE "finish_scan") \o << Accept(auto) >>
Tour == << << "Left",  TopBottom >>, << "Right", TopBottom >>, << "Down",  LeftRight >>,
           << "Up",    LeftRight >>, << "Front", TopBottom >>, << "Back",  TopBottom >> >>
TourPose(i)    == ScanHold(Tour[i][1], Tour[i][2])
FacesBefore(i) == {Tour[j][1] : j \in 1 .. i - 1}

Scanning(h, v) ==
  /\ tool # Shell /\ asked = <<>> /\ ~scanned
  /\ \E auto \in BOOLEAN :
       \/ todo = ScanList(auto) /\ h = OpenPose /\ DOMAIN filed = {}
       \/ /\ todo = Rest(ScanList(auto), 1) /\ DOMAIN filed = {}
          /\ h = GripPose /\ v.cube.turns = <<>>
       \/ \E i \in 1 .. 6 :
            /\ h = TourPose(i) /\ v.cube.turns = <<>>
            /\ \/ todo = Rest(ScanList(auto), 2 * i) /\ DOMAIN filed = FacesBefore(i)
               \/ todo = Rest(ScanList(auto), 2 * i + 1) /\ DOMAIN filed = FacesBefore(i + 1)
       \/ /\ todo = Rest(ScanList(auto), 14) /\ DOMAIN filed = CubeFace
          /\ IF auto THEN h = GripPose /\ v.cube.turns = <<>> ELSE h = OpenPose

\* The moves of a solution one by one from the grip, and what follows them.
Ends == {<<>>, << SafeOpenCall >>, << Reset >>, << Reset, Quit >>, << Quit >>}
Doing(h, v) ==
  /\ h = GripPose
  /\ \E k \in 0 .. Len(asked), end \in Ends :
       v.cube.turns = SubSeq(asked, 1, k) /\ todo = Rest(Moves(asked) \o end, k)

\* On the way to the first move, with no cube in the stand yet.
StartList == << Initialize, Reset, SafeOpenCall, Grip >>
Starting(v) == ~v.held /\ \E j \in 0 .. 3 : todo = Rest(StartList \o Moves(asked), j)

\* Single calls, which nothing was asked of: none changes the view of a cube
\* whose scan is kept.
SingleItem == {c \in Item : c.name \notin {"record_face", "accept"}
                            /\ (scanned => c.name \notin {"scan_pose", "scan_next"})}
Plain      == asked = <<>> /\ todo \in Seq(SingleItem)

\* Nothing but the way out, with no cube in the stand.
Leaving(v) == ~v.held /\ todo \in Ends

Plan(h, v) == /\ Scanning(h, v) \/ Doing(h, v) \/ Starting(v) \/ Plain \/ Leaving(v)
              /\ h.state = "ScanHold" => asked = <<>> /\ ~scanned

LEMMA RestSteps ==
  ASSUME NEW S, NEW s \in Seq(S), NEW k \in Nat
  PROVE  /\ Rest(s, 0) = s
         /\ k <= Len(s) => Rest(s, k) \in Seq(S) /\ Len(Rest(s, k)) = Len(s) - k
         /\ k < Len(s) => /\ Rest(s, k) # <<>> /\ s[k + 1] \in S
                          /\ Head(Rest(s, k)) = s[k + 1] /\ Tail(Rest(s, k)) = Rest(s, k + 1)
         /\ Rest(s, Len(s)) = <<>>
<1>1. PICK n \in Nat : n = Len(s) /\ \A i \in 1 .. n : s[i] \in S
  BY LenProperties, ElementOfSeq
<1>2. ASSUME NEW j \in 0 .. n
      PROVE  /\ Rest(s, j) \in Seq(S) /\ Len(Rest(s, j)) = n - j
             /\ \A i \in 1 .. n - j : Rest(s, j)[i] = s[j + i]
  <2>1. j + 1 \in 1 .. n + 1 /\ n \in j .. n
    OBVIOUS
  <2>2. Rest(s, j) = [i \in 1 .. n - j |-> s[i + j]]
    BY <1>1 DEF Rest
  <2> QED
    BY <1>1, <2>2, ListIs
<1>3. Rest(s, 0) = s
  <2>1. Rest(s, 0) \in Seq(S) /\ Len(Rest(s, 0)) = n /\ \A i \in 1 .. n : Rest(s, 0)[i] = s[i]
    BY <1>2
  <2> QED
    BY <1>1, <2>1, SeqEqual
<1>4. ASSUME k < n
      PROVE  /\ Rest(s, k) # <<>>
             /\ Head(Rest(s, k)) = s[k + 1] /\ Tail(Rest(s, k)) = Rest(s, k + 1)
  <2>1. k \in 0 .. n /\ k + 1 \in 0 .. n
    BY <1>4
  <2>2. PICK r, t, j : r = Rest(s, k) /\ j = k + 1 /\ t = Rest(s, j)
    OBVIOUS
  <2>3. r \in Seq(S) /\ Len(r) = n - k /\ \A i \in 1 .. n - k : r[i] = s[k + i]
    BY <1>2, <2>1, <2>2
  <2>4. t \in Seq(S) /\ Len(t) = n - j /\ \A i \in 1 .. n - j : t[i] = s[j + i]
    BY <1>2, <2>1, <2>2
  <2>5. r # <<>> /\ Head(r) = s[k + 1]
    BY <1>4, <2>3
  <2>6. Tail(r) \in Seq(S) /\ Len(Tail(r)) = Len(t) /\ \A i \in 1 .. Len(t) : Tail(r)[i] = t[i]
    BY <1>4, <2>2, <2>3, <2>4, <2>5
  <2>7. Tail(r) = t
    BY <2>4, <2>6, SeqEqual
  <2> QED
    BY <2>2, <2>5, <2>7
<1>5. Rest(s, n) = <<>>
  <2>1. Rest(s, n) \in Seq(S) /\ Len(Rest(s, n)) = 0
    BY <1>2
  <2> QED
    BY <2>1
<1> QED
  BY <1>1, <1>2, <1>3, <1>4, <1>5

\* A sequence made of n items and m items.
Joint(j, s, n, t, m, S) ==
  /\ j \in Seq(S) /\ Len(j) = n + m /\ Rest(j, n) = t
  /\ \A i \in 1 .. n : j[i] = s[i]
  /\ \A i \in 1 .. m : j[n + i] = t[i]

LEMMA JoinRest ==
  ASSUME NEW S, NEW s \in Seq(S), NEW t \in Seq(S), NEW n \in Nat, NEW m \in Nat,
         Len(s) = n, Len(t) = m
  PROVE  Joint(s \o t, s, n, t, m, S)
<1>1. \A i \in 1 .. m : t[i] \in S
  BY LenProperties, ElementOfSeq
<1>2. PICK j : j = s \o t
  OBVIOUS
<1>3. /\ j \in Seq(S) /\ Len(j) = n + m
      /\ \A i \in 1 .. n : j[i] = s[i]
      /\ \A i \in 1 .. m : j[n + i] = t[i]
  <2>1. /\ s \o t \in Seq(S) /\ Len(s \o t) = n + m
        /\ \A i \in 1 .. n + m : (s \o t)[i] = IF i <= n THEN s[i] ELSE t[i - n]
    BY ConcatProperties
  <2>2. \A i \in 1 .. n : i \in 1 .. n + m /\ i <= n
    OBVIOUS
  <2>3. \A i \in 1 .. m : n + i \in 1 .. n + m /\ ~(n + i <= n) /\ (n + i) - n = i
    OBVIOUS
  <2> QED
    BY <1>2, <2>1, <2>2, <2>3
<1>4. PICK r : r = Rest(j, n)
  OBVIOUS
<1>5. r = [i \in 1 .. m |-> j[i + n]]
  BY <1>1, <1>3, <1>4 DEF Rest
<1>6. r \in Seq(S) /\ Len(r) = m /\ \A i \in 1 .. m : r[i] = t[i]
  BY <1>1, <1>3, <1>5, ListIs
<1>7. r = t
  BY <1>1, <1>6, SeqEqual
<1> QED
  BY <1>2, <1>3, <1>4, <1>7 DEF Joint

\* The items of a solution.
LEMMA MovesOf ==
  ASSUME NEW a \in Seq(FaceTurns)
  PROVE  /\ Moves(a) \in Seq(Item) /\ Len(Moves(a)) = Len(a)
         /\ \A i \in 1 .. Len(a) : /\ a[i] \in FaceTurns
                                   /\ Moves(a)[i] = [name |-> "execute_probe_move", move |-> a[i]]
<1>1. PICK n \in Nat : n = Len(a) /\ DOMAIN a = 1 .. n /\ \A i \in 1 .. n : a[i] \in FaceTurns
  BY LenProperties, ElementOfSeq
<1>2. PICK f : f = [i \in 1 .. n |-> [name |-> "execute_probe_move", move |-> a[i]]]
  OBVIOUS
<1>3. f \in [1 .. n -> Item]
  BY <1>1, <1>2 DEF Item, MoveItem
<1>4. Moves(a) = f
  BY <1>1, <1>2 DEF Moves
<1>5. f \in Seq(Item) /\ Len(f) = n
  BY <1>3, ListIs
<1> QED
  BY <1>1, <1>2, <1>4, <1>5

LEMMA EndItems == ASSUME NEW end \in Ends PROVE end \in Seq(Item)
<1>1. /\ <<>> \in Seq(Item)
      /\ \A c \in Item : << c >> \in Seq(Item)
      /\ \A c, d \in Item : << c, d >> \in Seq(Item)
  OBVIOUS
<1> QED
  BY <1>1, ItemsAre, Zenon DEF Ends

\* The moves that are left, and what follows them.
LEMMA MovesLeft ==
  ASSUME NEW a \in Seq(FaceTurns), NEW end \in Seq(Item), NEW k \in 0 .. Len(a)
  PROVE  /\ Rest(Moves(a) \o end, 0) = Moves(a) \o end
         /\ Rest(Moves(a) \o end, Len(a)) = end
         /\ k # Len(a) =>
              /\ a[k + 1] \in FaceTurns /\ k + 1 \in 0 .. Len(a)
              /\ Rest(Moves(a) \o end, k) # <<>>
              /\ Head(Rest(Moves(a) \o end, k)) = [name |-> "execute_probe_move", move |-> a[k + 1]]
              /\ Tail(Rest(Moves(a) \o end, k)) = Rest(Moves(a) \o end, k + 1)
              /\ Append(SubSeq(a, 1, k), a[k + 1]) = SubSeq(a, 1, k + 1)
<1>1. PICK n \in Nat : n = Len(a) /\ k \in 0 .. n
  BY LenProperties
<1>2. PICK ms, s : ms = Moves(a) /\ s = ms \o end
  OBVIOUS
<1>3. /\ ms \in Seq(Item) /\ Len(ms) = n
      /\ \A i \in 1 .. n : /\ a[i] \in FaceTurns
                           /\ ms[i] = [name |-> "execute_probe_move", move |-> a[i]]
  BY <1>1, <1>2, MovesOf
<1>4. /\ s \in Seq(Item) /\ Rest(s, n) = end /\ Len(s) = n + Len(end)
      /\ \A i \in 1 .. n : s[i] = ms[i]
  <2>1. PICK m \in Nat : m = Len(end)
    BY LenProperties
  <2>2. Joint(ms \o end, ms, n, end, m, Item)
    BY <1>3, <2>1, JoinRest
  <2> QED
    BY <1>2, <2>1, <2>2 DEF Joint
<1>5. Rest(s, 0) = s
  BY <1>4, RestSteps
<1>6. ASSUME k # n
      PROVE  /\ a[k + 1] \in FaceTurns /\ k + 1 \in 0 .. n
             /\ Rest(s, k) # <<>>
             /\ Head(Rest(s, k)) = [name |-> "execute_probe_move", move |-> a[k + 1]]
             /\ Tail(Rest(s, k)) = Rest(s, k + 1)
             /\ Append(SubSeq(a, 1, k), a[k + 1]) = SubSeq(a, 1, k + 1)
  <2>1. k \in Nat /\ k + 1 \in 1 .. n /\ Len(end) \in Nat
    BY <1>1, <1>6, LenProperties
  <2>2. k < Len(s)
    BY <1>4, <2>1
  <2>3. /\ Rest(s, k) # <<>> /\ Head(Rest(s, k)) = s[k + 1]
        /\ Tail(Rest(s, k)) = Rest(s, k + 1)
    BY <1>4, <2>1, <2>2, RestSteps
  <2>4. s[k + 1] = [name |-> "execute_probe_move", move |-> a[k + 1]] /\ a[k + 1] \in FaceTurns
    BY <1>3, <1>4, <2>1
  <2>5. Append(SubSeq(a, 1, k), a[k + 1]) = SubSeq(a, 1, k + 1)
    BY <1>1, <1>3, <2>1
  <2> QED
    BY <2>1, <2>3, <2>4, <2>5
<1> QED
  BY <1>1, <1>2, <1>4, <1>5, <1>6

\* The start of the probe, as one list.
OneStart(a, b, c, d, m) ==
  /\ (<< a, b >> \o << c >>) \o (<< d >> \o m) = << a, b, c, d >> \o m
  /\ Rest(<< a, b, c, d >> \o m, 3) = << d >> \o m

LEMMA StartIs ==
  ASSUME NEW a \in Item, NEW b \in Item, NEW c \in Item, NEW d \in Item, NEW m \in Seq(Item)
  PROVE  OneStart(a, b, c, d, m)
<1>1. PICK n \in Nat : n = Len(m) /\ \A i \in 1 .. n : m[i] \in Item
  BY LenProperties, ElementOfSeq
<1>2. /\ << a, b >> \in Seq(Item) /\ << c >> \in Seq(Item) /\ << d >> \in Seq(Item)
      /\ << a, b, c, d >> \in Seq(Item)
  OBVIOUS
<1>3. PICK ab, oc, od, abcd : ab = << a, b >> /\ oc = << c >> /\ od = << d >> /\ abcd = << a, b, c, d >>
  OBVIOUS
<1>4. /\ Len(ab) = 2 /\ ab[1] = a /\ ab[2] = b /\ Len(oc) = 1 /\ oc[1] = c /\ Len(od) = 1 /\ od[1] = d
      /\ Len(abcd) = 4 /\ abcd[1] = a /\ abcd[2] = b /\ abcd[3] = c /\ abcd[4] = d
      /\ ab \in Seq(Item) /\ oc \in Seq(Item) /\ od \in Seq(Item) /\ abcd \in Seq(Item)
  BY <1>2, <1>3
<1>5. PICK l : l = ab \o oc
  OBVIOUS
<1>6. l \in Seq(Item) /\ Len(l) = 3 /\ l[1] = a /\ l[2] = b /\ l[3] = c
  <2>1. Joint(ab \o oc, ab, 2, oc, 1, Item)
    BY <1>4, JoinRest
  <2>2. l[1] = ab[1] /\ l[2] = ab[2] /\ l[2 + 1] = oc[1]
    BY <1>5, <2>1 DEF Joint
  <2> QED
    BY <1>4, <1>5, <2>1, <2>2 DEF Joint
<1>7. PICK r : r = od \o m
  OBVIOUS
<1>8. r \in Seq(Item) /\ Len(r) = n + 1 /\ r[1] = d /\ \A i \in 1 .. n : r[1 + i] = m[i]
  <2>1. Joint(od \o m, od, 1, m, n, Item)
    BY <1>1, <1>4, JoinRest
  <2>2. r[1] = od[1]
    BY <1>7, <2>1 DEF Joint
  <2> QED
    BY <1>4, <1>7, <2>1, <2>2 DEF Joint
<1>9. PICK x, y : x = l \o r /\ y = abcd \o m
  OBVIOUS
<1>10. /\ x \in Seq(Item) /\ Len(x) = n + 4 /\ x[1] = a /\ x[2] = b /\ x[3] = c
       /\ (\A i \in 1 .. n + 1 : x[3 + i] = r[i]) /\ Rest(x, 3) = r
  <2>1. n + 1 \in Nat
    OBVIOUS
  <2>2. Joint(l \o r, l, 3, r, n + 1, Item)
    BY <1>6, <1>8, <2>1, JoinRest
  <2>3. x[1] = l[1] /\ x[2] = l[2] /\ x[3] = l[3]
    <3>1. \A i \in 1 .. 3 : (l \o r)[i] = l[i]
      BY <2>2, Zenon DEF Joint
    <3>2. \A i \in 1 .. 3 : x[i] = l[i]
      BY <1>9, <3>1
    <3> QED
      BY <3>2
  <2> QED
    BY <1>6, <1>9, <2>2, <2>3 DEF Joint
<1>11. /\ y \in Seq(Item) /\ Len(y) = n + 4 /\ y[1] = a /\ y[2] = b /\ y[3] = c /\ y[4] = d
       /\ \A i \in 1 .. n : y[4 + i] = m[i]
  <2>1. Joint(abcd \o m, abcd, 4, m, n, Item)
    BY <1>1, <1>4, JoinRest
  <2>2. y[1] = abcd[1] /\ y[2] = abcd[2] /\ y[3] = abcd[3] /\ y[4] = abcd[4]
    BY <1>9, <2>1 DEF Joint
  <2> QED
    BY <1>4, <1>9, <2>1, <2>2 DEF Joint
<1>12. ASSUME NEW i \in 1 .. n + 4 PROVE x[i] = y[i]
  <2>1. CASE i \in {1, 2, 3}
    BY <2>1, <1>10, <1>11
  <2>2. CASE i = 4
    <3>1. x[3 + 1] = r[1]
      BY <1>10
    <3> QED
      BY <2>2, <3>1, <1>8, <1>11
  <2>3. CASE i > 4
    <3>1. PICK k \in 1 .. n : i = 4 + k /\ i = 3 + (1 + k)
      BY <2>3
    <3>2. x[3 + (1 + k)] = r[1 + k] /\ r[1 + k] = m[k] /\ y[4 + k] = m[k]
      BY <3>1, <1>8, <1>10, <1>11
    <3> QED
      BY <3>1, <3>2
  <2> QED
    BY <2>1, <2>2, <2>3
<1>13. x = y
  BY <1>10, <1>11, <1>12, SeqEqual
<1> QED
  BY <1>3, <1>5, <1>7, <1>9, <1>10, <1>13 DEF OneStart

LEMMA StartListIs ==
  /\ StartList \in Seq(Item) /\ Len(StartList) = 4
  /\ StartList[1] = Initialize /\ StartList[2] = Reset
  /\ StartList[3] = SafeOpenCall /\ StartList[4] = Grip
<1>1. StartList = << Initialize, Reset, SafeOpenCall, Grip >>
  BY DEF StartList
<1> QED
  BY <1>1, ItemsAre

LEMMA StartLeft ==
  ASSUME NEW a \in Seq(FaceTurns), NEW j \in 0 .. 3
  PROVE  /\ Rest(StartList \o Moves(a), 0) = StartList \o Moves(a)
         /\ Rest(StartList \o Moves(a), 3) = << Grip >> \o Moves(a)
         /\ Rest(StartList \o Moves(a), 4) = Rest(Moves(a) \o <<>>, 0)
         /\ Rest(StartList \o Moves(a), j) # <<>>
         /\ Head(Rest(StartList \o Moves(a), j)) = StartList[j + 1]
         /\ Tail(Rest(StartList \o Moves(a), j)) = Rest(StartList \o Moves(a), j + 1)
<1>1. PICK ms \in Seq(Item) : ms = Moves(a)
  BY MovesOf
<1>2. PICK s : s = StartList \o ms
  OBVIOUS
<1>3. /\ s \in Seq(Item) /\ Rest(s, 4) = ms /\ Len(s) = 4 + Len(ms)
      /\ \A i \in 1 .. 4 : s[i] = StartList[i]
  <2>1. PICK m \in Nat : m = Len(ms)
    BY LenProperties
  <2>2. Joint(StartList \o ms, StartList, 4, ms, m, Item)
    BY <2>1, StartListIs, JoinRest
  <2> QED
    BY <1>2, <2>1, <2>2 DEF Joint
<1>4. Rest(s, 0) = s
  BY <1>3, RestSteps
<1>5. Rest(s, 3) = << Grip >> \o ms
  <2>1. Rest(<< Initialize, Reset, SafeOpenCall, Grip >> \o ms, 3) = << Grip >> \o ms
    <3>1. /\ Initialize \in Item /\ Reset \in Item /\ SafeOpenCall \in Item /\ Grip \in Item
      BY ItemsAre
    <3>2. OneStart(Initialize, Reset, SafeOpenCall, Grip, ms)
      BY <3>1, StartIs
    <3> QED
      BY <3>2 DEF OneStart
  <2> QED
    BY <1>2, <2>1 DEF StartList
<1>6. Rest(ms \o <<>>, 0) = ms
  <2>1. ms \o <<>> = ms
    BY ConcatEmptySeq
  <2> QED
    BY <2>1, RestSteps
<1>7. /\ Rest(s, j) # <<>> /\ Head(Rest(s, j)) = StartList[j + 1]
      /\ Tail(Rest(s, j)) = Rest(s, j + 1)
  <2>1. j \in Nat /\ Len(ms) \in Nat /\ j + 1 \in 1 .. 4
    BY LenProperties
  <2>2. j < Len(s)
    BY <1>3, <2>1
  <2>3. /\ Rest(s, j) # <<>> /\ Head(Rest(s, j)) = s[j + 1]
        /\ Tail(Rest(s, j)) = Rest(s, j + 1)
    BY <1>3, <2>1, <2>2, RestSteps
  <2> QED
    BY <1>3, <2>1, <2>3
<1> QED
  BY <1>1, <1>2, <1>3, <1>4, <1>5, <1>6, <1>7

-----------------------------------------------------------------------------
(* The items of a full scan, one by one.                                   *)

LEMMA TourIs ==
  /\ \A i \in 1 .. 6 : Tour[i][1] \in CubeFace
  /\ Tour[1] = << "Left", TopBottom >> /\ Tour[6] = << "Back", TopBottom >>
  /\ \A i \in 1 .. 5 : << Tour[i][1], Tour[i][2], Tour[i + 1][1], Tour[i + 1][2] >> \in ScanTransitions
  /\ \A i \in 1 .. 5 : << "Right", "Down", "Up", "Front", "Back" >>[i] = Tour[i + 1][1]
  /\ CubeFace = {Tour[j][1] : j \in 1 .. 6}
<1>1. PICK t : t = Tour
  OBVIOUS
<1>2. /\ t[1] = << "Left",  TopBottom >> /\ t[2] = << "Right", TopBottom >>
      /\ t[3] = << "Down",  LeftRight >> /\ t[4] = << "Up",    LeftRight >>
      /\ t[5] = << "Front", TopBottom >> /\ t[6] = << "Back",  TopBottom >>
  BY <1>1 DEF Tour
<1>3. /\ t[1][1] = "Left" /\ t[2][1] = "Right" /\ t[3][1] = "Down"
      /\ t[4][1] = "Up" /\ t[5][1] = "Front" /\ t[6][1] = "Back"
      /\ t[1][2] = TopBottom /\ t[2][2] = TopBottom /\ t[3][2] = LeftRight
      /\ t[4][2] = LeftRight /\ t[5][2] = TopBottom /\ t[6][2] = TopBottom
  BY <1>2
<1>4. \A i \in 1 .. 5 : i = 1 \/ i = 2 \/ i = 3 \/ i = 4 \/ i = 5
  OBVIOUS
<1>5. \A i \in 1 .. 6 : i = 1 \/ i = 2 \/ i = 3 \/ i = 4 \/ i = 5 \/ i = 6
  OBVIOUS
<1>6. \A i \in 1 .. 6 : t[i][1] \in CubeFace
  BY <1>3, <1>5 DEF CubeFace
<1>7. \A i \in 1 .. 5 : << t[i][1], t[i][2], t[i + 1][1], t[i + 1][2] >> \in ScanTransitions
  BY <1>3, <1>4 DEF ScanTransitions
<1>8. PICK five : five = << "Right", "Down", "Up", "Front", "Back" >>
  OBVIOUS
<1>9. five[1] = "Right" /\ five[2] = "Down" /\ five[3] = "Up" /\ five[4] = "Front" /\ five[5] = "Back"
  BY <1>8
<1>10. \A i \in 1 .. 5 : five[i] = t[i + 1][1]
  BY <1>3, <1>4, <1>9
<1>11. CubeFace = {t[j][1] : j \in 1 .. 6}
  <2>1. /\ 1 \in 1 .. 6 /\ 2 \in 1 .. 6 /\ 3 \in 1 .. 6 /\ 4 \in 1 .. 6 /\ 5 \in 1 .. 6 /\ 6 \in 1 .. 6
    OBVIOUS
  <2>2. \A f \in CubeFace : \E j \in 1 .. 6 : f = t[j][1]
    BY <1>3, <2>1 DEF CubeFace
  <2> QED
    BY <1>6, <2>2
<1> QED
  BY <1>1, <1>2, <1>6, <1>7, <1>8, <1>10, <1>11

LEMMA BeforeIs ==
  /\ FacesBefore(1) = {} /\ FacesBefore(7) = CubeFace
  /\ \A i \in 1 .. 6 : FacesBefore(i + 1) = FacesBefore(i) \cup {Tour[i][1]}
<1>1. FacesBefore(1) = {}
  BY DEF FacesBefore
<1>2. FacesBefore(7) = CubeFace
  <2>1. 7 - 1 = 6
    OBVIOUS
  <2> QED
    BY <2>1, TourIs DEF FacesBefore
<1>3. ASSUME NEW i \in 1 .. 6 PROVE FacesBefore(i + 1) = FacesBefore(i) \cup {Tour[i][1]}
  <2>1. 1 .. (i + 1) - 1 = (1 .. i - 1) \cup {i}
    OBVIOUS
  <2> QED
    BY <2>1 DEF FacesBefore
<1> QED
  BY <1>1, <1>2, <1>3

\* From a view there is one way to another.
LEMMA OneWay ==
  ASSUME NEW x \in ScanTransitions, NEW y \in ScanTransitions, x[1] = y[1], x[2] = y[2], x[3] = y[3]
  PROVE  x[4] = y[4]
<1>1. \A z \in ScanTransitions :
        << z[1], z[3], z[4] >> \in { << "Front", "Up", TopBottom >>, << "Left", "Right", TopBottom >>,
                                     << "Right", "Down", LeftRight >>, << "Down", "Up", LeftRight >>,
                                     << "Up", "Front", TopBottom >>, << "Front", "Back", TopBottom >> }
  BY DEF ScanTransitions
<1> QED
  BY <1>1

LEMMA ViewItems ==
  ASSUME NEW faces \in Seq(CubeFace), Len(faces) = 5
  PROVE  /\ ViewAndRecord(faces) \in Seq(Item) /\ Len(ViewAndRecord(faces)) = 10
         /\ \A i \in 1 .. 5 : /\ ViewAndRecord(faces)[2 * i - 1] = ScanNext(faces[i])
                              /\ ViewAndRecord(faces)[2 * i] = Record(faces[i])
<1>1. PICK f : f = [i \in 1 .. 10 |-> LET g == faces[(i + 1) \div 2]
                                      IN IF i % 2 = 1 THEN ScanNext(g) ELSE Record(g)]
  OBVIOUS
<1>2. 2 * 5 = 10
  OBVIOUS
<1>3. ViewAndRecord(faces) = f
  BY <1>1, <1>2, Zenon DEF ViewAndRecord
<1>4. f \in Seq(Item)
  BY <1>3, ViewsAre
<1>5. Len(f) = 10
  BY <1>1
<1>6. ASSUME NEW i \in 1 .. 5 PROVE f[2 * i - 1] = ScanNext(faces[i]) /\ f[2 * i] = Record(faces[i])
  <2>1. /\ 2 * i - 1 \in 1 .. 10 /\ ((2 * i - 1) + 1) \div 2 = i /\ (2 * i - 1) % 2 = 1
        /\ 2 * i \in 1 .. 10 /\ (2 * i + 1) \div 2 = i /\ (2 * i) % 2 = 0
    OBVIOUS
  <2>2. f[2 * i - 1] = ScanNext(faces[i])
    BY <1>1, <2>1
  <2>3. f[2 * i] = Record(faces[i])
    BY <1>1, <2>1
  <2> QED
    BY <2>2, <2>3
<1> QED
  BY <1>3, <1>4, <1>5, <1>6

FinishOf(auto) == IF auto THEN "finish_scan_for_execution" ELSE "finish_scan"

LEMMA ScanListIs ==
  ASSUME NEW auto \in BOOLEAN
  PROVE  /\ ScanList(auto) \in Seq(Item) /\ Len(ScanList(auto)) = 15
         /\ ScanList(auto)[1] = Grip /\ ScanList(auto)[2] = ScanPose("Left")
         /\ \A i \in 1 .. 6 : ScanList(auto)[2 * i + 1] = Record(Tour[i][1])
         /\ \A i \in 1 .. 5 : ScanList(auto)[2 * i + 2] = ScanNext(Tour[i + 1][1])
         /\ ScanList(auto)[14] = Call(FinishOf(auto)) /\ ScanList(auto)[15] = Accept(auto)
<1>1. PICK finish, five, tour : /\ finish = FinishOf(auto) /\ tour = Tour
                                /\ five = << "Right", "Down", "Up", "Front", "Back" >>
  OBVIOUS
<1>2. Call(finish) \in Item /\ Accept(auto) \in Item
  BY <1>1, ItemsAre DEF FinishOf
<1>3. five \in Seq(CubeFace) /\ Len(five) = 5
  BY <1>1 DEF CubeFace
<1>4. PICK head, views, c, a : /\ head = << Grip, ScanPose("Left"), Record("Left") >>
                               /\ views = ViewAndRecord(five)
                               /\ c = << Call(finish) >> /\ a = << Accept(auto) >>
  OBVIOUS
<1>5. "Left" \in CubeFace
  BY DEF CubeFace
<1>6. /\ head \in Seq(Item) /\ Len(head) = 3 /\ head[1] = Grip
      /\ head[2] = ScanPose("Left") /\ head[3] = Record("Left")
      /\ c \in Seq(Item) /\ Len(c) = 1 /\ c[1] = Call(finish)
      /\ a \in Seq(Item) /\ Len(a) = 1 /\ a[1] = Accept(auto)
  BY <1>2, <1>4, <1>5, ItemsAre
<1>7. /\ views \in Seq(Item) /\ Len(views) = 10
      /\ \A i \in 1 .. 5 : views[2 * i - 1] = ScanNext(five[i]) /\ views[2 * i] = Record(five[i])
  BY <1>3, <1>4, ViewItems
<1>8. \A i \in 1 .. 5 : five[i] = tour[i + 1][1]
  BY <1>1, TourIs
<1>9. tour[1][1] = "Left"
  <2>1. tour[1] = << "Left", TopBottom >>
    BY <1>1, TourIs
  <2> QED
    BY <2>1
<1>10. PICK x, y, z : x = head \o views /\ y = x \o c /\ z = y \o a
  OBVIOUS
<1>11. Joint(x, head, 3, views, 10, Item)
  BY <1>6, <1>7, <1>10, JoinRest
<1>12. Joint(y, x, 13, c, 1, Item)
  <2>1. x \in Seq(Item) /\ Len(x) = 13
    BY <1>11 DEF Joint
  <2> QED
    BY <1>6, <1>10, <2>1, JoinRest
<1>13. Joint(z, y, 14, a, 1, Item)
  <2>1. y \in Seq(Item) /\ Len(y) = 14
    BY <1>12 DEF Joint
  <2> QED
    BY <1>6, <1>10, <2>1, JoinRest
<1>14. z \in Seq(Item) /\ Len(z) = 15
  BY <1>13 DEF Joint
<1>15. \A i \in 1 .. 13 : z[i] = x[i]
  <2>1. \A i \in 1 .. 13 : i \in 1 .. 14
    OBVIOUS
  <2> QED
    BY <2>1, <1>12, <1>13 DEF Joint
<1>16. z[1] = Grip /\ z[2] = ScanPose("Left") /\ z[3] = Record("Left")
  BY <1>6, <1>11, <1>15 DEF Joint
<1>17. \A k \in 1 .. 10 : z[3 + k] = views[k]
  <2>1. \A k \in 1 .. 10 : 3 + k \in 1 .. 13
    OBVIOUS
  <2> QED
    BY <2>1, <1>11, <1>15 DEF Joint
<1>18. ASSUME NEW i \in 1 .. 5
       PROVE  z[2 * i + 2] = ScanNext(tour[i + 1][1]) /\ z[2 * i + 3] = Record(tour[i + 1][1])
  <2>1. /\ 2 * i - 1 \in 1 .. 10 /\ 3 + (2 * i - 1) = 2 * i + 2
        /\ 2 * i \in 1 .. 10 /\ 3 + 2 * i = 2 * i + 3
    OBVIOUS
  <2>2. z[2 * i + 2] = views[2 * i - 1] /\ z[2 * i + 3] = views[2 * i]
    BY <1>17, <2>1
  <2> QED
    BY <1>7, <1>8, <2>2
<1>19. ASSUME NEW i \in 1 .. 6 PROVE z[2 * i + 1] = Record(tour[i][1])
  <2>1. CASE i = 1
    <3>1. 2 * i + 1 = 3
      BY <2>1
    <3> QED
      BY <2>1, <3>1, <1>9, <1>16
  <2>2. CASE i # 1
    <3>1. PICK j \in 1 .. 5 : i = j + 1 /\ 2 * i + 1 = 2 * j + 3
      BY <2>2
    <3> QED
      BY <3>1, <1>18
  <2> QED
    BY <2>1, <2>2
<1>20. z[14] = Call(finish)
  <2>1. y[13 + 1] = c[1]
    BY <1>12 DEF Joint
  <2>2. z[14] = y[14]
    BY <1>13 DEF Joint
  <2> QED
    BY <1>6, <2>1, <2>2
<1>21. z[15] = Accept(auto)
  <2>1. z[14 + 1] = a[1]
    BY <1>13 DEF Joint
  <2> QED
    BY <1>6, <2>1
<1>22. ScanList(auto) = z
  BY <1>1, <1>4, <1>10, Zenon DEF ScanList, FullScanCalls, FinishOf
<1> QED
  BY <1>1, <1>14, <1>16, <1>18, <1>19, <1>20, <1>21, <1>22

\* What a scan has still to do, place by place.
LEMMA ScanLeft ==
  ASSUME NEW auto \in BOOLEAN, NEW k \in 0 .. 14
  PROVE  /\ Rest(ScanList(auto), 0) = ScanList(auto)
         /\ Rest(ScanList(auto), k) # <<>>
         /\ Head(Rest(ScanList(auto), k)) = ScanList(auto)[k + 1]
         /\ Tail(Rest(ScanList(auto), k)) = Rest(ScanList(auto), k + 1)
<1>1. PICK s : s = ScanList(auto)
  OBVIOUS
<1>2. s \in Seq(Item) /\ Len(s) = 15
  <2>1. ScanList(auto) \in Seq(Item) /\ Len(ScanList(auto)) = 15
    BY ScanListIs
  <2> QED
    BY <1>1, <2>1
<1>3. k \in Nat /\ k < Len(s)
  BY <1>2
<1>4. Rest(s, 0) = s
  BY <1>2, <1>3, RestSteps, Zenon
<1>5. k < Len(s) => /\ Rest(s, k) # <<>> /\ s[k + 1] \in Item
                    /\ Head(Rest(s, k)) = s[k + 1] /\ Tail(Rest(s, k)) = Rest(s, k + 1)
  <2>1. PICK S : S = Item
    OBVIOUS
  <2>2. s \in Seq(S) /\ k \in Nat
    BY <1>2, <1>3, <2>1
  <2>3. k < Len(s) => /\ Rest(s, k) # <<>> /\ s[k + 1] \in S
                      /\ Head(Rest(s, k)) = s[k + 1] /\ Tail(Rest(s, k)) = Rest(s, k + 1)
    BY <2>2, RestSteps
  <2> QED
    BY <2>1, <2>3
<1>6. /\ Rest(s, 0) = s /\ Rest(s, k) # <<>>
      /\ Head(Rest(s, k)) = s[k + 1] /\ Tail(Rest(s, k)) = Rest(s, k + 1)
  BY <1>3, <1>4, <1>5, Zenon
<1> QED
  BY <1>1, <1>6

-----------------------------------------------------------------------------
(* The invariant: where the call under way leads, and what is planned.     *)

Empty == [rails |-> RailsIn({}), grippers |-> Straight, held |-> FALSE, cube |-> NewCube]

\* The call under way leads from the stand as it is to the state it ends in,
\* and the plan counts on that state.
OnCourse(v) == Leads(Now, Ahead, v) /\ IsAt(Heading, v) /\ Plan(Heading, v)

IsState(c) == \E s, f, A : c = [state |-> s, face |-> f, holder |-> A]

HandsInv ==
  /\ phase \in {"idle", "setting", "releasing", "resetting", "stopping", "failed"}
  /\ Steady => \E v : OnCourse(v)
  /\ phase = "resetting" => script = <<>> /\ Good(Now) /\ Plan(OutputsOff, Empty)
  /\ phase \in {"stopping", "failed"} => ~held /\ script = <<>> /\ commanded.state = "Faulted"
  /\ IsState(commanded) /\ IsState(goal)

RecordsInv ==
  /\ asked \in Seq(FaceTurns)
  /\ tool = None  => ~held /\ phase = "idle" /\ script = <<>> /\ todo = <<>>
  /\ tool = Shell => asked = <<>> /\ ~scanned
  /\ pending # {} => scanned
  /\ FacesTrulyNamed

CubeInv == BenchInv /\ HandsInv /\ RecordsInv

LEMMA PlanStays ==
  ASSUME NEW h, NEW v, NEW w, Plan(h, v), w.held = v.held, w.cube.turns = v.cube.turns,
         UNCHANGED << tool, todo, asked, scanned, filed >>
  PROVE  Plan(h, w)'
<1>1. CASE Scanning(h, v)
  <2>1. Scanning(h, w)'
    BY <1>1 DEF Scanning
  <2> QED
    BY <2>1 DEF Plan
<1>2. CASE Doing(h, v)
  <2>1. Doing(h, w)'
    BY <1>2 DEF Doing
  <2> QED
    BY <2>1 DEF Plan
<1>3. CASE Starting(v)
  <2>1. Starting(w)'
    BY <1>3 DEF Starting
  <2> QED
    BY <2>1 DEF Plan
<1>4. CASE Plain
  <2>1. Plain'
    BY <1>4 DEF Plain, SingleItem
  <2> QED
    BY <2>1 DEF Plan
<1>5. CASE Leaving(v)
  <2>1. Leaving(w)'
    BY <1>5 DEF Leaving
  <2> QED
    BY <2>1 DEF Plan
<1> QED
  BY <1>1, <1>2, <1>3, <1>4, <1>5 DEF Plan

\* The course of the next state.
LEMMA NewCourse ==
  ASSUME NEW v, NEW n, NEW s, NEW h, n = Now', s = Ahead', h = Heading',
         Leads(n, s, v), IsAt(h, v), Plan(h, v)'
  PROVE  (\E u : OnCourse(u))'
<1>1. OnCourse(v)'
  BY DEF OnCourse
<1> QED
  BY <1>1

LEMMA OnCourseKeeps ==
  ASSUME phase' \in {"idle", "setting", "releasing"}, (\E v : OnCourse(v))',
         IsState(commanded)', IsState(goal)'
  PROVE  HandsInv'
<1>1. PICK p : p = phase'
  OBVIOUS
<1>2. /\ p \in {"idle", "setting", "releasing", "resetting", "stopping", "failed"}
      /\ p # "resetting" /\ p \notin {"stopping", "failed"}
  BY <1>1
<1> QED
  BY <1>1, <1>2, Zenon DEF HandsInv

\* A step of the script moves the stand as the mechanism says.
LEMMA MovesTheStand ==
  ASSUME NEW step, StepMoves(step)
  PROVE  Now' = After(Now, step)
<1>1. PICK r, g, h, c : r = rails /\ g = grippers /\ h = held /\ c = cube
  OBVIOUS
<1>2. PICK w : w = [rails |-> r, grippers |-> g, held |-> h, cube |-> c]
  OBVIOUS
<1>3. w = Now /\ w.rails = r /\ w.grippers = g /\ w.held = h /\ w.cube = c
  BY <1>1, <1>2 DEF Now
<1>4. CASE step.op = "grippers"
  <2>1. /\ grippers' = Moved(g, step.to) /\ rails' = r /\ held' = h
        /\ cube' = IF h THEN TurnedCube(c, r, g, step.to) ELSE c
    BY <1>1, <1>4 DEF StepMoves
  <2>2. Now' = [rails |-> r, grippers |-> Moved(g, step.to), held |-> h,
                cube |-> IF h THEN TurnedCube(c, r, g, step.to) ELSE c]
    BY <2>1, Zenon DEF Now
  <2> QED
    BY <1>3, <1>4, <2>2, Zenon DEF After
<1>5. CASE step.op # "grippers"
  <2>1. /\ rails' = Moved(r, step.to) /\ grippers' = g
        /\ cube' = IF step.op = "letgo" \/ ~h THEN NewCube ELSE MovedRails(c, r, step.to)
        /\ held' = ((h /\ step.op # "letgo") \/ step = ClosePair(Axis))
    BY <1>1, <1>5 DEF StepMoves
  <2>2. Now' = [rails |-> Moved(r, step.to), grippers |-> g,
                held |-> (h /\ step.op # "letgo") \/ step = ClosePair(Axis),
                cube |-> IF step.op = "letgo" \/ ~h THEN NewCube ELSE MovedRails(c, r, step.to)]
    BY <2>1, Zenon DEF Now
  <2> QED
    BY <1>3, <1>5, <2>2, Zenon DEF After
<1> QED
  BY <1>4, <1>5

\* A step of the script under way is one step along the course.
LEMMA DelayKeepsHands ==
  ASSUME BenchInv, HandsInv, DelayOver, UNCHANGED toolVars
  PROVE  HandsInv'
<1>1. phase = "setting" /\ script # <<>> /\ script \in Seq(RunStep)
  BY DEF DelayOver, BenchInv, InStep
<1>2. PICK v : OnCourse(v)
  BY <1>1 DEF HandsInv, Steady
<1>3. PICK n, s, step, g : n = Now /\ s = script /\ step = Head(script) /\ g = goal
  OBVIOUS
<1>4. Ahead = s /\ Heading = g
  BY <1>1, <1>3 DEF Ahead, Heading
<1>5. Leads(n, s, v) /\ IsAt(g, v) /\ Plan(g, v)
  BY <1>2, <1>3, <1>4 DEF OnCourse
<1>6. PICK u : Does(n, step, u) /\ Leads(u, Tail(s), v)
  BY <1>1, <1>3, <1>5, LeadsFirst
<1>7. Now' = u
  <2>1. StepMoves(step)
    BY <1>3 DEF DelayOver
  <2> QED
    BY <1>3, <1>6, <2>1, MovesTheStand DEF Does
<1>8. Plan(g, v)'
  BY <1>5, PlanStays DEF toolVars
<1>9. IsState(goal)' /\ goal' = g
  BY <1>3 DEF DelayOver, HandsInv, IsState
<1>10. CASE step.op = "grippers"
  <2>1. /\ script' = Tail(s) /\ phase' = "idle"
        /\ commanded' = IF Tail(s) = <<>> THEN g ELSE commanded
    BY <1>3, <1>10 DEF DelayOver, EndStep
  <2>2. Ahead' = Tail(s)
    BY <2>1 DEF Ahead
  <2>3. Heading' = g
    BY <1>9, <2>1 DEF Heading
  <2>4. (\E w : OnCourse(w))'
    BY <1>5, <1>6, <1>7, <1>8, <2>2, <2>3, NewCourse
  <2>5. IsState(commanded)'
    BY <1>3, <2>1 DEF HandsInv, IsState
  <2> QED
    BY <1>9, <2>1, <2>4, <2>5, OnCourseKeeps
<1>11. CASE step.op # "grippers"
  <2>1. script' = s /\ phase' = "releasing" /\ commanded' = commanded
    BY <1>3, <1>11 DEF DelayOver
  <2>2. Ahead' = Tail(s)
    BY <2>1 DEF Ahead
  <2>3. Heading' = g
    BY <1>1, <1>3, <1>9, <2>1 DEF Heading
  <2>4. (\E w : OnCourse(w))'
    BY <1>5, <1>6, <1>7, <1>8, <2>2, <2>3, NewCourse
  <2>5. IsState(commanded)'
    BY <2>1 DEF HandsInv, IsState
  <2> QED
    BY <1>9, <2>1, <2>4, <2>5, OnCourseKeeps
<1> QED
  BY <1>10, <1>11

\* Steps that change neither the stand nor where the call under way leads.
LEMMA CourseStays ==
  ASSUME HandsInv, Steady, UNCHANGED << tool, todo, asked, scanned, filed >>,
         UNCHANGED physics, Ahead' = Ahead, Heading' = Heading, UNCHANGED goal,
         phase' \in {"idle", "setting", "releasing"}, IsState(commanded)'
  PROVE  HandsInv'
<1>1. PICK v : OnCourse(v)
  BY DEF HandsInv
<1>2. PICK n, s, h : n = Now /\ s = Ahead /\ h = Heading
  OBVIOUS
<1>3. Now' = n
  BY <1>2 DEF Now, physics
<1>4. Leads(n, s, v) /\ IsAt(h, v) /\ Plan(h, v)
  BY <1>1, <1>2 DEF OnCourse
<1>5. Plan(h, v)'
  BY <1>4, PlanStays
<1>6. (\E w : OnCourse(w))'
  BY <1>2, <1>3, <1>4, <1>5, NewCourse
<1>7. IsState(goal)'
  BY DEF HandsInv, IsState
<1> QED
  BY <1>6, <1>7, OnCourseKeeps

LEMMA RuntimeKeepsHands ==
  ASSUME BenchInv, HandsInv, RuntimeStep, UNCHANGED toolVars
  PROVE  HandsInv'
<1>0. UNCHANGED << tool, todo, asked, scanned, filed >>
  BY DEF toolVars
<1>1. IsState(commanded) /\ IsState(goal)
  BY DEF HandsInv
<1>2. CASE StartStep
  <2>1. phase = "idle" /\ phase' = "setting" /\ UNCHANGED << commanded, script, goal, physics >>
    BY <1>2 DEF StartStep
  <2>2. Steady /\ Ahead' = Ahead /\ Heading' = Heading /\ IsState(commanded)'
    BY <1>1, <2>1 DEF Steady, Ahead, Heading, IsState
  <2> QED
    BY <1>0, <2>1, <2>2, CourseStays
<1>3. CASE DelayOver
  BY <1>3, DelayKeepsHands
<1>4. CASE RailsReleased
  <2>1. /\ phase = "releasing" /\ phase' = "idle" /\ script # <<>> /\ script' = Tail(script)
        /\ commanded' = (IF Tail(script) = <<>> THEN goal ELSE commanded)
        /\ UNCHANGED << goal, physics >>
    BY <1>4 DEF RailsReleased, EndStep, BenchInv, InStep
  <2>2. Steady /\ Ahead' = Ahead /\ Heading' = Heading
    BY <2>1 DEF Steady, Ahead, Heading
  <2>3. IsState(commanded)'
    BY <1>1, <2>1 DEF IsState
  <2> QED
    BY <1>0, <2>1, <2>2, <2>3, CourseStays
<1>5. CASE ResetDone
  <2>1. /\ phase = "resetting" /\ phase' = "idle" /\ commanded' = OutputsOff /\ held' = FALSE
        /\ cube' = NewCube /\ UNCHANGED << script, goal >>
    BY <1>5 DEF ResetDone
  <2>2. script = <<>> /\ Plan(OutputsOff, Empty)
    BY <2>1 DEF HandsInv
  <2>3. PICK n : n = Now'
    OBVIOUS
  <2>4. n.held = FALSE /\ n.cube = NewCube /\ Empty.held = FALSE /\ Empty.cube = NewCube
    BY <2>1, <2>3 DEF Now, Empty
  <2>5. Plan(OutputsOff, n)'
    BY <1>0, <2>2, <2>4, PlanStays
  <2>6. IsAt(OutputsOff, n) /\ Leads(n, <<>>, n)
    BY <2>4, PosesAre, LeadsNowhere DEF IsAt, Good
  <2>7. Ahead' = <<>> /\ Heading' = OutputsOff
    BY <2>1, <2>2 DEF Ahead, Heading
  <2>8. PICK o : o = OutputsOff
    OBVIOUS
  <2>9. (\E w : OnCourse(w))'
    BY <2>3, <2>5, <2>6, <2>7, <2>8, NewCourse
  <2>10. IsState(commanded)' /\ IsState(goal)'
    BY <1>1, <2>1 DEF IsState, OutputsOff, InState
  <2> QED
    BY <2>1, <2>9, <2>10, OnCourseKeeps
<1>6. CASE WriteSucceeds
  <2>1. UNCHANGED << commanded, phase, script, goal, rails, grippers, held, cube, physics >>
    BY <1>6 DEF WriteSucceeds, call, physics
  <2>2. IsState(commanded)' /\ IsState(goal)'
    BY <1>1, <2>1 DEF IsState
  <2>3. CASE Steady
    <3>1. Ahead' = Ahead /\ Heading' = Heading /\ phase' \in {"idle", "setting", "releasing"}
      BY <2>1, <2>3 DEF Ahead, Heading, Steady
    <3> QED
      BY <1>0, <2>1, <2>2, <2>3, <3>1, CourseStays
  <2>4. CASE ~Steady
    <3>1. phase = "resetting" => Plan(OutputsOff, Empty)'
      <4>1. ASSUME Plan(OutputsOff, Empty) PROVE Plan(OutputsOff, Empty)'
        BY <1>0, <4>1, PlanStays
      <4> QED
        BY <4>1 DEF HandsInv
    <3>2. ~Steady' /\ (Good(Now) => Good(Now)')
      BY <2>1, <2>4 DEF Steady, Now
    <3> QED
      BY <2>1, <2>2, <3>1, <3>2 DEF HandsInv
  <2> QED
    BY <2>3, <2>4
<1>7. CASE Fault
  <2>1. /\ phase' = "stopping" /\ script' = <<>> /\ held' = FALSE /\ goal' = goal
        /\ commanded' = [commanded EXCEPT !.state = "Faulted", !.face = None]
    BY <1>7 DEF Fault
  <2>2. PICK s, f, A : commanded = [state |-> s, face |-> f, holder |-> A]
    BY <1>1 DEF IsState
  <2>3. commanded' = [state |-> "Faulted", face |-> None, holder |-> A]
    BY <2>1, <2>2
  <2>4. IsState(commanded)' /\ IsState(goal)' /\ commanded'.state = "Faulted"
    BY <1>1, <2>1, <2>3 DEF IsState
  <2> QED
    BY <2>1, <2>4 DEF HandsInv, Steady
<1>8. CASE AllOffEnds
  <2>1. phase = "stopping" /\ phase' = "failed" /\ UNCHANGED << script, commanded, goal, held, physics >>
    BY <1>8 DEF AllOffEnds, physics
  <2>2. IsState(commanded)' /\ IsState(goal)'
    BY <1>1, <2>1 DEF IsState
  <2> QED
    BY <2>1, <2>2 DEF HandsInv, Steady
<1> QED
  BY <1>2, <1>3, <1>4, <1>5, <1>6, <1>7, <1>8 DEF RuntimeStep

-----------------------------------------------------------------------------
(* What a tool may count on when it runs no command.                       *)

LEMMA AtRest ==
  ASSUME HandsInv, phase = "idle", script = <<>>
  PROVE  IsAt(commanded, Now) /\ Plan(commanded, Now) /\ Leads(Now, <<>>, Now)
<1>1. PICK v : OnCourse(v)
  BY DEF HandsInv, Steady
<1>2. PICK n, h : n = Now /\ h = commanded
  OBVIOUS
<1>3. Ahead = <<>> /\ Heading = h
  BY <1>2 DEF Ahead, Heading
<1>4. Leads(n, <<>>, v) /\ IsAt(h, v) /\ Plan(h, v)
  BY <1>1, <1>2, <1>3 DEF OnCourse
<1>5. v = n
  BY <1>4, LeadsNowhere
<1> QED
  BY <1>2, <1>4, <1>5

\* The stand at rest in the next state.
LEMMA RestKeeps ==
  ASSUME NEW h, NEW n, h = commanded', n = Now', phase' = "idle", script' = <<>>,
         IsAt(h, n), Plan(h, n)', IsState(commanded)', IsState(goal)'
  PROVE  HandsInv'
<1>1. Ahead' = <<>> /\ Heading' = h
  BY DEF Ahead, Heading
<1>2. Leads(n, <<>>, n)
  BY AtIsGood, LeadsNowhere
<1>3. PICK s : s = <<>>
  OBVIOUS
<1>4. (\E w : OnCourse(w))'
  BY <1>1, <1>2, <1>3, NewCourse
<1> QED
  BY <1>4, OnCourseKeeps

LEMMA WholeIsPrefix ==
  ASSUME NEW s \in Seq(FaceTurns)
  PROVE  SubSeq(s, 1, Len(s)) = s /\ SubSeq(s, 1, 0) = <<>> /\ Len(s) \in Nat
         /\ Len(s) \in 0 .. Len(s) /\ 0 \in 0 .. Len(s)
  OBVIOUS

\* A plan with nothing left.
LEMMA NothingPlanned ==
  ASSUME NEW h, NEW v, Plan(h, v), todo = <<>>, asked \in Seq(FaceTurns)
  PROVE  asked = <<>> \/ ~v.held \/ (h = GripPose /\ v.cube.turns = asked)
<1>1. CASE Scanning(h, v)
  BY <1>1 DEF Scanning
<1>2. CASE Doing(h, v)
  <2>1. PICK a \in Seq(FaceTurns) : a = asked
    OBVIOUS
  <2>2. PICK k \in 0 .. Len(a), end \in Ends :
          v.cube.turns = SubSeq(a, 1, k) /\ todo = Rest(Moves(a) \o end, k) /\ h = GripPose
    BY <1>2, <2>1 DEF Doing
  <2>3. k = Len(a)
    BY <2>2, MovesLeft, EndItems
  <2> QED
    BY <2>1, <2>2, <2>3, WholeIsPrefix
<1>3. CASE Starting(v)
  BY <1>3 DEF Starting
<1>4. CASE Plain
  BY <1>4 DEF Plain
<1>5. CASE Leaving(v)
  BY <1>5 DEF Leaving
<1> QED
  BY <1>1, <1>2, <1>3, <1>4, <1>5 DEF Plan

\* Whatever was planned, the way out can be.
LEMMA LeavingPlan ==
  ASSUME NEW h, NEW v, Plan(h, v), todo = <<>>, asked \in Seq(FaceTurns),
         NEW end \in Ends, todo' = end, UNCHANGED << asked, scanned >>
  PROVE  Plan(h, v)'
<1>1. h.state = "ScanHold" => asked' = <<>> /\ ~scanned'
  BY DEF Plan
<1>2. CASE asked = <<>>
  <2>1. \A c \in {SafeOpenCall, Reset, Quit} : c \in SingleItem'
    <3>1. SafeOpenCall \in Item /\ Reset \in Item /\ Quit \in Item
      BY ItemsAre
    <3>2. SafeOpenCall.name = "safe_open" /\ Reset.name = "reset" /\ Quit.name = "quit"
      BY DEF SafeOpenCall, Reset, Quit, Call
    <3> QED
      BY <3>1, <3>2 DEF SingleItem
  <2>2. PICK S : S = SingleItem'
    OBVIOUS
  <2>3. <<>> \in Seq(S) /\ (\A c \in S : << c >> \in Seq(S)) /\ (\A c, d \in S : << c, d >> \in Seq(S))
    OBVIOUS
  <2>4. end \in Seq(S)
    BY <2>1, <2>2, <2>3, Zenon DEF Ends
  <2>5. Plain'
    BY <1>2, <2>2, <2>4 DEF Plain
  <2> QED
    BY <1>1, <2>5 DEF Plan
<1>3. CASE ~v.held
  <2>1. Leaving(v)'
    BY <1>3 DEF Leaving
  <2> QED
    BY <1>1, <2>1 DEF Plan
<1>4. CASE h = GripPose /\ v.cube.turns = asked
  <2>1. PICK a \in Seq(FaceTurns), k \in Nat : a = asked /\ k = Len(a)
    BY LenProperties
  <2>2. SubSeq(a, 1, k) = a /\ k \in 0 .. Len(a)
    BY <2>1, WholeIsPrefix
  <2>3. Rest(Moves(a) \o end, k) = end
    BY <2>1, <2>2, MovesLeft, EndItems
  <2>4. Doing(h, v)'
    BY <1>4, <2>1, <2>2, <2>3 DEF Doing
  <2> QED
    BY <1>1, <2>4 DEF Plan
<1> QED
  BY <1>2, <1>3, <1>4, NothingPlanned

LEMMA NamesOfItems ==
  /\ Initialize.name = "initialize_safe_pwm" /\ Reset.name = "reset" /\ SafeOpenCall.name = "safe_open"
  /\ Grip.name = "grip" /\ Quit.name = "quit"
  /\ \A f : /\ ScanPose(f).name = "scan_pose" /\ ScanPose(f).face = f
            /\ ScanNext(f).name = "scan_next" /\ ScanNext(f).face = f
            /\ Record(f).name = "record_face" /\ Record(f).face = f
  /\ \A a : Accept(a).name = "accept" /\ Accept(a).auto = a
  /\ FinishOf(TRUE) = "finish_scan_for_execution" /\ FinishOf(FALSE) = "finish_scan"
  /\ \A n : Call(n).name = n
  BY DEF Initialize, Reset, SafeOpenCall, Grip, Quit, Call, ScanPose, ScanNext, Record, Accept, FinishOf

\* The turns done to a cube are forgotten without harm.
LEMMA ForgetTurns ==
  ASSUME NEW c, NEW w, NEW r, NEW g, NEW h, NEW b, w = [rails |-> r, grippers |-> g, held |-> h, cube |-> b],
         IsAt(c, w),
         NEW n, n = [rails |-> r, grippers |-> g, held |-> h, cube |-> [b EXCEPT !.turns = <<>>]]
  PROVE  /\ IsAt(c, n) /\ n.held = w.held
         /\ c = GripPose => n.cube.turns = <<>>
<1>0. w.rails = r /\ w.grippers = g /\ w.held = h /\ w.cube = b /\ n.rails = r /\ n.grippers = g /\ n.held = h
  OBVIOUS
<1>1. CASE c = OpenPose /\ ~w.held /\ w.rails = RailsIn({}) /\ w.grippers = Straight
  BY <1>0, <1>1, PosesAre DEF IsAt
<1>2. \A A, p, s, t : w = HeldBy(A, p, s, t) => n = HeldBy(A, p, s, <<>>) /\ n.cube.turns = <<>>
  <2> SUFFICES ASSUME NEW A, NEW p, NEW s, NEW t, w = HeldBy(A, p, s, t)
               PROVE  n = HeldBy(A, p, s, <<>>) /\ n.cube.turns = <<>>
    OBVIOUS
  <2>1. PICK at : at = RailsIn(A)
    OBVIOUS
  <2>2. w = [rails |-> at, grippers |-> p, held |-> TRUE, cube |-> [sees |-> s, turns |-> t, intact |-> TRUE]]
    BY <2>1 DEF HeldBy
  <2>3. r = at /\ g = p /\ h = TRUE /\ b = [sees |-> s, turns |-> t, intact |-> TRUE]
    BY <1>0, <2>2
  <2>4. [b EXCEPT !.turns = <<>>] = [sees |-> s, turns |-> <<>>, intact |-> TRUE]
    <3>1. PICK ok, e : ok = TRUE /\ e = <<>>
      OBVIOUS
    <3>2. b = [sees |-> s, turns |-> t, intact |-> ok]
      BY <2>3, <3>1
    <3>3. [b EXCEPT !.turns = e] = [sees |-> s, turns |-> e, intact |-> ok]
      BY <3>2
    <3> QED
      BY <3>1, <3>3
  <2> QED
    BY <2>1, <2>3, <2>4 DEF HeldBy
<1>3. CASE c = GripPose /\ w = InGrip(Canonical, w.cube.turns)
  <2>1. PICK t : w = InGrip(Canonical, t)
    BY <1>3
  <2>2. n = InGrip(Canonical, <<>>) /\ n.cube.turns = <<>>
    BY <1>2, <2>1 DEF InGrip
  <2> QED
    BY <1>0, <1>3, <2>2 DEF IsAt
<1>4. CASE \E v \in Views(w.cube.turns) : c = ScanHold(v[1], v[2]) /\ w = v[3]
  <2>1. PICK t, e : t = w.cube.turns /\ e = <<>>
    OBVIOUS
  <2>2. PICK v \in Views(t) : c = ScanHold(v[1], v[2]) /\ w = v[3]
    BY <1>4, <2>1
  <2>3. PICK A, p, s : w = HeldBy(A, p, s, t) /\ << v[1], v[2], HeldBy(A, p, s, e) >> \in Views(e)
    BY <2>2 DEF Views
  <2>4. n = HeldBy(A, p, s, e) /\ n.cube.turns = e
    BY <1>2, <2>1, <2>3
  <2>5. IsAt(ScanHold(v[1], v[2]), n)
    BY <2>3, <2>4, ViewIsAt
  <2>6. c # GripPose
    BY <2>2, PosesAre
  <2> QED
    BY <1>0, <2>2, <2>5, <2>6
<1>5. CASE c.state \in {"Unknown", "OutputsOff", "Faulted"} /\ ~w.held
  BY <1>0, <1>5, PosesAre DEF IsAt
<1> QED
  BY <1>1, <1>3, <1>4, <1>5 DEF IsAt

\* A command that leaves the stand and the runtime alone and plans anew.
LEMMA PlanKeepsHands ==
  ASSUME HandsInv, phase = "idle", script = <<>>,
         UNCHANGED << commanded, call, physics >>,
         \A h, n : IsAt(h, n) /\ Plan(h, n) /\ h = commanded => Plan(h, n)'
  PROVE  HandsInv'
<1>1. PICK h, n : h = commanded /\ n = Now
  OBVIOUS
<1>2. IsAt(h, n) /\ Plan(h, n)
  BY <1>1, AtRest
<1>3. h = commanded' /\ n = Now' /\ phase' = "idle" /\ script' = <<>> /\ goal' = goal
  BY <1>1 DEF call, physics, Now
<1>4. IsState(commanded)' /\ IsState(goal)'
  BY <1>1, <1>3 DEF HandsInv, IsState
<1>5. Plan(h, n)'
  BY <1>1, <1>2
<1> QED
  BY <1>2, <1>3, <1>4, <1>5, RestKeeps

LEMMA StartKeepsHands ==
  ASSUME CubeInv, Start
  PROVE  HandsInv' /\ RecordsInv'
<1>1. ~held /\ phase = "idle" /\ script = <<>> /\ IsState(goal)
  BY DEF Start, CubeInv, RecordsInv, HandsInv
<1>2. PICK t \in {FullScan, Shell, Probe}, s \in Solutions :
        /\ tool' = t
        /\ todo' = StartUp(t) \o (IF t = Probe THEN << Grip >> \o Moves(s) ELSE <<>>)
        /\ asked' = IF t = Probe THEN s ELSE <<>>
  BY DEF Start
<1>3. /\ commanded' = Unknown /\ filed' = <<>> /\ scanned' = FALSE /\ pending' = {}
      /\ UNCHANGED << phase, script, goal, held, physics >>
  BY DEF Start, call, physics
<1>4. s \in Seq(FaceTurns) /\ <<>> \in Seq(FaceTurns)
  BY SolutionsAssumption
<1>5. PICK h, n : h = Unknown /\ n = Now'
  OBVIOUS
<1>6. ~n.held /\ IsAt(h, n) /\ h.state # "ScanHold"
  BY <1>1, <1>3, <1>5, PosesAre DEF Now, IsAt
<1>7. Plan(h, n)'
  <2>1. CASE t = Probe
    <3>1. todo' = (<< Initialize, Reset >> \o << SafeOpenCall >>) \o (<< Grip >> \o Moves(s))
      BY <1>2, <2>1 DEF StartUp, Probe, FullScan, Shell
    <3>2. Moves(s) \in Seq(Item)
      BY MovesAre
    <3>3. OneStart(Initialize, Reset, SafeOpenCall, Grip, Moves(s))
      BY <3>2, ItemsAre, StartIs
    <3>4. todo' = StartList \o Moves(s)
      BY <3>1, <3>3 DEF OneStart, StartList
    <3>5. 0 \in 0 .. 3
      OBVIOUS
    <3>6. todo' = Rest(StartList \o Moves(s), 0)
      BY <1>4, <3>4, <3>5, StartLeft
    <3>7. Starting(n)'
      BY <1>2, <1>6, <2>1, <3>5, <3>6 DEF Starting
    <3> QED
      BY <1>6, <3>7 DEF Plan
  <2>2. CASE t # Probe
    <3>1. PICK S : S = SingleItem'
      OBVIOUS
    <3>2. Initialize \in S /\ Reset \in S /\ SafeOpenCall \in S
      BY <1>3, <3>1, ItemsAre, NamesOfItems DEF SingleItem
    <3>3. << Initialize, Reset >> \in Seq(S) /\ << SafeOpenCall >> \in Seq(S) /\ <<>> \in Seq(S)
      BY <3>2
    <3>4. StartUp(t) = << Initialize, Reset >> \o << SafeOpenCall >>
            \/ StartUp(t) = << Initialize, Reset >> \o <<>>
      BY <2>2 DEF StartUp, Probe, FullScan, Shell
    <3>5. StartUp(t) \in Seq(S)
      BY <3>3, <3>4, ScriptsJoin
    <3>6. todo' \in Seq(S)
      BY <1>2, <2>2, <3>3, <3>5, ScriptsJoin
    <3>7. Plain'
      BY <1>2, <2>2, <3>1, <3>6 DEF Plain
    <3> QED
      BY <1>6, <3>7 DEF Plan
  <2> QED
    BY <2>1, <2>2
<1>8. IsState(commanded)' /\ IsState(goal)'
  BY <1>1, <1>3 DEF IsState, Unknown, InState
<1>9. HandsInv'
  BY <1>1, <1>3, <1>5, <1>6, <1>7, <1>8, RestKeeps
<1>10. RecordsInv'
  <2>1. asked' \in Seq(FaceTurns)
    BY <1>2, <1>4
  <2>2. t # None /\ (t = Shell => t # Probe)
    BY DEF FullScan, Shell, Probe, None
  <2>3. FacesTrulyNamed'
    BY <1>3 DEF FacesTrulyNamed
  <2> QED
    BY <1>2, <1>3, <2>1, <2>2, <2>3 DEF RecordsInv
<1> QED
  BY <1>9, <1>10

LEMMA PromptKeeps ==
  ASSUME CubeInv,
         ShellCommand \/ SolveCommand \/ Cancel \/ Off \/ QuitCommand
  PROVE  HandsInv' /\ RecordsInv'
<1>1. /\ phase = "idle" /\ script = <<>> /\ todo = <<>> /\ tool # None
      /\ UNCHANGED << commanded, call, physics, tool, asked, scanned, filed >>
      /\ HandsInv /\ RecordsInv /\ Steady
  BY DEF ShellCommand, SolveCommand, Cancel, Off, QuitCommand, AtPrompt, runtimeVars, CubeInv, Steady
<1>2. RecordsInv'
  <2>1. pending' # {} => scanned'
    BY <1>1 DEF ShellCommand, SolveCommand, Cancel, Off, QuitCommand, RecordsInv
  <2>2. FacesTrulyNamed'
    BY <1>1 DEF RecordsInv, FacesTrulyNamed
  <2> QED
    BY <1>1, <2>1, <2>2 DEF RecordsInv
<1>3. CASE SolveCommand \/ Cancel
  <2>1. /\ todo' = todo /\ Ahead' = Ahead /\ Heading' = Heading /\ goal' = goal
        /\ phase' \in {"idle", "setting", "releasing"}
    BY <1>1, <1>3 DEF SolveCommand, Cancel, Ahead, Heading, call
  <2>2. IsState(commanded)'
    BY <1>1 DEF HandsInv, IsState
  <2> QED
    BY <1>1, <1>2, <2>1, <2>2, CourseStays
<1>4. CASE Off \/ QuitCommand
  <2>1. PICK end \in Ends : todo' = end
    BY <1>4 DEF Off, QuitCommand, Ends
  <2>2. ASSUME NEW h, NEW n, Plan(h, n) PROVE Plan(h, n)'
    BY <1>1, <2>1, <2>2, LeavingPlan DEF RecordsInv
  <2> QED
    BY <1>1, <1>2, <2>2, PlanKeepsHands
<1>5. CASE ShellCommand
  <2>1. asked = <<>> /\ ~scanned
    BY <1>1, <1>5 DEF ShellCommand, RecordsInv
  <2>2. PICK c : /\ c \in {SafeOpenCall, Grip, Reset} \cup {ScanPose(f) : f \in CubeFace}
                          \cup {ScanNext(f) : f \in CubeFace}
                 /\ todo' = << c >>
    BY <1>5 DEF ShellCommand
  <2>3. c \in Item /\ c.name \notin {"record_face", "accept"}
    BY <2>2, ItemsAre, NamesOfItems
  <2>4. PICK S : S = SingleItem'
    OBVIOUS
  <2>5. c \in S
    BY <1>1, <2>1, <2>3, <2>4 DEF SingleItem
  <2>6. << c >> \in Seq(S)
    BY <2>5
  <2>7. Plain' /\ asked' = <<>> /\ ~scanned'
    BY <1>1, <2>1, <2>2, <2>4, <2>6 DEF Plain
  <2>8. ASSUME NEW h, NEW n PROVE Plan(h, n)'
    BY <2>7 DEF Plan
  <2> QED
    BY <1>1, <1>2, <2>8, PlanKeepsHands
<1> QED
  BY <1>3, <1>4, <1>5

\* A new command forgets the turns done to the cube so far.
LEMMA ForgottenTurns ==
  ASSUME HandsInv, phase = "idle", script = <<>>, cube' = [cube EXCEPT !.turns = <<>>],
         UNCHANGED << rails, grippers, held >>
  PROVE  \E n : /\ n = Now' /\ IsAt(commanded, n) /\ n.held = held
                /\ commanded = GripPose => n.cube.turns = <<>>
<1>1. PICK c, r, g, h, b : c = commanded /\ r = rails /\ g = grippers /\ h = held /\ b = cube
  OBVIOUS
<1>2. PICK w, n : /\ w = [rails |-> r, grippers |-> g, held |-> h, cube |-> b]
                  /\ n = [rails |-> r, grippers |-> g, held |-> h, cube |-> [b EXCEPT !.turns = <<>>]]
  OBVIOUS
<1>3. w = Now /\ n = Now' /\ w.held = h
  BY <1>1, <1>2 DEF Now
<1>4. IsAt(c, w)
  BY <1>1, <1>3, AtRest
<1>5. IsAt(c, n) /\ n.held = w.held /\ (c = GripPose => n.cube.turns = <<>>)
  BY <1>2, <1>4, ForgetTurns
<1> QED
  BY <1>1, <1>3, <1>5

LEMMA ScanKeeps ==
  ASSUME CubeInv, NEW auto \in BOOLEAN, ScanCommand(auto)
  PROVE  HandsInv' /\ RecordsInv'
<1>1. /\ phase = "idle" /\ script = <<>> /\ tool # None /\ tool # Shell
      /\ HandsInv /\ RecordsInv
  BY DEF ScanCommand, AtPrompt, CubeInv, FullScan, Shell, None
<1>2. /\ filed' = <<>> /\ scanned' = FALSE /\ pending' = {} /\ asked' = <<>>
      /\ cube' = [cube EXCEPT !.turns = <<>>]
      /\ UNCHANGED << commanded, phase, script, goal, rails, grippers, held, tool >>
  BY DEF ScanCommand, call
<1>3. todo' = (IF commanded # OpenPose THEN <<>> ELSE ScanList(auto))
  BY Zenon DEF ScanCommand, ScanList
<1>4. PICK n : n = Now' /\ IsAt(commanded, n) /\ n.held = held
  BY <1>1, <1>2, ForgottenTurns
<1>5. PICK h : h = commanded
  OBVIOUS
<1>6. Plan(h, n)'
  <2>1. CASE h # OpenPose
    <3>1. todo' = <<>>
      BY <1>3, <1>5, <2>1
    <3>2. PICK S : S = SingleItem'
      OBVIOUS
    <3>3. <<>> \in Seq(S)
      OBVIOUS
    <3>4. Plain'
      BY <1>2, <3>1, <3>2, <3>3 DEF Plain
    <3> QED
      BY <1>2, <3>4 DEF Plan
  <2>2. CASE h = OpenPose
    <3>1. DOMAIN filed' = {}
      BY <1>2
    <3>2. todo' = ScanList(auto)
      BY <1>3, <1>5, <2>2
    <3>3. Scanning(h, n)'
      BY <1>1, <1>2, <2>2, <3>1, <3>2 DEF Scanning
    <3> QED
      BY <1>2, <3>3 DEF Plan
  <2> QED
    BY <2>1, <2>2
<1>7. IsState(commanded)' /\ IsState(goal)'
  BY <1>1, <1>2 DEF HandsInv, IsState
<1>8. HandsInv'
  BY <1>1, <1>2, <1>4, <1>5, <1>6, <1>7, RestKeeps
<1>9. FacesTrulyNamed'
  BY <1>2 DEF FacesTrulyNamed
<1>10. <<>> \in Seq(FaceTurns)
  OBVIOUS
<1> QED
  BY <1>1, <1>2, <1>8, <1>9, <1>10 DEF RecordsInv

LEMMA ExecuteKeeps ==
  ASSUME CubeInv, ExecuteCommand
  PROVE  HandsInv' /\ RecordsInv'
<1>1. /\ phase = "idle" /\ script = <<>> /\ tool # None /\ tool # Shell
      /\ HandsInv /\ RecordsInv /\ pending \in SUBSET Solutions
  BY DEF ExecuteCommand, AtPrompt, CubeInv, BenchInv, FullScan, Shell, None
<1>2. PICK s \in pending : todo' = ExecuteCalls(s) /\ asked' = s
  BY DEF ExecuteCommand
<1>3. /\ pending' = {} /\ cube' = [cube EXCEPT !.turns = <<>>]
      /\ UNCHANGED << commanded, phase, script, goal, rails, grippers, held, tool, scanned, filed >>
  BY DEF ExecuteCommand, call
<1>4. scanned /\ s \in Solutions /\ s \in Seq(FaceTurns)
  BY <1>1, <1>2, SolutionsAssumption DEF RecordsInv
<1>5. PICK n : /\ n = Now' /\ IsAt(commanded, n) /\ n.held = held
               /\ commanded = GripPose => n.cube.turns = <<>>
  BY <1>1, <1>3, ForgottenTurns
<1>6. PICK h : h = commanded
  OBVIOUS
<1>7. h.state # "ScanHold"
  BY <1>1, <1>4, <1>6, AtRest DEF Plan
<1>8. ASSUME h = OpenPose PROVE Plan(h, n)'
  <2>1. ExecuteCalls(s) = << Grip >> \o Moves(s)
    <3>1. OpenPose # GripPose
      BY PosesAre
    <3> QED
      BY <1>6, <1>8, <3>1 DEF ExecuteCalls
  <2>2. 3 \in 0 .. 3
    OBVIOUS
  <2>3. todo' = Rest(StartList \o Moves(s), 3)
    BY <1>2, <1>4, <2>1, <2>2, StartLeft
  <2>4. ~n.held
    BY <1>5, <1>6, <1>8, AtIsGood, PosesAre
  <2>5. Starting(n)'
    BY <1>2, <2>2, <2>3, <2>4 DEF Starting
  <2> QED
    BY <1>7, <2>5 DEF Plan
<1>9. ASSUME h = GripPose PROVE Plan(h, n)'
  <2>1. ExecuteCalls(s) = Moves(s)
    BY <1>6, <1>9, PosesAre DEF ExecuteCalls
  <2>2. Moves(s) = Moves(s) \o <<>>
    BY <1>4, MovesAre, ConcatEmptySeq
  <2>3. 0 \in 0 .. Len(s) /\ SubSeq(s, 1, 0) = <<>>
    BY <1>4, WholeIsPrefix
  <2>4. todo' = Rest(Moves(s) \o <<>>, 0)
    <3>1. <<>> \in Seq(Item)
      OBVIOUS
    <3> QED
      BY <1>2, <1>4, <2>1, <2>2, <2>3, <3>1, MovesLeft
  <2>5. <<>> \in Ends
    BY DEF Ends
  <2>6. Doing(h, n)'
    BY <1>2, <1>5, <1>6, <1>9, <2>3, <2>4, <2>5 DEF Doing
  <2> QED
    BY <1>7, <2>6 DEF Plan
<1>10. ASSUME h # OpenPose, h # GripPose PROVE Plan(h, n)'
  <2>1. ExecuteCalls(s) = <<>>
    BY <1>6, <1>10 DEF ExecuteCalls
  <2>2. ~n.held
    BY <1>5, <1>6, <1>7, <1>10, AtIsGood
  <2>3. Leaving(n)'
    BY <1>2, <2>1, <2>2 DEF Leaving, Ends
  <2> QED
    BY <1>7, <2>3 DEF Plan
<1>11. IsState(commanded)' /\ IsState(goal)'
  BY <1>1, <1>3 DEF HandsInv, IsState
<1>12. HandsInv'
  BY <1>1, <1>3, <1>5, <1>6, <1>8, <1>9, <1>10, <1>11, RestKeeps
<1>13. FacesTrulyNamed'
  BY <1>1, <1>3 DEF RecordsInv, FacesTrulyNamed
<1> QED
  BY <1>1, <1>2, <1>3, <1>4, <1>12, <1>13 DEF RecordsInv

-----------------------------------------------------------------------------
(* What comes next in a plan.                                              *)

\* The item that comes next, and what is left of the ends after it.
LEMMA EndsGo ==
  ASSUME NEW end \in Ends, end # <<>>
  PROVE  Head(end) \in {SafeOpenCall, Reset, Quit} /\ Tail(end) \in Ends
<1>1. /\ \A c : << c >> # <<>> /\ Head(<< c >>) = c /\ Tail(<< c >>) = <<>>
      /\ \A c, d : Head(<< c, d >>) = c /\ Tail(<< c, d >>) = << d >>
  OBVIOUS
<1> QED
  BY <1>1, Zenon DEF Ends

LEMMA DoingNext ==
  ASSUME NEW h, NEW v, Doing(h, v), todo # <<>>, asked \in Seq(FaceTurns)
  PROVE  /\ h = GripPose
         /\ \/ /\ Head(todo) \in {SafeOpenCall, Reset, Quit} /\ Tail(todo) \in Ends
               /\ v.cube.turns = asked
            \/ \E k \in 0 .. Len(asked), end \in Ends :
                 /\ k + 1 \in 0 .. Len(asked)
                 /\ v.cube.turns = SubSeq(asked, 1, k)
                 /\ Head(todo) = [name |-> "execute_probe_move", move |-> asked[k + 1]]
                 /\ Tail(todo) = Rest(Moves(asked) \o end, k + 1)
                 /\ Append(v.cube.turns, asked[k + 1]) = SubSeq(asked, 1, k + 1)
<1>1. PICK a \in Seq(FaceTurns) : a = asked
  OBVIOUS
<1>2. PICK k \in 0 .. Len(a), end \in Ends :
        v.cube.turns = SubSeq(a, 1, k) /\ todo = Rest(Moves(a) \o end, k) /\ h = GripPose
  BY <1>1 DEF Doing
<1>3. end \in Seq(Item)
  BY EndItems
<1>4. CASE k = Len(a)
  <2>1. todo = end
    BY <1>2, <1>3, <1>4, MovesLeft
  <2>2. v.cube.turns = asked
    BY <1>1, <1>2, <1>4, WholeIsPrefix
  <2> QED
    BY <1>2, <2>1, <2>2, EndsGo
<1>5. CASE k # Len(a)
  <2>1. /\ k + 1 \in 0 .. Len(a)
        /\ Head(Rest(Moves(a) \o end, k)) = [name |-> "execute_probe_move", move |-> a[k + 1]]
        /\ Tail(Rest(Moves(a) \o end, k)) = Rest(Moves(a) \o end, k + 1)
        /\ Append(SubSeq(a, 1, k), a[k + 1]) = SubSeq(a, 1, k + 1)
    BY <1>3, <1>5, MovesLeft
  <2>2. /\ Head(todo) = [name |-> "execute_probe_move", move |-> a[k + 1]]
        /\ Tail(todo) = Rest(Moves(a) \o end, k + 1)
        /\ Append(v.cube.turns, a[k + 1]) = SubSeq(a, 1, k + 1)
    BY <1>2, <2>1
  <2> QED
    BY <1>1, <1>2, <2>1, <2>2
<1> QED
  BY <1>4, <1>5

LEMMA StartingNext ==
  ASSUME NEW v, Starting(v), asked \in Seq(FaceTurns)
  PROVE  \E j \in 0 .. 3 : /\ todo # <<>> /\ Head(todo) = StartList[j + 1]
                           /\ Tail(todo) = Rest(StartList \o Moves(asked), j + 1)
<1>1. PICK a \in Seq(FaceTurns) : a = asked
  OBVIOUS
<1>2. PICK j \in 0 .. 3 : todo = Rest(StartList \o Moves(a), j)
  BY <1>1 DEF Starting
<1>3. /\ Rest(StartList \o Moves(a), j) # <<>>
      /\ Head(Rest(StartList \o Moves(a), j)) = StartList[j + 1]
      /\ Tail(Rest(StartList \o Moves(a), j)) = Rest(StartList \o Moves(a), j + 1)
  BY StartLeft
<1> QED
  BY <1>1, <1>2, <1>3

LEMMA PlainNext ==
  ASSUME Plain, todo # <<>>
  PROVE  Head(todo) \in SingleItem /\ Tail(todo) \in Seq(SingleItem)
<1>1. PICK S, t : S = SingleItem /\ t = todo /\ t \in Seq(S)
  BY DEF Plain
<1>2. Head(t) \in S /\ Tail(t) \in Seq(S)
  BY <1>1, HeadTailProperties
<1> QED
  BY <1>1, <1>2

LEMMA ScanningNext ==
  ASSUME NEW h, NEW v, Scanning(h, v)
  PROVE  /\ todo # <<>>
         /\ \E auto \in BOOLEAN :
              \/ /\ Head(todo) = Grip /\ Tail(todo) = Rest(ScanList(auto), 1)
                 /\ h = OpenPose /\ DOMAIN filed = {}
              \/ /\ Head(todo) = ScanPose("Left") /\ Tail(todo) = Rest(ScanList(auto), 2)
                 /\ h = GripPose /\ v.cube.turns = <<>> /\ DOMAIN filed = {}
              \/ \E i \in 1 .. 6 :
                   /\ Head(todo) = Record(Tour[i][1]) /\ Tail(todo) = Rest(ScanList(auto), 2 * i + 1)
                   /\ h = TourPose(i) /\ v.cube.turns = <<>> /\ DOMAIN filed = FacesBefore(i)
              \/ \E i \in 1 .. 5 :
                   /\ Head(todo) = ScanNext(Tour[i + 1][1])
                   /\ Tail(todo) = Rest(ScanList(auto), 2 * (i + 1))
                   /\ h = TourPose(i) /\ v.cube.turns = <<>> /\ DOMAIN filed = FacesBefore(i + 1)
              \/ /\ Head(todo) = Call(FinishOf(auto)) /\ Tail(todo) = Rest(ScanList(auto), 14)
                 /\ h = TourPose(6) /\ v.cube.turns = <<>> /\ DOMAIN filed = CubeFace
              \/ /\ Head(todo) = Accept(auto) /\ DOMAIN filed = CubeFace
                 /\ IF auto THEN h = GripPose /\ v.cube.turns = <<>> ELSE h = OpenPose
<1>1. PICK auto \in BOOLEAN :
       \/ todo = ScanList(auto) /\ h = OpenPose /\ DOMAIN filed = {}
       \/ /\ todo = Rest(ScanList(auto), 1) /\ DOMAIN filed = {}
          /\ h = GripPose /\ v.cube.turns = <<>>
       \/ \E i \in 1 .. 6 :
            /\ h = TourPose(i) /\ v.cube.turns = <<>>
            /\ \/ todo = Rest(ScanList(auto), 2 * i) /\ DOMAIN filed = FacesBefore(i)
               \/ todo = Rest(ScanList(auto), 2 * i + 1) /\ DOMAIN filed = FacesBefore(i + 1)
       \/ /\ todo = Rest(ScanList(auto), 14) /\ DOMAIN filed = CubeFace
          /\ IF auto THEN h = GripPose /\ v.cube.turns = <<>> ELSE h = OpenPose
  BY DEF Scanning
<1>2. PICK s : s = ScanList(auto)
  OBVIOUS
<1>3. /\ s[1] = Grip /\ s[2] = ScanPose("Left")
      /\ \A i \in 1 .. 6 : s[2 * i + 1] = Record(Tour[i][1])
      /\ \A i \in 1 .. 5 : s[2 * i + 2] = ScanNext(Tour[i + 1][1])
      /\ s[14] = Call(FinishOf(auto)) /\ s[15] = Accept(auto)
  BY <1>2, ScanListIs
<1>4. /\ Rest(s, 0) = s
      /\ \A k \in 0 .. 14 : /\ Rest(s, k) # <<>> /\ Head(Rest(s, k)) = s[k + 1]
                            /\ Tail(Rest(s, k)) = Rest(s, k + 1)
  <2>1. ASSUME NEW k \in 0 .. 14
        PROVE  /\ Rest(s, 0) = s /\ Rest(s, k) # <<>> /\ Head(Rest(s, k)) = s[k + 1]
               /\ Tail(Rest(s, k)) = Rest(s, k + 1)
    BY <1>2, ScanLeft
  <2>2. 0 \in 0 .. 14
    OBVIOUS
  <2> QED
    BY <2>1, <2>2
<1>5. CASE todo = s /\ h = OpenPose /\ DOMAIN filed = {}
  <2>1. todo # <<>> /\ Head(todo) = s[0 + 1] /\ Tail(todo) = Rest(s, 0 + 1)
    BY <1>4, <1>5
  <2> QED
    BY <1>2, <1>3, <1>5, <2>1
<1>6. CASE todo = Rest(s, 1) /\ DOMAIN filed = {} /\ h = GripPose /\ v.cube.turns = <<>>
  <2>1. todo # <<>> /\ Head(todo) = s[1 + 1] /\ Tail(todo) = Rest(s, 1 + 1)
    BY <1>4, <1>6
  <2> QED
    BY <1>2, <1>3, <1>6, <2>1
<1>7. ASSUME NEW i \in 1 .. 6, h = TourPose(i), v.cube.turns = <<>>,
             todo = Rest(s, 2 * i), DOMAIN filed = FacesBefore(i)
      PROVE  todo # <<>> /\ Head(todo) = Record(Tour[i][1]) /\ Tail(todo) = Rest(s, 2 * i + 1)
  <2>1. 2 * i \in 0 .. 14
    OBVIOUS
  <2> QED
    BY <1>3, <1>4, <1>7, <2>1
<1>8. ASSUME NEW i \in 1 .. 5, todo = Rest(s, 2 * i + 1)
      PROVE  todo # <<>> /\ Head(todo) = ScanNext(Tour[i + 1][1]) /\ Tail(todo) = Rest(s, 2 * (i + 1))
  <2>1. 2 * i + 1 \in 0 .. 14 /\ (2 * i + 1) + 1 = 2 * i + 2 /\ 2 * (i + 1) = 2 * i + 2
    OBVIOUS
  <2>2. todo # <<>> /\ Head(todo) = s[(2 * i + 1) + 1] /\ Tail(todo) = Rest(s, (2 * i + 1) + 1)
    BY <1>4, <1>8, <2>1
  <2> QED
    BY <1>3, <2>1, <2>2
<1>9. ASSUME todo = Rest(s, 13)
      PROVE  todo # <<>> /\ Head(todo) = Call(FinishOf(auto)) /\ Tail(todo) = Rest(s, 14)
  <2>1. todo # <<>> /\ Head(todo) = s[13 + 1] /\ Tail(todo) = Rest(s, 13 + 1)
    BY <1>4, <1>9
  <2> QED
    BY <1>3, <2>1
<1>10. ASSUME todo = Rest(s, 14) PROVE todo # <<>> /\ Head(todo) = Accept(auto)
  <2>1. todo # <<>> /\ Head(todo) = s[14 + 1]
    BY <1>4, <1>10
  <2> QED
    BY <1>3, <2>1
<1>11. ASSUME NEW i \in 1 .. 6, h = TourPose(i), v.cube.turns = <<>>,
              todo = Rest(s, 2 * i + 1), DOMAIN filed = FacesBefore(i + 1)
       PROVE  \/ /\ i \in 1 .. 5 /\ todo # <<>> /\ Head(todo) = ScanNext(Tour[i + 1][1])
                 /\ Tail(todo) = Rest(s, 2 * (i + 1))
              \/ /\ todo # <<>> /\ Head(todo) = Call(FinishOf(auto)) /\ Tail(todo) = Rest(s, 14)
                 /\ h = TourPose(6) /\ DOMAIN filed = CubeFace
  <2>1. CASE i \in 1 .. 5
    BY <1>8, <1>11, <2>1
  <2>2. CASE i = 6
    <3>1. 2 * i + 1 = 13 /\ i + 1 = 7
      BY <2>2
    <3> QED
      BY <1>9, <1>11, <2>2, <3>1, BeforeIs
  <2> QED
    BY <2>1, <2>2
<1> QED
  BY <1>1, <1>2, <1>5, <1>6, <1>7, <1>10, <1>11

-----------------------------------------------------------------------------
(* A call that is admitted goes on with the plan.                          *)

NotCalls == {"reset", "initialize_safe_pwm", "record_face", "accept", "quit"}

\* The states that calls end in.
LEMMA CallEnds ==
  ASSUME NEW c \in Item, c.name \notin NotCalls, NEW w, NEW g, NEW v, CallDoes(c, w, g, v)
  PROVE  /\ IsState(g)
         /\ g.state = "ScanHold" => c.name \in {"scan_pose", "scan_next"}
<1>1. IsState(OpenPose) /\ IsState(GripPose) /\ \A f, A : IsState(ScanHold(f, A))
  BY DEF IsState, OpenPose, GripPose, InState, ScanHold
<1>2. c.name \in {"safe_open", "grip", "finish_scan", "finish_scan_for_execution", "scan_pose",
                  "scan_next", "execute_probe_move"}
  BY ItemKinds DEF NotCalls
<1>3. CASE c.name \in {"scan_pose", "scan_next"}
  BY <1>1, <1>3 DEF CallDoes
<1>4. CASE c.name \notin {"scan_pose", "scan_next"}
  <2>1. g = OpenPose \/ g = GripPose
    BY <1>2, <1>4 DEF CallDoes
  <2> QED
    BY <1>1, <2>1, PosesAre
<1> QED
  BY <1>3, <1>4

LEMMA ScanGoesOn ==
  ASSUME NEW h, NEW w, h = commanded, Scanning(h, w), NEW c, c = Head(todo), c.name \notin NotCalls,
         NEW g, NEW v, CallDoes(c, w, g, v),
         todo' = Tail(todo), UNCHANGED << tool, asked, scanned, filed >>
  PROVE  Scanning(g, v)'
<1>1. tool' # Shell /\ asked' = <<>> /\ ~scanned'
  BY DEF Scanning
<1>2. PICK auto \in BOOLEAN :
              \/ /\ Head(todo) = Grip /\ Tail(todo) = Rest(ScanList(auto), 1)
                 /\ h = OpenPose /\ DOMAIN filed = {}
              \/ /\ Head(todo) = ScanPose("Left") /\ Tail(todo) = Rest(ScanList(auto), 2)
                 /\ h = GripPose /\ w.cube.turns = <<>> /\ DOMAIN filed = {}
              \/ \E i \in 1 .. 6 :
                   /\ Head(todo) = Record(Tour[i][1]) /\ Tail(todo) = Rest(ScanList(auto), 2 * i + 1)
                   /\ h = TourPose(i) /\ w.cube.turns = <<>> /\ DOMAIN filed = FacesBefore(i)
              \/ \E i \in 1 .. 5 :
                   /\ Head(todo) = ScanNext(Tour[i + 1][1])
                   /\ Tail(todo) = Rest(ScanList(auto), 2 * (i + 1))
                   /\ h = TourPose(i) /\ w.cube.turns = <<>> /\ DOMAIN filed = FacesBefore(i + 1)
              \/ /\ Head(todo) = Call(FinishOf(auto)) /\ Tail(todo) = Rest(ScanList(auto), 14)
                 /\ h = TourPose(6) /\ w.cube.turns = <<>> /\ DOMAIN filed = CubeFace
              \/ /\ Head(todo) = Accept(auto) /\ DOMAIN filed = CubeFace
                 /\ IF auto THEN h = GripPose /\ w.cube.turns = <<>> ELSE h = OpenPose
  BY ScanningNext
<1>3. CASE Head(todo) = Grip /\ Tail(todo) = Rest(ScanList(auto), 1) /\ DOMAIN filed = {}
  <2>1. g = GripPose /\ v.cube.turns = <<>>
    BY <1>3, NamesOfItems DEF CallDoes
  <2>2. todo' = Rest(ScanList(auto), 1) /\ DOMAIN filed' = {}
    BY <1>3
  <2> QED
    BY <1>1, <2>1, <2>2 DEF Scanning
<1>4. CASE /\ Head(todo) = ScanPose("Left") /\ Tail(todo) = Rest(ScanList(auto), 2)
           /\ w.cube.turns = <<>> /\ DOMAIN filed = {}
  <2>1. c.name = "scan_pose" /\ c.face = "Left"
    BY <1>4, NamesOfItems
  <2>2. g = ScanHold("Left", TopBottom) /\ v.cube.turns = <<>>
    BY <1>4, <2>1 DEF CallDoes
  <2>3. PICK one : one = 1
    OBVIOUS
  <2>4. Tour[one] = << "Left", TopBottom >>
    BY <2>3, TourIs
  <2>5. g = TourPose(one)
    BY <2>2, <2>4 DEF TourPose
  <2>6. todo' = Rest(ScanList(auto), 2 * one) /\ DOMAIN filed' = FacesBefore(one) /\ one \in 1 .. 6
    BY <1>4, <2>3, BeforeIs
  <2> QED
    BY <1>1, <2>2, <2>5, <2>6 DEF Scanning
<1>5. CASE \E i \in 1 .. 6 : Head(todo) = Record(Tour[i][1])
  BY <1>5, NamesOfItems DEF NotCalls
<1>6. ASSUME NEW i \in 1 .. 5, Head(todo) = ScanNext(Tour[i + 1][1]),
             Tail(todo) = Rest(ScanList(auto), 2 * (i + 1)), h = TourPose(i), w.cube.turns = <<>>,
             DOMAIN filed = FacesBefore(i + 1)
      PROVE  Scanning(g, v)'
  <2>1. PICK f, A, e, B : f = Tour[i][1] /\ A = Tour[i][2] /\ e = Tour[i + 1][1] /\ B = Tour[i + 1][2]
    OBVIOUS
  <2>2. PICK x \in ScanTransitions : x = << f, A, e, B >>
    BY <2>1, TourIs
  <2>3. c.name = "scan_next" /\ c.face = e
    BY <1>6, <2>1, NamesOfItems
  <2>4. v.cube.turns = <<>>
    BY <1>6, <2>3 DEF CallDoes
  <2>5. PICK y \in ScanTransitions : /\ h = ScanHold(y[1], y[2]) /\ e = y[3]
                                     /\ g = ScanHold(y[3], y[4])
    BY <2>3 DEF CallDoes
  <2>6. h = ScanHold(f, A)
    BY <1>6, <2>1 DEF TourPose
  <2>7. y[1] = f /\ y[2] = A
    <3>1. h.face = f /\ h.holder = A
      BY <2>6, PosesAre
    <3>2. h.face = y[1] /\ h.holder = y[2]
      BY <2>5, PosesAre
    <3> QED
      BY <3>1, <3>2
  <2>8. x[1] = f /\ x[2] = A /\ x[3] = e /\ x[4] = B
    BY <2>2
  <2>9. y[4] = B
    BY <2>5, <2>7, <2>8, OneWay
  <2>10. PICK k \in 1 .. 6 : k = i + 1
    OBVIOUS
  <2>11. g = TourPose(k)
    BY <2>1, <2>5, <2>9, <2>10 DEF TourPose
  <2>12. todo' = Rest(ScanList(auto), 2 * k) /\ DOMAIN filed' = FacesBefore(k)
    BY <1>6, <2>10
  <2> QED
    BY <1>1, <2>4, <2>11, <2>12 DEF Scanning
<1>7. CASE /\ Head(todo) = Call(FinishOf(auto)) /\ Tail(todo) = Rest(ScanList(auto), 14)
           /\ w.cube.turns = <<>> /\ DOMAIN filed = CubeFace
  <2>1. c.name = FinishOf(auto)
    BY <1>7, NamesOfItems
  <2>2. IF auto THEN g = GripPose /\ v.cube.turns = <<>> ELSE g = OpenPose
    BY <1>7, <2>1 DEF CallDoes, FinishOf
  <2>3. todo' = Rest(ScanList(auto), 14) /\ DOMAIN filed' = CubeFace
    BY <1>7
  <2> QED
    BY <1>1, <2>2, <2>3 DEF Scanning
<1>8. CASE Head(todo) = Accept(auto)
  BY <1>8, NamesOfItems DEF NotCalls
<1> QED
  BY <1>2, <1>3, <1>4, <1>5, <1>6, <1>7, <1>8

\* The stand that a call has opened holds no cube.
LEMMA OpenedEmpty ==
  ASSUME NEW c, c.name = "safe_open", NEW w, NEW g, NEW v, CallDoes(c, w, g, v), IsAt(g, v)
  PROVE  g = OpenPose /\ ~v.held
<1>1. g = OpenPose
  BY DEF CallDoes
<1> QED
  BY <1>1, AtIsGood, PosesAre

LEMMA PlanGoesOn ==
  ASSUME NEW h, NEW w, h = commanded, Plan(h, w), todo # <<>>, asked \in Seq(FaceTurns),
         NEW c \in Item, c = Head(todo), c.name \notin NotCalls,
         NEW g, NEW v, CallDoes(c, w, g, v), IsAt(g, v),
         todo' = Tail(todo), UNCHANGED << tool, asked, scanned, filed >>
  PROVE  Plan(g, v)'
<1>1. g.state = "ScanHold" => c.name \in {"scan_pose", "scan_next"}
  BY CallEnds
<1>2. Reset.name \in NotCalls /\ Quit.name \in NotCalls /\ SafeOpenCall.name = "safe_open"
  BY NamesOfItems DEF NotCalls
<1>3. CASE Scanning(h, w)
  <2>1. Scanning(g, v)'
    BY <1>3, ScanGoesOn
  <2>2. asked' = <<>> /\ ~scanned'
    BY <1>3 DEF Scanning
  <2> QED
    BY <2>1, <2>2 DEF Plan
<1>4. CASE Doing(h, w)
  <2>1. CASE c \in {SafeOpenCall, Reset, Quit} /\ Tail(todo) \in Ends
    <3>1. c.name = "safe_open"
      BY <1>2, <2>1
    <3>2. g = OpenPose /\ ~v.held
      BY <3>1, OpenedEmpty
    <3>3. Leaving(v)'
      BY <2>1, <3>2 DEF Leaving
    <3> QED
      BY <3>2, <3>3, PosesAre DEF Plan
  <2>2. ASSUME NEW k \in 0 .. Len(asked), NEW end \in Ends,
               k + 1 \in 0 .. Len(asked),
               c = [name |-> "execute_probe_move", move |-> asked[k + 1]],
               Tail(todo) = Rest(Moves(asked) \o end, k + 1),
               Append(w.cube.turns, asked[k + 1]) = SubSeq(asked, 1, k + 1)
        PROVE  Plan(g, v)'
    <3>1. c.name = "execute_probe_move" /\ c.move = asked[k + 1]
      BY <2>2
    <3>2. g = GripPose /\ v.cube.turns = SubSeq(asked, 1, k + 1)
      BY <2>2, <3>1 DEF CallDoes
    <3>3. PICK j \in 0 .. Len(asked) : j = k + 1
      BY <2>2
    <3>4. Doing(g, v)'
      BY <2>2, <3>2, <3>3 DEF Doing
    <3> QED
      BY <3>2, <3>4, PosesAre DEF Plan
  <2> QED
    BY <1>4, <2>1, <2>2, DoingNext
<1>5. CASE Starting(w)
  <2>1. PICK j \in 0 .. 3 : c = StartList[j + 1] /\ Tail(todo) = Rest(StartList \o Moves(asked), j + 1)
    BY <1>5, StartingNext
  <2>2. CASE j = 0 \/ j = 1
    BY <2>1, <2>2, StartListIs, NamesOfItems DEF NotCalls
  <2>3. CASE j = 2
    <3>1. c = SafeOpenCall /\ todo' = Rest(StartList \o Moves(asked'), 3) /\ 3 \in 0 .. 3
      BY <2>1, <2>3, StartListIs
    <3>2. g = OpenPose /\ ~v.held
      BY <1>2, <3>1, OpenedEmpty
    <3>3. Starting(v)'
      BY <3>1, <3>2 DEF Starting
    <3> QED
      BY <3>2, <3>3, PosesAre DEF Plan
  <2>4. CASE j = 3
    <3>1. c = Grip /\ todo' = Rest(StartList \o Moves(asked), 4)
      BY <2>1, <2>4, StartListIs
    <3>2. todo' = Rest(Moves(asked') \o <<>>, 0)
      BY <2>1, <3>1, StartLeft
    <3>3. g = GripPose /\ v.cube.turns = <<>>
      BY <3>1, NamesOfItems DEF CallDoes
    <3>4. 0 \in 0 .. Len(asked') /\ SubSeq(asked', 1, 0) = <<>> /\ <<>> \in Ends
      BY WholeIsPrefix DEF Ends
    <3>5. Doing(g, v)'
      BY <3>2, <3>3, <3>4 DEF Doing
    <3> QED
      BY <3>3, <3>5, PosesAre DEF Plan
  <2> QED
    BY <2>2, <2>3, <2>4
<1>6. CASE Plain
  <2>1. c \in SingleItem /\ Tail(todo) \in Seq(SingleItem)
    BY <1>6, PlainNext
  <2>2. Plain'
    BY <1>6, <2>1 DEF Plain, SingleItem
  <2>3. g.state = "ScanHold" => ~scanned'
    BY <1>1, <2>1 DEF SingleItem
  <2> QED
    BY <2>2, <2>3 DEF Plan, Plain
<1>7. CASE Leaving(w)
  <2>1. c \in {SafeOpenCall, Reset, Quit} /\ Tail(todo) \in Ends
    BY <1>7, EndsGo DEF Leaving
  <2>2. c.name = "safe_open"
    BY <1>2, <2>1
  <2>3. g = OpenPose /\ ~v.held
    BY <2>2, OpenedEmpty
  <2>4. Leaving(v)'
    BY <2>1, <2>3 DEF Leaving
  <2> QED
    BY <2>3, <2>4, PosesAre DEF Plan
<1> QED
  BY <1>3, <1>4, <1>5, <1>6, <1>7 DEF Plan

\* The reset of a plan, which ends with the stand empty and the outputs off.
LEMMA PlanReset ==
  ASSUME NEW h, NEW w, Plan(h, w), todo # <<>>, asked \in Seq(FaceTurns), Head(todo).name = "reset",
         todo' = Tail(todo), UNCHANGED << asked, scanned, filed >>
  PROVE  Plan(OutputsOff, Empty)'
<1>1. OutputsOff.state # "ScanHold" /\ ~Empty.held
  BY PosesAre DEF Empty
<1>2. ASSUME Tail(todo) \in Ends PROVE Plan(OutputsOff, Empty)'
  <2>1. Leaving(Empty)'
    BY <1>1, <1>2 DEF Leaving
  <2> QED
    BY <1>1, <2>1 DEF Plan
<1>3. CASE Scanning(h, w)
  <2>1. PICK auto \in BOOLEAN :
          \/ Head(todo) = Grip \/ Head(todo) = ScanPose("Left")
          \/ \E i \in 1 .. 6 : Head(todo) = Record(Tour[i][1])
          \/ \E i \in 1 .. 5 : Head(todo) = ScanNext(Tour[i + 1][1])
          \/ Head(todo) = Call(FinishOf(auto)) \/ Head(todo) = Accept(auto)
    BY <1>3, ScanningNext
  <2>2. Call(FinishOf(auto)).name # "reset"
    BY NamesOfItems DEF FinishOf
  <2> QED
    BY <2>1, <2>2, NamesOfItems
<1>4. CASE Doing(h, w)
  <2>1. Tail(todo) \in Ends \/ \E k : Head(todo) = [name |-> "execute_probe_move", move |-> asked[k]]
    BY <1>4, DoingNext
  <2> QED
    BY <1>2, <2>1
<1>5. CASE Starting(w)
  <2>1. PICK j \in 0 .. 3 : /\ Head(todo) = StartList[j + 1]
                            /\ Tail(todo) = Rest(StartList \o Moves(asked), j + 1)
    BY <1>5, StartingNext
  <2>2. j = 1
    BY <2>1, StartListIs, NamesOfItems
  <2>3. todo' = Rest(StartList \o Moves(asked'), 2) /\ 2 \in 0 .. 3
    BY <2>1, <2>2
  <2>4. Starting(Empty)'
    BY <1>1, <2>3 DEF Starting
  <2> QED
    BY <1>1, <2>4 DEF Plan
<1>6. CASE Plain
  <2>1. Tail(todo) \in Seq(SingleItem)
    BY <1>6, PlainNext
  <2>2. Plain'
    BY <1>6, <2>1 DEF Plain, SingleItem
  <2> QED
    BY <1>1, <2>2 DEF Plan
<1>7. CASE Leaving(w)
  BY <1>2, <1>7, EndsGo DEF Leaving
<1> QED
  BY <1>3, <1>4, <1>5, <1>6, <1>7 DEF Plan

LEMMA PlanInitializes ==
  ASSUME NEW h, NEW w, Plan(h, w), todo # <<>>, asked \in Seq(FaceTurns),
         Head(todo).name = "initialize_safe_pwm",
         todo' = Tail(todo), UNCHANGED << asked, scanned, filed >>
  PROVE  Plan(h, w)'
<1>1. h.state = "ScanHold" => asked' = <<>> /\ ~scanned'
  BY DEF Plan
<1>2. CASE Scanning(h, w)
  <2>1. PICK auto \in BOOLEAN :
          \/ Head(todo) = Grip \/ Head(todo) = ScanPose("Left")
          \/ \E i \in 1 .. 6 : Head(todo) = Record(Tour[i][1])
          \/ \E i \in 1 .. 5 : Head(todo) = ScanNext(Tour[i + 1][1])
          \/ Head(todo) = Call(FinishOf(auto)) \/ Head(todo) = Accept(auto)
    BY <1>2, ScanningNext
  <2>2. Call(FinishOf(auto)).name # "initialize_safe_pwm"
    BY NamesOfItems DEF FinishOf
  <2> QED
    BY <2>1, <2>2, NamesOfItems
<1>3. CASE Doing(h, w)
  <2>1. \/ Head(todo) \in {SafeOpenCall, Reset, Quit}
        \/ \E k : Head(todo) = [name |-> "execute_probe_move", move |-> asked[k]]
    BY <1>3, DoingNext
  <2> QED
    BY <2>1, NamesOfItems
<1>4. CASE Starting(w)
  <2>1. PICK j \in 0 .. 3 : /\ Head(todo) = StartList[j + 1]
                            /\ Tail(todo) = Rest(StartList \o Moves(asked), j + 1)
    BY <1>4, StartingNext
  <2>2. j = 0
    BY <2>1, StartListIs, NamesOfItems
  <2>3. todo' = Rest(StartList \o Moves(asked'), 1) /\ 1 \in 0 .. 3 /\ ~w.held
    BY <1>4, <2>1, <2>2 DEF Starting
  <2>4. Starting(w)'
    BY <2>3 DEF Starting
  <2> QED
    BY <1>1, <2>4 DEF Plan
<1>5. CASE Plain
  <2>1. Tail(todo) \in Seq(SingleItem)
    BY <1>5, PlainNext
  <2>2. Plain'
    BY <1>5, <2>1 DEF Plain, SingleItem
  <2> QED
    BY <1>1, <2>2 DEF Plan
<1>6. CASE Leaving(w)
  BY <1>6, EndsGo, NamesOfItems DEF Leaving
<1> QED
  BY <1>2, <1>3, <1>4, <1>5, <1>6 DEF Plan

\* A command that stops where it is, in a stand at rest.
LEMMA PlanStops ==
  ASSUME NEW h, NEW w, Plan(h, w), todo' = <<>>, UNCHANGED << asked, scanned, filed >>,
         asked = <<>> \/ ~w.held
  PROVE  Plan(h, w)'
<1>1. h.state = "ScanHold" => asked' = <<>> /\ ~scanned'
  BY DEF Plan
<1>2. CASE asked = <<>>
  <2>1. PICK S : S = SingleItem'
    OBVIOUS
  <2>2. <<>> \in Seq(S)
    OBVIOUS
  <2>3. Plain'
    BY <1>2, <2>1, <2>2 DEF Plain
  <2> QED
    BY <1>1, <2>3 DEF Plan
<1>3. CASE ~w.held
  <2>1. Leaving(w)'
    BY <1>3 DEF Leaving, Ends
  <2> QED
    BY <1>1, <2>1 DEF Plan
<1> QED
  BY <1>2, <1>3

-----------------------------------------------------------------------------
(* The actions of a running command.                                       *)

LEMMA RecordsStay ==
  ASSUME RecordsInv, tool # None, UNCHANGED << asked, tool, pending, scanned, filed >>
  PROVE  RecordsInv'
<1>1. FacesTrulyNamed'
  BY DEF RecordsInv, FacesTrulyNamed
<1> QED
  BY <1>1 DEF RecordsInv

LEMMA StartCallKeepsHands ==
  ASSUME CubeInv, StartCall
  PROVE  HandsInv' /\ RecordsInv'
<1>1. /\ phase = "idle" /\ script = <<>> /\ todo # <<>> /\ todo \in Seq(Item)
      /\ HandsInv /\ RecordsInv /\ asked \in Seq(FaceTurns)
      /\ todo' = Tail(todo) /\ UNCHANGED << tool, filed, scanned, pending, asked >>
  BY DEF StartCall, AtItem, CubeInv, BenchInv, RecordsInv
<1>2. RecordsInv'
  <2>1. tool # None
    BY <1>1 DEF RecordsInv
  <2> QED
    BY <1>1, <2>1, RecordsStay
<1>3. PICK c \in Item : c = Head(todo)
  BY <1>1, HeadTailProperties
<1>4. PICK h, w : h = commanded /\ w = Now
  OBVIOUS
<1>5. IsAt(h, w) /\ Plan(h, w)
  BY <1>1, <1>4, AtRest
<1>6. IsState(commanded) /\ IsState(goal)
  BY <1>1 DEF HandsInv
<1>7. CASE c.name = "reset"
  <2>1. BeginReset
    BY <1>3, <1>7 DEF StartCall
  <2>2. phase' = "resetting" /\ UNCHANGED << commanded, script, goal, physics, rails, grippers, held, cube >>
    BY <2>1 DEF BeginReset, physics
  <2>3. Plan(OutputsOff, Empty)'
    BY <1>1, <1>3, <1>5, <1>7, PlanReset
  <2>4. Good(w) /\ w = Now'
    BY <1>4, <1>5, <2>2, AtIsGood DEF Now
  <2>5. Good(Now)'
    BY <2>4
  <2>6. IsState(commanded)' /\ IsState(goal)' /\ script' = <<>>
    BY <1>1, <1>6, <2>2 DEF IsState
  <2> QED
    BY <1>2, <2>2, <2>3, <2>5, <2>6 DEF HandsInv, Steady
<1>8. CASE c.name = "initialize_safe_pwm"
  <2>1. UNCHANGED << commanded, call, physics >>
    BY <1>3, <1>8 DEF StartCall
  <2>2. ASSUME NEW g, NEW n, Plan(g, n) PROVE Plan(g, n)'
    BY <1>1, <1>3, <1>8, <2>2, PlanInitializes
  <2> QED
    BY <1>1, <1>2, <2>1, <2>2, PlanKeepsHands
<1>9. CASE c.name \notin {"reset", "initialize_safe_pwm"}
  <2>1. c.name \notin NotCalls /\ Begin(c)
    BY <1>3, <1>9 DEF StartCall, NotCalls
  <2>2. PICK s \in Admitted(c) : script' = s[1] /\ goal' = s[2]
    BY <2>1 DEF Begin
  <2>3. phase' = "idle" /\ UNCHANGED << commanded, physics, rails, grippers, held, cube >>
    BY <1>1, <2>1 DEF Begin, physics
  <2>4. s[1] # <<>> /\ \E v : Leads(w, s[1], v) /\ IsAt(s[2], v) /\ CallDoes(c, w, s[2], v)
    BY <1>4, <1>5, <2>1, CallLeads DEF NotCalls
  <2>5. PICK a, g, v : a = s[1] /\ g = s[2] /\ Leads(w, a, v) /\ IsAt(g, v) /\ CallDoes(c, w, g, v)
    BY <2>4
  <2>6. Plan(g, v)'
    BY <1>1, <1>3, <1>4, <1>5, <2>1, <2>5, PlanGoesOn
  <2>7. Ahead' = a /\ Heading' = g /\ Now' = w
    BY <1>4, <2>2, <2>3, <2>4, <2>5 DEF Ahead, Heading, Now
  <2>8. (\E u : OnCourse(u))'
    BY <2>5, <2>6, <2>7, NewCourse
  <2>9. IsState(goal)'
    <3>1. IsState(g)
      BY <2>1, <2>5, CallEnds
    <3>2. goal' = g
      BY <2>2, <2>5
    <3> QED
      BY <3>1, <3>2 DEF IsState
  <2>10. IsState(commanded)'
    BY <1>6, <2>3 DEF IsState
  <2> QED
    BY <1>2, <2>3, <2>8, <2>9, <2>10, OnCourseKeeps
<1> QED
  BY <1>7, <1>8, <1>9

LEMMA GoneKeepsHands ==
  ASSUME CubeInv, Gone, goal' = goal
  PROVE  HandsInv' /\ RecordsInv'
<1>1. /\ tool' = None /\ todo' = <<>> /\ script' = <<>> /\ phase' = "idle"
      /\ commanded' = Unknown /\ held' = FALSE /\ cube' = NewCube
      /\ filed' = <<>> /\ scanned' = FALSE /\ pending' = {} /\ asked' = <<>>
  BY DEF Gone
<1>2. PICK h, n : h = Unknown /\ n = Now'
  OBVIOUS
<1>3. ~n.held
  BY <1>1, <1>2 DEF Now
<1>4. IsAt(h, n) /\ h.state # "ScanHold"
  BY <1>2, <1>3, PosesAre DEF IsAt
<1>5. Leaving(n)'
  BY <1>1, <1>3 DEF Leaving, Ends
<1>6. Plan(h, n)'
  BY <1>4, <1>5 DEF Plan
<1>7. IsState(commanded)' /\ IsState(goal)'
  BY <1>1 DEF CubeInv, HandsInv, IsState, Unknown, InState
<1>8. HandsInv'
  BY <1>1, <1>2, <1>4, <1>6, <1>7, RestKeeps
<1>9. FacesTrulyNamed'
  BY <1>1 DEF FacesTrulyNamed
<1>10. <<>> \in Seq(FaceTurns)
  OBVIOUS
<1>11. None # Shell
  BY DEF None, Shell
<1> QED
  BY <1>1, <1>8, <1>9, <1>10, <1>11 DEF RecordsInv

LEMMA RefuseKeeps ==
  ASSUME CubeInv, RefuseCall
  PROVE  HandsInv' /\ RecordsInv'
<1>1. /\ phase = "idle" /\ script = <<>> /\ todo # <<>> /\ todo \in Seq(Item) /\ todo' = <<>>
      /\ HandsInv /\ RecordsInv /\ asked \in Seq(FaceTurns)
      /\ UNCHANGED << commanded, call, physics, tool, filed, scanned, pending, asked >>
      /\ Head(todo).name \notin NotCalls /\ Admitted(Head(todo)) = {}
  BY DEF RefuseCall, AtItem, StopCommand, CubeInv, BenchInv, RecordsInv, runtimeVars, NotCalls
<1>2. RecordsInv'
  <2>1. tool # None
    BY <1>1 DEF RecordsInv
  <2> QED
    BY <1>1, <2>1, RecordsStay
<1>3. ASSUME NEW h, NEW n, IsAt(h, n), Plan(h, n), h = commanded PROVE Plan(h, n)'
  <2>1. asked = <<>> \/ ~n.held
    <3>1. CASE Scanning(h, n)
      BY <3>1 DEF Scanning
    <3>2. CASE Doing(h, n)
      <4>1. commanded = GripPose /\ commanded.state = "Gripped"
        BY <1>3, <3>2, PosesAre DEF Doing
      <4>2. CASE Head(todo) \in {SafeOpenCall, Reset, Quit}
        <5>1. Head(todo).name = "safe_open"
          BY <1>1, <4>2, NamesOfItems DEF NotCalls
        <5>2. Admitted(Head(todo)) # {}
          BY <4>1, <5>1 DEF Admitted, Operational
        <5> QED
          BY <1>1, <5>2
      <4>3. CASE \E k : Head(todo) = [name |-> "execute_probe_move", move |-> asked[k]]
        <5>1. Head(todo).name = "execute_probe_move"
          BY <4>3
        <5>2. Admitted(Head(todo)) # {}
          BY <4>1, <5>1 DEF Admitted
        <5> QED
          BY <1>1, <5>2
      <4> QED
        BY <1>1, <3>2, <4>2, <4>3, DoingNext
    <3>3. CASE Starting(n)
      BY <3>3 DEF Starting
    <3>4. CASE Plain
      BY <3>4 DEF Plain
    <3>5. CASE Leaving(n)
      BY <3>5 DEF Leaving
    <3> QED
      BY <1>3, <3>1, <3>2, <3>3, <3>4, <3>5 DEF Plan
  <2> QED
    BY <1>1, <1>3, <2>1, PlanStops
<1> QED
  BY <1>1, <1>2, <1>3, PlanKeepsHands

\* Faces are recorded in the scan alone, at the view the scan has come to.
LEMMA RecordIsScan ==
  ASSUME NEW h, NEW v, Plan(h, v), todo # <<>>, asked \in Seq(FaceTurns),
         Head(todo).name \in {"record_face", "accept"}
  PROVE  Scanning(h, v)
<1>1. CASE Doing(h, v)
  <2>1. \/ Head(todo) \in {SafeOpenCall, Reset, Quit}
        \/ \E k : Head(todo) = [name |-> "execute_probe_move", move |-> asked[k]]
    BY <1>1, DoingNext
  <2> QED
    BY <2>1, NamesOfItems
<1>2. CASE Starting(v)
  <2>1. PICK j \in 0 .. 3 : Head(todo) = StartList[j + 1]
    BY <1>2, StartingNext
  <2>2. j = 0 \/ j = 1 \/ j = 2 \/ j = 3
    OBVIOUS
  <2> QED
    BY <2>1, <2>2, StartListIs, NamesOfItems
<1>3. CASE Plain
  <2>1. Head(todo) \in SingleItem
    BY <1>3, PlainNext
  <2> QED
    BY <2>1 DEF SingleItem
<1>4. CASE Leaving(v)
  <2>1. Head(todo) \in {SafeOpenCall, Reset, Quit}
    BY <1>4, EndsGo DEF Leaving
  <2> QED
    BY <2>1, NamesOfItems
<1> QED
  BY <1>1, <1>2, <1>3, <1>4 DEF Plan

\* The camera at a view of the tour sees the face the view is for.
LEMMA CameraSees ==
  ASSUME NEW i \in 1 .. 6, NEW w, IsAt(TourPose(i), w)
  PROVE  w.cube.sees["Front"] = Tour[i][1]
<1>1. PICK f, A, t : f = Tour[i][1] /\ A = Tour[i][2] /\ t = w.cube.turns
  OBVIOUS
<1>2. IsAt(ScanHold(f, A), w)
  BY <1>1 DEF TourPose
<1>3. << f, A, w >> \in Views(t)
  BY <1>1, <1>2, AtView
<1>4. PICK v \in Views(t) : v = << f, A, w >>
  BY <1>3
<1>5. v[1] = f /\ v[3] = w
  BY <1>4
<1>6. v[3].cube.sees["Front"] = v[1]
  BY ViewsShow
<1> QED
  BY <1>1, <1>5, <1>6

\* The face a scan has come to, as the next record of it.
LEMMA RecordIs ==
  ASSUME NEW h, NEW v, Scanning(h, v), Head(todo).name = "record_face"
  PROVE  \E auto \in BOOLEAN, i \in 1 .. 6 :
           /\ Head(todo).face = Tour[i][1] /\ Tail(todo) = Rest(ScanList(auto), 2 * i + 1)
           /\ h = TourPose(i) /\ v.cube.turns = <<>> /\ DOMAIN filed = FacesBefore(i)
<1>1. PICK auto \in BOOLEAN :
          \/ Head(todo) = Grip \/ Head(todo) = ScanPose("Left")
          \/ \E i \in 1 .. 6 :
               /\ Head(todo) = Record(Tour[i][1]) /\ Tail(todo) = Rest(ScanList(auto), 2 * i + 1)
               /\ h = TourPose(i) /\ v.cube.turns = <<>> /\ DOMAIN filed = FacesBefore(i)
          \/ \E i \in 1 .. 5 : Head(todo) = ScanNext(Tour[i + 1][1])
          \/ Head(todo) = Call(FinishOf(auto)) \/ Head(todo) = Accept(auto)
  BY ScanningNext
<1>2. Call(FinishOf(auto)).name # "record_face"
  BY NamesOfItems DEF FinishOf
<1>3. PICK i \in 1 .. 6 :
               /\ Head(todo) = Record(Tour[i][1]) /\ Tail(todo) = Rest(ScanList(auto), 2 * i + 1)
               /\ h = TourPose(i) /\ v.cube.turns = <<>> /\ DOMAIN filed = FacesBefore(i)
  BY <1>1, <1>2, NamesOfItems
<1>4. Head(todo).face = Tour[i][1]
  BY <1>3, NamesOfItems
<1> QED
  BY <1>3, <1>4

LEMMA AcceptIs ==
  ASSUME NEW h, NEW v, Scanning(h, v), Head(todo).name = "accept"
  PROVE  /\ DOMAIN filed = CubeFace /\ Head(todo).auto \in BOOLEAN
         /\ IF Head(todo).auto THEN h = GripPose /\ v.cube.turns = <<>> ELSE h = OpenPose
<1>1. PICK auto \in BOOLEAN :
          \/ Head(todo) = Grip \/ Head(todo) = ScanPose("Left")
          \/ \E i \in 1 .. 6 : Head(todo) = Record(Tour[i][1])
          \/ \E i \in 1 .. 5 : Head(todo) = ScanNext(Tour[i + 1][1])
          \/ Head(todo) = Call(FinishOf(auto))
          \/ /\ Head(todo) = Accept(auto) /\ DOMAIN filed = CubeFace
             /\ IF auto THEN h = GripPose /\ v.cube.turns = <<>> ELSE h = OpenPose
  BY ScanningNext
<1>2. Call(FinishOf(auto)).name # "accept"
  BY NamesOfItems DEF FinishOf
<1>3. /\ Head(todo) = Accept(auto) /\ DOMAIN filed = CubeFace
      /\ IF auto THEN h = GripPose /\ v.cube.turns = <<>> ELSE h = OpenPose
  BY <1>1, <1>2, NamesOfItems
<1>4. Head(todo).auto = auto
  BY <1>3, NamesOfItems
<1> QED
  BY <1>3, <1>4

LEMMA RecordKeeps ==
  ASSUME CubeInv, RecordFace
  PROVE  HandsInv' /\ RecordsInv'
<1>1. /\ phase = "idle" /\ script = <<>> /\ todo # <<>>
      /\ HandsInv /\ RecordsInv /\ asked \in Seq(FaceTurns)
      /\ UNCHANGED << commanded, call, physics, tool, scanned, pending, asked >>
      /\ Head(todo).name = "record_face" /\ tool # None
  BY DEF RecordFace, AtItem, StopCommand, CubeInv, BenchInv, RecordsInv, runtimeVars
<1>2. PICK h, w : h = commanded /\ w = Now
  OBVIOUS
<1>3. IsAt(h, w) /\ Plan(h, w)
  BY <1>1, <1>2, AtRest
<1>4. Scanning(h, w) /\ asked = <<>> /\ ~scanned
  <2>1. Scanning(h, w)
    BY <1>1, <1>3, RecordIsScan
  <2> QED
    BY <2>1 DEF Scanning
<1>5. CASE StopCommand
  <2>1. todo' = <<>> /\ filed' = filed
    BY <1>5 DEF StopCommand
  <2>2. ASSUME NEW g, NEW n, Plan(g, n) PROVE Plan(g, n)'
    BY <1>1, <1>4, <2>1, <2>2, PlanStops
  <2> QED
    BY <1>1, <2>1, <2>2, PlanKeepsHands, RecordsStay
<1>6. CASE /\ todo' = Tail(todo)
           /\ filed' = [f \in DOMAIN filed \cup {Head(todo).face} |->
                          IF f = Head(todo).face THEN cube.sees["Front"] ELSE filed[f]]
  <2>1. PICK auto \in BOOLEAN, i \in 1 .. 6 :
           /\ Head(todo).face = Tour[i][1] /\ Tail(todo) = Rest(ScanList(auto), 2 * i + 1)
           /\ h = TourPose(i) /\ w.cube.turns = <<>> /\ DOMAIN filed = FacesBefore(i)
    BY <1>1, <1>4, RecordIs
  <2>2. PICK face, seen, D : face = Head(todo).face /\ seen = cube.sees["Front"] /\ D = DOMAIN filed
    OBVIOUS
  <2>3. seen = face
    <3>1. w.cube.sees["Front"] = Tour[i][1]
      BY <1>3, <2>1, CameraSees
    <3>2. w.cube = cube
      BY <1>2 DEF Now
    <3> QED
      BY <2>1, <2>2, <3>1, <3>2
  <2>4. filed' = [f \in D \cup {face} |-> IF f = face THEN seen ELSE filed[f]]
    BY <1>6, <2>2
  <2>5. DOMAIN filed' = FacesBefore(i + 1)
    <3>1. DOMAIN filed' = D \cup {face}
      BY <2>4
    <3> QED
      BY <2>1, <2>2, <3>1, BeforeIs
  <2>6. \A f \in DOMAIN filed' : filed'[f] = f
    BY <1>1, <2>2, <2>3, <2>4 DEF RecordsInv, FacesTrulyNamed
  <2>7. RecordsInv'
    BY <1>1, <1>4, <2>6 DEF RecordsInv, FacesTrulyNamed
  <2>8. Scanning(h, w)'
    <3>1. tool' # Shell /\ asked' = <<>> /\ ~scanned'
      BY <1>1, <1>4 DEF Scanning
    <3>2. todo' = Rest(ScanList(auto), 2 * i + 1)
      BY <1>6, <2>1
    <3> QED
      BY <2>1, <2>5, <3>1, <3>2 DEF Scanning
  <2>9. Plan(h, w)'
    BY <1>1, <1>4, <2>8 DEF Plan
  <2>10. h = commanded' /\ w = Now' /\ phase' = "idle" /\ script' = <<>> /\ goal' = goal
    BY <1>1, <1>2 DEF call, physics, Now
  <2>11. IsState(commanded)' /\ IsState(goal)'
    BY <1>1, <2>10 DEF HandsInv, IsState
  <2>12. HandsInv'
    BY <1>3, <2>9, <2>10, <2>11, RestKeeps
  <2> QED
    BY <2>7, <2>12
<1> QED
  BY <1>5, <1>6 DEF RecordFace

LEMMA AcceptKeeps ==
  ASSUME CubeInv, AcceptScan
  PROVE  HandsInv' /\ RecordsInv'
<1>1. /\ phase = "idle" /\ script = <<>> /\ todo # <<>>
      /\ HandsInv /\ RecordsInv /\ asked \in Seq(FaceTurns)
      /\ UNCHANGED << commanded, call, physics, tool, filed, pending >>
      /\ Head(todo).name = "accept" /\ tool # None
  BY DEF AcceptScan, AtItem, StopCommand, CubeInv, BenchInv, RecordsInv, runtimeVars
<1>2. PICK h, w : h = commanded /\ w = Now
  OBVIOUS
<1>3. IsAt(h, w) /\ Plan(h, w)
  BY <1>1, <1>2, AtRest
<1>4. Scanning(h, w) /\ asked = <<>> /\ tool # Shell
  <2>1. Scanning(h, w)
    BY <1>1, <1>3, RecordIsScan
  <2> QED
    BY <2>1 DEF Scanning
<1>5. CASE StopCommand
  <2>1. todo' = <<>> /\ UNCHANGED << asked, scanned >>
    BY <1>5 DEF StopCommand
  <2>2. ASSUME NEW g, NEW n, Plan(g, n) PROVE Plan(g, n)'
    BY <1>1, <1>4, <2>1, <2>2, PlanStops
  <2> QED
    BY <1>1, <2>1, <2>2, PlanKeepsHands, RecordsStay
<1>6. ASSUME scanned' = TRUE, asked' \in Seq(FaceTurns), Plan(h, w)' PROVE HandsInv' /\ RecordsInv'
  <2>1. DOMAIN filed = CubeFace
    BY <1>1, <1>4, AcceptIs
  <2>2. FacesTrulyNamed'
    BY <1>1, <2>1 DEF RecordsInv, FacesTrulyNamed
  <2>3. RecordsInv'
    BY <1>1, <1>4, <1>6, <2>2 DEF RecordsInv
  <2>4. h = commanded' /\ w = Now' /\ phase' = "idle" /\ script' = <<>> /\ goal' = goal
    BY <1>1, <1>2 DEF call, physics, Now
  <2>5. IsState(commanded)' /\ IsState(goal)'
    BY <1>1, <2>4 DEF HandsInv, IsState
  <2>6. HandsInv'
    BY <1>3, <1>6, <2>4, <2>5, RestKeeps
  <2> QED
    BY <2>3, <2>6
<1>7. h.state # "ScanHold"
  <2>1. h = GripPose \/ h = OpenPose
    BY <1>1, <1>4, AcceptIs
  <2> QED
    BY <2>1, PosesAre
<1>8. CASE scanned' = TRUE /\ todo' = <<>> /\ UNCHANGED asked
  <2>1. PICK S : S = SingleItem'
    OBVIOUS
  <2>2. <<>> \in Seq(S)
    OBVIOUS
  <2>3. Plain'
    BY <1>4, <1>8, <2>1, <2>2 DEF Plain
  <2>4. Plan(h, w)'
    BY <1>7, <2>3 DEF Plan
  <2> QED
    BY <1>1, <1>6, <1>8, <2>4
<1>9. ASSUME scanned' = TRUE, NEW s \in Solutions, Head(todo).auto,
             todo' = ExecuteCalls(s) \o << SafeOpenCall >>, asked' = s
      PROVE  HandsInv' /\ RecordsInv'
  <2>1. h = GripPose /\ w.cube.turns = <<>>
    BY <1>1, <1>4, <1>9, AcceptIs
  <2>2. s \in Seq(FaceTurns) /\ << SafeOpenCall >> \in Ends
    BY SolutionsAssumption DEF Ends
  <2>3. ExecuteCalls(s) = Moves(s)
    BY <1>2, <2>1, PosesAre DEF ExecuteCalls
  <2>4. PICK end \in Ends : end = << SafeOpenCall >>
    BY <2>2
  <2>5. 0 \in 0 .. Len(s) /\ SubSeq(s, 1, 0) = <<>>
    BY <2>2, WholeIsPrefix
  <2>6. todo' = Rest(Moves(s) \o end, 0)
    <3>1. end \in Seq(Item)
      BY EndItems
    <3>2. Rest(Moves(s) \o end, 0) = Moves(s) \o end
      BY <2>2, <2>5, <3>1, MovesLeft
    <3> QED
      BY <1>9, <2>3, <2>4, <3>2
  <2>7. Doing(h, w)'
    BY <1>9, <2>1, <2>5, <2>6 DEF Doing
  <2>8. Plan(h, w)'
    BY <1>7, <2>7 DEF Plan
  <2> QED
    BY <1>6, <1>9, <2>2, <2>8
<1> QED
  BY <1>5, <1>8, <1>9 DEF AcceptScan

LEMMA CallFailsKeeps ==
  ASSUME CubeInv, CallFails
  PROVE  HandsInv' /\ RecordsInv'
<1>1. CASE fatal
  BY <1>1, GoneKeepsHands DEF CallFails
<1>2. CASE ~fatal
  <2>1. /\ phase = "failed" /\ phase' = "idle" /\ todo' = <<>>
        /\ UNCHANGED << commanded, script, goal, physics, held, tool, scanned, filed, pending, asked >>
    BY <1>2 DEF CallFails, StopCommand, physics
  <2>2. HandsInv /\ RecordsInv
    BY DEF CubeInv
  <2>3. ~held /\ script = <<>> /\ commanded.state = "Faulted" /\ IsState(commanded) /\ IsState(goal)
    BY <2>1, <2>2 DEF HandsInv
  <2>4. tool # None
    BY <2>1, <2>2 DEF RecordsInv
  <2>5. PICK h, n : h = commanded' /\ n = Now'
    OBVIOUS
  <2>6. ~n.held /\ h.state = "Faulted"
    BY <2>1, <2>3, <2>5 DEF Now
  <2>7. IsAt(h, n) /\ h.state # "ScanHold"
    BY <2>6 DEF IsAt
  <2>8. Leaving(n)'
    BY <2>1, <2>6 DEF Leaving, Ends
  <2>9. Plan(h, n)'
    BY <2>7, <2>8 DEF Plan
  <2>10. IsState(commanded)' /\ IsState(goal)' /\ script' = <<>>
    BY <2>1, <2>3 DEF IsState
  <2>11. HandsInv'
    BY <2>1, <2>5, <2>7, <2>9, <2>10, RestKeeps
  <2> QED
    BY <2>1, <2>2, <2>4, <2>11, RecordsStay
<1> QED
  BY <1>1, <1>2

LEMMA RuntimeKeepsRecords ==
  ASSUME CubeInv, RuntimeStep, UNCHANGED toolVars
  PROVE  RecordsInv'
<1>1. RecordsInv /\ UNCHANGED << todo, tool, asked, pending, scanned, filed >>
  BY DEF CubeInv, toolVars
<1>2. CASE tool # None
  BY <1>1, <1>2, RecordsStay
<1>3. CASE tool = None
  <2>1. ~held /\ phase = "idle" /\ script = <<>>
    BY <1>1, <1>3 DEF RecordsInv
  <2>2. ~StartStep /\ ~DelayOver /\ ~RailsReleased /\ ~ResetDone /\ ~Fault /\ ~AllOffEnds
    BY <2>1 DEF StartStep, DelayOver, RailsReleased, ResetDone, Fault, AllOffEnds
  <2>3. WriteSucceeds
    BY <2>2 DEF RuntimeStep
  <2>4. UNCHANGED << held, phase, script >>
    BY <2>3 DEF WriteSucceeds, call, physics
  <2>5. FacesTrulyNamed'
    BY <1>1 DEF RecordsInv, FacesTrulyNamed
  <2> QED
    BY <1>1, <2>4, <2>5 DEF RecordsInv
<1> QED
  BY <1>2, <1>3

LEMMA CubeInvHolds == BenchInit => CubeInv
<1> SUFFICES ASSUME BenchInit PROVE CubeInv
  OBVIOUS
<1>1. BenchInv
  BY BenchInitInv
<1>2. /\ phase = "idle" /\ script = <<>> /\ commanded = Unknown /\ goal = Unknown /\ held = FALSE
      /\ tool = None /\ todo = <<>> /\ filed = <<>> /\ scanned = FALSE /\ pending = {} /\ asked = <<>>
  BY DEF BenchInit
<1>3. PICK h, n : h = Unknown /\ n = Now
  OBVIOUS
<1>4. ~n.held /\ Good(n)
  BY <1>2, <1>3 DEF Now, Good
<1>5. IsAt(h, n) /\ h.state # "ScanHold"
  BY <1>3, <1>4, PosesAre DEF IsAt
<1>6. Leaving(n)
  BY <1>2, <1>4 DEF Leaving, Ends
<1>7. Plan(h, n)
  BY <1>5, <1>6 DEF Plan
<1>8. Ahead = <<>> /\ Heading = h /\ Leads(n, <<>>, n)
  BY <1>2, <1>3, <1>4, LeadsNowhere DEF Ahead, Heading
<1>9. OnCourse(n)
  BY <1>3, <1>5, <1>7, <1>8 DEF OnCourse
<1>10. IsState(commanded) /\ IsState(goal)
  BY <1>2 DEF IsState, Unknown, InState
<1>11. HandsInv
  BY <1>2, <1>9, <1>10 DEF HandsInv
<1>12. FacesTrulyNamed
  BY <1>2 DEF FacesTrulyNamed
<1>13. <<>> \in Seq(FaceTurns) /\ None # Shell
  BY DEF None, Shell
<1> QED
  BY <1>1, <1>2, <1>11, <1>12, <1>13 DEF CubeInv, RecordsInv

\* Nothing happens to the runtime or the tools.
LEMMA QuietKeepsHands == ASSUME CubeInv, UNCHANGED benchVars PROVE HandsInv' /\ RecordsInv'
<1>1. /\ HandsInv /\ RecordsInv
      /\ UNCHANGED << commanded, phase, script, goal, physics, rails, grippers, held, cube >>
      /\ UNCHANGED << tool, todo, asked, pending, scanned, filed >>
  BY DEF CubeInv, benchVars, runtimeVars, toolVars, call, physics
<1>2. RecordsInv'
  <2>1. FacesTrulyNamed'
    BY <1>1 DEF RecordsInv, FacesTrulyNamed
  <2> QED
    BY <1>1, <2>1 DEF RecordsInv
<1>3. IsState(commanded)' /\ IsState(goal)'
  BY <1>1 DEF HandsInv, IsState
<1>4. CASE Steady
  <2>1. Ahead' = Ahead /\ Heading' = Heading /\ phase' \in {"idle", "setting", "releasing"}
    BY <1>1, <1>4 DEF Ahead, Heading, Steady
  <2> QED
    BY <1>1, <1>2, <1>3, <1>4, <2>1, CourseStays
<1>5. CASE ~Steady
  <2>1. phase = "resetting" => Plan(OutputsOff, Empty)'
    <3>1. ASSUME Plan(OutputsOff, Empty) PROVE Plan(OutputsOff, Empty)'
      BY <1>1, <3>1, PlanStays
    <3> QED
      BY <1>1, <3>1 DEF HandsInv
  <2>2. ~Steady' /\ (Good(Now) => Good(Now)')
    BY <1>1, <1>5 DEF Steady, Now
  <2> QED
    BY <1>1, <1>2, <1>3, <2>1, <2>2 DEF HandsInv
<1> QED
  BY <1>4, <1>5

\* The steps of the tools and of the runtime keep the invariant.
LEMMA CubeStepsKeep == CubeInv /\ [BenchNext]_benchVars => CubeInv'
<1> SUFFICES ASSUME CubeInv, [BenchNext]_benchVars PROVE CubeInv'
  OBVIOUS
<1>1. BenchInv'
  BY BenchStepsKeep DEF CubeInv
<1>2. CASE UNCHANGED benchVars
  BY <1>1, <1>2, QuietKeepsHands DEF CubeInv
<1>3. CASE Start \/ ShellCommand \/ SolveCommand \/ ExecuteCommand \/ Cancel \/ Off \/ QuitCommand
  BY <1>1, <1>3, StartKeepsHands, PromptKeeps, ExecuteKeeps DEF CubeInv
<1>4. CASE ScanCommand(TRUE) \/ ScanCommand(FALSE)
  <2>1. PICK auto \in BOOLEAN : ScanCommand(auto)
    BY <1>4
  <2>2. HandsInv' /\ RecordsInv'
    BY <2>1, ScanKeeps
  <2> QED
    BY <1>1, <2>2 DEF CubeInv
<1>5. CASE StartCall \/ RefuseCall \/ RecordFace \/ AcceptScan \/ CallFails
  BY <1>1, <1>5, StartCallKeepsHands, RefuseKeeps, RecordKeeps, AcceptKeeps, CallFailsKeeps DEF CubeInv
<1>6. CASE Exit \/ InitializeFails \/ ProbeEnds \/ Killed
  <2>1. Gone /\ goal' = goal
    BY <1>6 DEF Exit, InitializeFails, ProbeEnds, Killed
  <2> QED
    BY <1>1, <2>1, GoneKeepsHands DEF CubeInv
<1>7. CASE RuntimeStep /\ UNCHANGED toolVars
  <2>1. HandsInv'
    BY <1>7, RuntimeKeepsHands DEF CubeInv
  <2>2. RecordsInv'
    BY <1>7, RuntimeKeepsRecords
  <2> QED
    BY <1>1, <2>1, <2>2 DEF CubeInv
<1> QED
  BY <1>2, <1>3, <1>4, <1>5, <1>6, <1>7 DEF BenchNext

LEMMA CubeInvAlways == BenchSpec => []CubeInv
<1>1. BenchInit => CubeInv
  BY CubeInvHolds
<1>2. CubeInv /\ [BenchNext]_benchVars => CubeInv'
  BY CubeStepsKeep
<1> QED
  BY <1>1, <1>2, PTL DEF BenchSpec

\* From the moment the rails close on a cube until the runtime lets go of it
\* on purpose, no step of the tools twists it, tears it or leaves it to
\* nobody: whatever is asked, whichever write fails, and whenever a tool is
\* killed and another finds the stand.
THEOREM CubeStaysInGoodHands == BenchSpec => []CubeInGoodHands
<1>1. CubeInv => CubeInGoodHands
  <2> SUFFICES ASSUME CubeInv PROVE CubeInGoodHands
    OBVIOUS
  <2>1. HandsInv
    BY DEF CubeInv
  <2>2. CASE Steady
    <3>1. PICK v : OnCourse(v)
      BY <2>1, <2>2 DEF HandsInv
    <3> QED
      BY <3>1 DEF OnCourse, Leads, Good, Now, CubeInGoodHands
  <2>3. CASE phase = "resetting"
    BY <2>1, <2>3 DEF HandsInv, Good, Now, CubeInGoodHands
  <2>4. CASE phase \in {"stopping", "failed"}
    BY <2>1, <2>4 DEF HandsInv, CubeInGoodHands
  <2> QED
    BY <2>1, <2>2, <2>3, <2>4 DEF HandsInv, Steady
<1> QED
  BY <1>1, CubeInvAlways, PTL

\* A scan files every face under the name the cube has for it, however the
\* cube was turned and passed between the grippers to show it, and a scan
\* that is kept has all six.
THEOREM ScansAreTrue == BenchSpec => []FacesTrulyNamed
<1>1. CubeInv => FacesTrulyNamed
  BY DEF CubeInv, RecordsInv
<1> QED
  BY <1>1, CubeInvAlways, PTL

\* The first moves of a sequence.
LEMMA FirstMoves ==
  ASSUME NEW a \in Seq(FaceTurns), NEW k \in 0 .. Len(a)
  PROVE  IsPrefix(SubSeq(a, 1, k), a)
<1>1. PICK n \in Nat : n = Len(a) /\ k \in 0 .. n
  BY LenProperties
<1>2. PICK p : p = SubSeq(a, 1, k)
  OBVIOUS
<1>3. Len(p) = k /\ p = SubSeq(a, 1, Len(p))
  BY <1>1, <1>2
<1>4. SubSeq(p, 1, Len(p)) = SubSeq(a, 1, Len(p))
  <2>1. p \in Seq(FaceTurns)
    BY <1>1, <1>2
  <2> QED
    BY <1>3, <2>1, WholeIsPrefix
<1> QED
  BY <1>1, <1>2, <1>3, <1>4 DEF IsPrefix

\* The tools turn the faces they were asked to turn, one by one and in order,
\* and a command that ends with the cube still gripped has turned them all.
THEOREM MovesAreAsAsked == BenchSpec => []MovesAsAsked
<1>1. CubeInv => MovesAsAsked
  <2> SUFFICES ASSUME CubeInv, held, asked # <<>>, phase = "idle", script = <<>>
               PROVE  IsPrefix(cube.turns, asked) /\ (todo = <<>> => cube.turns = asked)
    BY DEF MovesAsAsked
  <2>1. PICK h, w : h = commanded /\ w = Now
    OBVIOUS
  <2>2. Plan(h, w) /\ w.held /\ w.cube = cube /\ asked \in Seq(FaceTurns)
    BY <2>1, AtRest DEF CubeInv, RecordsInv, Now
  <2>3. todo = <<>> => cube.turns = asked
    BY <2>2, NothingPlanned
  <2>4. Doing(h, w)
    BY <2>2 DEF Plan, Scanning, Starting, Plain, Leaving
  <2>5. PICK k \in 0 .. Len(asked) : w.cube.turns = SubSeq(asked, 1, k)
    BY <2>4 DEF Doing
  <2>6. IsPrefix(cube.turns, asked)
    BY <2>2, <2>5, FirstMoves
  <2> QED
    BY <2>3, <2>6
<1> QED
  BY <1>1, CubeInvAlways, PTL

-----------------------------------------------------------------------------
(* The outputs when the writes of the call under way are done.             *)

OffAtEnd(ch, ws, c) == OffBy(ch, ws, c, Len(ws) + 1)
OnAtEnd(ch, ws, c) ==
  \/ ~ch.fullOff[c] /\ \A k \in 1 .. Len(ws) : ws[k] # Disable(c)
  \/ \E j \in 1 .. Len(ws) : /\ ws[j].reg = "high" /\ ws[j].channel = c
                             /\ \A k \in (j + 1) .. Len(ws) : ws[k] # Disable(c)

LEMMA NothingToWrite ==
  ASSUME NEW ch, NEW c
  PROVE  /\ OffAtEnd(ch, <<>>, c) <=> ch.fullOff[c]
         /\ OnAtEnd(ch, <<>>, c) <=> ~ch.fullOff[c]
  BY DEF OffAtEnd, OnAtEnd, OffBy

LEMMA OffAtEndLater ==
  ASSUME NEW ch \in Chip, NEW later \in Chip, NEW ws \in Seq(Write), ws # <<>>,
         NEW c \in Channel, OffAtEnd(ch, ws, c),
         ch.fullOff[c] /\ ~Clears(ws[1], c) => later.fullOff[c],
         ws[1] = Disable(c) => later.fullOff[c]
  PROVE  OffAtEnd(later, Tail(ws), c)
<1>1. PICK n \in Nat : n = Len(ws) /\ n > 0 /\ Len(Tail(ws)) + 1 = n
  BY HeadTailProperties, LenProperties, EmptySeq
<1>2. PICK i \in 1 .. Len(ws) : i = n
  BY <1>1
<1>3. OffBy(ch, ws, c, i + 1)
  BY <1>1, <1>2 DEF OffAtEnd
<1>4. OffBy(later, Tail(ws), c, i)
  BY <1>3, OffByLater
<1> QED
  BY <1>1, <1>2, <1>4 DEF OffAtEnd

LEMMA OnAtEndLater ==
  ASSUME NEW ch \in Chip, NEW later \in Chip, NEW ws \in Seq(Write), ws # <<>>,
         NEW c \in Channel, OnAtEnd(ch, ws, c),
         ~ch.fullOff[c] /\ ws[1] # Disable(c) => ~later.fullOff[c],
         ws[1].reg = "high" /\ ws[1].channel = c => ~later.fullOff[c]
  PROVE  OnAtEnd(later, Tail(ws), c)
<1>1. PICK n \in Nat : n = Len(ws) /\ n > 0 /\ Len(Tail(ws)) = n - 1
                      /\ \A k \in 1 .. n - 1 : Tail(ws)[k] = ws[k + 1]
  <2>1. Len(ws) \in Nat /\ Len(Tail(ws)) = Len(ws) - 1 /\ Len(ws) > 0
        /\ \A k \in 1 .. Len(ws) - 1 : Tail(ws)[k] = ws[k + 1]
    BY HeadTailProperties, LenProperties, EmptySeq
  <2> QED
    BY <2>1
<1>0. PICK t : t = Tail(ws) /\ Len(t) = n - 1 /\ \A k \in 1 .. n - 1 : t[k] = ws[k + 1]
  BY <1>1
<1>2. CASE ~ch.fullOff[c] /\ \A k \in 1 .. n : ws[k] # Disable(c)
  <2>1. ~later.fullOff[c]
    BY <1>0, <1>1, <1>2
  <2>2. \A k \in 1 .. n - 1 : t[k] # Disable(c)
    BY <1>0, <1>1, <1>2
  <2> QED
    BY <1>0, <1>1, <2>1, <2>2 DEF OnAtEnd
<1>3. ASSUME NEW j \in 1 .. n, ws[j].reg = "high", ws[j].channel = c,
             \A k \in (j + 1) .. n : ws[k] # Disable(c)
      PROVE  OnAtEnd(later, t, c)
  <2>1. CASE j = 1
    <3>1. ~later.fullOff[c]
      BY <1>3, <2>1
    <3>2. \A k \in 1 .. n - 1 : t[k] # Disable(c)
      BY <1>0, <1>1, <1>3, <2>1
    <3> QED
      BY <1>0, <1>1, <3>1, <3>2 DEF OnAtEnd
  <2>2. CASE j > 1
    <3>1. j - 1 \in 1 .. n - 1 /\ t[j - 1].reg = "high" /\ t[j - 1].channel = c
      BY <1>0, <1>1, <1>3, <2>2
    <3>2. \A k \in (j - 1) + 1 .. n - 1 : t[k] # Disable(c)
      BY <1>0, <1>1, <1>3, <2>2
    <3> QED
      BY <1>0, <1>1, <3>1, <3>2 DEF OnAtEnd
  <2> QED
    BY <2>1, <2>2
<1> QED
  BY <1>0, <1>1, <1>2, <1>3 DEF OnAtEnd

\* What one write switches on, and what leaves the oscillator as it is.
LEMMA SwitchedOn ==
  ASSUME chip \in Chip, NEW w \in Write, NEW later, later = Written(w)
  PROVE  /\ w.reg # "mode" => later.mode = chip.mode
         /\ \A c \in Channel : /\ ~chip.fullOff[c] /\ w # Disable(c) => ~later.fullOff[c]
                               /\ w.reg = "high" /\ w.channel = c => ~later.fullOff[c]
<1>1. CASE w.reg = "mode"
  <2>1. PICK m \in {"asleep", "awake"} : m = w.to
    BY <1>1, WriteKinds DEF Sleep, Wake
  <2>2. later = [chip EXCEPT !.mode = m]
    BY <1>1, <2>1, WrittenIs
  <2>3. later.fullOff = chip.fullOff
    BY <2>2 DEF Chip
  <2> QED
    BY <1>1, <2>3
<1>2. CASE w.reg = "rate"
  <2>1. later = [chip EXCEPT !.rate = w.to]
    BY <1>2, WrittenIs
  <2>2. later.fullOff = chip.fullOff /\ later.mode = chip.mode
    BY <2>1 DEF Chip
  <2> QED
    BY <1>2, <2>2
<1>3. CASE w.reg = "global"
  <2>1. PICK off \in [Channel -> BOOLEAN], none \in [Channel -> Pulse] :
          off = [c \in Channel |-> FALSE] /\ none = [c \in Channel |-> NoPulse]
    BY DEF Pulse
  <2>2. later = [chip EXCEPT !.fullOff = off, !.low = none, !.high = none]
    BY <1>3, <2>1, WrittenIs
  <2>3. later.fullOff = off /\ later.mode = chip.mode
    BY <2>2 DEF Chip
  <2> QED
    BY <1>3, <2>1, <2>3
<1>4. CASE w.reg = "fullOff"
  <2>1. PICK d \in Channel : d = w.channel /\ w = Disable(d)
    BY <1>4, WriteKinds
  <2>2. later = [chip EXCEPT !.fullOff[d] = TRUE]
    BY <1>4, <2>1, WrittenIs
  <2>3. PICK off \in [Channel -> BOOLEAN] : off = [chip.fullOff EXCEPT ![d] = TRUE]
    BY DEF Chip
  <2>4. later.fullOff = off /\ later.mode = chip.mode
    BY <2>2, <2>3 DEF Chip
  <2>5. \A c \in Channel : c # d => off[c] = chip.fullOff[c]
    BY <2>3 DEF Chip
  <2> QED
    BY <1>4, <2>1, <2>4, <2>5
<1>5. CASE w.reg = "low"
  <2>1. later = [chip EXCEPT !.low[w.channel] = w.to]
    BY <1>5, WrittenIs
  <2>2. later.fullOff = chip.fullOff /\ later.mode = chip.mode
    BY <2>1 DEF Chip
  <2> QED
    BY <1>5, <2>2
<1>6. CASE w.reg = "high"
  <2>1. PICK d \in Channel, q \in Pulse : d = w.channel /\ q = w.to
    BY <1>6, WriteKinds
  <2>2. later = [chip EXCEPT !.high[d] = q, !.fullOff[d] = FALSE]
    <3>1. later = [chip EXCEPT !.high[w.channel] = w.to, !.fullOff[w.channel] = FALSE]
      BY <1>6, WrittenIs
    <3> QED
      BY <2>1, <3>1, Zenon
  <2>3. PICK high \in [Channel -> Pulse], off \in [Channel -> BOOLEAN] :
          high = [chip.high EXCEPT ![d] = q] /\ off = [chip.fullOff EXCEPT ![d] = FALSE]
    BY DEF Chip
  <2>4. later.fullOff = off /\ later.mode = chip.mode
    BY <2>2, <2>3 DEF Chip
  <2>5. ~off[d] /\ \A c \in Channel : c # d => off[c] = chip.fullOff[c]
    BY <2>3 DEF Chip
  <2> QED
    BY <1>6, <2>1, <2>4, <2>5
<1> QED
  BY <1>1, <1>2, <1>3, <1>4, <1>5, <1>6, WriteKinds

-----------------------------------------------------------------------------
(* What the calls of the controller leave.                                 *)

\* Nothing but disables, of the channels of the list.
LEMMA DisablesEnd ==
  ASSUME NEW ch, NEW cs \in Seq(Channel), NEW ws, ws = [i \in DOMAIN cs |-> Disable(cs[i])],
         NEW c \in Channel
  PROVE  /\ \A i \in 1 .. Len(ws) : ws[i].reg # "mode"
         /\ ch.fullOff[c] \/ (\E i \in 1 .. Len(cs) : cs[i] = c) => OffAtEnd(ch, ws, c)
         /\ ~ch.fullOff[c] /\ ~(\E i \in 1 .. Len(cs) : cs[i] = c) => OnAtEnd(ch, ws, c)
<1>1. PICK n \in Nat : n = Len(cs) /\ DOMAIN cs = 1 .. n
  BY LenProperties
<1>2. ws = [i \in 1 .. n |-> Disable(cs[i])]
  BY <1>1
<1>3. \A i \in 1 .. n : /\ ws[i] = Disable(cs[i]) /\ ws[i].reg = "fullOff" /\ ws[i].channel = cs[i]
  BY <1>1, <1>2, Registers
<1>4. Len(ws) = n
  BY <1>2
<1>5. \A i \in 1 .. n : ~Clears(ws[i], c) /\ ws[i].reg # "mode"
  BY <1>3 DEF Clears
<1>6. ch.fullOff[c] => OffAtEnd(ch, ws, c)
  BY <1>4, <1>5 DEF OffAtEnd, OffBy
<1>7. ASSUME NEW i \in 1 .. n, cs[i] = c PROVE OffAtEnd(ch, ws, c)
  <2>1. ws[i] = Disable(c)
    BY <1>3, <1>7
  <2> QED
    BY <1>4, <1>5, <2>1 DEF OffAtEnd, OffBy
<1>8. ASSUME ~ch.fullOff[c], ~(\E i \in 1 .. n : cs[i] = c) PROVE OnAtEnd(ch, ws, c)
  <2>1. \A i \in 1 .. n : ws[i] # Disable(c)
    BY <1>3, <1>8, Registers
  <2> QED
    BY <1>4, <1>8, <2>1 DEF OnAtEnd
<1> QED
  BY <1>1, <1>4, <1>5, <1>6, <1>7, <1>8

LEMMA AllOffAtEnd ==
  ASSUME NEW ch, NEW c \in Channel
  PROVE  OffAtEnd(ch, ForceAllChannelsOff, c)
<1>0. ChannelOrder \in Seq(Channel)
  BY DEF ChannelOrder, Channel, Axis
<1>1. PICK cs \in Seq(Channel) : cs = ChannelOrder /\ Len(cs) = 8
  BY <1>0, EightChannels
<1>2. \E i \in 1 .. Len(cs) : cs[i] = c
  BY <1>1, ChannelsInOrder
<1>3. PICK ws : ws = [i \in DOMAIN cs |-> Disable(cs[i])] /\ ws = ForceAllChannelsOff
  BY <1>1 DEF ForceAllChannelsOff
<1> QED
  BY <1>2, <1>3, DisablesEnd

LEMMA DisablingEnds ==
  ASSUME NEW ch, NEW C \in SUBSET Channel, NEW ws, ws = DisableChannels(C), NEW c \in Channel
  PROVE  /\ \A i \in 1 .. Len(ws) : ws[i].reg # "mode"
         /\ ch.fullOff[c] \/ c \in C => OffAtEnd(ch, ws, c)
         /\ ~ch.fullOff[c] /\ c \notin C => OnAtEnd(ch, ws, c)
<1>1. PICK cs : cs = InOrder(C) /\ cs \in Seq(C)
  BY InOrderHas
<1>2. cs \in Seq(Channel)
  BY <1>1
<1>3. ws = [i \in DOMAIN cs |-> Disable(cs[i])]
  BY <1>1 DEF DisableChannels
<1>4. c \in C => \E i \in 1 .. Len(cs) : cs[i] = c
  BY <1>1, InOrderHas
<1>5. \A i \in 1 .. Len(cs) : cs[i] \in C
  BY <1>1, ElementOfSeq
<1> QED
  BY <1>2, <1>3, <1>4, <1>5, DisablesEnd

LEMMA SettingEnds ==
  ASSUME NEW ch, NEW to, DOMAIN to \in SUBSET Channel, \A d \in DOMAIN to : Fits(d, to[d]),
         NEW ws, ws = WriteChannels(to), NEW c \in Channel
  PROVE  /\ \A i \in 1 .. Len(ws) : ws[i].reg # "mode"
         /\ ch.fullOff[c] /\ c \notin DOMAIN to => OffAtEnd(ch, ws, c)
         /\ ~ch.fullOff[c] \/ c \in DOMAIN to => OnAtEnd(ch, ws, c)
<1>1. \A d \in DOMAIN to : to[d] \in Pulse
  BY DEF Fits, Pulse
<1>2. PICK cs \in Seq(DOMAIN to), n \in Nat : SetsChannels(ws, to, cs, n)
  BY <1>1, WriteChannelsIs
<1>3. PICK m \in Nat, l \in Nat : m = n + n /\ l = n + n + n
  OBVIOUS
<1>4. /\ Len(ws) = l /\ \A d \in DOMAIN to : \E i \in 1 .. n : cs[i] = d
      /\ \A i \in 1 .. n : /\ cs[i] \in DOMAIN to
                           /\ ws[i] = Disable(cs[i])
                           /\ ws[n + i] = PulseLow(cs[i], to[cs[i]])
                           /\ ws[m + i] = Enable(cs[i], to[cs[i]])
  BY <1>2, <1>3, Zenon DEF SetsChannels
<1>5. \A i \in 1 .. l : \/ i \in 1 .. n \/ (\E k \in 1 .. n : i = n + k)
                        \/ (\E k \in 1 .. n : i = m + k)
  <2>1. ASSUME NEW i \in 1 .. l, ~(i \in 1 .. n), i <= m PROVE \E k \in 1 .. n : i = n + k
    <3>1. i - n \in 1 .. n /\ i = n + (i - n)
      BY <1>3, <2>1
    <3> QED
      BY <3>1
  <2>2. ASSUME NEW i \in 1 .. l, i > m PROVE \E k \in 1 .. n : i = m + k
    <3>1. i - m \in 1 .. n /\ i = m + (i - m)
      BY <1>3, <2>2
    <3> QED
      BY <3>1
  <2> QED
    BY <1>3, <2>1, <2>2
<1>6. ASSUME NEW i \in 1 .. n
      PROVE  /\ ws[i].reg = "fullOff" /\ ws[i].channel = cs[i]
             /\ ws[n + i].reg = "low"
             /\ ws[m + i].reg = "high" /\ ws[m + i].channel = cs[i]
  <2>1. PICK d, p : d = cs[i] /\ p = to[d]
    OBVIOUS
  <2>2. ws[i] = Disable(d) /\ ws[n + i] = PulseLow(d, p) /\ ws[m + i] = Enable(d, p)
    BY <1>4, <2>1
  <2> QED
    BY <2>1, <2>2, Registers
<1>7. ASSUME NEW i \in 1 .. l
      PROVE  /\ ws[i].reg \in {"fullOff", "low", "high"}
             /\ ws[i].reg = "fullOff" => i \in 1 .. n
             /\ ws[i].reg = "high" => ws[i].channel \in DOMAIN to
  <2>1. CASE i \in 1 .. n
    BY <1>6, <2>1
  <2>2. ASSUME NEW k \in 1 .. n, i = n + k PROVE ws[i].reg = "low"
    BY <1>6, <2>2
  <2>3. ASSUME NEW k \in 1 .. n, i = m + k
        PROVE  ws[i].reg = "high" /\ ws[i].channel \in DOMAIN to
    <3>1. ws[i].channel = cs[k] /\ cs[k] \in DOMAIN to
      BY <1>4, <1>6, <2>3
    <3> QED
      BY <1>6, <2>3, <3>1
  <2> QED
    BY <1>5, <2>1, <2>2, <2>3
<1>8. Disable(c).reg = "fullOff" /\ Disable(c).channel = c
  BY Registers
<1>9. ASSUME ch.fullOff[c], c \notin DOMAIN to PROVE OffAtEnd(ch, ws, c)
  <2>1. \A i \in 1 .. l : ~Clears(ws[i], c)
    BY <1>7, <1>9 DEF Clears
  <2> QED
    BY <1>4, <1>9, <2>1 DEF OffAtEnd, OffBy
<1>10. ASSUME c \in DOMAIN to PROVE OnAtEnd(ch, ws, c)
  <2>1. PICK i \in 1 .. n : cs[i] = c
    BY <1>4, <1>10
  <2>2. m + i \in 1 .. l /\ ws[m + i].reg = "high" /\ ws[m + i].channel = c
    BY <1>3, <1>6, <2>1
  <2>3. \A k \in (m + i) + 1 .. l : ws[k] # Disable(c)
    <3>1. ASSUME NEW k \in (m + i) + 1 .. l PROVE ws[k] # Disable(c)
      <4>1. k \in 1 .. l /\ k \notin 1 .. n
        BY <1>3
      <4> QED
        BY <1>7, <1>8, <4>1
    <3> QED
      BY <3>1
  <2> QED
    BY <1>4, <2>2, <2>3 DEF OnAtEnd
<1>11. ASSUME ~ch.fullOff[c], c \notin DOMAIN to PROVE OnAtEnd(ch, ws, c)
  <2>1. ASSUME NEW k \in 1 .. l PROVE ws[k] # Disable(c)
    <3>1. ASSUME ws[k] = Disable(c) PROVE FALSE
      <4>1. k \in 1 .. n
        BY <1>7, <1>8, <3>1
      <4>2. cs[k] = c
        BY <1>6, <1>8, <3>1, <4>1
      <4> QED
        BY <1>4, <1>11, <4>1, <4>2
    <3> QED
      BY <3>1
  <2> QED
    BY <1>4, <1>11, <2>1 DEF OnAtEnd
<1> QED
  BY <1>4, <1>7, <1>9, <1>10, <1>11

-----------------------------------------------------------------------------
(* The outputs the runtime counts on.                                      *)

AwakeAtEnd(ch, ws) == ch.mode = "awake" /\ \A i \in 1 .. Len(ws) : ws[i].reg # "mode"
GripsOn(ch, ws)    == AwakeAtEnd(ch, ws) /\ \A a \in Axis : OnAtEnd(ch, ws, <<"gripper", a>>)
RailsOff(ch, ws, A) == \A a \in Axis \ A : OffAtEnd(ch, ws, <<"rail", a>>)
AllAreOff(ch, ws)  == \A c \in Channel : OffAtEnd(ch, ws, c)

\* The script ends with every gripper driven, whatever is driven before.
Opens(s) == \E i \in 1 .. Len(s) : s[i] = TurnAll(Axis, "Perpendicular")

\* The states the grippers keep their pulse in.
Drives(c) == c.state \in {"SafeOpen", "Gripped", "ScanHold"}

\* The steps whose channels are still to be set, the rails being set, and
\* the state the call ends in.
LeftIn(ph, s)       == IF ph = "idle" THEN s ELSE Tail(s)
SetIn(ph, s)        == IF ph = "setting" /\ Head(s).op # "grippers" THEN DOMAIN Head(s).to ELSE {}
HeadingOf(s, c, g)  == IF s = <<>> THEN c ELSE g

Driving(ch, ws, s, A) == (Opens(s) \/ GripsOn(ch, ws)) /\ RailsOff(ch, ws, A)

\* In the phase ph of the script s, with the state c and the goal g, the
\* outputs are what the runtime takes them for, or will be.
Counts(ph, s, ch, ws, c, g) ==
  /\ ph \in {"idle", "setting", "releasing"} =>
       /\ Drives(HeadingOf(s, c, g)) => Driving(ch, ws, LeftIn(ph, s), SetIn(ph, s))
       /\ s # <<>> => Drives(g)
  /\ ph = "idle" /\ s = <<>> /\ c.state = "OutputsOff" => AllAreOff(ch, ws)
  /\ ph = "resetting" => AllAreOff(ch, ws)
  /\ ph = "failed" => ws = <<>>
  /\ ph = "idle" /\ ws # <<>> => c.state = "Unknown" /\ s = <<>>

OutInv == Counts(phase, script, chip, writes, commanded, goal)

\* Only a tool that has just started resets the controller's registers.
NoInit(l)  == \A i \in 1 .. Len(l) : l[i].name # "initialize_safe_pwm"
OneInit(l) == \A i \in 1 .. Len(l) : l[i].name = "initialize_safe_pwm" => i = 1
StartInv ==
  \/ NoInit(todo)
  \/ OneInit(todo) /\ phase = "idle" /\ script = <<>> /\ commanded.state = "Unknown"

\* One write more of a call does not change what it leaves.
LEMMA WriteGoes ==
  ASSUME PwmInv, WriteByte
  PROVE  /\ AwakeAtEnd(chip, writes) => AwakeAtEnd(chip', writes')
         /\ \A c \in Channel : /\ OffAtEnd(chip, writes, c) => OffAtEnd(chip', writes', c)
                               /\ OnAtEnd(chip, writes, c) => OnAtEnd(chip', writes', c)
<1>1. /\ chip \in Chip /\ writes \in Seq(Write) /\ writes # <<>>
      /\ chip' = Written(Head(writes)) /\ writes' = Tail(writes)
  BY DEF PwmInv, WriteByte
<1>2. Head(writes) \in Write /\ Head(writes) = writes[1]
  BY <1>1, HeadTailProperties
<1>3. PICK w \in Write : w = Head(writes) /\ w = writes[1]
  BY <1>2
<1>4. PICK later : later = Written(w)
  OBVIOUS
<1>5. PICK ch \in Chip, ws \in Seq(Write) : ch = chip /\ ws = writes
  BY <1>1
<1>6. /\ later \in Chip
      /\ w.reg # "mode" => later.mode = ch.mode
      /\ \A c \in Channel : /\ ch.fullOff[c] /\ ~Clears(w, c) => later.fullOff[c]
                            /\ w = Disable(c) => later.fullOff[c]
                            /\ ~ch.fullOff[c] /\ w # Disable(c) => ~later.fullOff[c]
                            /\ w.reg = "high" /\ w.channel = c => ~later.fullOff[c]
  <2>1. /\ later \in Chip
        /\ \A c \in Channel : /\ ch.fullOff[c] /\ ~Clears(w, c) => later.fullOff[c]
                              /\ w = Disable(c) => later.fullOff[c]
    BY <1>1, <1>4, <1>5, WrittenEffects
  <2>2. /\ w.reg # "mode" => later.mode = ch.mode
        /\ \A c \in Channel : /\ ~ch.fullOff[c] /\ w # Disable(c) => ~later.fullOff[c]
                              /\ w.reg = "high" /\ w.channel = c => ~later.fullOff[c]
    BY <1>1, <1>4, <1>5, SwitchedOn
  <2> QED
    BY <2>1, <2>2
<1>7. ws # <<>> /\ ws[1] = w
  BY <1>1, <1>3, <1>5
<1>8. PICK t : t = Tail(ws)
  OBVIOUS
<1>9. AwakeAtEnd(ch, ws) => AwakeAtEnd(later, t)
  <2>1. PICK n \in Nat : n = Len(ws) /\ n > 0 /\ Len(t) = n - 1
                         /\ \A k \in 1 .. n - 1 : t[k] = ws[k + 1]
    <3>1. Len(ws) \in Nat /\ Len(Tail(ws)) = Len(ws) - 1 /\ Len(ws) > 0
          /\ \A k \in 1 .. Len(ws) - 1 : Tail(ws)[k] = ws[k + 1]
      BY <1>7, HeadTailProperties, LenProperties, EmptySeq
    <3> QED
      BY <1>8, <3>1
  <2> SUFFICES ASSUME ch.mode = "awake", \A i \in 1 .. n : ws[i].reg # "mode"
               PROVE  later.mode = "awake" /\ \A i \in 1 .. n - 1 : t[i].reg # "mode"
    BY <2>1 DEF AwakeAtEnd
  <2>2. w.reg # "mode"
    BY <1>7, <2>1
  <2>3. ASSUME NEW i \in 1 .. n - 1 PROVE t[i].reg # "mode"
    BY <2>1
  <2> QED
    BY <1>6, <2>2, <2>3
<1>10. ASSUME NEW c \in Channel
       PROVE  /\ OffAtEnd(ch, ws, c) => OffAtEnd(later, t, c)
              /\ OnAtEnd(ch, ws, c) => OnAtEnd(later, t, c)
  <2>1. /\ ch.fullOff[c] /\ ~Clears(ws[1], c) => later.fullOff[c]
        /\ ws[1] = Disable(c) => later.fullOff[c]
        /\ ~ch.fullOff[c] /\ ws[1] # Disable(c) => ~later.fullOff[c]
        /\ ws[1].reg = "high" /\ ws[1].channel = c => ~later.fullOff[c]
    BY <1>6, <1>7
  <2> QED
    BY <1>6, <1>7, <1>8, <2>1, OffAtEndLater, OnAtEndLater
<1>11. chip' = later /\ writes' = t
  BY <1>1, <1>3, <1>4, <1>5, <1>8
<1> QED
  BY <1>5, <1>9, <1>10, <1>11

\* Steps that turn every gripper or none leave a gripper as driven as it was.
LEMMA StepChannels ==
  ASSUME NEW step \in RunStep
  PROVE  /\ step.op = "grippers" => \A a \in Axis : <<"rail", a>> \notin Channels(step)
         /\ step.op # "grippers" =>
              /\ \A a \in Axis : <<"gripper", a>> \notin Channels(step)
              /\ \A a \in Axis : <<"rail", a>> \in Channels(step) <=> a \in DOMAIN step.to
         /\ step = TurnAll(Axis, "Perpendicular") =>
              step.op = "grippers" /\ \A a \in Axis : <<"gripper", a>> \in Channels(step)
<1>1. step = TurnAll(Axis, "Perpendicular") => step.op = "grippers" /\ DOMAIN step.to = Axis
  BY DEF TurnAll, Turn
<1>2. step.op = "grippers" => Channels(step) = {"gripper"} \X DOMAIN step.to
  BY DEF Channels, Grippers
<1>3. step.op # "grippers" => Channels(step) = {"rail"} \X DOMAIN step.to
  BY DEF Channels, Rails
<1> QED
  BY <1>1, <1>2, <1>3

\* A step that starts on a controller that runs.
LEMMA SetGoes ==
  ASSUME NEW ch, NEW step \in RunStep, NEW s \in Seq(RunStep), s # <<>>, step = Head(s),
         NEW ws, ws = WriteChannels([c \in Channels(step) |-> step.to[c[2]]]),
         ch.mode = "awake", Opens(s) \/ GripsOn(ch, <<>>), RailsOff(ch, <<>>, {})
  PROVE  /\ Opens(Tail(s)) \/ GripsOn(ch, ws)
         /\ RailsOff(ch, ws, IF step.op # "grippers" THEN DOMAIN step.to ELSE {})
<1>1. PICK to : to = [c \in Channels(step) |-> step.to[c[2]]]
  OBVIOUS
<1>2. /\ DOMAIN to = Channels(step) /\ DOMAIN to \in SUBSET Channel
      /\ \A d \in DOMAIN to : Fits(d, to[d])
  BY <1>1, StepsFit
<1>3. \A i \in 1 .. Len(ws) : ws[i].reg # "mode"
  <2>1. <<"rail", "Left">> \in Channel
    BY DEF Channel, Axis
  <2> QED
    BY <1>1, <1>2, <2>1, SettingEnds
<1>4. ASSUME NEW c \in Channel
      PROVE  /\ ch.fullOff[c] /\ c \notin Channels(step) => OffAtEnd(ch, ws, c)
             /\ ~ch.fullOff[c] \/ c \in Channels(step) => OnAtEnd(ch, ws, c)
  BY <1>1, <1>2, SettingEnds
<1>5. \A a \in Axis : <<"gripper", a>> \in Channel /\ <<"rail", a>> \in Channel
  BY DEF Channel
<1>6. AwakeAtEnd(ch, ws)
  BY <1>3 DEF AwakeAtEnd
<1>7. Opens(Tail(s)) \/ GripsOn(ch, ws)
  <2>1. ASSUME GripsOn(ch, <<>>) PROVE GripsOn(ch, ws)
    <3>1. ASSUME NEW a \in Axis PROVE OnAtEnd(ch, ws, <<"gripper", a>>)
      <4>1. OnAtEnd(ch, <<>>, <<"gripper", a>>)
        BY <2>1 DEF GripsOn
      <4>2. ~ch.fullOff[<<"gripper", a>>]
        BY <4>1, NothingToWrite
      <4> QED
        BY <1>4, <1>5, <4>2
    <3> QED
      BY <1>6, <3>1 DEF GripsOn
  <2>2. CASE step = TurnAll(Axis, "Perpendicular")
    <3>1. ASSUME NEW a \in Axis PROVE OnAtEnd(ch, ws, <<"gripper", a>>)
      BY <1>4, <1>5, <2>2, StepChannels
    <3> QED
      BY <1>6, <3>1 DEF GripsOn
  <2>3. ASSUME Opens(s), step # TurnAll(Axis, "Perpendicular") PROVE Opens(Tail(s))
    <3>1. PICK o : o = TurnAll(Axis, "Perpendicular")
      OBVIOUS
    <3>2. PICK i \in 1 .. Len(s) : s[i] = o
      BY <2>3, <3>1 DEF Opens
    <3>3. /\ Len(s) \in Nat /\ Head(s) = s[1] /\ Len(Tail(s)) = Len(s) - 1
          /\ \A k \in 1 .. Len(s) - 1 : Tail(s)[k] = s[k + 1]
      BY HeadTailProperties, LenProperties
    <3>4. i # 1
      BY <2>3, <3>1, <3>2, <3>3
    <3>5. i - 1 \in 1 .. Len(Tail(s)) /\ Tail(s)[i - 1] = o
      BY <3>2, <3>3, <3>4
    <3> QED
      BY <3>1, <3>5 DEF Opens
  <2> QED
    BY <2>1, <2>2, <2>3
<1>8. ASSUME NEW a \in Axis, ~(step.op # "grippers" /\ a \in DOMAIN step.to)
      PROVE  OffAtEnd(ch, ws, <<"rail", a>>)
  <2>1. <<"rail", a>> \notin Channels(step)
    BY <1>8, StepChannels
  <2>2. ch.fullOff[<<"rail", a>>]
    BY NothingToWrite DEF RailsOff
  <2> QED
    BY <1>4, <1>5, <2>1, <2>2
<1> QED
  BY <1>7, <1>8 DEF RailsOff

\* The rails of a step let go of.
LEMMA DisableGoes ==
  ASSUME NEW ch, NEW step \in RunStep, step.op # "grippers",
         NEW ws, ws = DisableChannels(Channels(step)), NEW s,
         Opens(s) \/ GripsOn(ch, <<>>), RailsOff(ch, <<>>, DOMAIN step.to)
  PROVE  (Opens(s) \/ GripsOn(ch, ws)) /\ RailsOff(ch, ws, {})
<1>1. PICK C \in SUBSET Channel : C = Channels(step)
  BY ChannelsAre
<1>2. ASSUME NEW c \in Channel
      PROVE  /\ \A i \in 1 .. Len(ws) : ws[i].reg # "mode"
             /\ ch.fullOff[c] \/ c \in C => OffAtEnd(ch, ws, c)
             /\ ~ch.fullOff[c] /\ c \notin C => OnAtEnd(ch, ws, c)
  BY <1>1, DisablingEnds
<1>3. \A a \in Axis : <<"gripper", a>> \in Channel /\ <<"rail", a>> \in Channel
  BY DEF Channel
<1>4. ASSUME GripsOn(ch, <<>>) PROVE GripsOn(ch, ws)
  <2>1. <<"rail", "Left">> \in Channel
    BY DEF Channel, Axis
  <2>2. AwakeAtEnd(ch, ws)
    BY <1>2, <1>4, <2>1 DEF GripsOn, AwakeAtEnd
  <2>3. ASSUME NEW a \in Axis PROVE OnAtEnd(ch, ws, <<"gripper", a>>)
    <3>1. OnAtEnd(ch, <<>>, <<"gripper", a>>)
      BY <1>4 DEF GripsOn
    <3>2. ~ch.fullOff[<<"gripper", a>>]
      BY <3>1, NothingToWrite
    <3>3. <<"gripper", a>> \notin C
      BY <1>1, StepChannels
    <3> QED
      BY <1>2, <1>3, <3>2, <3>3
  <2> QED
    BY <2>2, <2>3 DEF GripsOn
<1>5. ASSUME NEW a \in Axis PROVE OffAtEnd(ch, ws, <<"rail", a>>)
  <2>1. CASE a \in DOMAIN step.to
    <3>1. <<"rail", a>> \in C
      BY <1>1, <2>1, StepChannels
    <3> QED
      BY <1>2, <1>3, <3>1
  <2>2. CASE a \notin DOMAIN step.to
    <3>1. ch.fullOff[<<"rail", a>>]
      BY <2>2, NothingToWrite DEF RailsOff
    <3> QED
      BY <1>2, <1>3, <3>1
  <2> QED
    BY <2>1, <2>2
<1> QED
  BY <1>4, <1>5 DEF RailsOff

\* A call that is admitted ends in a state that drives the grippers, and
\* switches them on when they are off.
LEMMA OpensJoin ==
  ASSUME NEW s \in Seq(RunStep), NEW t \in Seq(RunStep), Opens(s) \/ Opens(t)
  PROVE  Opens(s \o t)
<1>1. PICK o : o = TurnAll(Axis, "Perpendicular")
  OBVIOUS
<1>2. PICK n \in Nat, m \in Nat : n = Len(s) /\ m = Len(t)
  BY LenProperties
<1>3. PICK j : j = s \o t
  OBVIOUS
<1>4. /\ Len(j) = n + m /\ \A i \in 1 .. n : j[i] = s[i]
      /\ \A i \in 1 .. m : j[n + i] = t[i]
  BY <1>2, <1>3, ConcatProperties
<1>5. ASSUME NEW i \in 1 .. n, s[i] = o PROVE \E k \in 1 .. n + m : j[k] = o
  <2>1. i \in 1 .. n + m /\ j[i] = o
    BY <1>4, <1>5
  <2> QED
    BY <2>1
<1>6. ASSUME NEW i \in 1 .. m, t[i] = o PROVE \E k \in 1 .. n + m : j[k] = o
  <2>1. n + i \in 1 .. n + m /\ j[n + i] = o
    BY <1>4, <1>6
  <2> QED
    BY <2>1
<1> QED
  BY <1>1, <1>2, <1>3, <1>4, <1>5, <1>6 DEF Opens

LEMMA OpeningScripts ==
  Opens(SafeOpenScript) /\ (commanded.state # "SafeOpen" => Opens(GripScript))
<1>1. PICK o : o = TurnAll(Axis, "Perpendicular")
  OBVIOUS
<1>2. << o >> \in Seq(RunStep) /\ Opens(<< o >>)
  <2>1. o \in RunStep
    BY <1>1, NamedSteps
  <2>2. Len(<< o >>) = 1 /\ << o >>[1] = o
    OBVIOUS
  <2> QED
    BY <1>1, <2>1, <2>2 DEF Opens
<1>3. OpenAllRails \in Seq(RunStep) /\ SafeOpenScript \in Seq(RunStep)
  BY OpenScripts
<1>4. Opens(SafeOpenScript)
  BY <1>1, <1>2, <1>3, OpensJoin DEF SafeOpenScript
<1>5. ASSUME commanded.state # "SafeOpen" PROVE Opens(GripScript)
  <2>1. << ClosePair(Axis) >> \in Seq(RunStep)
    BY NamedSteps
  <2>2. GripScript = SafeOpenScript \o << ClosePair(Axis) >>
    BY <1>5 DEF GripScript
  <2> QED
    BY <1>3, <1>4, <2>1, <2>2, OpensJoin
<1> QED
  BY <1>4, <1>5

LEMMA AdmittedDrives ==
  ASSUME NEW c \in Item, NEW s \in Admitted(c), c.name \notin NotCalls
  PROVE  /\ Drives(s[2])
         /\ commanded.state = "OutputsOff" \/ Drives(commanded)
         /\ commanded.state = "OutputsOff" => Opens(s[1])
<1>1. CASE c.name = "safe_open"
  <2>1. Operational /\ s = << SafeOpenScript, OpenPose >>
    BY <1>1 DEF Admitted
  <2> QED
    BY <2>1, OpeningScripts, PosesAre DEF Operational, Drives
<1>2. CASE c.name = "grip"
  <2>1. Operational /\ s = << GripScript, GripPose >>
    BY <1>2 DEF Admitted
  <2> QED
    BY <2>1, OpeningScripts, PosesAre DEF Operational, Drives
<1>3. CASE c.name = "scan_pose"
  <2>1. commanded = GripPose
        /\ s = << ScanPoseScript(c.face),
                  ScanHold(c.face, IF c.face = "Front" THEN LeftRight ELSE TopBottom) >>
    BY <1>3 DEF Admitted
  <2> QED
    BY <2>1, PosesAre DEF Drives
<1>4. CASE c.name = "scan_next"
  <2>1. PICK t \in ScanTransitions :
          /\ commanded = ScanHold(t[1], t[2])
          /\ s = << ScanNextScript(t[1], t[3]), ScanHold(t[3], t[4]) >>
    BY <1>4 DEF Admitted
  <2> QED
    BY <2>1, PosesAre DEF Drives
<1>5. CASE c.name = "finish_scan"
  <2>1. commanded = ScanHold("Back", TopBottom)
        /\ s = << ReturnFrontAfterScan \o OpenAllRails, OpenPose >>
    BY <1>5 DEF Admitted
  <2> QED
    BY <2>1, PosesAre DEF Drives
<1>6. CASE c.name = "finish_scan_for_execution"
  <2>1. commanded = ScanHold("Back", TopBottom) /\ s = << ReturnFrontAfterScan, GripPose >>
    BY <1>6 DEF Admitted
  <2> QED
    BY <2>1, PosesAre DEF Drives
<1>7. CASE c.name = "execute_probe_move"
  <2>1. commanded = GripPose /\ s = << ProbeMoveScript(c.move), GripPose >>
    BY <1>7 DEF Admitted
  <2> QED
    BY <2>1, PosesAre DEF Drives
<1> QED
  BY <1>1, <1>2, <1>3, <1>4, <1>5, <1>6, <1>7, ItemKinds DEF NotCalls

-----------------------------------------------------------------------------
(* Every step keeps the outputs what the runtime takes them for.           *)

LEMMA RuntimeKeepsOut ==
  ASSUME BenchInv, HandsInv, OutInv, RuntimeStep
  PROVE  OutInv'
<1>1. PICK ch, ws, s, c, g : ch = chip /\ ws = writes /\ s = script /\ c = commanded /\ g = goal
  OBVIOUS
<1>2. s \in Seq(RunStep) /\ (s # <<>> => Head(s) \in RunStep /\ Tail(s) \in Seq(RunStep))
  BY <1>1, HeadTailProperties DEF BenchInv
<1>3. Counts(phase, s, ch, ws, c, g)
  BY <1>1 DEF OutInv
<1>4. CASE StartStep
  <2>1. phase = "idle" /\ s # <<>> /\ ch.mode = "awake"
    BY <1>1, <1>4 DEF StartStep, ReadyStatus
  <2>2. ws = <<>> /\ Drives(g) /\ Driving(ch, <<>>, s, {})
    BY <1>3, <2>1 DEF Counts, HeadingOf, LeftIn, SetIn
  <2>3. PICK step \in RunStep : step = Head(s)
    BY <1>2, <2>1
  <2>4. PICK w : w = WriteChannels([d \in Channels(step) |-> step.to[d[2]]])
    OBVIOUS
  <2>5. PICK A : A = IF step.op # "grippers" THEN DOMAIN step.to ELSE {}
    OBVIOUS
  <2>6. Driving(ch, w, Tail(s), A)
    BY <1>2, <2>1, <2>2, <2>3, <2>4, <2>5, SetGoes DEF Driving
  <2>7. LeftIn("setting", s) = Tail(s) /\ SetIn("setting", s) = A
    BY <2>3, <2>5 DEF LeftIn, SetIn
  <2>8. Counts("setting", s, ch, w, c, g)
    BY <2>2, <2>6, <2>7 DEF Counts
  <2>9. /\ phase' = "setting" /\ script' = s /\ chip' = ch /\ commanded' = c /\ goal' = g
        /\ writes' = w
    BY <1>1, <1>4, <2>3, <2>4 DEF StartStep
  <2> QED
    BY <2>8, <2>9 DEF OutInv
<1>5. CASE DelayOver
  <2>1. phase = "setting" /\ ws = <<>> /\ s # <<>>
    BY <1>1, <1>5 DEF DelayOver, BenchInv, InStep
  <2>2. PICK step \in RunStep : step = Head(s)
    BY <1>2, <2>1
  <2>3. PICK t : t = Tail(s)
    OBVIOUS
  <2>4. Drives(g) /\ Driving(ch, <<>>, t, SetIn("setting", s))
    BY <1>3, <2>1, <2>3 DEF Counts, HeadingOf, LeftIn
  <2>5. CASE step.op = "grippers"
    <3>1. Driving(ch, <<>>, t, {})
      BY <2>2, <2>4, <2>5 DEF SetIn
    <3>2. PICK d : d = IF t = <<>> THEN g ELSE c
      OBVIOUS
    <3>3. t = <<>> => d.state # "OutputsOff"
      BY <2>4, <3>2 DEF Drives
    <3>4. LeftIn("idle", t) = t /\ SetIn("idle", t) = {}
      BY DEF LeftIn, SetIn
    <3>5. Counts("idle", t, ch, <<>>, d, g)
      BY <2>4, <3>1, <3>3, <3>4 DEF Counts
    <3>6. /\ phase' = "idle" /\ script' = t /\ chip' = ch /\ writes' = <<>> /\ commanded' = d
          /\ goal' = g
      BY <1>1, <1>5, <2>1, <2>2, <2>3, <2>5, <3>2 DEF DelayOver, EndStep
    <3> QED
      BY <3>5, <3>6 DEF OutInv
  <2>6. CASE step.op # "grippers"
    <3>1. Driving(ch, <<>>, t, DOMAIN step.to)
      BY <2>2, <2>4, <2>6 DEF SetIn
    <3>2. PICK w : w = DisableChannels(Channels(step))
      OBVIOUS
    <3>3. Driving(ch, w, t, {})
      BY <2>6, <3>1, <3>2, DisableGoes DEF Driving
    <3>4. LeftIn("releasing", s) = t /\ SetIn("releasing", s) = {}
      BY <2>3 DEF LeftIn, SetIn
    <3>5. Counts("releasing", s, ch, w, c, g)
      BY <2>4, <3>3, <3>4 DEF Counts
    <3>6. /\ phase' = "releasing" /\ script' = s /\ chip' = ch /\ writes' = w /\ commanded' = c
          /\ goal' = g
      BY <1>1, <1>5, <2>2, <2>6, <3>2 DEF DelayOver
    <3> QED
      BY <3>5, <3>6 DEF OutInv
  <2> QED
    BY <2>5, <2>6
<1>6. CASE RailsReleased
  <2>1. phase = "releasing" /\ ws = <<>> /\ s # <<>>
    BY <1>1, <1>6 DEF RailsReleased, BenchInv, InStep
  <2>2. PICK t, d : t = Tail(s) /\ d = IF t = <<>> THEN g ELSE c
    OBVIOUS
  <2>3. Drives(g) /\ Driving(ch, <<>>, t, {})
    BY <1>3, <2>1, <2>2 DEF Counts, HeadingOf, LeftIn, SetIn
  <2>4. t = <<>> => d.state # "OutputsOff"
    BY <2>2, <2>3 DEF Drives
  <2>5. LeftIn("idle", t) = t /\ SetIn("idle", t) = {}
    BY DEF LeftIn, SetIn
  <2>6. Counts("idle", t, ch, <<>>, d, g)
    BY <2>3, <2>4, <2>5 DEF Counts
  <2>7. /\ phase' = "idle" /\ script' = t /\ chip' = ch /\ writes' = <<>> /\ commanded' = d
        /\ goal' = g
    BY <1>1, <1>6, <2>1, <2>2 DEF RailsReleased, EndStep
  <2> QED
    BY <2>6, <2>7 DEF OutInv
<1>7. CASE ResetDone
  <2>1. phase = "resetting" /\ ws = <<>> /\ s = <<>>
    BY <1>1, <1>7 DEF ResetDone, HandsInv
  <2>2. AllAreOff(ch, <<>>)
    BY <1>3, <2>1 DEF Counts
  <2>3. PICK o : o = OutputsOff /\ o.state = "OutputsOff"
    BY PosesAre
  <2>4. ~Drives(HeadingOf(<<>>, o, g))
    BY <2>3 DEF Drives, HeadingOf
  <2>5. Counts("idle", <<>>, ch, <<>>, o, g)
    BY <2>2, <2>4 DEF Counts
  <2>6. /\ phase' = "idle" /\ script' = <<>> /\ chip' = ch /\ writes' = <<>> /\ commanded' = o
        /\ goal' = g
    BY <1>1, <1>7, <2>1, <2>3 DEF ResetDone
  <2> QED
    BY <2>5, <2>6 DEF OutInv
<1>8. CASE WriteSucceeds
  <2>1. /\ PwmInv /\ WriteByte /\ UNCHANGED << phase, script, commanded, goal >>
    BY <1>8 DEF WriteSucceeds, call, BenchInv
  <2>2. PICK later, w : later = chip' /\ w = writes'
    OBVIOUS
  <2>3. /\ AwakeAtEnd(ch, ws) => AwakeAtEnd(later, w)
        /\ \A d \in Channel : /\ OffAtEnd(ch, ws, d) => OffAtEnd(later, w, d)
                              /\ OnAtEnd(ch, ws, d) => OnAtEnd(later, w, d)
    BY <1>1, <2>1, <2>2, WriteGoes
  <2>4. \A a \in Axis : <<"gripper", a>> \in Channel /\ <<"rail", a>> \in Channel
    BY DEF Channel
  <2>5. \A l, A : Driving(ch, ws, l, A) => Driving(later, w, l, A)
    BY <2>3, <2>4 DEF Driving, GripsOn, RailsOff
  <2>6. AllAreOff(ch, ws) => AllAreOff(later, w)
    BY <2>3 DEF AllAreOff
  <2>7. ws # <<>>
    BY <1>1, <2>1 DEF WriteByte
  <2>8. Counts(phase, s, later, w, c, g)
    BY <1>3, <2>5, <2>6, <2>7 DEF Counts
  <2> QED
    BY <1>1, <2>1, <2>2, <2>8 DEF OutInv
<1>9. CASE Fault
  <2>1. phase' = "stopping"
    BY <1>9 DEF Fault
  <2> QED
    BY <2>1 DEF OutInv, Counts
<1>10. CASE AllOffEnds
  <2>1. phase' = "failed" /\ writes' = <<>>
    BY <1>10 DEF AllOffEnds
  <2> QED
    BY <2>1 DEF OutInv, Counts
<1> QED
  BY <1>4, <1>5, <1>6, <1>7, <1>8, <1>9, <1>10 DEF RuntimeStep

\* The lists of a command: which of them call initialize_safe_pwm.
LEMMA InitJoins ==
  ASSUME NEW l \in Seq(Item), NEW m \in Seq(Item), NoInit(m)
  PROVE  /\ NoInit(l) => NoInit(l \o m)
         /\ OneInit(l) => OneInit(l \o m)
<1>1. PICK n \in Nat, k \in Nat : n = Len(l) /\ k = Len(m)
  BY LenProperties
<1>2. PICK j : j = l \o m
  OBVIOUS
<1>3. /\ Len(j) = n + k /\ \A i \in 1 .. n : j[i] = l[i]
      /\ \A i \in 1 .. k : j[n + i] = m[i]
  BY <1>1, <1>2, ConcatProperties
<1>4. ASSUME NEW i \in 1 .. n + k, i > n PROVE j[i].name # "initialize_safe_pwm"
  <2>1. i - n \in 1 .. k /\ n + (i - n) = i
    BY <1>4
  <2>2. j[i] = m[i - n]
    BY <1>3, <2>1
  <2> QED
    BY <1>1, <2>1, <2>2 DEF NoInit
<1>5. \A i \in 1 .. n + k : i \in 1 .. n \/ i > n
  OBVIOUS
<1>6. ASSUME NoInit(l) PROVE NoInit(j)
  BY <1>1, <1>3, <1>4, <1>5, <1>6 DEF NoInit
<1>7. ASSUME OneInit(l) PROVE OneInit(j)
  BY <1>1, <1>3, <1>4, <1>5, <1>7 DEF OneInit
<1> QED
  BY <1>2, <1>6, <1>7

LEMMA InitGoes ==
  ASSUME NEW l \in Seq(Item), l # <<>>, OneInit(l)
  PROVE  NoInit(Tail(l))
<1>1. PICK n \in Nat : n = Len(l) /\ n > 0 /\ Len(Tail(l)) = n - 1
                      /\ \A i \in 1 .. n - 1 : Tail(l)[i] = l[i + 1]
  <2>1. /\ Len(l) \in Nat /\ Len(l) > 0 /\ Len(Tail(l)) = Len(l) - 1
        /\ \A i \in 1 .. Len(l) - 1 : Tail(l)[i] = l[i + 1]
    BY HeadTailProperties, LenProperties, EmptySeq
  <2> QED
    BY <2>1
<1>2. ASSUME NEW i \in 1 .. n - 1 PROVE Tail(l)[i].name # "initialize_safe_pwm"
  <2>1. i + 1 \in 1 .. n /\ i + 1 # 1
    OBVIOUS
  <2>2. l[i + 1].name # "initialize_safe_pwm"
    BY <1>1, <2>1 DEF OneInit
  <2> QED
    BY <1>1, <2>2
<1> QED
  BY <1>1, <1>2 DEF NoInit

LEMMA NoInitIsOne == ASSUME NEW l, NoInit(l) PROVE OneInit(l)
  BY DEF NoInit, OneInit

LEMMA NothingInits == NoInit(<<>>)
  BY DEF NoInit

LEMMA SingleInits == ASSUME NEW c, c.name # "initialize_safe_pwm" PROVE NoInit(<< c >>)
<1>1. Len(<< c >>) = 1 /\ << c >>[1] = c
  OBVIOUS
<1> QED
  BY <1>1 DEF NoInit

LEMMA OtherNames ==
  /\ Reset.name = "reset" /\ SafeOpenCall.name = "safe_open" /\ Grip.name = "grip"
  /\ Quit.name = "quit"
  /\ \A x : Call(x).name = x /\ Accept(x).name = "accept" /\ ScanPose(x).name = "scan_pose"
            /\ ScanNext(x).name = "scan_next" /\ Record(x).name = "record_face"
  BY DEF Reset, SafeOpenCall, Grip, Quit, Call, Accept, ScanPose, ScanNext, Record

LEMMA MovesInit == ASSUME NEW s \in Solutions PROVE NoInit(Moves(s))
<1>1. s \in Seq(FaceTurns)
  BY SolutionsAssumption
<1>2. PICK n \in Nat : n = Len(s) /\ DOMAIN s = 1 .. n
  BY <1>1, LenProperties
<1>3. PICK f : f = [i \in 1 .. n |-> [name |-> "execute_probe_move", move |-> s[i]]]
  OBVIOUS
<1>4. Len(f) = n /\ \A i \in 1 .. n : f[i].name = "execute_probe_move"
  BY <1>3
<1>5. Moves(s) = f
  BY <1>2, <1>3 DEF Moves
<1> QED
  BY <1>4, <1>5 DEF NoInit

LEMMA ViewsInit == ASSUME NEW faces \in Seq(CubeFace) PROVE NoInit(ViewAndRecord(faces))
<1>1. PICK n \in Nat : n = Len(faces)
  BY LenProperties
<1>2. PICK f : f = [i \in 1 .. 2 * n |-> LET g == faces[(i + 1) \div 2]
                                        IN IF i % 2 = 1 THEN ScanNext(g) ELSE Record(g)]
  OBVIOUS
<1>3. ASSUME NEW i \in 1 .. 2 * n PROVE f[i].name # "initialize_safe_pwm"
  <2>1. PICK g : g = faces[(i + 1) \div 2]
    OBVIOUS
  <2>2. f[i] = IF i % 2 = 1 THEN ScanNext(g) ELSE Record(g)
    BY <1>2, <2>1
  <2> QED
    BY <2>2, OtherNames
<1>4. Len(f) = 2 * n
  <2>1. 2 * n \in Nat
    OBVIOUS
  <2> QED
    BY <1>2, <2>1
<1>5. ViewAndRecord(faces) = f
  BY <1>1, <1>2, Zenon DEF ViewAndRecord
<1> QED
  BY <1>3, <1>4, <1>5 DEF NoInit

LEMMA ScanInit ==
  ASSUME NEW auto \in BOOLEAN
  PROVE  NoInit(FullScanCalls(IF auto THEN "finish_scan_for_execution" ELSE "finish_scan")
                  \o << Accept(auto) >>)
<1>1. PICK finish : finish = (IF auto THEN "finish_scan_for_execution" ELSE "finish_scan")
  OBVIOUS
<1>2. Call(finish) \in Item /\ Accept(auto) \in Item
  BY <1>1, ItemsAre
<1>3. << "Right", "Down", "Up", "Front", "Back" >> \in Seq(CubeFace) /\ "Left" \in CubeFace
  BY DEF CubeFace
<1>4. PICK a, v, b, d : /\ a = << Grip, ScanPose("Left"), Record("Left") >>
                        /\ v = ViewAndRecord(<< "Right", "Down", "Up", "Front", "Back" >>)
                        /\ b = << Call(finish) >> /\ d = << Accept(auto) >>
  OBVIOUS
<1>5. a \in Seq(Item) /\ v \in Seq(Item) /\ b \in Seq(Item) /\ d \in Seq(Item)
  <2>1. v \in Seq(Item)
    BY <1>3, <1>4, ViewsAre
  <2>2. a \in Seq(Item)
    BY <1>3, <1>4, ItemsAre
  <2>3. b \in Seq(Item) /\ d \in Seq(Item)
    BY <1>2, <1>4
  <2> QED
    BY <2>1, <2>2, <2>3
<1>6. NoInit(a) /\ NoInit(v) /\ NoInit(b) /\ NoInit(d)
  <2>1. NoInit(v)
    BY <1>3, <1>4, ViewsInit
  <2>2. NoInit(a)
    <3>1. Len(a) = 3 /\ a[1] = Grip /\ a[2] = ScanPose("Left") /\ a[3] = Record("Left")
      BY <1>4
    <3>2. \A i \in 1 .. 3 : i = 1 \/ i = 2 \/ i = 3
      OBVIOUS
    <3> QED
      BY <3>1, <3>2, OtherNames DEF NoInit
  <2>3. NoInit(b) /\ NoInit(d)
    BY <1>1, <1>4, SingleInits, OtherNames
  <2> QED
    BY <2>1, <2>2, <2>3
<1>7. a \o v \in Seq(Item) /\ (a \o v) \o b \in Seq(Item)
  BY <1>5, ScriptsJoin
<1>8. NoInit(a \o v)
  BY <1>5, <1>6, InitJoins
<1>9. NoInit((a \o v) \o b)
  BY <1>5, <1>6, <1>7, <1>8, InitJoins
<1>10. NoInit(((a \o v) \o b) \o d)
  BY <1>5, <1>6, <1>7, <1>9, InitJoins
<1> QED
  BY <1>1, <1>4, <1>10, Zenon DEF FullScanCalls

LEMMA ExecuteInit ==
  ASSUME NEW s \in Solutions
  PROVE  NoInit(ExecuteCalls(s)) /\ NoInit(ExecuteCalls(s) \o << SafeOpenCall >>)
<1>1. << Grip >> \in Seq(Item) /\ << SafeOpenCall >> \in Seq(Item) /\ Moves(s) \in Seq(Item)
  BY ItemsAre, MovesAre
<1>2. NoInit(<< Grip >>) /\ NoInit(<< SafeOpenCall >>) /\ NoInit(Moves(s))
  BY SingleInits, OtherNames, MovesInit
<1>3. NoInit(<< Grip >> \o Moves(s))
  BY <1>1, <1>2, InitJoins
<1>4. NoInit(ExecuteCalls(s))
  BY <1>2, <1>3, NothingInits DEF ExecuteCalls
<1>5. ExecuteCalls(s) \in Seq(Item)
  BY ExecuteItems
<1> QED
  BY <1>1, <1>2, <1>4, <1>5, InitJoins

LEMMA StartInit ==
  ASSUME NEW t \in {FullScan, Shell, Probe}, NEW s \in Solutions
  PROVE  OneInit(StartUp(t) \o (IF t = Probe THEN << Grip >> \o Moves(s) ELSE <<>>))
<1>1. /\ << Grip >> \in Seq(Item) /\ << SafeOpenCall >> \in Seq(Item)
      /\ << Initialize, Reset >> \in Seq(Item) /\ <<>> \in Seq(Item) /\ Moves(s) \in Seq(Item)
  BY ItemsAre, MovesAre
<1>2. PICK x : x = (IF t = Probe THEN << Grip >> \o Moves(s) ELSE <<>>)
  OBVIOUS
<1>3. x \in Seq(Item) /\ NoInit(x)
  <2>1. NoInit(<< Grip >>) /\ NoInit(Moves(s)) /\ NoInit(<<>>)
    BY SingleInits, OtherNames, MovesInit, NothingInits
  <2>2. NoInit(<< Grip >> \o Moves(s)) /\ << Grip >> \o Moves(s) \in Seq(Item)
    BY <1>1, <2>1, InitJoins, ScriptsJoin
  <2> QED
    BY <1>1, <1>2, <2>1, <2>2
<1>4. PICK open : open = (CASE t = FullScan -> << SafeOpenCall >>
                            [] t = Shell    -> <<>>
                            [] t = Probe    -> << SafeOpenCall >>)
  OBVIOUS
<1>5. open \in Seq(Item) /\ NoInit(open)
  <2>1. open = << SafeOpenCall >> \/ open = <<>>
    BY <1>4
  <2> QED
    BY <1>1, <2>1, SingleInits, OtherNames, NothingInits
<1>6. PICK i : i = << Initialize, Reset >>
  OBVIOUS
<1>7. OneInit(i) /\ i \in Seq(Item)
  <2>1. Len(i) = 2 /\ i[2] = Reset
    BY <1>6
  <2>2. \A k \in 1 .. 2 : k = 1 \/ k = 2
    OBVIOUS
  <2> QED
    BY <1>1, <1>6, <2>1, <2>2, OtherNames DEF OneInit
<1>8. StartUp(t) = i \o open
  BY <1>4, <1>6, Zenon DEF StartUp
<1>9. i \o open \in Seq(Item)
  BY <1>5, <1>7, ScriptsJoin
<1>10. OneInit(i \o open)
  BY <1>5, <1>7, InitJoins
<1>11. OneInit((i \o open) \o x)
  BY <1>3, <1>9, <1>10, InitJoins
<1> QED
  BY <1>2, <1>8, <1>11, Zenon

-----------------------------------------------------------------------------
(* The steps of the tools.                                                 *)

LEMMA OutStays ==
  ASSUME OutInv, UNCHANGED << chip, writes, commanded, phase, script, goal >>
  PROVE  OutInv'
  BY DEF OutInv, Counts

LEMMA GoneKeepsOut == ASSUME Gone PROVE OutInv' /\ StartInv'
<1>1. phase' = "idle" /\ script' = <<>> /\ writes' = <<>> /\ commanded' = Unknown /\ todo' = <<>>
  BY DEF Gone
<1>2. PICK u : u = Unknown /\ u.state = "Unknown"
  BY PosesAre
<1>3. \A ch, g : Counts("idle", <<>>, ch, <<>>, u, g)
  BY <1>2 DEF Counts, HeadingOf, Drives
<1>4. OutInv'
  BY <1>1, <1>2, <1>3 DEF OutInv
<1> QED
  BY <1>1, <1>4, NothingInits DEF StartInv

LEMMA StartKeepsOut == ASSUME CubeInv, OutInv, Start PROVE OutInv' /\ StartInv'
<1>1. phase = "idle" /\ script = <<>>
  BY DEF Start, CubeInv, RecordsInv
<1>2. commanded' = Unknown /\ UNCHANGED << chip, writes, phase, script, goal >>
  BY DEF Start, call
<1>3. PICK u : u = Unknown /\ u.state = "Unknown"
  BY PosesAre
<1>4. \A ch, ws, g : Counts("idle", <<>>, ch, ws, u, g)
  BY <1>3 DEF Counts, HeadingOf, Drives
<1>5. OutInv'
  BY <1>1, <1>2, <1>3, <1>4 DEF OutInv
<1>6. PICK t \in {FullScan, Shell, Probe}, s \in Solutions :
        todo' = StartUp(t) \o (IF t = Probe THEN << Grip >> \o Moves(s) ELSE <<>>)
  BY DEF Start
<1>7. OneInit(todo')
  BY <1>6, StartInit
<1>8. phase' = "idle" /\ script' = <<>> /\ commanded'.state = "Unknown"
  BY <1>1, <1>2, <1>3
<1> QED
  BY <1>5, <1>7, <1>8 DEF StartInv

\* The commands at the prompt, and the items that only look at the stand.
LEMMA PromptKeepsOut ==
  ASSUME CubeInv, OutInv, StartInv,
         \/ ShellCommand \/ SolveCommand \/ ExecuteCommand \/ Cancel \/ Off \/ QuitCommand
         \/ (\E auto \in BOOLEAN : ScanCommand(auto))
  PROVE  OutInv' /\ StartInv'
<1>1. OutInv'
  <2>1. UNCHANGED << chip, writes, commanded, phase, script, goal >>
    BY DEF ShellCommand, SolveCommand, ExecuteCommand, Cancel, Off, QuitCommand, ScanCommand,
           runtimeVars, call
  <2> QED
    BY <2>1, OutStays
<1>2. todo = <<>>
  BY DEF ShellCommand, SolveCommand, ExecuteCommand, Cancel, Off, QuitCommand, ScanCommand, AtPrompt
<1>3. CASE ShellCommand
  <2>1. PICK c : todo' = << c >> /\ c.name # "initialize_safe_pwm"
    BY <1>3, OtherNames DEF ShellCommand
  <2> QED
    BY <1>1, <2>1, SingleInits DEF StartInv
<1>4. CASE SolveCommand \/ Cancel
  <2>1. todo' = <<>>
    BY <1>2, <1>4 DEF SolveCommand, Cancel
  <2> QED
    BY <1>1, <2>1, NothingInits DEF StartInv
<1>5. CASE ExecuteCommand
  <2>1. PICK s \in Solutions : todo' = ExecuteCalls(s)
    BY <1>5 DEF ExecuteCommand, CubeInv, BenchInv
  <2> QED
    BY <1>1, <2>1, ExecuteInit DEF StartInv
<1>6. CASE Off
  <2>1. todo' = << Reset >>
    BY <1>6 DEF Off
  <2> QED
    BY <1>1, <2>1, SingleInits, OtherNames DEF StartInv
<1>7. CASE QuitCommand
  <2>1. PICK l : l = << Reset, Quit >> /\ todo' = l
    BY <1>7 DEF QuitCommand
  <2>2. Len(l) = 2 /\ l[1] = Reset /\ l[2] = Quit
    BY <2>1
  <2>3. \A k \in 1 .. 2 : k = 1 \/ k = 2
    OBVIOUS
  <2>4. NoInit(l)
    BY <2>2, <2>3, OtherNames DEF NoInit
  <2> QED
    BY <1>1, <2>1, <2>4 DEF StartInv
<1>8. ASSUME NEW auto \in BOOLEAN, ScanCommand(auto) PROVE StartInv'
  <2>1. todo' = <<>>
        \/ todo' = FullScanCalls(IF auto THEN "finish_scan_for_execution" ELSE "finish_scan")
                   \o << Accept(auto) >>
    BY <1>8 DEF ScanCommand
  <2> QED
    BY <2>1, ScanInit, NothingInits DEF StartInv
<1> QED
  BY <1>1, <1>3, <1>4, <1>5, <1>6, <1>7, <1>8

LEMMA TodoGoes ==
  ASSUME CubeInv, StartInv, todo # <<>>, todo' = Tail(todo)
  PROVE  StartInv'
<1>1. todo \in Seq(Item) /\ OneInit(todo)
  BY NoInitIsOne DEF CubeInv, BenchInv, StartInv
<1> QED
  BY <1>1, InitGoes DEF StartInv

LEMMA ItemKeepsOut ==
  ASSUME CubeInv, OutInv, StartInv, RefuseCall \/ RecordFace \/ AcceptScan
  PROVE  OutInv' /\ StartInv'
<1>1. OutInv'
  <2>1. UNCHANGED << chip, writes, commanded, phase, script, goal >>
    BY DEF RefuseCall, RecordFace, AcceptScan, runtimeVars, call
  <2> QED
    BY <2>1, OutStays
<1>2. todo # <<>>
  BY DEF RefuseCall, RecordFace, AcceptScan, AtItem
<1>3. \/ todo' = <<>> \/ todo' = Tail(todo)
      \/ \E s \in Solutions : todo' = ExecuteCalls(s) \o << SafeOpenCall >>
  BY DEF RefuseCall, RecordFace, AcceptScan, StopCommand
<1>4. StartInv'
  <2>1. CASE todo' = <<>>
    BY <2>1, NothingInits DEF StartInv
  <2>2. CASE todo' = Tail(todo)
    BY <1>2, <2>2, TodoGoes
  <2>3. CASE \E s \in Solutions : todo' = ExecuteCalls(s) \o << SafeOpenCall >>
    BY <2>3, ExecuteInit DEF StartInv
  <2> QED
    BY <1>3, <2>1, <2>2, <2>3
<1> QED
  BY <1>1, <1>4

LEMMA StartCallKeepsOut ==
  ASSUME CubeInv, OutInv, StartInv, StartCall
  PROVE  OutInv' /\ StartInv'
<1>1. /\ todo # <<>> /\ phase = "idle" /\ script = <<>> /\ writes = <<>> /\ todo' = Tail(todo)
      /\ todo \in Seq(Item)
  BY DEF StartCall, AtItem, CubeInv, BenchInv
<1>2. StartInv'
  BY <1>1, TodoGoes
<1>3. PICK it \in Item : it = Head(todo)
  BY <1>1, HeadTailProperties
<1>4. PICK ch, c, g : ch = chip /\ c = commanded /\ g = goal
  OBVIOUS
<1>5. Counts("idle", <<>>, ch, <<>>, c, g)
  BY <1>1, <1>4 DEF OutInv
<1>6. CASE it.name = "reset"
  <2>1. BeginReset
    BY <1>3, <1>6 DEF StartCall
  <2>2. PICK w : w = ForceAllChannelsOff
    OBVIOUS
  <2>3. AllAreOff(ch, w)
    BY <2>2, AllOffAtEnd DEF AllAreOff
  <2>4. Counts("resetting", <<>>, ch, w, c, g)
    BY <2>3 DEF Counts
  <2>5. /\ phase' = "resetting" /\ script' = <<>> /\ chip' = ch /\ writes' = w
        /\ commanded' = c /\ goal' = g
    BY <1>1, <1>4, <2>1, <2>2 DEF BeginReset
  <2> QED
    BY <1>2, <2>4, <2>5 DEF OutInv
<1>7. CASE it.name = "initialize_safe_pwm"
  <2>1. c.state = "Unknown"
    <3>1. ~NoInit(todo)
      <4>1. 1 \in 1 .. Len(todo) /\ todo[1] = it
        BY <1>1, <1>3, HeadTailProperties, LenProperties, EmptySeq
      <4> QED
        BY <1>7, <4>1 DEF NoInit
    <3> QED
      BY <1>4, <3>1 DEF StartInv
  <2>2. PICK w : w = InitializeSafePwm
    OBVIOUS
  <2>3. Counts("idle", <<>>, ch, w, c, g)
    BY <2>1 DEF Counts, HeadingOf, Drives
  <2>4. /\ writes' = w /\ UNCHANGED << chip, commanded, phase, script, goal >>
    BY <1>3, <1>7, <2>2 DEF StartCall, call
  <2> QED
    BY <1>1, <1>2, <1>4, <2>3, <2>4 DEF OutInv
<1>8. CASE it.name \notin {"reset", "initialize_safe_pwm"}
  <2>1. it.name \notin NotCalls /\ Begin(it)
    BY <1>3, <1>8 DEF StartCall, NotCalls
  <2>2. PICK a \in Admitted(it) : script' = a[1] /\ goal' = a[2]
    BY <2>1 DEF Begin
  <2>3. PICK s, h : s = a[1] /\ h = a[2]
    OBVIOUS
  <2>4. Drives(h) /\ (c.state = "OutputsOff" \/ Drives(c)) /\ (c.state = "OutputsOff" => Opens(s))
    BY <1>4, <2>1, <2>3, AdmittedDrives
  <2>5. Driving(ch, <<>>, s, {})
    <3>1. CASE c.state = "OutputsOff"
      <4>1. AllAreOff(ch, <<>>)
        BY <1>5, <3>1 DEF Counts
      <4>2. \A a1 \in Axis : <<"rail", a1>> \in Channel
        BY DEF Channel
      <4>3. RailsOff(ch, <<>>, {})
        BY <4>1, <4>2 DEF AllAreOff, RailsOff
      <4> QED
        BY <2>4, <3>1, <4>3 DEF Driving
    <3>2. CASE Drives(c)
      <4>1. Driving(ch, <<>>, <<>>, {})
        BY <1>5, <3>2 DEF Counts, HeadingOf, LeftIn, SetIn
      <4>2. ~Opens(<<>>)
        BY DEF Opens
      <4> QED
        BY <4>1, <4>2 DEF Driving
    <3> QED
      BY <2>4, <3>1, <3>2
  <2>6. LeftIn("idle", s) = s /\ SetIn("idle", s) = {}
    BY DEF LeftIn, SetIn
  <2>7. s = <<>> /\ c.state = "OutputsOff" => AllAreOff(ch, <<>>)
    BY <1>5 DEF Counts
  <2>8. Counts("idle", s, ch, <<>>, c, h)
    BY <2>4, <2>5, <2>6, <2>7 DEF Counts
  <2>9. /\ phase' = "idle" /\ script' = s /\ chip' = ch /\ writes' = <<>>
        /\ commanded' = c /\ goal' = h
    BY <1>1, <1>4, <2>1, <2>2, <2>3 DEF Begin
  <2> QED
    BY <1>2, <2>8, <2>9 DEF OutInv
<1> QED
  BY <1>6, <1>7, <1>8

LEMMA CallFailsKeepsOut ==
  ASSUME CubeInv, OutInv, CallFails
  PROVE  OutInv' /\ StartInv'
<1>1. CASE fatal
  BY <1>1, GoneKeepsOut DEF CallFails
<1>2. CASE ~fatal
  <2>1. /\ phase = "failed" /\ phase' = "idle" /\ todo' = <<>>
        /\ UNCHANGED << chip, writes, commanded, script, goal >>
    BY <1>2 DEF CallFails, StopCommand
  <2>2. script = <<>> /\ commanded.state = "Faulted"
    BY <2>1 DEF CubeInv, HandsInv
  <2>3. PICK ch, c, g : ch = chip /\ c = commanded /\ g = goal
    OBVIOUS
  <2>4. writes = <<>>
    BY <2>1 DEF OutInv, Counts
  <2>5. Counts("idle", <<>>, ch, <<>>, c, g)
    BY <2>2, <2>3 DEF Counts, HeadingOf, Drives
  <2>6. OutInv'
    BY <2>1, <2>2, <2>3, <2>4, <2>5 DEF OutInv
  <2> QED
    BY <2>1, <2>6, NothingInits DEF StartInv
<1> QED
  BY <1>1, <1>2

LEMMA RuntimeKeepsStart ==
  ASSUME BenchInv, StartInv, RuntimeStep, UNCHANGED toolVars
  PROVE  StartInv'
<1>1. todo' = todo
  BY DEF toolVars
<1>2. CASE NoInit(todo)
  BY <1>1, <1>2 DEF StartInv
<1>3. ASSUME OneInit(todo), phase = "idle", script = <<>>, commanded.state = "Unknown"
      PROVE  StartInv'
  <2>1. ~StartStep /\ ~DelayOver /\ ~RailsReleased /\ ~ResetDone /\ ~Fault /\ ~AllOffEnds
    BY <1>3 DEF StartStep, DelayOver, RailsReleased, ResetDone, Fault, AllOffEnds
  <2>2. WriteSucceeds
    BY <2>1 DEF RuntimeStep
  <2>3. UNCHANGED << phase, script, commanded >>
    BY <2>2 DEF WriteSucceeds, call
  <2> QED
    BY <1>1, <1>3, <2>3 DEF StartInv
<1> QED
  BY <1>2, <1>3 DEF StartInv

LEMMA OutStepsKeep ==
  CubeInv /\ OutInv /\ StartInv /\ [BenchNext]_benchVars => OutInv' /\ StartInv'
<1> SUFFICES ASSUME CubeInv, OutInv, StartInv, [BenchNext]_benchVars PROVE OutInv' /\ StartInv'
  OBVIOUS
<1>1. CASE UNCHANGED benchVars
  <2>1. UNCHANGED << chip, writes, commanded, phase, script, goal, todo >>
    BY <1>1 DEF benchVars, runtimeVars, call, toolVars
  <2> QED
    BY <2>1, OutStays DEF StartInv
<1>2. CASE Start
  BY <1>2, StartKeepsOut
<1>3. CASE ShellCommand \/ SolveCommand \/ ExecuteCommand \/ Cancel \/ Off \/ QuitCommand
           \/ ScanCommand(TRUE) \/ ScanCommand(FALSE)
  BY <1>3, PromptKeepsOut
<1>4. CASE StartCall \/ RefuseCall \/ RecordFace \/ AcceptScan \/ CallFails
  BY <1>4, StartCallKeepsOut, ItemKeepsOut, CallFailsKeepsOut
<1>5. CASE Exit \/ InitializeFails \/ ProbeEnds \/ Killed
  BY <1>5, GoneKeepsOut DEF Exit, InitializeFails, ProbeEnds, Killed
<1>6. CASE RuntimeStep /\ UNCHANGED toolVars
  BY <1>6, RuntimeKeepsOut, RuntimeKeepsStart DEF CubeInv
<1> QED
  BY <1>1, <1>2, <1>3, <1>4, <1>5, <1>6 DEF BenchNext

LEMMA OutInvHolds == BenchInit => OutInv /\ StartInv
<1> SUFFICES ASSUME BenchInit PROVE OutInv /\ StartInv
  OBVIOUS
<1>1. phase = "idle" /\ script = <<>> /\ writes = <<>> /\ commanded = Unknown /\ todo = <<>>
  BY DEF BenchInit
<1>2. PICK u : u = Unknown /\ u.state = "Unknown"
  BY PosesAre
<1>3. \A ch, g : Counts("idle", <<>>, ch, <<>>, u, g)
  BY <1>2 DEF Counts, HeadingOf, Drives
<1> QED
  BY <1>1, <1>2, <1>3, NothingInits DEF OutInv, StartInv

\* The grippers driven and nothing else.
LEMMA GrippersAreDriven ==
  ASSUME Driving(chip, <<>>, <<>>, {})
  PROVE  Driven = Grippers(Axis)
<1>1. ~Opens(<<>>)
  BY DEF Opens
<1>2. GripsOn(chip, <<>>) /\ RailsOff(chip, <<>>, {})
  BY <1>1 DEF Driving
<1>3. chip.mode = "awake"
  BY <1>2 DEF GripsOn, AwakeAtEnd
<1>4. ASSUME NEW a \in Axis
      PROVE  ~chip.fullOff[<<"gripper", a>>] /\ chip.fullOff[<<"rail", a>>]
  <2>1. OnAtEnd(chip, <<>>, <<"gripper", a>>) /\ OffAtEnd(chip, <<>>, <<"rail", a>>)
    BY <1>2 DEF GripsOn, RailsOff
  <2> QED
    BY <2>1, NothingToWrite
<1>5. ASSUME NEW c \in Channel PROVE c \in Driven <=> c \in Grippers(Axis)
  <2>1. PICK a \in Axis : c = <<"gripper", a>> \/ c = <<"rail", a>>
    BY DEF Channel
  <2>2. CASE c = <<"gripper", a>>
    BY <1>3, <1>4, <2>2 DEF Driven, Grippers
  <2>3. CASE c = <<"rail", a>>
    BY <1>4, <2>3 DEF Driven, Grippers
  <2> QED
    BY <2>1, <2>2, <2>3
<1>6. Driven \subseteq Channel /\ Grippers(Axis) \subseteq Channel
  BY DEF Driven, Grippers, Channel
<1> QED
  BY <1>5, <1>6

\* Between two calls the stand is what the runtime says it is: where its
\* rails and grippers stand, whether a cube is in it and how it lies, and
\* which servos are driven.  The next call builds its motion on all of it.
THEOREM StateStaysTrue == BenchSpec => []StateIsTrue
<1>1. CubeInv /\ OutInv => StateIsTrue
  <2> SUFFICES ASSUME CubeInv, OutInv, phase = "idle", script = <<>>
               PROVE  /\ Drives(commanded) => Driven = Grippers(Axis)
                      /\ commanded = OpenPose =>
                           /\ ~held /\ Released(rails, Axis)
                           /\ grippers = [a \in Axis |-> "Perpendicular"]
                      /\ commanded = GripPose =>
                           /\ held /\ Gripped(rails, Axis)
                           /\ grippers = [a \in Axis |-> "Perpendicular"]
                           /\ cube.sees = Canonical
                      /\ commanded.state = "ScanHold" =>
                           /\ held /\ Gripped(rails, commanded.holder)
                           /\ Released(rails, Axis \ commanded.holder)
    BY DEF StateIsTrue, Drives
  <2>1. PICK ch, ws, c, g : ch = chip /\ ws = writes /\ c = commanded /\ g = goal
    OBVIOUS
  <2>2. Counts("idle", <<>>, ch, ws, c, g)
    BY <2>1 DEF OutInv
  <2>3. ASSUME Drives(commanded) PROVE Driven = Grippers(Axis)
    <3>1. ws = <<>>
      BY <2>1, <2>2, <2>3 DEF Counts, Drives
    <3>2. Driving(ch, ws, <<>>, {})
      BY <2>1, <2>2, <2>3 DEF Counts, HeadingOf, LeftIn, SetIn
    <3> QED
      BY <2>1, <3>1, <3>2, GrippersAreDriven
  <2>4. PICK w : w = Now
    OBVIOUS
  <2>5. w.rails = rails /\ w.grippers = grippers /\ w.held = held /\ w.cube = cube
    BY <2>4 DEF Now
  <2>6. IsAt(c, w)
    BY <2>1, <2>4, AtRest DEF CubeInv
  <2>7. ASSUME c = OpenPose
        PROVE  ~held /\ Released(rails, Axis) /\ grippers = [a \in Axis |-> "Perpendicular"]
    <3>1. ~w.held /\ w.rails = RailsIn({}) /\ w.grippers = Straight
      BY <2>6, <2>7, AtIsGood, PosesAre
    <3> QED
      BY <2>5, <3>1 DEF RailsIn, Straight, Released
  <2>8. ASSUME c = GripPose
        PROVE  /\ held /\ Gripped(rails, Axis) /\ grippers = [a \in Axis |-> "Perpendicular"]
               /\ cube.sees = Canonical
    <3>1. PICK t : t = w.cube.turns /\ w = InGrip(Canonical, t)
      BY <2>6, <2>8, AtIsGood, PosesAre
    <3>2. /\ w.held /\ w.rails = RailsIn(Axis) /\ w.grippers = Straight
          /\ w.cube.sees = Canonical
      BY <3>1 DEF InGrip, HeldBy
    <3> QED
      BY <2>5, <3>2 DEF RailsIn, Straight, Gripped
  <2>9. ASSUME c.state = "ScanHold"
        PROVE  /\ held /\ Gripped(rails, c.holder)
               /\ Released(rails, Axis \ c.holder)
    <3>1. PICK t : t = w.cube.turns
      OBVIOUS
    <3>2. PICK v \in Views(t) : c = ScanHold(v[1], v[2]) /\ w = v[3]
      BY <2>6, <2>9, <3>1, AtIsGood
    <3>3. w.held /\ Gripped(w.rails, v[2]) /\ Released(w.rails, Axis \ v[2])
      BY <3>2, ViewsShow
    <3>4. c.holder = v[2]
      BY <3>2, PosesAre
    <3> QED
      BY <2>5, <3>3, <3>4
  <2> QED
    BY <2>1, <2>3, <2>7, <2>8, <2>9
<1>2. BenchInit => CubeInv /\ OutInv /\ StartInv
  BY CubeInvHolds, OutInvHolds
<1>3. CubeInv /\ OutInv /\ StartInv /\ [BenchNext]_benchVars => (CubeInv /\ OutInv /\ StartInv)'
  BY CubeStepsKeep, OutStepsKeep
<1> QED
  BY <1>1, <1>2, <1>3, PTL DEF BenchSpec
===============================================================================
