------------------------------- MODULE Sx127x -------------------------------
(***************************************************************************)
(* The SX127x radio under a connector: the chip, which receives, sends and *)
(* raises its flags by itself, and the driver (pyLora over LoRa), which    *)
(* polls DIO0 and keeps a shadow of the mode it last wrote.  The receiver  *)
(* stays on air between transmissions, whatever the program is busy with.  *)
(***************************************************************************)
EXTENDS Naturals, Sequences

CONSTANTS
    None,
    Factors, Bandwidths, Initial,   \* spreading factors and bandwidths, and [sf, bw] at start
    Symbol(_, _),      \* airtime of a symbol, of a factor and a bandwidth
    Limit,             \* LDRO_SYMBOL_TIME_S
    MaxFrames, MaxSends, MaxTunes

VARIABLES
    chip,        \* the mode the chip is in
    mode,        \* LoRa.mode: the shadow
    dio0,        \* dio_mapping[0]: "rx" or "tx"
    flags,       \* RegIrqFlags: a subset of {"RxDone", "TxDone", "CrcError"}
    air,         \* the frame being received, or None
    fifo,        \* the last one received
    modem, ldro, \* modem configuration, and LowDataRateOptimize
    pc,          \* what the program is in: "busy" elsewhere, "send", "recv"
    sent, frames, tunes,
    result       \* of the last recv: [frame, corrupt]

receiver == <<chip, mode, dio0, flags, air, fifo>>
config == <<modem, ldro, tunes>>
vars == <<receiver, config, pc, sent, frames, result>>

-----------------------------------------------------------------------------
(* The chip.                                                               *)

Dio0 == IF dio0 = "rx" THEN "RxDone" \in flags ELSE "TxDone" \in flags

FrameBegins(damaged) ==
    /\ chip = "rxcont" /\ air = None /\ frames < MaxFrames
    /\ frames' = frames + 1
    /\ air' = [damaged |-> damaged, after |-> sent]
    /\ UNCHANGED <<chip, mode, dio0, flags, fifo, config, pc, sent, result>>

\* A damaged payload raises its flag beside RxDone, not instead of it.  A program
\* that waits takes a frame within a millisecond, before there is another.
FrameEnds ==
    /\ air # None /\ (pc = "recv" => ~Dio0)
    /\ fifo' = air /\ air' = None
    /\ flags' = flags \cup {"RxDone"} \cup (IF air.damaged THEN {"CrcError"} ELSE {})
    /\ UNCHANGED <<chip, mode, dio0, config, pc, sent, frames, result>>

TransmissionEnds ==
    /\ chip = "tx"
    /\ chip' = "stdby" /\ flags' = flags \cup {"TxDone"}
    /\ UNCHANGED <<mode, dio0, air, fifo, config, pc, sent, frames, result>>

-----------------------------------------------------------------------------
(* The driver.                                                             *)

\* set_mode, one after the other: a mode the shadow holds is not written.  Left
\* in passing or for good, reception is over.
SetModes(ms) ==
    LET wrote == {i \in DOMAIN ms : ms[i] # (IF i = 1 THEN mode ELSE ms[i - 1])}
        last == CHOOSE i \in wrote : \A j \in wrote : j <= i
    IN  /\ mode' = ms[Len(ms)]
        /\ chip' = IF wrote = {} THEN chip ELSE ms[last]
        /\ air' = IF wrote = {} THEN air ELSE None

\* send: out of receive by way of sleep, and on the air.
Send ==
    /\ pc = "busy" /\ sent < MaxSends
    /\ SetModes(<<"sleep", "stdby", "tx">>)
    /\ dio0' = "tx" /\ pc' = "send"
    /\ UNCHANGED <<flags, fifo, config, sent, frames, result>>

\* Mutant of Heard: the flags of what was heard before are left standing.
Heard_Kept == {}

\* _listen: what was heard before the transmission is cleared.
Heard == {"RxDone", "CrcError"}

\* The wait for TxDone, on_tx_done, and _listen before the caller is told.
Sent ==
    /\ pc = "send" /\ "TxDone" \in flags
    /\ SetModes(<<"stdby", "rxcont">>)
    /\ dio0' = "rx"
    /\ flags' = flags \ ({"TxDone"} \cup Heard)
    /\ pc' = "busy" /\ sent' = sent + 1
    /\ UNCHANGED <<fifo, config, frames, result>>

Listening == chip = "rxcont" /\ dio0 = "rx"

\* A receiver on air is left alone.
SwitchOn ==
    IF Listening THEN mode' = chip /\ UNCHANGED <<chip, dio0, air>>
    ELSE SetModes(<<"sleep", "rxcont">>) /\ dio0' = "rx"

Recv ==
    /\ pc = "busy" /\ pc' = "recv"
    /\ SwitchOn
    /\ UNCHANGED <<flags, fifo, config, sent, frames, result>>

\* The flag read beside RxDone.
Verdict == "CrcError" \in flags

\* settimeout polls the pin; on_rx_done clears RxDone alone, reads the frame and
\* restarts the receiver.  No frame is so short as to begin and end in between.
Takes ==
    /\ pc = "recv" /\ Dio0
    /\ result' = [frame |-> IF Verdict THEN None ELSE fifo, corrupt |-> Verdict]
    /\ flags' = flags \ ({"RxDone"} \cup (IF Verdict THEN {"CrcError"} ELSE {}))
    /\ SetModes(<<"stdby", "rxcont">>)
    /\ pc' = "busy"
    /\ UNCHANGED <<dio0, fifo, config, sent, frames>>

\* LoRaTimeoutError: the window closed on nothing.
TimesOut ==
    /\ pc = "recv" /\ ~Dio0
    /\ result' = [frame |-> None, corrupt |-> FALSE]
    /\ pc' = "busy"
    /\ UNCHANGED <<receiver, config, sent, frames>>

-----------------------------------------------------------------------------
(* A retune: _idle_for, change_bw and change_frequency go by way of        *)
(* standby, then back to the mode the chip was in.                         *)

NeedsLdro(m) == Symbol(m.sf, m.bw) > Limit

\* _apply_ldro, of what the modem now says.
Optimized(m) == NeedsLdro(m)

\* Through standby and back where the chip was.
Idled ==
    /\ mode' = chip /\ chip' = chip
    /\ air' = IF chip = "stdby" THEN air ELSE None

Tune(m) ==
    /\ pc = "busy" /\ tunes < MaxTunes /\ tunes' = tunes + 1
    /\ m # modem /\ (m.sf = modem.sf \/ m.bw = modem.bw)
    /\ modem' = m /\ ldro' = Optimized(m)
    /\ Idled
    /\ UNCHANGED <<dio0, flags, fifo, pc, sent, frames, result>>

-----------------------------------------------------------------------------
\* LoRa.__init__: FSK registers first, then the LoRa modem's, in standby.
Init ==
    /\ chip = "stdby" /\ mode = "stdby" /\ dio0 = "rx" /\ flags = {}
    /\ air = None /\ fifo = None
    /\ modem = Initial /\ ldro = NeedsLdro(Initial)
    /\ pc = "busy" /\ sent = 0 /\ frames = 0 /\ tunes = 0
    /\ result = [frame |-> None, corrupt |-> FALSE]

Chip == FrameEnds \/ TransmissionEnds \/ \E damaged \in BOOLEAN : FrameBegins(damaged)
Driver ==
    \/ Send \/ Sent \/ Recv \/ Takes \/ TimesOut
    \/ \E sf \in Factors, bw \in Bandwidths : Tune([sf |-> sf, bw |-> bw])
Next == Chip \/ Driver

Spec == Init /\ [][Next]_vars

-----------------------------------------------------------------------------
\* The program is never handed a damaged frame, nor, once it has sent, one that
\* was heard before: the wait after a transmission starts empty.  And a frame
\* that is arriving is not cut off by asking for it.
HandsOverAnswers ==
    [][/\ Takes /\ result'.frame # None
            => ~result'.frame.damaged /\ result'.frame.after = sent
       /\ Recv /\ sent > 0 => air' = air]_vars

\* A radio that has sent is on the air whenever the program is elsewhere, the
\* shadow tells the mode, and long symbols get through in the modem in use.
StaysOnAir ==
    /\ pc # "send" => mode = chip /\ (sent > 0 => Listening)
    /\ ldro = NeedsLdro(modem)

\* "It belongs to the frame we are about to return"
DropsOnlyDamaged == [][Takes /\ result'.corrupt => fifo.damaged]_vars
=============================================================================
