------------------------------- MODULE Sx1262 -------------------------------
(***************************************************************************)
(* The SX1262 radio under its connector: the chip, and the driver that     *)
(* polls DIO1 and builds the receiver anew after everything that stopped   *)
(* it.  An error the driver raises is swallowed by the connector, and one  *)
(* it returns is not looked at.                                            *)
(***************************************************************************)
EXTENDS Naturals

CONSTANTS
    None,
    Values, Valid,      \* of an RF setting, and those the chip takes
    Initial,
    Implicit,           \* header mode
    MaxFrames, MaxSends, MaxTunes, MaxFaults

VARIABLES
    chip,        \* "rx", "tx", "fs" or "stdby"
    dio1,        \* what raises the pin: "rx" or "tx"
    irq,         \* a subset of {"RxDone", "TxDone", "CrcErr", "HeaderErr"}
    length,      \* PayloadLength is that of a frame "sent", or of one "implicit"
    air, buffer, \* the frame being received, the last received
    setting, believed,   \* an RF setting, of the chip and of the connector
    pc,          \* "busy", "send", "recv"
    sent, frames, tunes, faults,
    result       \* of the last recv: [frame, corrupt]

receiver == <<chip, dio1, irq, length, air, buffer>>
budget == <<frames, tunes, faults>>
vars == <<receiver, setting, believed, pc, sent, budget, result>>

-----------------------------------------------------------------------------
(* The chip.                                                               *)

Dio1 == IF dio1 = "rx" THEN "RxDone" \in irq ELSE "TxDone" \in irq

FrameBegins(damaged) ==
    /\ chip = "rx" /\ air = None /\ frames < MaxFrames
    /\ frames' = frames + 1
    /\ air' = [damaged |-> damaged, after |-> sent]
    /\ UNCHANGED <<chip, dio1, irq, length, buffer, setting, believed, pc, sent, tunes, faults,
                   result>>

\* A program that waits takes a frame before there is another.
FrameEnds ==
    /\ air # None /\ (pc = "recv" => ~Dio1)
    /\ buffer' = air /\ air' = None
    /\ irq' = irq \cup {"RxDone"} \cup (IF air.damaged THEN {"CrcErr"} ELSE {})
    /\ UNCHANGED <<chip, dio1, length, setting, believed, pc, sent, budget, result>>

\* A header that did not survive: an error, and no frame.
FrameLost ==
    /\ air # None
    /\ air' = None /\ irq' = irq \cup {"HeaderErr"}
    /\ UNCHANGED <<chip, dio1, length, buffer, setting, believed, pc, sent, budget, result>>

\* The fallback after a transmission is FS, with the crystal running.
TransmissionEnds ==
    /\ chip = "tx"
    /\ chip' = "fs" /\ irq' = irq \cup {"TxDone"}
    /\ UNCHANGED <<dio1, length, air, buffer, setting, believed, pc, sent, budget, result>>

-----------------------------------------------------------------------------
(* The driver.                                                             *)

\* startReceive: the whole receive configuration, and on the air.
StartReceive == dio1' = "rx" /\ irq' = {} /\ length' = "implicit" /\ chip' = "rx" /\ air' = None

\* Mutant of ResumeReceive: whatever the header, what a transmission leaves alone is not rebuilt.
ResumeReceive_Cheap ==
    dio1' = "rx" /\ irq' = {} /\ chip' = "rx" /\ air' = None /\ UNCHANGED length

\* resumeReceive: the length of the frame sent stands, which an explicit header
\* overrides.
ResumeReceive ==
    IF Implicit THEN StartReceive
    ELSE dio1' = "rx" /\ irq' = {} /\ chip' = "rx" /\ air' = None /\ UNCHANGED length

\* Raised before the receiver is on, and swallowed: the chip stays where it is.
Raised(where) ==
    /\ faults < MaxFaults /\ faults' = faults + 1
    /\ chip' = where /\ air' = None
    /\ UNCHANGED <<dio1, irq, length>>

\* transmit and startTransmit.
Send ==
    /\ pc = "busy" /\ sent < MaxSends
    /\ chip' = "tx" /\ dio1' = "tx" /\ irq' = {} /\ length' = "sent" /\ air' = None
    /\ pc' = "send"
    /\ UNCHANGED <<buffer, setting, believed, sent, budget, result>>

\* TxDone, or a transmission that took too long and is called a success all the
\* same; _rearm, on the failure path too.
Sent ==
    /\ pc = "send" /\ ("TxDone" \in irq \/ chip = "tx")
    /\ (ResumeReceive /\ UNCHANGED faults) \/ Raised("fs")
    /\ pc' = "busy" /\ sent' = sent + 1
    /\ UNCHANGED <<buffer, setting, believed, frames, tunes, result>>

Recv ==
    /\ pc = "busy" /\ pc' = "recv"
    /\ UNCHANGED <<receiver, setting, believed, sent, budget, result>>

\* readData, of the flags as they stand.
Verdict == irq \cap {"CrcErr", "HeaderErr"} # {}

\* _readData: standby, the frame and its flags, and the receiver built anew;
\* without one, the frame read is lost as well.
Takes ==
    /\ pc = "recv" /\ Dio1
    /\ \/ /\ StartReceive /\ UNCHANGED faults
          /\ result' = [frame |-> IF Verdict THEN None ELSE buffer, corrupt |-> Verdict]
       \/ Raised("stdby") /\ result' = [frame |-> None, corrupt |-> FALSE]
    /\ pc' = "busy"
    /\ UNCHANGED <<buffer, setting, believed, sent, frames, tunes>>

TimesOut ==
    /\ pc = "recv" /\ ~Dio1
    /\ result' = [frame |-> None, corrupt |-> FALSE] /\ pc' = "busy"
    /\ UNCHANGED <<receiver, setting, believed, sent, budget>>

\* A setter: a value the chip does not take is an error returned, and believed
\* all the same.  _arm follows.
Tune(v) ==
    /\ pc = "busy" /\ tunes < MaxTunes /\ tunes' = tunes + 1
    /\ v # believed /\ believed' = v
    /\ setting' = IF v \in Valid THEN v ELSE setting
    /\ (StartReceive /\ UNCHANGED faults) \/ Raised("stdby")
    /\ UNCHANGED <<buffer, pc, sent, frames, result>>

-----------------------------------------------------------------------------
\* begin, and the first _arm.
Init ==
    /\ chip = "rx" /\ dio1 = "rx" /\ irq = {} /\ length = "implicit"
    /\ air = None /\ buffer = None
    /\ setting = Initial /\ believed = Initial
    /\ pc = "busy" /\ sent = 0 /\ frames = 0 /\ tunes = 0 /\ faults = 0
    /\ result = [frame |-> None, corrupt |-> FALSE]

Chip == FrameEnds \/ FrameLost \/ TransmissionEnds \/ \E damaged \in BOOLEAN : FrameBegins(damaged)
Driver == Send \/ Sent \/ Recv \/ Takes \/ TimesOut \/ \E v \in Values : Tune(v)
Next == Chip \/ Driver

Spec == Init /\ [][Next]_vars

-----------------------------------------------------------------------------
\* "the receiver is on air whenever this node is not transmitting", listening
\* for frames of any length.
StaysOnAir ==
    pc # "send" => chip = "rx" /\ dio1 = "rx" /\ (Implicit => length = "implicit")

\* The program is never handed a damaged frame, nor, once it has sent, one that
\* was heard before; and asking for a frame does not cut off one that arrives.
HandsOverAnswers ==
    [][/\ Takes /\ result'.frame # None
            => ~result'.frame.damaged /\ result'.frame.after = sent
       /\ Recv => air' = air]_vars

\* What the connector says of the radio is what the radio does.
Believes == believed = setting

\* A frame called corrupt is one that arrived damaged.
DropsOnlyDamaged == [][Takes /\ result'.corrupt => buffer.damaged]_vars
=============================================================================
