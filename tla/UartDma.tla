------------------------------ MODULE UartDma ------------------------------
(***************************************************************************)
(* The transmitter of the UART driver (hal/target/CC2530EB/_hal_uart_dma.c) *)
(* with the DMA channel and the UART it drives.  Of two buffers one is     *)
(* written while the other is transferred.  A transfer ends with an        *)
(* interrupt; the next one may only be fired when a character time has     *)
(* gone by since, for it begins with a write of DBUF, where the last        *)
(* character may still be.  Time is the low byte of the sleep timer, ST0.  *)
(*                                                                         *)
(* pc is where the main loop of the processor is; the actions of this      *)
(* module say what becomes of it, module MotionSensor what else there is.  *)
(***************************************************************************)
EXTENDS Integers, Sequences

CONSTANTS
    TxMax,      \* HAL_UART_DMA_TX_MAX
    TxTick,     \* dmaCfg.txTick: ticks of the sleep timer in a character time
    ClockMod,   \* values of ST0: 256
    Units,      \* what is written: characters, each known by where it comes from
    Nothing

ASSUME UartAssumption ==
    /\ TxMax \in Nat \ {0} /\ TxTick \in Nat \ {0} /\ ClockMod \in Nat /\ TxTick + 1 < ClockMod
    /\ Nothing \notin Units

Sides == {0, 1}
Other(s) == 1 - s

VARIABLES
    txBuf, txIdx,   \* the two buffers, and how much of each is to be sent
    txSel,          \* the one that is written
    txDMAPending,   \* "yes" when a transfer is to be fired
    txShdw,         \* ST0 at the last interrupt,
    txShdwValid,    \*   "yes" until a character time has gone by
    pc,
    written,        \* HalUARTWriteDMA's txSel and txIdx, once it has copied
    dma,            \* the channel: armed or not, its source, length, units moved
    irq,            \* "yes" when its interrupt is due
    dbuf, age,      \* DBUF, and the ticks that it has been there for
    st0,            \* the sleep timer
    line            \* what has left

driverVars == <<txBuf, txIdx, txSel, txDMAPending, txShdw, txShdwValid, written>>
channelVars == <<dma, irq>>
charVars == <<dbuf, age, line>>
uartVars == <<driverVars, channelVars, charVars, st0, pc>>

NoWrite == [sel |-> 0, idx |-> 0]

UartInit ==
    /\ txBuf = [s \in Sides |-> << >>] /\ txIdx = [s \in Sides |-> 0] /\ txSel = 0
    /\ txDMAPending = "no" /\ txShdw = 0 /\ txShdwValid = "no" /\ written = NoWrite
    /\ dma = [armed |-> "no", src |-> 0, len |-> 0, moved |-> 0] /\ irq = "no"
    /\ dbuf = Nothing /\ age = 0 /\ st0 = 0 /\ line = << >>

--------------------------------------------------------------------------------
(* The channel and the UART. *)

(* A unit goes from the buffer to DBUF; with the last one the transfer is complete. *)
MoveUnit(d) ==
    /\ dbuf' = txBuf[d.src][d.moved + 1] /\ age' = 0
    /\ dma' = [d EXCEPT !.moved = @ + 1, !.armed = IF d.moved + 1 = d.len THEN "no" ELSE "yes"]
    /\ irq' = IF d.moved + 1 = d.len THEN "yes" ELSE "no"

(* The UART asks for the next unit when DBUF is empty. *)
DmaTransfers ==
    /\ dma.armed = "yes" /\ dbuf = Nothing /\ MoveUnit(dma)
    /\ UNCHANGED <<driverVars, line, st0, pc>>

CharLeaves ==
    /\ dbuf # Nothing /\ line' = Append(line, dbuf) /\ dbuf' = Nothing
    /\ UNCHANGED <<driverVars, channelVars, age, st0, pc>>

(* A character leaves DBUF within a character time. *)
Tick ==
    /\ dbuf # Nothing => age < TxTick
    /\ st0' = IF st0 + 1 = ClockMod THEN 0 ELSE st0 + 1
    /\ age' = IF age > TxTick THEN age ELSE age + 1
    /\ UNCHANGED <<driverVars, channelVars, dbuf, line, pc>>

--------------------------------------------------------------------------------
(* The driver. *)

(* A slip for IsrDMA: the data that waits is forgotten. *)
IsrDMAForgetful ==
    /\ irq' = "no"
    /\ txIdx' = [txIdx EXCEPT ![Other(txSel)] = 0]
    /\ txShdw' = st0 /\ txShdwValid' = "yes" /\ UNCHANGED txDMAPending

(* HalUARTIsrDMA. *)
IsrDMA ==
    /\ irq' = "no"
    /\ txIdx' = [txIdx EXCEPT ![Other(txSel)] = 0]
    /\ txShdw' = st0 /\ txShdwValid' = "yes"
    /\ txDMAPending' = IF txIdx[txSel] # 0 THEN "yes" ELSE txDMAPending

(* halDmaIsr; the driver's critical sections are single steps here. *)
DmaInterrupts ==
    /\ irq = "yes" /\ IsrDMA
    /\ UNCHANGED <<txBuf, txSel, written, dma, charVars, st0, pc>>

(* HalUARTWriteDMA enforces all or none. *)
HasRoom(w) == Len(w) + txIdx[txSel] <= TxMax

(* What is copied is not yet to be sent.  txSel changes in HalUARTPollDMA alone, so that
   the code's second copy, for a txSel that has changed meanwhile, is never made. *)
WriteCopy(w) ==
    /\ HasRoom(w)
    /\ txBuf' = [txBuf EXCEPT ![txSel] = SubSeq(@, 1, txIdx[txSel]) \o w]
    /\ written' = [sel |-> txSel, idx |-> txIdx[txSel] + Len(w)]
    /\ UNCHANGED <<txIdx, txSel, txDMAPending, txShdw, txShdwValid, channelVars, charVars, st0>>

WriteCommit ==
    /\ txIdx' = [txIdx EXCEPT ![written.sel] = written.idx]
    /\ txDMAPending' = IF txIdx[Other(written.sel)] = 0 THEN "yes" ELSE txDMAPending
    /\ written' = NoWrite
    /\ UNCHANGED <<txBuf, txSel, txShdw, txShdwValid, channelVars, charVars, st0>>

(* HalUARTPollDMA: has a character time gone by since the interrupt? *)
Elapsed == IF st0 >= txShdw THEN st0 - txShdw ELSE st0 + ClockMod - txShdw

(* A slip for CharTimeOver: a tick too early. *)
CharTimeOverEarly == Elapsed >= TxTick

CharTimeOver == Elapsed > TxTick

PollShadow ==
    /\ pc = "poll" /\ pc' = "fire"
    /\ txShdwValid' = IF CharTimeOver THEN "no" ELSE txShdwValid
    /\ UNCHANGED <<txBuf, txIdx, txSel, txDMAPending, txShdw, written, channelVars, charVars, st0>>

MayFire == txDMAPending = "yes" /\ txShdwValid = "no"

(* A slip for PollFire: the character time is not waited for. *)
PollFireAtOnce ==
    /\ pc = "fire" /\ pc' = "arm" /\ txDMAPending = "yes"
    /\ txDMAPending' = "no" /\ txSel' = Other(txSel)
    /\ dma' = [armed |-> "no", src |-> txSel, len |-> txIdx[txSel], moved |-> 0]
    /\ UNCHANGED <<txBuf, txIdx, txShdw, txShdwValid, written, irq, charVars, st0>>

PollFire ==
    /\ pc = "fire" /\ pc' = "arm" /\ MayFire
    /\ txDMAPending' = "no" /\ txSel' = Other(txSel)
    /\ dma' = [armed |-> "no", src |-> txSel, len |-> txIdx[txSel], moved |-> 0]
    /\ UNCHANGED <<txBuf, txIdx, txShdw, txShdwValid, written, irq, charVars, st0>>

(* The channel is armed and triggered: the first unit is moved at once. *)
PollArm ==
    /\ pc = "arm" /\ pc' = "tasks" /\ MoveUnit(dma)
    /\ UNCHANGED <<driverVars, line, st0>>

(* Nothing is fired; data that no transfer was expected for calls HalUARTIsrDMA. *)
PollElse ==
    /\ pc = "fire" /\ ~ MayFire /\ pc' = "tasks"
    /\ IF txIdx[txSel] # 0 /\ dma.armed = "no" /\ irq = "no"
       THEN IsrDMA
       ELSE UNCHANGED <<irq, txIdx, txShdw, txShdwValid, txDMAPending>>
    /\ UNCHANGED <<txBuf, txSel, written, dma, charVars, st0>>

Poll == PollShadow \/ PollFire \/ PollArm \/ PollElse
Hardware == DmaTransfers \/ CharLeaves \/ Tick

--------------------------------------------------------------------------------
(* Properties. *)

YesNo == {"yes", "no"}

UartTypeOK ==
    /\ txBuf \in [Sides -> Seq(Units)] /\ txIdx \in [Sides -> 0 .. TxMax] /\ txSel \in Sides
    /\ \A s \in Sides : txIdx[s] <= Len(txBuf[s])
    /\ {txDMAPending, txShdwValid, irq, dma.armed} \subseteq YesNo
    /\ dma \in [armed : YesNo, src : Sides, len : 0 .. TxMax, moved : 0 .. TxMax]
    /\ written \in [sel : Sides, idx : 0 .. TxMax]
    /\ txShdw \in 0 .. ClockMod - 1 /\ st0 \in 0 .. ClockMod - 1 /\ age \in 0 .. TxTick + 1
    /\ dbuf \in Units \cup {Nothing} /\ line \in Seq(Units)

(* HalUARTPollDMA changes txShdwValid and txDMAPending without protection, since no
   interrupt can come while the shadow is valid, nor while a transfer is expected. *)
ShadowMeansIdle ==
    (txShdwValid = "yes" \/ txDMAPending = "yes") => dma.armed = "no" /\ irq = "no"

(* A transfer is never begun while the last character of the one before is in DBUF:
   the first unit would overwrite it. *)
LastCharLeft == pc = "arm" => dbuf = Nothing

(* What has been accepted and has not left. *)
Waiting ==
    (IF dbuf = Nothing THEN << >> ELSE <<dbuf>>)
    \o SubSeq(txBuf[Other(txSel)], dma.moved + 1, txIdx[Other(txSel)])
    \o SubSeq(txBuf[txSel], 1, txIdx[txSel])
=============================================================================
