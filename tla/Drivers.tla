------------------------------ MODULE Drivers ------------------------------
(***************************************************************************)
(* The emulator of module Emulator with a particular guest: an interrupt-  *)
(* driven serial driver in S-mode (context 1 of the controller) and, in    *)
(* M-mode, a timer that interrupts it.  The serial driver claims the       *)
(* interrupt, reads characters while status says there is one, and         *)
(* completes the interrupt; outside the handler it may transmit.  The      *)
(* timer's handler reads mtime and sets the next deadline, one half at a   *)
(* time.  The guest is not part of the repository: the drivers use the     *)
(* devices the way test/uart_test.cc, test/plic_test.cc and                *)
(* test/clint_test.cc do.                                                  *)
(***************************************************************************)
EXTENDS Emulator

CONSTANTS
  SentChars,     \* what the driver transmits
  Period         \* the ticks of the clock from one deadline to the next

SContext == 1

\* The times that the timer adds up to stay in the range of the clock.
ASSUME DriversAssumption ==
  /\ SContext \in Contexts /\ MaxPriority >= 1
  /\ SentChars \subseteq Chars
  /\ Period \in Nat
  /\ \A s \in Sessions : /\ s.timer \in BOOLEAN
                         /\ {s.start + Period, s.horizon + Period} \subseteq C!Numbers(8)

VARIABLES
  isr,       \* the next step of the serial driver's handler, or "idle"
  id,        \* the claimed source
  timer,     \* the next step of the timer's handler, or "idle"
  deadline   \* what the timer waits for

driver == <<isr, id, timer, deadline>>
dvars == <<vars, driver>>

NoAccess == [kind |-> "none"]
Word(addr) == [addr |-> addr, bytes |-> 4]
ClaimReg == [reg |-> "claim", at |-> SContext]

\* The guest has booted: the source has a priority and is enabled, and the
\* timer is armed if the session has one.
BootedPlic ==
  LET p == DoStore(ResetPlic, [reg |-> "priority", at |-> UartSource], 1)
  IN  DoStore(p, [reg |-> "enable", at |-> SContext], {UartSource})

FirstDeadline ==
  IF session.timer THEN session.start + Period ELSE Base^8 - 1

DInit ==
  /\ session \in Sessions
  /\ uart = T!NewUart
  /\ plic = BootedPlic
  /\ now = session.start
  /\ deadline = FirstDeadline
  /\ clint = C!DoStore(C!NewClint(now), C!kMtimeCmpBase, C!ToBytes(deadline, 8), 8)
  /\ main = "poll"
  /\ delay_cr = FALSE /\ send_ctrl_c = FALSE /\ recent = FALSE
  /\ alive = TRUE
  /\ stdout = <<>>
  /\ seen = NoHistory
  /\ isr = "idle" /\ id = 0 /\ timer = "idle"

-----------------------------------------------------------------------------
(* The end of a tick outside M-mode: the timer interrupt comes before the  *)
(* external one, and the latter is taken outside the driver's handler.     *)

TakesTimer == timer' = IF TimerLine THEN "mtime" ELSE "idle"

Delivered(step) ==
  IF step = "idle" /\ Line(plic, SContext) /\ ~ TimerLine THEN "claim" ELSE step

\* The serial driver, whose ticks the timer may follow.
Idle ==
  /\ isr = "idle"
  /\ \/ Tick(NoAccess)
     \/ \E ch \in SentChars :
          LET acc == [kind |-> "uart store", at |-> Word(4), val |-> [tx_fifo |-> ch]]
          IN  MayMake(acc) /\ Tick(acc)
  /\ isr' = Delivered("idle")
  /\ UNCHANGED id

Claim ==
  /\ isr = "claim"
  /\ Tick([kind |-> "plic load", reg |-> ClaimReg])
  /\ id' = LoadValue(Arbitrated, ClaimReg)
  /\ isr' = IF id' = 0 THEN "idle" ELSE "status"

CheckStatus ==
  /\ isr = "status"
  /\ Tick([kind |-> "uart load", at |-> Word(8)])
  /\ isr' = IF "RxFifoValidData" \in T!LoadValue(uart, Word(8)).status
            THEN "read" ELSE "complete"
  /\ UNCHANGED id

ReadChar ==
  /\ isr = "read"
  /\ Tick([kind |-> "uart load", at |-> Word(0)])
  /\ isr' = "status"
  /\ UNCHANGED id

Complete ==
  /\ isr = "complete"
  /\ Tick([kind |-> "plic store", reg |-> ClaimReg, val |-> [claim |-> id]])
  /\ isr' = "idle"
  /\ UNCHANGED id

SerialDriver ==
  /\ timer = "idle"
  /\ Idle \/ Claim \/ CheckStatus \/ ReadChar \/ Complete
  /\ TakesTimer
  /\ UNCHANGED deadline

\* The handler of the timer: interrupts are off until its mret.
ReadMtime ==
  /\ timer = "mtime"
  /\ LET acc == [kind |-> "clint load", at |-> [addr |-> C!kMtimeBase, bytes |-> 8]]
     IN  Tick(acc) /\ deadline' = TimeRead(acc) + Period
  /\ timer' = "low"
  /\ UNCHANGED <<isr, id>>

SetHalf(offset, val) ==
  Tick([kind |-> "clint store", at |-> Word(C!kMtimeCmpBase + offset), val |-> val])

SetLow ==
  /\ timer = "low"
  /\ SetHalf(0, deadline % Base^4)
  /\ timer' = "high"
  /\ UNCHANGED <<isr, id, deadline>>

SetHigh ==
  /\ timer = "high"
  /\ SetHalf(4, deadline \div Base^4)
  /\ timer' = "mret"
  /\ UNCHANGED <<isr, id, deadline>>

Mret ==
  /\ timer = "mret"
  /\ Tick(NoAccess)
  /\ TakesTimer
  /\ isr' = Delivered(isr)
  /\ UNCHANGED <<id, deadline>>

Guest == SerialDriver \/ ReadMtime \/ SetLow \/ SetHigh \/ Mret

\* The main thread, guest included; the host's other steps leave the guest.
MainThread ==
  /\ alive
  /\ Guest \/ (Loop /\ UNCHANGED driver)
  /\ UNCHANGED session

DNext ==
  \/ MainThread
  \/ alive /\ Host /\ UNCHANGED <<driver, session>>
  \/ Exited /\ UNCHANGED driver

\* The operating system keeps running the main thread.  Nothing is assumed
\* of the person at the keyboard or of the clock.
DSpec == DInit /\ [][DNext]_dvars /\ WF_dvars(MainThread)

-----------------------------------------------------------------------------

\* Every character typed, and every Ctrl-C, is eventually read by the driver,
\* wherever it falls between the poll of the line, the arbitration and the
\* steps of the handler, unless the program is ended.
EveryKeyArrives ==
  \A n \in UNION {1 .. s.keys + s.signals : s \in Sessions} :
    (Len(seen.pushed) >= n) ~> (Len(seen.received) >= n \/ ~ alive)

\* A SIGINT that finds the main thread outside the window between the push
\* and the clearing of the flag is followed by a Ctrl-C.
CtrlCFollows ==
  \A n \in UNION {0 .. s.signals - 1 : s \in Sessions} :
    (send_ctrl_c /\ main # "clear" /\ seen.ctrlc = n)
      ~> (seen.ctrlc > n \/ ~ alive)

\* The interrupt that announces the end of a transmission does not stay up
\* for ever: the handler's read of a register acknowledges it.
AckReturns == uart.wait_ack ~> (~ uart.wait_ack \/ ~ alive)

\* A handler that was entered finds its interrupt: the line cannot drop, nor
\* the claim be lost, between the tick that took the interrupt and the load
\* of the claim register, even if the timer's handler runs between the two.
NoSpuriousClaim == [][isr = "claim" /\ isr' # "claim" => isr' = "status"]_dvars

\* The timer never rings early: when its interrupt is taken, the host's clock
\* has passed the deadline that was set, both halves of it.
NeverEarly == [][timer # "mtime" /\ timer' = "mtime" => now > deadline]_dvars

\* A deadline that has passed rings: the handler is entered, wherever the
\* serial driver is.
DeadlineRings == (now > deadline) ~> (timer # "idle" \/ ~ alive)
=============================================================================
