--------------------------- MODULE KeyboardProofs ---------------------------
(***************************************************************************)
(* The machine is reset only on request, and the only thing a key or a     *)
(* handler can wait for in vain is the page allocator's lock: for any      *)
(* number of keys, cores and module pages, and wherever the handlers       *)
(* interrupt what.                                                         *)
(***************************************************************************)
EXTENDS Keyboard, TLAPS

(* What has been typed so far asks for a reboot, or for half of one. *)
DeleteTyped == \E i \in 1 .. Len(typed) : typed[i] = "delete"
Requested ==
  \E i, j \in 1 .. Len(typed) : i < j /\ typed[i] = "delete" /\ typed[j] = "escape"

(* Where the handler is going: a Log returns to `after`. *)
Towards == IF handler \in { "log", "logging" } THEN after ELSE handler
RebootPath == { "check FADT", "failed", "map", "mapping", "write" }

RequestInv ==
  /\ typed \in Seq(Keys) /\ pending \subseteq { "timer", "keyboard" }
  /\ DeletePressed \/ Towards = "delete logged" => DeleteTyped
  /\ reset \/ Towards \in RebootPath => Requested
  /\ handler \in { "none", "timer", "keyboard", "log", "logging", "delete logged", "eoi" }
                   \union RebootPath
  /\ handler \in { "log", "logging" } => after \in { "delete logged", "eoi" } \union RebootPath

LEMMA RequestInit == Init => RequestInv
<1> SUFFICES ASSUME Init PROVE RequestInv
  OBVIOUS
<1>1. typed \in Seq(Keys) /\ pending = {}
  BY DEF Init
<1>2. /\ handler = "none" /\ ~DeletePressed /\ ~reset /\ Towards = "none"
  BY DEF Init, Towards
<1>. QED
  BY <1>1, <1>2 DEF RequestInv, RebootPath

(* What was typed stays typed. *)
LEMMA TypedStays ==
  ASSUME typed \in Seq(Keys), typed' \in Seq(Keys), Len(typed) <= Len(typed'),
         \A i \in 1 .. Len(typed) : typed'[i] = typed[i]
  PROVE  (DeleteTyped => DeleteTyped') /\ (Requested => Requested')
<1>1. \A i \in 1 .. Len(typed) : i \in 1 .. Len(typed') /\ typed'[i] = typed[i]
  OBVIOUS
<1>. QED
  BY <1>1 DEF DeleteTyped, Requested

LEMMA PressRequest == ASSUME RequestInv, NEW x \in Keys, Press(x) PROVE RequestInv'
<1>1. /\ typed' = Append(typed, x) /\ UNCHANGED << irq, reset >> /\ typed \in Seq(Keys)
      /\ pending' \subseteq { "timer", "keyboard" }
  BY DEF Press, RequestInv
<1>2. /\ typed' \in Seq(Keys) /\ Len(typed) <= Len(typed')
      /\ \A i \in 1 .. Len(typed) : typed'[i] = typed[i]
  BY <1>1
<1>3. (DeleteTyped => DeleteTyped') /\ (Requested => Requested')
  BY <1>1, <1>2, TypedStays
<1>. QED
  BY <1>1, <1>2, <1>3 DEF RequestInv, Towards, irq

(* A step of others leaves the handler alone, or starts one. *)
LEMMA OthersRequest ==
  ASSUME RequestInv, UNCHANGED << typed, after, DeletePressed, reset >>,
         pending' \subseteq { "timer", "keyboard" },
         handler' # handler => handler = "none" /\ handler' \in { "timer", "keyboard" }
  PROVE  RequestInv'
<1>1. (DeleteTyped' <=> DeleteTyped) /\ (Requested' <=> Requested)
  BY DEF DeleteTyped, Requested
<1>. QED
  BY <1>1 DEF RequestInv, Towards, RebootPath

(* The keyboard's handler: an Escape that counts comes behind a Delete. *)
LEMMA KeyRequest == ASSUME RequestInv, KeyboardInterrupt PROVE RequestInv'
<1>1. /\ UNCHANGED << typed, DeletePressed, reset, pending >> /\ handler = "keyboard"
      /\ typed \in Seq(Keys)
  BY DEF KeyboardInterrupt, RequestInv, apic
<1>2. (DeleteTyped' <=> DeleteTyped) /\ (Requested' <=> Requested)
  BY <1>1 DEF DeleteTyped, Requested
<1>3. CASE PortData = "delete" /\ LogThen("delete logged")
  <2>1. typed # << >> /\ typed[Len(typed)] = "delete"
    BY <1>3 DEF PortData
  <2>2. DeleteTyped
    BY <1>1, <2>1 DEF DeleteTyped
  <2>. QED
    BY <1>1, <1>2, <1>3, <2>2 DEF RequestInv, Towards, RebootPath, LogThen
<1>4. CASE PortData = "escape" /\ DeletePressed /\ LogThen("check FADT")
  <2>1. typed # << >> /\ typed[Len(typed)] = "escape"
    BY <1>4 DEF PortData
  <2>2. PICK i \in 1 .. Len(typed) : typed[i] = "delete"
    BY <1>4 DEF RequestInv, DeleteTyped
  <2>3. i # Len(typed) /\ Len(typed) \in 1 .. Len(typed) /\ i < Len(typed)
    BY <1>1, <2>1, <2>2
  <2>4. Requested
    BY <2>1, <2>2, <2>3 DEF Requested
  <2>. QED
    BY <1>1, <1>2, <1>4, <2>4 DEF RequestInv, Towards, RebootPath, LogThen
<1>5. CASE Continue("eoi")
  BY <1>1, <1>2, <1>5 DEF RequestInv, Towards, RebootPath, Continue
<1>. QED
  BY <1>3, <1>4, <1>5 DEF KeyboardInterrupt

LEMMA HandlerRequest == ASSUME RequestInv, Handler PROVE RequestInv'
<1>1. CASE KeyboardInterrupt
  BY <1>1, KeyRequest
<1>2. CASE ~KeyboardInterrupt
  <2>1. UNCHANGED typed
    BY <1>2 DEF Handler, TimerInterrupt, IrqLogs, IrqLogged, SetDeletePressed, CheckFADT,
                RebootFailed, MapAllocates, Mapped, WriteResetValue, LAPIC_EOI, device
  <2>2. (DeleteTyped' <=> DeleteTyped) /\ (Requested' <=> Requested)
    BY <2>1 DEF DeleteTyped, Requested
  <2> USE DEF RequestInv, Towards, RebootPath, LogThen, Continue
  <2>3. CASE TimerInterrupt
    BY <2>1, <2>2, <2>3 DEF TimerInterrupt, apic
  <2>4. CASE LAPIC_EOI
    BY <2>1, <2>2, <2>4 DEF LAPIC_EOI, apic
  <2>5. CASE IrqLogs
    BY <2>1, <2>2, <2>5 DEF IrqLogs, apic
  <2>6. CASE IrqLogged
    BY <2>1, <2>2, <2>6 DEF IrqLogged, apic
  <2>7. CASE SetDeletePressed
    BY <2>1, <2>2, <2>7 DEF SetDeletePressed, apic
  <2>8. CASE CheckFADT
    BY <2>1, <2>2, <2>8 DEF CheckFADT, apic
  <2>9. CASE RebootFailed
    BY <2>1, <2>2, <2>9 DEF RebootFailed, apic
  <2>10. CASE MapAllocates
    BY <2>1, <2>2, <2>10 DEF MapAllocates, apic
  <2>11. CASE Mapped
    BY <2>1, <2>2, <2>11 DEF Mapped, apic
  <2>12. CASE WriteResetValue
    BY <2>1, <2>2, <2>12 DEF WriteResetValue, irq, apic
  <2>. QED
    BY <1>2, <2>3, <2>4, <2>5, <2>6, <2>7, <2>8, <2>9, <2>10, <2>11, <2>12 DEF Handler
<1>. QED
  BY <1>1, <1>2

LEMMA RequestNext == RequestInv /\ [Next]_vars => RequestInv'
<1> SUFFICES ASSUME RequestInv, [Next]_vars PROVE RequestInv'
  OBVIOUS
<1>1. CASE \E x \in Keys : Press(x)
  BY <1>1, PressRequest
<1>2. CASE Handler
  BY <1>2, HandlerRequest
<1>3. CASE Tick \/ Deliver
  <2>1. CASE Tick
    BY <2>1, OthersRequest DEF Tick, device, irq, RequestInv
  <2>2. CASE Deliver
    BY <2>2, OthersRequest DEF Deliver, device, RequestInv
  <2>. QED
    BY <1>3, <2>1, <2>2
<1>4. CASE Main
  <2>1. UNCHANGED << typed, pending, irq, reset >>
    BY <1>4 DEF Main, CreateRedirectionEntry, Drain, CoresOnline, ModuleAllocate,
                ModuleAllocated, MainHalts, device, apic
  <2>. QED
    BY <2>1, OthersRequest DEF irq, RequestInv
<1>5. CASE \E c \in OtherCores : Core(c)
  <2>1. UNCHANGED << typed, pending, irq, reset >>
    BY <1>5 DEF Core, CoreLogs, CoreLogged, CoreLoads, CoreHalts, device, apic
  <2>. QED
    BY <2>1, OthersRequest DEF irq, RequestInv
<1>6. CASE UNCHANGED vars
  BY <1>6, OthersRequest DEF vars, device, apic, irq, RequestInv
<1>. QED
  BY <1>1, <1>2, <1>3, <1>4, <1>5, <1>6 DEF Next

(* The machine is reset only after somebody has pressed Delete and later
   Escape: a byte that is read twice, or left from before start-up, or that
   another handler has acted upon, does not count as a second key.  For any
   number of keys, at any moment of start-up. *)
THEOREM ResetOnRequest == Spec => []RebootOnRequest
<1>1. RequestInv => RebootOnRequest
  <2>1. ASSUME typed \in Seq(Keys) PROVE DOMAIN typed = 1 .. Len(typed)
    BY <2>1
  <2>. QED
    BY <2>1 DEF RequestInv, RebootOnRequest, Requested
<1>. QED
  BY RequestInit, RequestNext, <1>1, PTL DEF Spec

-----------------------------------------------------------------------------
(* Who waits for what *)

Places == { "delete logged", "check FADT", "eoi", "failed" }

(* Each lock is held by whom its owner's place says, and by nobody else. *)
LockInv ==
  /\ pageLock \in { "nobody", "main", "irq" }
  /\ pageLock = "main" <=> main = "allocating"
  /\ pageLock = "irq" <=> handler = "mapping"
  /\ logOwner \in { "nobody", "irq" } \union OtherCores
  /\ logOwner = "irq" <=> handler = "logging"
  /\ core \in [OtherCores -> { "online", "logging", "load", "store", "halted" }]
  /\ \A c \in OtherCores : logOwner = c <=> core[c] = "logging"

(* Where a Log of the handler returns to; an interrupt is in service while
   its handler runs; a byte in the keyboard's buffer is one that start-up
   will discard, or its interrupt is on its way to the handler. *)
KeyInv ==
  /\ pending \subseteq { "timer", "keyboard" }
  /\ handler \in { "log", "logging" } => after \in Places
  /\ inService = {} <=> handler = "none"
  /\ masked <=> main = "ioapic"
  /\ outputFull => \/ main \in { "ioapic", "drain" }
                   \/ "keyboard" \in pending
                   \/ handler = "keyboard"

WaitInv == LockInv /\ KeyInv

LEMMA WaitInit == Init => WaitInv
<1> SUFFICES ASSUME Init PROVE WaitInv
  OBVIOUS
<1>1. LockInv
  BY KeyboardAssumption DEF Init, LockInv
<1>2. KeyInv
  BY DEF Init, KeyInv
<1>. QED
  BY <1>1, <1>2 DEF WaitInv

LEMMA WaitMain == ASSUME WaitInv, Main PROVE WaitInv'
<1> USE DEF WaitInv, LockInv, KeyInv, MainRuns, device, apic, irq, cores
<1>1. CASE CreateRedirectionEntry
  BY <1>1 DEF CreateRedirectionEntry
<1>2. CASE Drain
  BY <1>2 DEF Drain
<1>3. CASE CoresOnline
  BY <1>3 DEF CoresOnline
<1>4. CASE ModuleAllocate
  BY <1>4 DEF ModuleAllocate
<1>5. CASE ModuleAllocated
  BY <1>5 DEF ModuleAllocated
<1>6. CASE MainHalts
  BY <1>6 DEF MainHalts
<1>. QED
  BY <1>1, <1>2, <1>3, <1>4, <1>5, <1>6 DEF Main

LEMMA WaitCore == ASSUME WaitInv, NEW c \in OtherCores, Core(c) PROVE WaitInv'
<1>1. UNCHANGED << device, apic, bsp, irq, pageLock >>
  BY DEF Core, CoreLogs, CoreLogged, CoreLoads, CoreHalts
<1>2. \A d \in OtherCores : d # "nobody" /\ d # "irq"
  BY KeyboardAssumption
<1>3. KeyInv'
  BY <1>1 DEF WaitInv, KeyInv, device, apic, bsp, irq
<1>4. LockInv'
  <2> USE <1>1, <1>2 DEF WaitInv, LockInv, bsp, irq
  <2>1. CASE CoreLogs(c)
    BY <2>1 DEF CoreLogs
  <2>2. CASE CoreLogged(c)
    BY <2>2 DEF CoreLogged
  <2>3. CASE CoreLoads(c)
    BY <2>3 DEF CoreLoads
  <2>4. CASE CoreHalts(c)
    BY <2>4 DEF CoreHalts
  <2>. QED
    BY <2>1, <2>2, <2>3, <2>4 DEF Core
<1>. QED
  BY <1>3, <1>4 DEF WaitInv

LEMMA WaitHandler == ASSUME WaitInv, Handler PROVE WaitInv'
<1> USE DEF WaitInv, LockInv, KeyInv, Places, LogThen, Continue, device, apic, bsp, cores
<1>0. \A c \in OtherCores : c # "nobody" /\ c # "irq"
  BY KeyboardAssumption
<1>1. CASE TimerInterrupt
  BY <1>1 DEF TimerInterrupt
<1>2. CASE KeyboardInterrupt
  BY <1>2 DEF KeyboardInterrupt
<1>3. CASE IrqLogs
  BY <1>0, <1>3 DEF IrqLogs
<1>4. CASE IrqLogged
  BY <1>0, <1>4 DEF IrqLogged
<1>5. CASE SetDeletePressed
  BY <1>5 DEF SetDeletePressed
<1>6. CASE CheckFADT
  BY <1>6 DEF CheckFADT
<1>7. CASE RebootFailed
  BY <1>7 DEF RebootFailed
<1>8. CASE MapAllocates
  BY <1>8 DEF MapAllocates
<1>9. CASE Mapped
  BY <1>9 DEF Mapped
<1>10. CASE WriteResetValue
  BY <1>10 DEF WriteResetValue, irq
<1>11. CASE LAPIC_EOI
  BY <1>11 DEF LAPIC_EOI
<1>. QED
  BY <1>1, <1>2, <1>3, <1>4, <1>5, <1>6, <1>7, <1>8, <1>9, <1>10, <1>11 DEF Handler

LEMMA WaitNext == WaitInv /\ [Next]_vars => WaitInv'
<1> SUFFICES ASSUME WaitInv, [Next]_vars PROVE WaitInv'
  OBVIOUS
<1> USE DEF WaitInv, LockInv, KeyInv, cores
<1>1. CASE \E x \in Keys : Press(x)
  BY <1>1 DEF Press, bsp, irq
<1>2. CASE Tick
  BY <1>2 DEF Tick, device, bsp, irq
<1>3. CASE Deliver
  BY <1>3 DEF Deliver, device, bsp
<1>4. CASE Main \/ Handler \/ \E c \in OtherCores : Core(c)
  BY <1>4, WaitMain, WaitHandler, WaitCore
<1>5. CASE UNCHANGED vars
  BY <1>5 DEF vars, device, apic, bsp, irq
<1>. QED
  BY <1>1, <1>2, <1>3, <1>4, <1>5 DEF Next

(* No key waits for an interrupt that does not come, and no handler for
   somebody who cannot go on, but in one place. *)
NothingStuck ==
  /\ outputFull => \/ main \in { "ioapic", "drain" }
                   \/ "keyboard" \in pending
                   \/ handler = "keyboard"
  /\ handler = "none" => inService = {}
  /\ handler = "log" /\ logOwner # "nobody" =>
       \E c \in OtherCores : logOwner = c /\ core[c] = "logging"
  /\ handler = "map" /\ pageLock # "nobody" => main = "allocating"

(* A byte is left in the keyboard's buffer only while start-up has still to
   discard it or its interrupt is accepted or being handled; no interrupt is
   left unacknowledged; and a handler waits for another core's Log, which
   ends, except where it wants a page in the middle of start-up's own
   AllocatePage: the one way a handler hangs (keyboard_lock).  For any number of
   keys, cores and module pages and any reset register. *)
THEOREM OnlyOneHang == Spec => []NothingStuck
<1>1. WaitInv => NothingStuck
  BY DEF WaitInv, LockInv, KeyInv, NothingStuck
<1>. QED
  BY WaitInit, WaitNext, <1>1, PTL DEF Spec
=============================================================================
