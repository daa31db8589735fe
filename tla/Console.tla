------------------------------ MODULE Console -------------------------------
(***************************************************************************)
(* The terminal and the panics: Log, Print and PutChar of                  *)
(* kernel/src/terminal/terminal.cpp, the serial port below them            *)
(* (hal/debug/serial.cpp), Panic and PanicFromException of libs/kernel.cpp *)
(* above them.  Every core may log, panic or take an exception.            *)
(*                                                                         *)
(* A text is the sequence of the characters a call writes.  Of a character *)
(* it matters which Print writes it, and whether it is a newline: `run` is *)
(* 0 for a character of the format itself, which Log gives to PutChar, and *)
(* otherwise the number of the Print (the prefix, an argument).            *)
(***************************************************************************)
EXTENDS Naturals, SequencesExt

CONSTANTS
  Cores,     \* the cores
  Boot,      \* the boot processor
  Splash,    \* the text _start prints before any other core runs
  Texts,     \* what the callers of Log write
  Report,    \* what the three calls of a panic write
  MaxCalls   \* calls of Log a core makes besides its panic

None == "none"
PanicLocks == { "PanicLock", "PanicLock2" }
Locks == { "LogSpinlock", "PrintLock", "PutCharLock" } \union PanicLocks

Char == [run : Nat, newline : BOOLEAN]
IsText(t) == t \in Seq(Char) /\ t # << >>

ASSUME ConsoleAssumption ==
  /\ Boot \in Cores
  /\ IsText(Splash) /\ \A i \in DOMAIN Splash : Splash[i].run = 1
  /\ \A t \in Texts : IsText(t)
  /\ Len(Report) = 3 /\ \A i \in 1 .. 3 : IsText(Report[i])
  /\ MaxCalls \in Nat

VARIABLES
  lock,     \* which spinlocks are taken
  pc,       \* where each core is
  call,     \* number of the last call of Log or Print of each core
  text,     \* what that call writes
  pos,      \* the character it is at
  panic,    \* the lock of the core's panic, None without one
  report,   \* calls of Log the panic has made
  screen,   \* what flanterm_write was given
  thr,      \* the serial port's holding register: what it holds, if anything
  wire      \* what the serial port has sent

core == << pc, call, text, pos, panic, report >>
vars == << lock, core, screen, thr, wire >>

Goto(c, label) == pc' = [pc EXCEPT ![c] = label]
Taken(l, b) == lock' = [lock EXCEPT ![l] = b]

(* SpinlockAquire and SpinlockRelease *)
Acquire(l) == ~lock[l] /\ Taken(l, TRUE)
Release(l) == Taken(l, FALSE)

Init ==
  /\ lock = [l \in Locks |-> FALSE]
  /\ pc = [c \in Cores |-> IF c = Boot THEN "idle" ELSE "off"]
  /\ call = [c \in Cores |-> 0]
  /\ text = [c \in Cores |-> << >>]
  /\ pos = [c \in Cores |-> 1]
  /\ panic = [c \in Cores |-> None]
  /\ report = [c \in Cores |-> 0]
  /\ screen = << >> /\ thr = << >> /\ wire = << >>

(* Not in a call of Log or Print. *)
Outside == { "off", "idle", "panic", "report", "halted" }
InCall(c) == pc[c] \notin Outside

(* _start's Print has returned; core c is in it. *)
Splashed == call[Boot] > 1 \/ (call[Boot] = 1 /\ ~InCall(Boot))
InSplash(c) == c = Boot /\ call[c] = 1

-----------------------------------------------------------------------------
(* The callers *)

Begin(c, t, label) ==
  /\ call' = [call EXCEPT ![c] = @ + 1]
  /\ text' = [text EXCEPT ![c] = t]
  /\ pos' = [pos EXCEPT ![c] = 1]
  /\ Goto(c, label)

PrintSplash ==
  /\ call[Boot] = 0
  /\ Begin(Boot, Splash, "print")
  /\ UNCHANGED << lock, panic, report, screen, thr, wire >>

(* CPUJump: another core starts. *)
StartCore(c) ==
  /\ Splashed
  /\ pc[c] = "off"
  /\ Goto(c, "idle")
  /\ UNCHANGED << lock, call, text, pos, panic, report, screen, thr, wire >>

CallLog(c) ==
  /\ Splashed
  /\ pc[c] = "idle"
  /\ call[c] < MaxCalls + (IF c = Boot THEN 1 ELSE 0)
  /\ \E t \in Texts : Begin(c, t, "log")
  /\ UNCHANGED << lock, panic, report, screen, thr, wire >>

(* A call of Panic, or an exception and with it PanicFromException: each
   has a lock of its own. *)
CallPanic(c) ==
  /\ Splashed
  /\ pc[c] = "idle"
  /\ \E l \in PanicLocks : panic' = [panic EXCEPT ![c] = l]
  /\ Goto(c, "panic")
  /\ UNCHANGED << lock, call, text, pos, report, screen, thr, wire >>

(* Mutant: a panic takes no lock. *)
PanicAcquire_NoLock(c) ==
  /\ pc[c] = "panic"
  /\ Goto(c, "report")
  /\ UNCHANGED << lock, call, text, pos, panic, report, screen, thr, wire >>

PanicAcquire(c) ==
  /\ pc[c] = "panic"
  /\ Acquire(panic[c])
  /\ Goto(c, "report")
  /\ UNCHANGED << call, text, pos, panic, report, screen, thr, wire >>

PanicLogs(c) ==
  /\ pc[c] = "report"
  /\ report[c] < 3
  /\ report' = [report EXCEPT ![c] = @ + 1]
  /\ Begin(c, Report[report[c] + 1], "log")
  /\ UNCHANGED << lock, panic, screen, thr, wire >>

PanicHalts(c) ==
  /\ pc[c] = "report"
  /\ report[c] = 3
  /\ Release(panic[c])
  /\ Goto(c, "halted")
  /\ UNCHANGED << call, text, pos, panic, report, screen, thr, wire >>

-----------------------------------------------------------------------------
(* Log, Print, PutChar *)

(* Mutant: Log takes no lock. *)
LogAcquire_NoLock(c) ==
  /\ pc[c] = "log"
  /\ Goto(c, "format")
  /\ UNCHANGED << lock, call, text, pos, panic, report, screen, thr, wire >>

LogAcquire(c) ==
  /\ pc[c] = "log"
  /\ Acquire("LogSpinlock")
  /\ Goto(c, "format")
  /\ UNCHANGED << call, text, pos, panic, report, screen, thr, wire >>

(* Mutant: the loop stops before the last character. *)
Finished_Early(c) == pos[c] >= Len(text[c])

Finished(c) == pos[c] > Len(text[c])

(* Log's loop over the format: a Print, a PutChar, or the end. *)
Format(c) ==
  /\ pc[c] = "format"
  /\ ~Finished(c)
  /\ Goto(c, IF text[c][pos[c]].run = 0 THEN "put" ELSE "print")
  /\ UNCHANGED << lock, call, text, pos, panic, report, screen, thr, wire >>

LogRelease(c) ==
  /\ pc[c] = "format"
  /\ Finished(c)
  /\ Release("LogSpinlock")
  /\ Goto(c, IF panic[c] = None THEN "idle" ELSE "report")
  /\ UNCHANGED << call, text, pos, panic, report, screen, thr, wire >>

PrintAcquire(c) ==
  /\ pc[c] = "print"
  /\ Acquire("PrintLock")
  /\ Goto(c, "put")
  /\ UNCHANGED << call, text, pos, panic, report, screen, thr, wire >>

(* Mutant: Print returns without giving its lock back. *)
PrintRelease_Kept(c) ==
  /\ pc[c] = "printed"
  /\ Goto(c, IF InSplash(c) THEN "idle" ELSE "format")
  /\ UNCHANGED << lock, call, text, pos, panic, report, screen, thr, wire >>

PrintRelease(c) ==
  /\ pc[c] = "printed"
  /\ Release("PrintLock")
  /\ Goto(c, IF InSplash(c) THEN "idle" ELSE "format")
  /\ UNCHANGED << call, text, pos, panic, report, screen, thr, wire >>

PutAcquire(c) ==
  /\ pc[c] = "put"
  /\ Acquire("PutCharLock")
  /\ Goto(c, "flanterm")
  /\ UNCHANGED << call, text, pos, panic, report, screen, thr, wire >>

(* The character a core writes, with where it comes from. *)
Token(c) ==
  [core |-> c, call |-> call[c], pos |-> pos[c], panic |-> panic[c],
   newline |-> text[c][pos[c]].newline, last |-> pos[c] = Len(text[c])]

CR == [core |-> Boot, call |-> 0, pos |-> 0, panic |-> None,
       newline |-> FALSE, last |-> FALSE]

FlantermWrite(c) ==
  /\ pc[c] = "flanterm"
  /\ screen' = Append(screen, Token(c))
  /\ Goto(c, IF Token(c).newline THEN "return" ELSE "byte")
  /\ UNCHANGED << lock, call, text, pos, panic, report, thr, wire >>

(* Mutant: BlockUntilEmpty does not wait. *)
WriteCharacter_NoWait(ch) == thr' = << ch >>

(* WriteCharacter: BlockUntilEmpty, then the port's data register. *)
WriteCharacter(ch) == thr = << >> /\ thr' = << ch >>

WriteReturn(c) ==
  /\ pc[c] = "return"
  /\ WriteCharacter(CR)
  /\ Goto(c, "byte")
  /\ UNCHANGED << lock, call, text, pos, panic, report, screen, wire >>

WriteByte(c) ==
  /\ pc[c] = "byte"
  /\ WriteCharacter(Token(c))
  /\ Goto(c, "put done")
  /\ UNCHANGED << lock, call, text, pos, panic, report, screen, wire >>

(* PutChar returns: to Log, or to Print and its next character. *)
PutRelease(c) ==
  /\ pc[c] = "put done"
  /\ Release("PutCharLock")
  /\ pos' = [pos EXCEPT ![c] = @ + 1]
  /\ LET run == text[c][pos[c]].run
         more == pos[c] < Len(text[c]) /\ text[c][pos[c] + 1].run = run
     IN Goto(c, IF run = 0 THEN "format" ELSE IF more THEN "put" ELSE "printed")
  /\ UNCHANGED << call, text, panic, report, screen, thr, wire >>

(* The serial port sends what it holds. *)
Transmit ==
  /\ thr # << >>
  /\ wire' = wire \o thr
  /\ thr' = << >>
  /\ UNCHANGED << lock, core, screen >>

-----------------------------------------------------------------------------
Run(c) ==
  \/ PanicAcquire(c) \/ PanicLogs(c) \/ PanicHalts(c)
  \/ LogAcquire(c) \/ Format(c) \/ LogRelease(c)
  \/ PrintAcquire(c) \/ PrintRelease(c)
  \/ PutAcquire(c) \/ FlantermWrite(c) \/ WriteReturn(c) \/ WriteByte(c) \/ PutRelease(c)

Next ==
  \/ PrintSplash \/ Transmit
  \/ \E c \in Cores : StartCore(c) \/ CallLog(c) \/ CallPanic(c) \/ Run(c)

Spec == Init /\ [][Next]_vars

(* A core in a call keeps executing, the serial port keeps sending; nobody
   is obliged to log or to panic.  Callers are finitely many, so that a
   core is not overtaken for ever. *)
Fairness == WF_vars(Transmit) /\ \A c \in Cores : WF_vars(Run(c))

FairSpec == Spec /\ Fairness
-----------------------------------------------------------------------------
InPutChar == { "flanterm", "return", "byte", "put done" }

(* What one call of Log or Print writes comes out in one piece: whatever is
   between its first and its last character on the screen is its own, in
   order, also when another core panics meanwhile. *)
TextsWhole ==
  \A i \in DOMAIN screen :
    LET t == screen[i] IN
    IF t.pos = 1
    THEN i > 1 => screen[i - 1].last
    ELSE i > 1 /\ LET u == screen[i - 1]
                  IN << u.core, u.call, u.pos >> = << t.core, t.call, t.pos - 1 >>

(* What the serial port is to send for what is on the screen. *)
Serial(s) == FlattenSeq([i \in DOMAIN s |->
               IF s[i].newline THEN << CR, s[i] >> ELSE << s[i] >>])

(* The serial port sends what the screen shows, each newline after a carriage
   return and no character lost in a register that was still full; outside
   PutChar the two agree. *)
SerialFollows ==
  LET sent == wire \o thr
  IN /\ IsPrefix(sent, Serial(screen))
     /\ (\A c \in Cores : pc[c] \notin InPutChar) => sent = Serial(screen)

(* The reports of two panics that share a lock do not mix: between two
   characters of one there is none of the other.  (Two panics under different
   locks, and other cores' lines, may.) *)
Reporting(c, l) == { i \in DOMAIN screen : screen[i].core = c /\ screen[i].panic = l }
ReportsApart ==
  \A l \in PanicLocks : \A c, d \in Cores :
    c # d => \A i, k \in Reporting(c, l) : \A j \in Reporting(d, l) : ~(i < j /\ j < k)

(* The log keeps its promise to each of its callers. *)
Lines(s) == FlattenSeq([i \in DOMAIN s |->
              IF s[i].last THEN << << s[i].core, s[i].call >> >> ELSE << >>])
Promise == INSTANCE KernelLog WITH
             active <- [c \in Cores |-> IF InCall(c) THEN call[c] ELSE 0],
             done <- [c \in Cores |-> IF InCall(c) THEN call[c] - 1 ELSE call[c]],
             lines <- Lines(screen)
KeepsPromise == Promise!Spec

(* No call of Log or Print and no panic waits for ever, for a lock or for the
   serial port: each returns, or halts with its report out. *)
CallsReturn ==
  \A c \in Cores : pc[c] \notin { "off", "idle", "halted" } ~> pc[c] \in { "idle", "halted" }
=============================================================================
