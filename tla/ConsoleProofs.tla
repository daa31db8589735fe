--------------------------- MODULE ConsoleProofs ----------------------------
(***************************************************************************)
(* The three nested locks of the console keep every text in one piece and  *)
(* the serial port in step with the screen, none of them is waited for in  *)
(* a circle, and Log keeps its promise to its callers, for any number of   *)
(* cores that log, panic and take exceptions, and any texts.               *)
(***************************************************************************)
EXTENDS Console, SequenceTheorems, WellFoundedInduction, TLAPS

(* Between the acquisition and the release of LogSpinlock, or in _start's
   Print, which takes no LogSpinlock. *)
Writing == InPutChar \union { "format", "print", "printed", "put" }
Busy(c) == pc[c] \in Writing

(* A character is at hand. *)
AtCharacter == InPutChar \union { "put", "print" }

(* How many characters of its text a core has written. *)
Written(c) == IF pc[c] \in { "return", "byte", "put done" } THEN pos[c] ELSE pos[c] - 1

Labels == { "off", "idle", "panic", "report", "halted", "log", "format", "print",
            "printed", "put", "flanterm", "return", "byte", "put done" }

Tokens == [core : Cores, call : Nat, pos : Nat, panic : PanicLocks \union {None},
           newline : BOOLEAN, last : BOOLEAN]

ConsoleTypeOK ==
  /\ lock \in [Locks -> BOOLEAN]
  /\ pc \in [Cores -> Labels]
  /\ call \in [Cores -> Nat]
  /\ text \in [Cores -> Seq(Char)]
  /\ pos \in [Cores -> Nat \ {0}]
  /\ panic \in [Cores -> PanicLocks \union {None}]
  /\ report \in [Cores -> 0 .. 3]
  /\ screen \in Seq(Tokens)

(* Only the boot processor runs during its Print; otherwise the core that
   writes holds LogSpinlock, and is the only one. *)
OneBusy == \A c, d \in Cores : Busy(c) /\ Busy(d) => c = d
BusyHolds == \A c \in Cores : Busy(c) /\ ~InSplash(c) => lock["LogSpinlock"]
SplashAlone ==
  ~Splashed =>
    /\ \A c \in Cores \ {Boot} : pc[c] = "off"
    /\ \/ pc[Boot] = "idle" /\ call[Boot] = 0
       \/ Busy(Boot) /\ call[Boot] = 1

LockInv == OneBusy /\ BusyHolds /\ SplashAlone

(* Where a core is in its text. *)
PlaceOf(c) ==
  /\ pc[c] = "log" => pos[c] = 1 /\ text[c] # << >>
  /\ Busy(c) => text[c] # << >> /\ pos[c] <= Len(text[c]) + 1
  /\ pc[c] \in AtCharacter => pos[c] <= Len(text[c])
  /\ Busy(c) /\ InSplash(c) => pc[c] # "format" /\ text[c] = Splash
  /\ pc[c] = "printed" /\ InSplash(c) => pos[c] = Len(text[c]) + 1
PlaceInv == \A c \in Cores : PlaceOf(c)

(* The screen ends with what the writing core has written of its text, or, if
   that is nothing or there is no such core, with a whole text. *)
EndsWhole == screen # << >> => screen[Len(screen)].last
EndsWith(c) ==
  LET t == screen[Len(screen)]
  IN /\ screen # << >>
     /\ t.core = c /\ t.call = call[c] /\ t.pos = Written(c)
     /\ t.last <=> Written(c) = Len(text[c])
ScreenInv ==
  /\ \A c \in Cores : Busy(c) /\ Written(c) > 0 => EndsWith(c)
  /\ (\A c \in Cores : Busy(c) => Written(c) = 0) => EndsWhole

ConsoleInv == ConsoleTypeOK /\ LockInv /\ PlaceInv /\ ScreenInv /\ TextsWhole

LEMMA ConsoleInit == Init => ConsoleInv
<1> SUFFICES ASSUME Init PROVE ConsoleInv
  OBVIOUS
<1> USE ConsoleAssumption DEF Init
<1>1. ConsoleTypeOK
  BY DEF ConsoleTypeOK, Labels, Locks, PanicLocks
<1>2. LockInv
  <2>1. \A c \in Cores : ~Busy(c)
    BY DEF Busy, Writing, InPutChar
  <2>2. pc[Boot] = "idle" /\ call[Boot] = 0 /\ \A c \in Cores \ {Boot} : pc[c] = "off"
    OBVIOUS
  <2>3. SplashAlone
    BY <2>2 DEF SplashAlone
  <2>. QED
    BY <2>1, <2>3 DEF LockInv, OneBusy, BusyHolds
<1>3. PlaceInv
  BY DEF PlaceInv, PlaceOf, Busy, Writing, InPutChar, AtCharacter
<1>4. ScreenInv /\ TextsWhole
  BY DEF ScreenInv, EndsWhole, EndsWith, Busy, Writing, InPutChar, TextsWhole
<1>. QED
  BY <1>1, <1>2, <1>3, <1>4 DEF ConsoleInv

(* The place of a core, and its character. *)
LEMMA PlaceFacts ==
  ASSUME ConsoleInv, NEW c \in Cores
  PROVE  /\ pos[c] \in Nat \ {0} /\ Len(text[c]) \in Nat /\ call[c] \in Nat
         /\ pc[c] \in AtCharacter => text[c][pos[c]] \in Char /\ pos[c] <= Len(text[c])
<1>1. pos[c] \in Nat \ {0} /\ text[c] \in Seq(Char) /\ call[c] \in Nat
  BY DEF ConsoleInv, ConsoleTypeOK
<1>2. pc[c] \in AtCharacter => pos[c] <= Len(text[c])
  BY DEF ConsoleInv, PlaceInv, PlaceOf
<1>3. Len(text[c]) \in Nat /\ \A i \in 1 .. Len(text[c]) : text[c][i] \in Char
  BY <1>1
<1>. QED
  BY <1>1, <1>2, <1>3

LEMMA WrittenNat ==
  ASSUME ConsoleInv, NEW c \in Cores
  PROVE  Written(c) \in Nat
<1>1. pos[c] \in Nat \ {0}
  BY PlaceFacts
<1>2. pos[c] - 1 \in Nat
  BY <1>1
<1>. QED
  BY <1>1, <1>2 DEF Written

(* Steps that write nothing, and end no text but a finished one. *)
LEMMA ScreenStays ==
  ASSUME ConsoleInv, UNCHANGED screen,
         \A c \in Cores : Busy(c)' /\ Written(c)' > 0 =>
            Busy(c) /\ Written(c)' = Written(c) /\ call'[c] = call[c] /\ text'[c] = text[c],
         \A c \in Cores : Busy(c) /\ Written(c) > 0 =>
            \/ Busy(c)' /\ Written(c)' = Written(c)
            \/ Written(c) = Len(text[c])
  PROVE  ScreenInv' /\ TextsWhole'
<1> USE DEF ConsoleInv
<1>1. TextsWhole'
  BY DEF TextsWhole
<1>2. ASSUME NEW c \in Cores, Busy(c)', Written(c)' > 0 PROVE EndsWith(c)'
  BY <1>2 DEF ScreenInv, EndsWith
<1>3. ASSUME \A c \in Cores : Busy(c)' => Written(c)' = 0 PROVE EndsWhole'
  <2>1. ASSUME NEW c \in Cores, Busy(c), Written(c) # 0
        PROVE  screen[Len(screen)].last
    <3>1. Written(c) \in Nat
      BY WrittenNat
    <3>2. Written(c) = Len(text[c])
      BY <1>3, <2>1, <3>1
    <3>3. EndsWith(c)
      BY <2>1, <3>1 DEF ScreenInv
    <3>. QED
      BY <3>2, <3>3 DEF EndsWith
  <2>. QED
    BY <2>1 DEF ScreenInv, EndsWhole
<1>. QED
  BY <1>1, <1>2, <1>3 DEF ScreenInv

(* A core's step up to the next character: which labels it leads between. *)
Moves(c) ==
  LogAcquire(c) \/ Format(c) \/ LogRelease(c) \/ PrintAcquire(c) \/ PrintRelease(c)
  \/ PutAcquire(c) \/ WriteReturn(c) \/ WriteByte(c) \/ PutRelease(c)

Calls(c) == StartCore(c) \/ CallLog(c) \/ CallPanic(c) \/ PanicAcquire(c) \/ PanicLogs(c)
            \/ PanicHalts(c)

LEMMA BeginType ==
  ASSUME ConsoleInv, NEW c \in Cores, NEW t \in Seq(Char), NEW label \in Labels,
         Begin(c, t, label)
  PROVE  /\ call' \in [Cores -> Nat] /\ text' \in [Cores -> Seq(Char)]
         /\ pos' \in [Cores -> Nat \ {0}] /\ pc' \in [Cores -> Labels]
<1> DEFINE S == Seq(Char)
<1>1. call \in [Cores -> Nat] /\ text \in [Cores -> S] /\ pos \in [Cores -> Nat \ {0}]
      /\ pc \in [Cores -> Labels] /\ t \in S
  BY DEF ConsoleInv, ConsoleTypeOK
<1> HIDE DEF S
<1>2. call' \in [Cores -> Nat] /\ pos' \in [Cores -> Nat \ {0}] /\ pc' \in [Cores -> Labels]
  BY <1>1 DEF Begin, Goto
<1>3. text' \in [Cores -> S]
  BY <1>1 DEF Begin
<1>. QED
  BY <1>2, <1>3 DEF S

LEMMA PanicLogsType ==
  ASSUME ConsoleInv, NEW c \in Cores, PanicLogs(c)
  PROVE  ConsoleTypeOK'
<1>1. report \in [Cores -> 0 .. 3] /\ report[c] < 3
      /\ report' = [report EXCEPT ![c] = report[c] + 1]
      /\ Begin(c, Report[report[c] + 1], "log")
      /\ UNCHANGED << lock, panic, screen >>
  BY DEF PanicLogs, ConsoleInv, ConsoleTypeOK
<1>2. report[c] + 1 \in 1 .. 3
  BY <1>1
<1>3. report' \in [Cores -> 0 .. 3]
  BY <1>1, <1>2
<1>4. Report[report[c] + 1] \in Seq(Char)
  BY <1>2, ConsoleAssumption DEF IsText
<1>5. call' \in [Cores -> Nat] /\ text' \in [Cores -> Seq(Char)]
      /\ pos' \in [Cores -> Nat \ {0}] /\ pc' \in [Cores -> Labels]
  BY <1>1, <1>4, BeginType DEF Labels
<1>. QED
  BY <1>1, <1>3, <1>5 DEF ConsoleInv, ConsoleTypeOK

LEMMA MovesType ==
  ASSUME ConsoleInv, NEW c \in Cores, Moves(c)
  PROVE  ConsoleTypeOK'
<1>1. lock \in [Locks -> BOOLEAN] /\ pc \in [Cores -> Labels] /\ pos \in [Cores -> Nat \ {0}]
  BY DEF ConsoleInv, ConsoleTypeOK
<1>2. UNCHANGED << call, text, panic, report, screen >>
  BY DEF Moves, LogAcquire, Format, LogRelease, PrintAcquire, PrintRelease, PutAcquire,
         WriteReturn, WriteByte, PutRelease
<1>3. \E label \in Labels : pc' = [pc EXCEPT ![c] = label]
  BY DEF Moves, LogAcquire, Format, LogRelease, PrintAcquire, PrintRelease, PutAcquire,
         WriteReturn, WriteByte, PutRelease, Goto, Labels
<1>4. lock' = lock \/ \E l \in Locks, b \in BOOLEAN : lock' = [lock EXCEPT ![l] = b]
  BY DEF Moves, LogAcquire, Format, LogRelease, PrintAcquire, PrintRelease, PutAcquire,
         WriteReturn, WriteByte, PutRelease, Acquire, Release, Taken, Locks
<1>5. pos' = pos \/ pos' = [pos EXCEPT ![c] = pos[c] + 1]
  BY DEF Moves, LogAcquire, Format, LogRelease, PrintAcquire, PrintRelease, PutAcquire,
         WriteReturn, WriteByte, PutRelease
<1>6. pc' \in [Cores -> Labels]
  BY <1>1, <1>3
<1>7. lock' \in [Locks -> BOOLEAN]
  BY <1>1, <1>4
<1>8. pos' \in [Cores -> Nat \ {0}]
  <2>1. pos[c] + 1 \in Nat \ {0}
    BY <1>1
  <2>. QED
    BY <1>1, <1>5, <2>1
<1>. QED
  BY <1>2, <1>6, <1>7, <1>8 DEF ConsoleInv, ConsoleTypeOK

LEMMA TokenType ==
  ASSUME ConsoleInv, NEW c \in Cores, pc[c] \in AtCharacter
  PROVE  Token(c) \in Tokens
<1>1. text[c][pos[c]] \in Char /\ pos[c] \in Nat /\ call[c] \in Nat
  BY PlaceFacts
<1>2. text[c][pos[c]].newline \in BOOLEAN
  BY <1>1 DEF Char
<1>3. panic[c] \in PanicLocks \union {None}
  BY DEF ConsoleInv, ConsoleTypeOK
<1> DEFINE nl == text[c][pos[c]].newline
           end == pos[c] = Len(text[c])
<1>4. end \in BOOLEAN
  OBVIOUS
<1>5. Token(c) = [core |-> c, call |-> call[c], pos |-> pos[c], panic |-> panic[c],
                  newline |-> nl, last |-> end]
  BY DEF Token
<1> HIDE DEF nl, end
<1>. QED
  BY <1>1, <1>2, <1>3, <1>4, <1>5 DEF Tokens, nl

LEMMA FlantermType ==
  ASSUME ConsoleInv, NEW c \in Cores, FlantermWrite(c)
  PROVE  ConsoleTypeOK'
<1>1. Token(c) \in Tokens
  BY TokenType DEF FlantermWrite, AtCharacter, InPutChar
<1>2. screen \in Seq(Tokens) /\ screen' = Append(screen, Token(c))
  BY DEF FlantermWrite, ConsoleInv, ConsoleTypeOK
<1>3. screen' \in Seq(Tokens)
  BY <1>1, <1>2
<1>4. pc' \in [Cores -> Labels]
  BY DEF FlantermWrite, Goto, Labels, ConsoleInv, ConsoleTypeOK
<1>5. UNCHANGED << lock, call, text, pos, panic, report >>
  BY DEF FlantermWrite
<1>. QED
  BY <1>3, <1>4, <1>5 DEF ConsoleInv, ConsoleTypeOK

LEMMA TypeStep == ConsoleInv /\ [Next]_vars => ConsoleTypeOK'
<1> SUFFICES ASSUME ConsoleInv, [Next]_vars PROVE ConsoleTypeOK'
  OBVIOUS
<1> USE ConsoleAssumption DEF ConsoleInv, ConsoleTypeOK, Goto, Taken, Acquire, Release, Labels, core
<1>1. CASE PrintSplash
  <2>1. Splash \in Seq(Char) /\ "print" \in Labels
    BY DEF IsText
  <2>. QED
    BY <1>1, <2>1, BeginType DEF PrintSplash
<1>2. CASE Transmit \/ UNCHANGED vars
  BY <1>2 DEF Transmit, vars
<1>3. ASSUME NEW c \in Cores, StartCore(c) \/ CallPanic(c) \/ PanicAcquire(c) \/ PanicHalts(c)
      PROVE  ConsoleTypeOK'
  BY <1>3, ZenonT(30) DEF StartCore, CallPanic, PanicAcquire, PanicHalts
<1>4. ASSUME NEW c \in Cores, CallLog(c) PROVE ConsoleTypeOK'
  <2>1. PICK t \in Texts : Begin(c, t, "log")
    BY <1>4 DEF CallLog
  <2>2. t \in Seq(Char) /\ "log" \in Labels
    BY DEF IsText
  <2>. QED
    BY <1>4, <2>1, <2>2, BeginType DEF CallLog
<1>5. ASSUME NEW c \in Cores, PanicLogs(c) PROVE ConsoleTypeOK'
  BY <1>5, PanicLogsType
<1>6. ASSUME NEW c \in Cores, Moves(c) PROVE ConsoleTypeOK'
  BY <1>6, MovesType
<1>7. ASSUME NEW c \in Cores, FlantermWrite(c) PROVE ConsoleTypeOK'
  BY <1>7, FlantermType
<1>. QED
  BY <1>1, <1>2, <1>3, <1>4, <1>5, <1>6, <1>7 DEF Next, Run, Moves

(* A step of one core leaves the others where they are. *)
Only(c) ==
  \A d \in Cores : d # c => /\ pc'[d] = pc[d] /\ call'[d] = call[d]
                            /\ pos'[d] = pos[d] /\ text'[d] = text[d]

LEMMA StepOnly ==
  ASSUME ConsoleInv, NEW c \in Cores,
         Calls(c) \/ Moves(c) \/ FlantermWrite(c) \/ (PrintSplash /\ c = Boot)
  PROVE  Only(c)
<1> DEFINE S == Seq(Char)
<1>1. pc \in [Cores -> Labels] /\ call \in [Cores -> Nat] /\ pos \in [Cores -> Nat \ {0}]
      /\ text \in [Cores -> S]
  BY DEF ConsoleInv, ConsoleTypeOK
<1> HIDE DEF S
<1>2. \E label : pc' = [pc EXCEPT ![c] = label]
  BY DEF Calls, StartCore, CallLog, CallPanic, PanicAcquire, PanicLogs, PanicHalts, PrintSplash,
         Begin, FlantermWrite, Moves, LogAcquire, Format, LogRelease, PrintAcquire,
         PrintRelease, PutAcquire, WriteReturn, WriteByte, PutRelease, Goto
<1>3. call' = call \/ \E x : call' = [call EXCEPT ![c] = x]
  BY DEF Calls, StartCore, CallLog, CallPanic, PanicAcquire, PanicLogs, PanicHalts, PrintSplash,
         Begin, FlantermWrite, Moves, LogAcquire, Format, LogRelease, PrintAcquire,
         PrintRelease, PutAcquire, WriteReturn, WriteByte, PutRelease
<1>4. pos' = pos \/ \E x : pos' = [pos EXCEPT ![c] = x]
  BY DEF Calls, StartCore, CallLog, CallPanic, PanicAcquire, PanicLogs, PanicHalts, PrintSplash,
         Begin, FlantermWrite, Moves, LogAcquire, Format, LogRelease, PrintAcquire,
         PrintRelease, PutAcquire, WriteReturn, WriteByte, PutRelease
<1>5. text' = text \/ \E x : text' = [text EXCEPT ![c] = x]
  BY DEF Calls, StartCore, CallLog, CallPanic, PanicAcquire, PanicLogs, PanicHalts, PrintSplash,
         Begin, FlantermWrite, Moves, LogAcquire, Format, LogRelease, PrintAcquire,
         PrintRelease, PutAcquire, WriteReturn, WriteByte, PutRelease
<1>. QED
  BY <1>1, <1>2, <1>3, <1>4, <1>5 DEF Only

(* Steps with which no core begins to write, and that take LogSpinlock from
   nobody but the core that ends. *)
LEMMA LockFrame ==
  ASSUME LockInv, NEW c \in Cores, Only(c), Boot \in Cores,
         Busy(c)' => Busy(c) /\ call'[c] = call[c],
         lock'["LogSpinlock"] = lock["LogSpinlock"] \/ (Busy(c) /\ ~Busy(c)'),
         Splashed' \/ (~Splashed /\ c = Boot /\ Busy(c)' /\ call'[c] = 1)
  PROVE  LockInv'
<1>1. \A d \in Cores : d # c => (Busy(d)' <=> Busy(d)) /\ (InSplash(d)' <=> InSplash(d))
  BY DEF Only, Busy, InSplash
<1>2. OneBusy'
  BY <1>1 DEF LockInv, OneBusy
<1>3. BusyHolds'
  <2>1. ASSUME NEW d \in Cores, Busy(d)', ~InSplash(d)' PROVE lock'["LogSpinlock"]
    <3>1. Busy(d) /\ ~InSplash(d)
      BY <1>1, <2>1 DEF InSplash
    <3>2. ~(Busy(c) /\ ~Busy(c)')
      BY <2>1, <3>1 DEF LockInv, OneBusy
    <3>. QED
      BY <3>1, <3>2 DEF LockInv, BusyHolds
  <2>. QED
    BY <2>1 DEF BusyHolds
<1>4. SplashAlone'
  BY DEF LockInv, SplashAlone, Only
<1>. QED
  BY <1>2, <1>3, <1>4 DEF LockInv

(* Nobody logs or panics before _start's Print has returned. *)
LEMMA AfterSplash ==
  ASSUME ConsoleInv, NEW c \in Cores,
         pc[c] \in { "log", "panic", "report" } \/ (Busy(c) /\ ~InSplash(c))
  PROVE  Splashed
<1>1. c # Boot => pc[c] # "off"
  BY DEF Busy, Writing, InPutChar
<1>2. c = Boot => ~(pc[c] = "idle")
  BY DEF Busy, Writing, InPutChar
<1>3. c = Boot /\ Busy(Boot) => call[Boot] # 1
  BY DEF Busy, Writing, InPutChar, InSplash
<1>. QED
  BY <1>1, <1>2, <1>3 DEF ConsoleInv, LockInv, SplashAlone

LEMMA CallsLock ==
  ASSUME ConsoleInv, NEW c \in Cores, Calls(c)
  PROVE  LockInv'
<1>1. pc \in [Cores -> Labels] /\ call \in [Cores -> Nat] /\ Boot \in Cores
      /\ lock \in [Locks -> BOOLEAN] /\ panic[c] \in PanicLocks \union {None}
  BY ConsoleAssumption DEF ConsoleInv, ConsoleTypeOK
<1>2. pc'[c] \in { "idle", "log", "panic", "report", "halted" }
  BY <1>1 DEF Calls, StartCore, CallLog, CallPanic, PanicAcquire, PanicLogs, PanicHalts, Begin,
              Goto
<1>3. ~Busy(c)'
  BY <1>2 DEF Busy, Writing, InPutChar
<1>4. lock'["LogSpinlock"] = lock["LogSpinlock"]
  <2>1. panic[c] # "LogSpinlock"
    BY <1>1 DEF PanicLocks, None
  <2>2. lock' = lock \/ \E b \in BOOLEAN : lock' = [lock EXCEPT ![panic[c]] = b]
    BY DEF Calls, StartCore, CallLog, CallPanic, PanicAcquire, PanicLogs, PanicHalts, Acquire,
           Release, Taken
  <2>. QED
    BY <1>1, <2>1, <2>2 DEF Locks
<1>5. Splashed
  BY AfterSplash DEF Calls, StartCore, CallLog, CallPanic, PanicAcquire, PanicLogs, PanicHalts
<1>6. \/ call' = call /\ pc'[c] \in Outside
      \/ call'[c] = call[c] + 1
  BY <1>1 DEF Calls, StartCore, CallLog, CallPanic, PanicAcquire, PanicLogs, PanicHalts, Begin,
              Goto, Outside
<1>7. Splashed'
  <2>1. CASE c = Boot
    BY <1>1, <1>5, <1>6, <2>1 DEF Splashed, InCall
  <2>2. CASE c # Boot
    BY <1>1, <1>5, <2>2, StepOnly DEF Splashed, InCall, Only
  <2>. QED
    BY <2>1, <2>2
<1>. QED
  BY <1>1, <1>3, <1>4, <1>7, StepOnly, LockFrame DEF ConsoleInv

(* The steps of a core that writes before and after. *)
LEMMA WritingLock ==
  ASSUME ConsoleInv, NEW c \in Cores, Busy(c), Busy(c)', Only(c), call'[c] = call[c],
         lock'["LogSpinlock"] = lock["LogSpinlock"]
  PROVE  LockInv'
<1>1. call \in [Cores -> Nat] /\ Boot \in Cores
  BY ConsoleAssumption DEF ConsoleInv, ConsoleTypeOK
<1>2. CASE c = Boot
  <2>1. InCall(Boot) /\ InCall(Boot)'
    BY <1>2 DEF Busy, InCall, Writing, InPutChar, Outside
  <2>2. Splashed' \/ (~Splashed /\ call'[c] = 1)
    <3>1. CASE Splashed
      BY <1>2, <2>1, <3>1 DEF Splashed
    <3>2. CASE ~Splashed
      <4>1. pc[Boot] # "idle"
        BY <2>1 DEF InCall, Outside
      <4>. QED
        BY <1>2, <3>2, <4>1 DEF ConsoleInv, LockInv, SplashAlone
    <3>. QED
      BY <3>1, <3>2
  <2>. QED
    BY <1>1, <1>2, <2>2, LockFrame DEF ConsoleInv
<1>3. CASE c # Boot
  <2>1. Splashed
    BY <1>3, AfterSplash DEF InSplash
  <2>2. Splashed'
    BY <1>1, <1>3, <2>1 DEF Splashed, InCall, Only
  <2>. QED
    BY <1>1, <2>2, LockFrame DEF ConsoleInv
<1>. QED
  BY <1>2, <1>3

LEMMA MovesLock ==
  ASSUME ConsoleInv, NEW c \in Cores, Moves(c) \/ FlantermWrite(c)
  PROVE  LockInv'
<1>1. pc \in [Cores -> Labels] /\ call \in [Cores -> Nat] /\ lock \in [Locks -> BOOLEAN]
      /\ Boot \in Cores
  BY ConsoleAssumption DEF ConsoleInv, ConsoleTypeOK
<1>2. Only(c)
  BY StepOnly
<1>3. call' = call
  BY DEF FlantermWrite, Moves, LogAcquire, Format, LogRelease, PrintAcquire, PrintRelease,
         PutAcquire, WriteReturn, WriteByte, PutRelease
<1>4. CASE LogAcquire(c)
  <2>1. pc[c] = "log" /\ pc'[c] = "format" /\ ~lock["LogSpinlock"] /\ lock'["LogSpinlock"]
    BY <1>1, <1>4 DEF LogAcquire, Acquire, Taken, Goto, Locks
  <2>2. Splashed
    BY <2>1, AfterSplash
  <2>3. \A d \in Cores : ~Busy(d)
    <3>1. ASSUME NEW d \in Cores, Busy(d) PROVE FALSE
      <4>1. InSplash(d)
        BY <2>1, <3>1 DEF ConsoleInv, LockInv, BusyHolds
      <4>2. InCall(Boot) /\ call[Boot] = 1
        BY <3>1, <4>1 DEF InSplash, InCall, Busy, Writing, InPutChar, Outside
      <4>. QED
        BY <2>2, <4>2 DEF Splashed
    <3>. QED
      BY <3>1
  <2>4. OneBusy'
    BY <1>2, <2>3 DEF OneBusy, Only, Busy
  <2>5. BusyHolds'
    BY <2>1 DEF BusyHolds
  <2>6. Splashed'
    <3>1. InCall(Boot)' => c = Boot \/ InCall(Boot)
      BY <1>1, <1>2 DEF Only, InCall
    <3>2. c = Boot => InCall(Boot)
      BY <2>1 DEF InCall, Outside
    <3>. QED
      BY <1>3, <2>2, <3>1, <3>2 DEF Splashed
  <2>. QED
    BY <2>4, <2>5, <2>6 DEF LockInv, SplashAlone
<1>5. CASE LogRelease(c)
  <2>1. pc[c] = "format" /\ pc'[c] \in Outside
    BY <1>1, <1>5 DEF LogRelease, Goto, Outside
  <2>2. Busy(c) /\ ~Busy(c)'
    BY <2>1 DEF Busy, Writing, InPutChar, Outside
  <2>3. ~InSplash(c)
    BY <2>1, <2>2 DEF ConsoleInv, PlaceInv, PlaceOf
  <2>4. Splashed
    BY <2>2, <2>3, AfterSplash
  <2>5. Splashed'
    BY <1>1, <1>2, <1>3, <2>1, <2>4 DEF Splashed, InCall, Only
  <2>. QED
    BY <1>1, <1>2, <2>2, <2>5, LockFrame DEF ConsoleInv
<1>6. CASE PrintRelease(c)
  <2>1. pc[c] = "printed" /\ lock'["LogSpinlock"] = lock["LogSpinlock"]
        /\ pc'[c] = IF InSplash(c) THEN "idle" ELSE "format"
    BY <1>1, <1>6 DEF PrintRelease, Release, Taken, Goto, Locks
  <2>2. Busy(c)
    BY <2>1 DEF Busy, Writing
  <2>3. CASE InSplash(c)
    <3>1. Splashed'
      BY <1>3, <2>1, <2>3 DEF InSplash, Splashed, InCall, Outside
    <3>2. ~Busy(c)'
      BY <2>1, <2>3 DEF Busy, Writing, InPutChar
    <3>. QED
      BY <1>1, <1>2, <2>1, <3>1, <3>2, LockFrame DEF ConsoleInv
  <2>4. CASE ~InSplash(c)
    <3>1. Busy(c)'
      BY <2>1, <2>4 DEF Busy, Writing
    <3>. QED
      BY <1>2, <1>3, <2>1, <2>2, <3>1, WritingLock
  <2>. QED
    BY <2>3, <2>4
<1>7. CASE Format(c) \/ PrintAcquire(c) \/ PutAcquire(c) \/ FlantermWrite(c) \/ WriteReturn(c)
           \/ WriteByte(c) \/ PutRelease(c)
  <2>1. pc[c] \in Writing /\ pc'[c] \in Writing
    BY <1>1, <1>7 DEF Format, PrintAcquire, PutAcquire, FlantermWrite, WriteReturn, WriteByte,
                      PutRelease, Goto, Writing, InPutChar
  <2>2. lock'["LogSpinlock"] = lock["LogSpinlock"]
    BY <1>1, <1>7 DEF Format, PrintAcquire, PutAcquire, FlantermWrite, WriteReturn, WriteByte,
                      PutRelease, Acquire, Release, Taken, Locks
  <2>. QED
    BY <1>2, <1>3, <2>1, <2>2, WritingLock DEF Busy
<1>. QED
  BY <1>4, <1>5, <1>6, <1>7 DEF Moves

LEMMA LockStep == ConsoleInv /\ [Next]_vars => LockInv'
<1> SUFFICES ASSUME ConsoleInv, [Next]_vars PROVE LockInv'
  OBVIOUS
<1>1. pc \in [Cores -> Labels] /\ call \in [Cores -> Nat] /\ Boot \in Cores
  BY ConsoleAssumption DEF ConsoleInv, ConsoleTypeOK
<1>2. CASE PrintSplash
  <2>1. call[Boot] = 0 /\ call'[Boot] = 1 /\ pc'[Boot] = "print"
    BY <1>1, <1>2 DEF PrintSplash, Begin, Goto
  <2>2. \A c \in Cores \ {Boot} : pc[c] = "off" /\ pc'[c] = "off"
    BY <1>1, <1>2, <2>1, StepOnly
       DEF Only, ConsoleInv, LockInv, SplashAlone, Splashed
  <2>3. ASSUME NEW c \in Cores, c # Boot PROVE ~Busy(c)'
    <3>1. pc'[c] = "off"
      BY <2>2, <2>3
    <3>. QED
      BY <3>1 DEF Busy, Writing, InPutChar
  <2>4. InSplash(Boot)' /\ Busy(Boot)'
    BY <2>1 DEF InSplash, Busy, Writing
  <2>. QED
    BY <2>1, <2>2, <2>3, <2>4 DEF LockInv, OneBusy, BusyHolds, SplashAlone
<1>3. CASE Transmit \/ UNCHANGED vars
  BY <1>3 DEF Transmit, vars, core, ConsoleInv, LockInv, OneBusy, BusyHolds, SplashAlone, Busy,
              InSplash, Splashed, InCall
<1>. QED
  BY <1>2, <1>3, CallsLock, MovesLock DEF Next, Run, Calls, Moves

LEMMA PlaceFrame ==
  ASSUME ConsoleInv, NEW c \in Cores, Only(c), PlaceOf(c)'
  PROVE  PlaceInv'
<1>1. ASSUME NEW d \in Cores, d # c PROVE PlaceOf(d)'
  BY <1>1 DEF Only, ConsoleInv, PlaceInv, PlaceOf, Busy, InSplash
<1>. QED
  BY <1>1 DEF PlaceInv

LEMMA CallsPlace ==
  ASSUME ConsoleInv, NEW c \in Cores, Calls(c)
  PROVE  PlaceInv'
<1> DEFINE S == Seq(Char)
<1>1. pc \in [Cores -> Labels] /\ pos \in [Cores -> Nat \ {0}] /\ text \in [Cores -> S]
  BY DEF ConsoleInv, ConsoleTypeOK
<1> HIDE DEF S
<1>2. CASE CallLog(c) \/ PanicLogs(c)
  <2>1. PICK t : Begin(c, t, "log") /\ t # << >>
    <3>1. CASE CallLog(c)
      BY <3>1, ConsoleAssumption DEF CallLog, IsText
    <3>2. CASE PanicLogs(c)
      <4>1. report[c] \in 0 .. 3 /\ report[c] < 3
        BY <3>2 DEF PanicLogs, ConsoleInv, ConsoleTypeOK
      <4>2. report[c] + 1 \in 1 .. 3
        BY <4>1
      <4>3. Report[report[c] + 1] # << >>
        BY <4>2, ConsoleAssumption DEF IsText
      <4>. QED
        BY <3>2, <4>3 DEF PanicLogs
    <3>. QED
      BY <1>2, <3>1, <3>2
  <2>2. pc'[c] = "log" /\ pos'[c] = 1 /\ text'[c] = t
    BY <1>1, <2>1 DEF Begin, Goto
  <2>3. PlaceOf(c)'
    BY <2>1, <2>2 DEF PlaceOf, Busy, Writing, InPutChar, AtCharacter
  <2>. QED
    BY <2>3, StepOnly, PlaceFrame
<1>3. CASE StartCore(c) \/ CallPanic(c) \/ PanicAcquire(c) \/ PanicHalts(c)
  <2>1. pc'[c] \in { "idle", "panic", "report", "halted" }
    BY <1>1, <1>3 DEF StartCore, CallPanic, PanicAcquire, PanicHalts, Goto
  <2>2. PlaceOf(c)'
    BY <2>1 DEF PlaceOf, Busy, Writing, InPutChar, AtCharacter
  <2>. QED
    BY <2>2, StepOnly, PlaceFrame
<1>. QED
  BY <1>2, <1>3 DEF Calls

(* A step inside a text. *)
LEMMA MovesPlace ==
  ASSUME ConsoleInv, NEW c \in Cores, Moves(c) \/ FlantermWrite(c)
  PROVE  PlaceInv'
<1>1. pc \in [Cores -> Labels] /\ pos \in [Cores -> Nat \ {0}]
  BY DEF ConsoleInv, ConsoleTypeOK
<1>2. UNCHANGED << call, text >>
  BY DEF FlantermWrite, Moves, LogAcquire, Format, LogRelease, PrintAcquire, PrintRelease,
         PutAcquire, WriteReturn, WriteByte, PutRelease
<1>3. PlaceOf(c) /\ pos[c] \in Nat \ {0} /\ Len(text[c]) \in Nat /\ (text[c] # << >> => Len(text[c]) >= 1)
  <2>1. text[c] \in Seq(Char)
    BY DEF ConsoleInv, ConsoleTypeOK
  <2>. QED
    BY <2>1, PlaceFacts DEF ConsoleInv, PlaceInv
<1>4. InSplash(c)' <=> InSplash(c)
  BY <1>2 DEF InSplash
<1> DEFINE n == Len(text[c])
<1>5. PlaceOf(c)'
  <2>1. CASE LogAcquire(c)
    <3>1. pc[c] = "log" /\ pc'[c] = "format" /\ pos'[c] = pos[c]
      BY <1>1, <2>1 DEF LogAcquire, Goto
    <3>2. ~InSplash(c)
      <4>1. Splashed
        BY <3>1, AfterSplash
      <4>. QED
        BY <3>1, <4>1 DEF Splashed, InSplash, InCall, Outside
    <3>. QED
      BY <1>2, <1>3, <1>4, <3>1, <3>2 DEF PlaceOf, AtCharacter, InPutChar
  <2>2. CASE LogRelease(c)
    <3>1. pc'[c] \in { "idle", "report" }
      BY <1>1, <2>2 DEF LogRelease, Goto
    <3>. QED
      BY <3>1 DEF PlaceOf, Busy, Writing, InPutChar, AtCharacter
  <2>3. CASE Format(c)
    <3>1. pc[c] = "format" /\ pc'[c] \in { "put", "print" } /\ pos'[c] = pos[c] /\ pos[c] <= n
      BY <1>1, <1>3, <2>3 DEF Format, Finished, Goto
    <3>. QED
      BY <1>2, <1>3, <1>4, <3>1 DEF PlaceOf, Busy, Writing
  <2>4. CASE PrintRelease(c)
    <3>1. /\ pc[c] = "printed" /\ pc'[c] = (IF InSplash(c) THEN "idle" ELSE "format")
          /\ pos'[c] = pos[c]
      BY <1>1, <2>4 DEF PrintRelease, Goto
    <3>. QED
      BY <1>2, <1>3, <1>4, <3>1 DEF PlaceOf, Busy, Writing, AtCharacter, InPutChar
  <2>5. CASE PrintAcquire(c) \/ PutAcquire(c) \/ FlantermWrite(c) \/ WriteReturn(c) \/ WriteByte(c)
    <3>1. /\ pc[c] \in AtCharacter /\ pc'[c] \in AtCharacter \ {"print"} /\ pos'[c] = pos[c]
      BY <1>1, <2>5 DEF PrintAcquire, PutAcquire, FlantermWrite, WriteReturn, WriteByte, Goto,
                        AtCharacter, InPutChar
    <3>2. Busy(c) /\ pc'[c] \notin { "log", "format", "printed" }
      BY <3>1 DEF Busy, Writing, AtCharacter, InPutChar
    <3>. QED
      BY <1>2, <1>3, <1>4, <3>1, <3>2 DEF PlaceOf
  <2>6. CASE PutRelease(c)
    <3>1. pc[c] = "put done" /\ pos'[c] = pos[c] + 1 /\ pos[c] <= n /\ Busy(c)
      BY <1>1, <1>3, <2>6 DEF PutRelease, PlaceOf, AtCharacter, InPutChar, Busy, Writing
    <3> DEFINE run == text[c][pos[c]].run
               more == pos[c] < n /\ text[c][pos[c] + 1].run = run
    <3>2. pc'[c] = IF run = 0 THEN "format" ELSE IF more THEN "put" ELSE "printed"
      BY <1>1, <2>6 DEF PutRelease, Goto
    <3>3. InSplash(c) => run = 1 /\ (pos[c] < n => more) /\ text[c] = Splash
      <4>1. InSplash(c) => text[c] = Splash
        BY <1>3, <3>1 DEF PlaceOf
      <4>2. \A i \in 1 .. Len(Splash) : Splash[i].run = 1
        BY ConsoleAssumption DEF IsText
      <4>3. n \in Nat /\ pos[c] \in Nat \ {0} /\ pos[c] <= n
        BY <1>3, <3>1
      <4>4. pos[c] \in 1 .. n /\ (pos[c] < n => pos[c] + 1 \in 1 .. n)
        <5> HIDE DEF n
        <5>. QED
          BY <4>3
      <4>. QED
        BY <4>1, <4>2, <4>4
    <3>4. pos'[c] <= n + 1 /\ (more => pos'[c] <= n) /\ (~(pos[c] < n) => pos'[c] = n + 1)
      <4>1. n \in Nat /\ pos[c] \in Nat \ {0} /\ pos[c] <= n
        BY <1>3, <3>1
      <4>2. /\ pos[c] + 1 <= n + 1 /\ (pos[c] < n => pos[c] + 1 <= n)
            /\ (~(pos[c] < n) => pos[c] + 1 = n + 1)
        <5> HIDE DEF n
        <5>. QED
          BY <4>1
      <4>3. more => pos[c] < n
        OBVIOUS
      <4> HIDE DEF n, more
      <4>. QED
        BY <3>1, <4>2, <4>3, Zenon
    <3>5. text'[c] = text[c] /\ Len(text'[c]) = n /\ text[c] # << >>
      BY <1>2, <1>3, <3>1 DEF PlaceOf
    <3>6. pc'[c] # "log" /\ (pc'[c] \in AtCharacter => pc'[c] = "put")
      BY <3>2 DEF AtCharacter, InPutChar
    <3>7. InSplash(c) => pc'[c] # "format" /\ (pc'[c] = "printed" => ~(pos[c] < n))
      BY <3>2, <3>3
    <3>8. pc'[c] = "put" => more
      BY <3>2
    <3> HIDE DEF n, run, more
    <3>. QED
      BY <1>4, <3>3, <3>4, <3>5, <3>6, <3>7, <3>8 DEF PlaceOf
  <2>. QED
    BY <2>1, <2>2, <2>3, <2>4, <2>5, <2>6 DEF Moves
<1>. QED
  BY <1>5, StepOnly, PlaceFrame

LEMMA PlaceStep == ConsoleInv /\ [Next]_vars => PlaceInv'
<1> SUFFICES ASSUME ConsoleInv, [Next]_vars PROVE PlaceInv'
  OBVIOUS
<1>1. CASE PrintSplash
  <2>1. Boot \in Cores /\ text \in [Cores -> Seq(Char)] /\ pc \in [Cores -> Labels]
        /\ pos \in [Cores -> Nat \ {0}]
    BY ConsoleAssumption DEF ConsoleInv, ConsoleTypeOK
  <2>2. pc'[Boot] = "print" /\ pos'[Boot] = 1 /\ text'[Boot] = Splash
    BY <1>1, <2>1 DEF PrintSplash, Begin, Goto
  <2>3. Len(Splash) >= 1 /\ Len(Splash) \in Nat /\ Splash # << >>
    BY ConsoleAssumption DEF IsText
  <2>4. PlaceOf(Boot)'
    BY <2>2, <2>3 DEF PlaceOf
  <2>. QED
    BY <1>1, <2>1, <2>4, StepOnly, PlaceFrame
<1>2. CASE Transmit \/ UNCHANGED vars
  BY <1>2 DEF Transmit, vars, core, ConsoleInv, PlaceInv, PlaceOf, Busy, InSplash
<1>. QED
  BY <1>1, <1>2, CallsPlace, MovesPlace DEF Next, Run, Calls, Moves

(* ScreenStays for a step of one core. *)
LEMMA ScreenFrame ==
  ASSUME ConsoleInv, NEW c \in Cores, Only(c), UNCHANGED screen,
         Busy(c)' /\ Written(c)' > 0 =>
            Busy(c) /\ Written(c)' = Written(c) /\ call'[c] = call[c] /\ text'[c] = text[c],
         Busy(c) =>
            \/ Busy(c)' /\ Written(c)' = Written(c)
            \/ Written(c) = Len(text[c])
  PROVE  ScreenInv' /\ TextsWhole'
<1>1. ASSUME NEW d \in Cores, d # c
      PROVE  /\ Busy(d)' <=> Busy(d)
             /\ Written(d)' = Written(d) /\ call'[d] = call[d] /\ text'[d] = text[d]
  BY <1>1 DEF Only, Busy, Written
<1>2. ASSUME NEW d \in Cores, Busy(d)', Written(d)' > 0
      PROVE  Busy(d) /\ Written(d)' = Written(d) /\ call'[d] = call[d] /\ text'[d] = text[d]
  BY <1>1, <1>2
<1>3. ASSUME NEW d \in Cores, Busy(d), Written(d) > 0
      PROVE  \/ Busy(d)' /\ Written(d)' = Written(d)
             \/ Written(d) = Len(text[d])
  BY <1>1, <1>3
<1>. QED
  BY <1>2, <1>3, ScreenStays

(* A step up to the next character writes nothing; a call ends with its text
   complete. *)
LEMMA MovesWritten ==
  ASSUME ConsoleInv, NEW c \in Cores, Moves(c)
  PROVE  \/ pc[c] = "log" /\ Busy(c)' /\ Written(c)' = 0
         \/ Busy(c) /\ Written(c) = Len(text[c]) /\ pc'[c] \in { "idle", "report" }
         \/ Busy(c) /\ Busy(c)' /\ Written(c)' = Written(c)
<1>1. pc \in [Cores -> Labels] /\ pos \in [Cores -> Nat \ {0}]
  BY DEF ConsoleInv, ConsoleTypeOK
<1>2. UNCHANGED << call, text, screen >>
  BY DEF Moves, LogAcquire, Format, LogRelease, PrintAcquire, PrintRelease,
         PutAcquire, WriteReturn, WriteByte, PutRelease
<1>3. PlaceOf(c) /\ pos[c] \in Nat \ {0} /\ Len(text[c]) \in Nat
  BY PlaceFacts DEF ConsoleInv, PlaceInv
<1>4. CASE LogAcquire(c)
  <2>1. pc[c] = "log" /\ pc'[c] = "format" /\ pos'[c] = 1
    BY <1>1, <1>3, <1>4 DEF LogAcquire, Goto, PlaceOf
  <2>2. Busy(c)' /\ Written(c)' = 0
    BY <2>1 DEF Busy, Writing, InPutChar, Written
  <2>. QED
    BY <2>1, <2>2
<1>5. CASE LogRelease(c)
  <2>1. /\ pc[c] = "format" /\ pos[c] > Len(text[c]) /\ pc'[c] \in { "idle", "report" }
        /\ Busy(c) /\ pos[c] <= Len(text[c]) + 1
    BY <1>1, <1>3, <1>5 DEF LogRelease, Finished, Goto, PlaceOf, Busy, Writing
  <2>2. Written(c) = Len(text[c])
    <3> DEFINE n == Len(text[c])
               p == pos[c]
    <3>1. Written(c) = p - 1
      BY <2>1 DEF Written
    <3>2. n \in Nat /\ p \in Nat /\ p > n /\ p <= n + 1
      BY <1>3, <2>1
    <3>3. p - 1 = n
      <4> HIDE DEF n, p
      <4>. QED
        BY <3>2
    <3>. QED
      BY <3>1, <3>3
  <2>. QED
    BY <2>1, <2>2
<1>6. CASE PrintRelease(c) /\ InSplash(c)
  <2>1. pc[c] = "printed" /\ pc'[c] = "idle" /\ pos[c] = Len(text[c]) + 1
        /\ Busy(c)
    BY <1>1, <1>3, <1>6 DEF PrintRelease, Goto, PlaceOf, Busy, Writing
  <2>2. Written(c) = Len(text[c])
    <3>1. Written(c) = pos[c] - 1
      BY <2>1 DEF Written
    <3>. QED
      BY <1>3, <2>1, <3>1
  <2>. QED
    BY <2>1, <2>2
<1>7. CASE \/ Format(c) \/ PrintAcquire(c) \/ PutAcquire(c) \/ WriteReturn(c) \/ WriteByte(c)
           \/ PrintRelease(c) /\ ~InSplash(c)
  <2>1. Busy(c) /\ Busy(c)' /\ pos'[c] = pos[c]
    BY <1>1, <1>7 DEF Format, PrintAcquire, PutAcquire, WriteReturn, WriteByte, PrintRelease,
                      Goto, Busy, Writing, InPutChar
  <2>2. pc'[c] \in { "return", "byte", "put done" } <=> pc[c] \in { "return", "byte", "put done" }
    BY <1>1, <1>7 DEF Format, PrintAcquire, PutAcquire, WriteReturn, WriteByte, PrintRelease, Goto
  <2>3. Written(c)' = Written(c)
    BY <2>1, <2>2 DEF Written
  <2>. QED
    BY <2>1, <2>3
<1>8. CASE PutRelease(c)
  <2>1. pc[c] = "put done" /\ pc'[c] \in { "format", "put", "printed" } /\ pos'[c] = pos[c] + 1
    BY <1>1, <1>8 DEF PutRelease, Goto
  <2>2. Busy(c) /\ Busy(c)'
    BY <2>1 DEF Busy, Writing, InPutChar
  <2>3. Written(c)' = Written(c)
    <3>1. Written(c) = pos[c] /\ Written(c)' = (pos[c] + 1) - 1
      BY <2>1 DEF Written
    <3>2. (pos[c] + 1) - 1 = pos[c]
      BY <1>3
    <3>. QED
      BY <3>1, <3>2
  <2>. QED
    BY <2>1, <2>2, <2>3
<1>. QED
  BY <1>4, <1>5, <1>6, <1>7, <1>8 DEF Moves

LEMMA MovesScreen ==
  ASSUME ConsoleInv, NEW c \in Cores, Moves(c)
  PROVE  ScreenInv' /\ TextsWhole'
<1>1. UNCHANGED << call, text, screen >>
  BY DEF Moves, LogAcquire, Format, LogRelease, PrintAcquire, PrintRelease,
         PutAcquire, WriteReturn, WriteByte, PutRelease
<1>3. pc[c] = "log" => ~Busy(c)
  BY DEF Busy, Writing, InPutChar
<1>4. Written(c)' = 0 => ~(Written(c)' > 0)
  OBVIOUS
<1>5. pc'[c] \in { "idle", "report" } => ~Busy(c)'
  BY DEF Busy, Writing, InPutChar
<1>. QED
  BY <1>1, <1>3, <1>4, <1>5, StepOnly, MovesWritten, ScreenFrame

(* A character goes to the screen: it is the next one of the text at its end,
   or the first one behind a whole text. *)
LEMMA FlantermScreen ==
  ASSUME ConsoleInv, NEW c \in Cores, FlantermWrite(c)
  PROVE  ScreenInv' /\ TextsWhole'
<1> DEFINE S == Tokens
           t == Token(c)
           n == Len(screen)
<1>1. pc \in [Cores -> Labels] /\ screen \in Seq(S) /\ n \in Nat
      /\ pos[c] \in Nat \ {0}
  BY PlaceFacts DEF ConsoleInv, ConsoleTypeOK
<1>2. /\ pc[c] = "flanterm" /\ pc'[c] \in { "return", "byte" } /\ screen' = Append(screen, t)
      /\ UNCHANGED << call, text, pos >>
  BY <1>1 DEF FlantermWrite, Goto
<1>3. /\ t.core = c /\ t.call = call[c] /\ t.pos = pos[c]
      /\ t.last <=> pos[c] = Len(text[c])
  BY DEF Token
<1>4. Busy(c) /\ Busy(c)' /\ Written(c) = pos[c] - 1 /\ Written(c)' = pos[c]
  BY <1>2 DEF Busy, Writing, InPutChar, Written
<1>5. ConsoleTypeOK'
  BY FlantermType
<1> HIDE DEF S, t
<1>6. Len(screen') = n + 1 /\ screen'[n + 1] = t /\ \A i \in 1 .. n : screen'[i] = screen[i]
      /\ DOMAIN screen' = 1 .. n + 1 /\ DOMAIN screen = 1 .. n /\ screen' # << >>
  <2>1. screen' \in Seq(S)
    BY <1>5 DEF ConsoleTypeOK, S
  <2>2. \E x : screen' = Append(screen, x) /\ x = t
    BY <1>2
  <2>3. Len(screen') = n + 1
    BY <1>1, <1>2
  <2>. QED
    BY <1>1, <1>2, <2>1, <2>3
<1>7. ScreenInv'
  <2>1. \A d \in Cores : Busy(d)' => d = c
    BY <1>4, LockStep DEF Next, Run, LockInv, OneBusy
  <2>2. EndsWith(c)'
    BY <1>2, <1>3, <1>4, <1>6 DEF EndsWith
  <2>3. Written(c)' # 0
    BY <1>1, <1>4
  <2>. QED
    BY <1>4, <2>1, <2>2, <2>3 DEF ScreenInv
<1>8. TextsWhole'
  <2>1. ASSUME pos[c] = 1, n + 1 > 1 PROVE screen[n].last
    <3>1. \A d \in Cores : Busy(d) => d = c
      BY <1>4 DEF ConsoleInv, LockInv, OneBusy
    <3>2. Written(c) = 0
      BY <1>4, <2>1
    <3>3. screen # << >>
      BY <1>1, <2>1
    <3>. QED
      BY <3>1, <3>2, <3>3 DEF ConsoleInv, ScreenInv, EndsWhole
  <2>2. ASSUME pos[c] # 1
        PROVE  n + 1 > 1 /\ screen[n].core = c /\ screen[n].call = call[c]
               /\ screen[n].pos = pos[c] - 1
    <3>1. Written(c) > 0
      BY <1>1, <1>4, <2>2
    <3>2. EndsWith(c)
      BY <1>4, <3>1 DEF ConsoleInv, ScreenInv
    <3>3. n >= 1
      BY <1>1, <3>2 DEF EndsWith
    <3>. QED
      BY <1>1, <1>4, <3>2, <3>3 DEF EndsWith
  <2>3. ASSUME NEW i \in 1 .. n + 1
        PROVE  IF screen'[i].pos = 1
               THEN i > 1 => screen'[i - 1].last
               ELSE i > 1 /\ << screen'[i - 1].core, screen'[i - 1].call, screen'[i - 1].pos >>
                               = << screen'[i].core, screen'[i].call, screen'[i].pos - 1 >>
    <3>1. CASE i = n + 1
      <4>1. n + 1 > 1 => screen'[n] = screen[n]
        BY <1>1, <1>6
      <4>2. i - 1 = n /\ screen'[i] = t
        BY <1>1, <1>6, <3>1
      <4>. QED
        BY <1>3, <2>1, <2>2, <3>1, <4>1, <4>2
    <3>2. CASE i # n + 1
      <4>1. i \in 1 .. n
        BY <1>1, <3>2
      <4>2. screen'[i] = screen[i] /\ (i > 1 => screen'[i - 1] = screen[i - 1])
        BY <1>1, <1>6, <4>1
      <4>. QED
        BY <1>6, <4>1, <4>2 DEF ConsoleInv, TextsWhole
    <3>. QED
      BY <3>1, <3>2
  <2>. QED
    BY <1>6, <2>3 DEF TextsWhole
<1>. QED
  BY <1>7, <1>8

LEMMA ScreenStep == ConsoleInv /\ [Next]_vars => ScreenInv' /\ TextsWhole'
<1> SUFFICES ASSUME ConsoleInv, [Next]_vars PROVE ScreenInv' /\ TextsWhole'
  OBVIOUS
<1>1. pc \in [Cores -> Labels] /\ call \in [Cores -> Nat] /\ pos \in [Cores -> Nat \ {0}]
      /\ Boot \in Cores
  BY ConsoleAssumption DEF ConsoleInv, ConsoleTypeOK
<1>2. CASE PrintSplash
  <2>1. call[Boot] = 0 /\ pos'[Boot] = 1 /\ pc'[Boot] = "print" /\ UNCHANGED screen
    BY <1>1, <1>2 DEF PrintSplash, Begin, Goto
  <2>2. pc[Boot] = "idle"
    BY <2>1 DEF ConsoleInv, LockInv, SplashAlone, Splashed
  <2>3. ~Busy(Boot) /\ Written(Boot)' = 0
    BY <2>1, <2>2 DEF Busy, Writing, InPutChar, Written
  <2>. QED
    BY <1>1, <1>2, <2>1, <2>3, StepOnly, ScreenFrame
<1>3. ASSUME NEW c \in Cores, Calls(c) PROVE ScreenInv' /\ TextsWhole'
  <2>1. pc[c] \in Outside /\ pc'[c] \in Outside \union {"log"} /\ UNCHANGED screen
    BY <1>1, <1>3 DEF Calls, StartCore, CallLog, CallPanic, PanicAcquire, PanicLogs, PanicHalts,
                      Begin, Goto, Outside
  <2>2. ~Busy(c) /\ ~Busy(c)'
    BY <2>1 DEF Busy, Writing, InPutChar, Outside
  <2>. QED
    BY <1>3, <2>1, <2>2, StepOnly, ScreenFrame
<1>4. CASE Transmit \/ UNCHANGED vars
  BY <1>4, ZenonT(30) DEF Transmit, vars, core, ConsoleInv, ScreenInv, TextsWhole, EndsWith, EndsWhole, Busy,
              Written
<1>. QED
  BY <1>2, <1>3, <1>4, MovesScreen, FlantermScreen DEF Next, Run, Calls, Moves

(* The text of every call of Log comes out in one piece, whichever cores log,
   panic or take exceptions meanwhile: PrintLock and PutCharLock are given
   back between two characters, and it is LogSpinlock, held for the whole
   line, that keeps the others out.  _start's Print takes no LogSpinlock, and
   needs none as no other core runs yet. *)
THEOREM WholeTexts == Spec => []TextsWhole
<1>1. ConsoleInv /\ [Next]_vars => ConsoleInv'
  BY TypeStep, LockStep, PlaceStep, ScreenStep DEF ConsoleInv
<1>2. ConsoleInv => TextsWhole
  BY DEF ConsoleInv
<1>. QED
  BY ConsoleInit, <1>1, <1>2, PTL DEF Spec

-----------------------------------------------------------------------------
(* Reports *)

(* Between the acquisition and the release of its panic's lock. *)
Reporter(c) == panic[c] # None /\ pc[c] \notin { "panic", "halted" }

(* The lock of a panic has one holder, and none but its holders, past and
   present, have written under it. *)
HolderInv ==
  /\ \A c \in Cores : Reporter(c) => lock[panic[c]]
  /\ \A c, d \in Cores : Reporter(c) /\ Reporter(d) /\ panic[c] = panic[d] => c = d
  /\ \A c \in Cores : /\ pc[c] \in { "off", "idle" } => panic[c] = None
                      /\ pc[c] = "panic" => panic[c] # None
                      /\ Busy(c) /\ InSplash(c) => panic[c] = None
  /\ \A i \in DOMAIN screen : screen[i].panic # None =>
        panic[screen[i].core] = screen[i].panic /\ pc[screen[i].core] # "panic"

(* Whoever reports, or may report yet, does so behind the reports so far. *)
LastInv ==
  \A l \in PanicLocks : \A c, d \in Cores :
    c # d /\ pc[c] # "halted" => \A i \in Reporting(c, l), j \in Reporting(d, l) : j < i

ReportInv == HolderInv /\ LastInv /\ ReportsApart

LEMMA ReportInit == Init => ReportInv
<1> SUFFICES ASSUME Init PROVE ReportInv
  OBVIOUS
<1> USE DEF Init
<1>1. \A c \in Cores : pc[c] \in { "off", "idle" } /\ panic[c] = None
  OBVIOUS
<1>2. screen = << >> /\ \A c \in Cores, l \in PanicLocks : Reporting(c, l) = {}
  BY DEF Reporting
<1>3. HolderInv
  BY <1>1, <1>2 DEF HolderInv, Reporter, Busy, Writing, InPutChar
<1>. QED
  BY <1>2, <1>3 DEF ReportInv, LastInv, ReportsApart

LEMMA ScreenFacts ==
  ASSUME ConsoleInv
  PROVE  /\ Len(screen) \in Nat /\ DOMAIN screen = 1 .. Len(screen)
         /\ \A i \in DOMAIN screen : screen[i].core \in Cores
<1> DEFINE S == Tokens
<1>1. screen \in Seq(S)
  BY DEF ConsoleInv, ConsoleTypeOK
<1>2. \A t \in S : t.core \in Cores
  BY DEF Tokens
<1> HIDE DEF S
<1>3. Len(screen) \in Nat /\ DOMAIN screen = 1 .. Len(screen)
  BY <1>1
<1>4. \A i \in DOMAIN screen : screen[i] \in S
  BY <1>1
<1>. QED
  BY <1>2, <1>3, <1>4

(* A step that leaves the panics, their locks and the screen alone. *)
LEMMA ReportFrame ==
  ASSUME ConsoleInv, ReportInv, NEW c \in Cores, Only(c), UNCHANGED << panic, screen >>,
         \A l \in PanicLocks : lock'[l] = lock[l],
         pc[c] \notin { "panic", "halted" }, pc'[c] \notin { "panic", "halted" },
         pc'[c] \in { "off", "idle" } => panic[c] = None,
         Busy(c)' /\ InSplash(c)' => panic[c] = None
  PROVE  ReportInv'
<1>1. \A d \in Cores : /\ panic[d] \in PanicLocks \union {None}
                       /\ Reporter(d)' <=> Reporter(d)
                       /\ pc'[d] = "panic" <=> pc[d] = "panic"
                       /\ pc'[d] = "halted" <=> pc[d] = "halted"
  BY DEF Only, Reporter, ConsoleInv, ConsoleTypeOK
<1>2. \A d \in Cores : Reporter(d) => panic[d] \in PanicLocks
  BY <1>1 DEF Reporter
<1>3. \A d \in Cores : d # c =>
        pc'[d] = pc[d] /\ (Busy(d)' <=> Busy(d)) /\ (InSplash(d)' <=> InSplash(d))
  BY DEF Only, Busy, InSplash
<1>4. HolderInv'
  BY <1>1, <1>2, <1>3, ScreenFacts DEF ReportInv, HolderInv
<1>5. LastInv' /\ ReportsApart'
  BY <1>1 DEF ReportInv, LastInv, ReportsApart, Reporting
<1>. QED
  BY <1>4, <1>5 DEF ReportInv

(* The steps inside a call, and those that begin one. *)
LEMMA MovesReport ==
  ASSUME ConsoleInv, ReportInv, NEW c \in Cores,
         \/ Moves(c) \/ StartCore(c) \/ CallLog(c) \/ PanicLogs(c)
         \/ PrintSplash /\ c = Boot
  PROVE  ReportInv'
<1>1. pc \in [Cores -> Labels] /\ lock \in [Locks -> BOOLEAN] /\ call \in [Cores -> Nat]
  BY DEF ConsoleInv, ConsoleTypeOK
<1>2. Only(c) /\ UNCHANGED << panic, screen >>
  BY StepOnly DEF Calls, StartCore, CallLog, PanicLogs, PrintSplash, Moves, LogAcquire, Format,
         LogRelease, PrintAcquire, PrintRelease, PutAcquire, WriteReturn, WriteByte, PutRelease
<1>3. \A l \in PanicLocks : lock'[l] = lock[l]
  BY <1>1 DEF Moves, LogAcquire, Format, LogRelease, PrintAcquire, PrintRelease, PutAcquire,
         WriteReturn, WriteByte, PutRelease, StartCore, CallLog, PanicLogs, PrintSplash,
         Acquire, Release, Taken, Locks, PanicLocks
<1>4. HolderInv
  BY DEF ReportInv
<1>5. CASE StartCore(c) \/ CallLog(c) \/ PanicLogs(c)
  <2>1. pc[c] \in { "off", "idle", "report" } /\ pc'[c] \in { "idle", "log" }
        /\ (pc[c] = "report" => pc'[c] = "log")
    BY <1>1, <1>5 DEF StartCore, CallLog, PanicLogs, Begin, Goto
  <2>2. ~Busy(c)' /\ (pc'[c] = "idle" => panic[c] = None)
    BY <1>4, <2>1 DEF Busy, Writing, InPutChar, HolderInv
  <2>. QED
    BY <1>2, <1>3, <2>1, <2>2, ReportFrame
<1>6. CASE PrintSplash /\ c = Boot
  <2>1. pc[c] = "idle" /\ pc'[c] = "print"
    BY <1>1, <1>6 DEF PrintSplash, Begin, Goto, ConsoleInv, LockInv, SplashAlone, Splashed
  <2>2. panic[c] = None
    BY <1>4, <2>1 DEF HolderInv
  <2>. QED
    BY <1>2, <1>3, <2>1, <2>2, ReportFrame
<1>7. CASE Moves(c)
  <2>1. pc[c] \in Writing \union { "log" } /\ pc'[c] \in Writing \union { "idle", "report" }
    BY <1>1, <1>7 DEF Moves, LogAcquire, Format, LogRelease, PrintAcquire, PrintRelease,
         PutAcquire, WriteReturn, WriteByte, PutRelease, Goto, Writing, InPutChar
  <2>2. InSplash(c)' <=> InSplash(c)
    BY <1>7 DEF Moves, LogAcquire, Format, LogRelease, PrintAcquire, PrintRelease,
         PutAcquire, WriteReturn, WriteByte, PutRelease, InSplash
  <2>3. pc[c] = "log" => ~InSplash(c)
    <3>1. pc[c] = "log" => Splashed
      BY AfterSplash
    <3>. QED
      BY <3>1 DEF Splashed, InSplash, InCall, Outside
  <2>4. Busy(c)' /\ InSplash(c)' => panic[c] = None
    BY <1>4, <2>1, <2>2, <2>3 DEF HolderInv, Busy
  <2>5. pc'[c] = "idle" => panic[c] = None
    <3>1. pc'[c] = "idle" => panic[c] = None \/ (Busy(c) /\ InSplash(c))
      BY <1>1, <1>7 DEF Moves, LogAcquire, Format, LogRelease, PrintAcquire, PrintRelease,
         PutAcquire, WriteReturn, WriteByte, PutRelease, Goto, Busy, Writing
    <3>. QED
      BY <1>4, <3>1 DEF HolderInv
  <2>6. \A x \in Writing : x \notin { "panic", "halted", "off", "idle" }
    BY DEF Writing, InPutChar
  <2>. QED
    BY <1>2, <1>3, <2>1, <2>4, <2>5, <2>6, ReportFrame
<1>. QED
  BY <1>5, <1>6, <1>7

(* A panic waits for its lock, takes it, gives it back. *)
LEMMA PanicReport ==
  ASSUME ConsoleInv, ReportInv, NEW c \in Cores,
         CallPanic(c) \/ PanicAcquire(c) \/ PanicHalts(c)
  PROVE  ReportInv'
<1>1. /\ pc \in [Cores -> Labels] /\ lock \in [Locks -> BOOLEAN]
      /\ panic \in [Cores -> PanicLocks \union {None}] /\ HolderInv
  BY DEF ConsoleInv, ConsoleTypeOK, ReportInv
<1>2. Only(c) /\ UNCHANGED << call, screen >>
  BY StepOnly DEF Calls, CallPanic, PanicAcquire, PanicHalts
<1>3. pc[c] # "halted" /\ ~Busy(c)'
  BY <1>1 DEF CallPanic, PanicAcquire, PanicHalts, Goto, Busy, Writing, InPutChar
<1>4. LastInv' /\ ReportsApart'
  BY <1>2, <1>3 DEF Only, ReportInv, LastInv, ReportsApart, Reporting
<1>5. \A d \in Cores : d # c =>
        pc'[d] = pc[d] /\ (Busy(d)' <=> Busy(d)) /\ (InSplash(d)' <=> InSplash(d))
  BY <1>2 DEF Only, Busy, InSplash
<1>6. \A d \in Cores : Reporter(d) => panic[d] \in PanicLocks
  BY <1>1 DEF Reporter
<1>7. CASE CallPanic(c)
  <2>1. pc[c] = "idle" /\ pc'[c] = "panic" /\ panic'[c] # None /\ panic[c] = None
        /\ lock' = lock /\ \A d \in Cores : d # c => panic'[d] = panic[d]
    BY <1>1, <1>7 DEF CallPanic, Goto, HolderInv, PanicLocks, None
  <2>2. ~Reporter(c)' /\ \A d \in Cores : d # c => (Reporter(d)' <=> Reporter(d))
    BY <1>5, <2>1 DEF Reporter
  <2>3. \A i \in DOMAIN screen : screen[i].panic # None => screen[i].core # c
    BY <1>1, <2>1 DEF HolderInv
  <2>4. HolderInv'
    BY <1>1, <1>2, <1>3, <1>5, <2>1, <2>2, <2>3, ScreenFacts DEF HolderInv
  <2>. QED
    BY <1>4, <2>4 DEF ReportInv
<1>8. CASE PanicAcquire(c)
  <2>1. /\ pc[c] = "panic" /\ pc'[c] = "report" /\ panic' = panic /\ panic[c] \in PanicLocks
        /\ ~lock[panic[c]] /\ lock' = [lock EXCEPT ![panic[c]] = TRUE]
    BY <1>1, <1>8 DEF PanicAcquire, Acquire, Taken, Goto, HolderInv
  <2>2. lock'[panic[c]] /\ \A l \in Locks : l # panic[c] => lock'[l] = lock[l]
    BY <1>1, <2>1 DEF Locks
  <2>3. \A d \in Cores : d # c => (Reporter(d)' <=> Reporter(d))
    BY <1>5, <2>1 DEF Reporter
  <2>4. \A d \in Cores : Reporter(d) => panic[d] # panic[c]
    BY <1>1, <2>1 DEF HolderInv
  <2>5. HolderInv'
    BY <1>1, <1>2, <1>3, <1>5, <1>6, <2>1, <2>2, <2>3, <2>4, ScreenFacts DEF HolderInv, Locks
  <2>. QED
    BY <1>4, <2>5 DEF ReportInv
<1>9. CASE PanicHalts(c)
  <2>1. /\ pc[c] = "report" /\ pc'[c] = "halted" /\ panic' = panic
        /\ lock' = [lock EXCEPT ![panic[c]] = FALSE]
    BY <1>1, <1>9 DEF PanicHalts, Release, Taken, Goto
  <2>2. \A l \in Locks : l # panic[c] => lock'[l] = lock[l]
    BY <1>1, <2>1
  <2>3. ~Reporter(c)' /\ \A d \in Cores : d # c => (Reporter(d)' <=> Reporter(d))
    BY <1>5, <2>1 DEF Reporter
  <2>4. ASSUME NEW d \in Cores, d # c, Reporter(d) PROVE panic[d] # panic[c]
    <3>1. panic[c] = None \/ Reporter(c)
      BY <2>1 DEF Reporter
    <3>2. panic[d] # None
      BY <2>4 DEF Reporter
    <3>. QED
      BY <1>1, <2>4, <3>1, <3>2 DEF HolderInv
  <2>5. HolderInv'
    BY <1>1, <1>2, <1>3, <1>5, <1>6, <2>1, <2>2, <2>3, <2>4, ScreenFacts DEF HolderInv, Locks
  <2>. QED
    BY <1>4, <2>5 DEF ReportInv
<1>. QED
  BY <1>7, <1>8, <1>9

(* A character of a report goes behind all that is on the screen, and its
   writer is the only one left that holds the report's lock. *)
LEMMA FlantermReport ==
  ASSUME ConsoleInv, ReportInv, NEW c \in Cores, FlantermWrite(c)
  PROVE  ReportInv'
<1> DEFINE S == Tokens
           t == Token(c)
           n == Len(screen)
<1>1. /\ pc \in [Cores -> Labels] /\ screen \in Seq(S) /\ n \in Nat /\ DOMAIN screen = 1 .. n
      /\ \A i \in DOMAIN screen : screen[i].core \in Cores
      /\ HolderInv /\ LastInv /\ ReportsApart
  BY ScreenFacts DEF ConsoleInv, ConsoleTypeOK, ReportInv
<1>2. /\ pc[c] = "flanterm" /\ pc'[c] \in { "return", "byte" } /\ screen' = Append(screen, t)
      /\ UNCHANGED << lock, call, panic >> /\ Only(c)
  BY <1>1, StepOnly DEF FlantermWrite, Goto
<1>3. t.core = c /\ t.panic = panic[c]
  BY DEF Token
<1> HIDE DEF S, t
<1>4. DOMAIN screen' = 1 .. n + 1 /\ screen'[n + 1] = t /\ \A i \in 1 .. n : screen'[i] = screen[i]
  BY <1>1, <1>2
<1>5. \A d \in Cores : d # c =>
        pc'[d] = pc[d] /\ (Busy(d)' <=> Busy(d)) /\ (InSplash(d)' <=> InSplash(d))
  BY <1>2 DEF Only, Busy, InSplash
<1>6. \A d \in Cores : Reporter(d)' <=> Reporter(d)
  BY <1>2, <1>5 DEF Reporter
<1>7. Busy(c) /\ (InSplash(c)' <=> InSplash(c)) /\ (panic[c] # None => Reporter(c))
  BY <1>2 DEF Busy, Writing, InPutChar, InSplash, Reporter
<1>8. ASSUME NEW i \in DOMAIN screen', screen'[i].panic # None
      PROVE  panic[screen'[i].core] = screen'[i].panic /\ pc'[screen'[i].core] # "panic"
  <2>1. CASE i = n + 1
    BY <1>2, <1>3, <1>4, <2>1
  <2>2. CASE i # n + 1
    <3>1. i \in DOMAIN screen /\ screen'[i] = screen[i]
      BY <1>1, <1>4, <2>2
    <3>. QED
      BY <1>1, <1>2, <1>5, <1>8, <3>1 DEF HolderInv
  <2>. QED
    BY <2>1, <2>2
<1>9. HolderInv'
  BY <1>1, <1>2, <1>5, <1>6, <1>7, <1>8 DEF HolderInv
<1>10. ASSUME NEW d \in Cores, NEW l \in PanicLocks, NEW i \in Reporting(d, l)'
       PROVE  i \in Reporting(d, l) \/ (i = n + 1 /\ d = c /\ panic[c] = l)
  BY <1>1, <1>3, <1>4 DEF Reporting
<1>11. \A d \in Cores, l \in PanicLocks : Reporting(d, l) \subseteq 1 .. n
  BY <1>1 DEF Reporting
<1>12. ASSUME NEW d \in Cores, d # c, pc[d] # "halted", panic[c] \in PanicLocks
       PROVE  Reporting(d, panic[c]) = {}
  <2>1. ASSUME NEW i \in Reporting(d, panic[c]) PROVE FALSE
    <3>1. panic[d] = panic[c] /\ pc[d] # "panic" /\ panic[c] # None
      BY <1>1, <1>12, <2>1 DEF Reporting, HolderInv, PanicLocks, None
    <3>2. Reporter(d)
      BY <1>12, <3>1 DEF Reporter
    <3>. QED
      BY <1>1, <1>7, <1>12, <3>1, <3>2 DEF HolderInv
  <2>. QED
    BY <2>1
<1>13. LastInv'
  <2> SUFFICES ASSUME NEW l \in PanicLocks, NEW x \in Cores, NEW y \in Cores, x # y,
                      pc'[x] # "halted", NEW i \in Reporting(x, l)', NEW j \in Reporting(y, l)'
               PROVE  j < i
    BY DEF LastInv
  <2>1. pc[x] # "halted"
    BY <1>2, <1>5
  <2>2. CASE i \in Reporting(x, l) /\ j \in Reporting(y, l)
    BY <1>1, <2>1, <2>2 DEF LastInv
  <2>3. CASE i = n + 1 /\ x = c /\ j \in Reporting(y, l)
    BY <1>1, <1>11, <2>3
  <2>4. CASE i \in Reporting(x, l) /\ j = n + 1 /\ y = c /\ panic[c] = l
    BY <1>12, <2>1, <2>4
  <2>. QED
    BY <1>10, <2>2, <2>3, <2>4
<1>14. ReportsApart'
  <2> SUFFICES ASSUME NEW l \in PanicLocks, NEW x \in Cores, NEW y \in Cores, x # y,
                      NEW i \in Reporting(x, l)', NEW k \in Reporting(x, l)',
                      NEW j \in Reporting(y, l)', i < j, j < k
               PROVE  FALSE
    BY DEF ReportsApart
  <2>1. i \in 1 .. n + 1 /\ j \in 1 .. n + 1 /\ k \in 1 .. n + 1
    BY <1>4 DEF Reporting
  <2>2. i # n + 1 /\ j # n + 1
    BY <1>1, <2>1
  <2>3. i \in Reporting(x, l) /\ j \in Reporting(y, l)
    BY <1>10, <2>2
  <2>4. CASE k \in Reporting(x, l)
    BY <1>1, <2>3, <2>4 DEF ReportsApart
  <2>5. CASE k = n + 1 /\ x = c
    <3>1. j < i
      BY <1>1, <1>2, <2>3, <2>5 DEF LastInv
    <3>. QED
      BY <1>1, <2>1, <3>1
  <2>. QED
    BY <1>10, <2>4, <2>5
<1>. QED
  BY <1>9, <1>13, <1>14 DEF ReportInv

LEMMA ReportStep == ConsoleInv /\ ReportInv /\ [Next]_vars => ReportInv'
<1> SUFFICES ASSUME ConsoleInv, ReportInv, [Next]_vars PROVE ReportInv'
  OBVIOUS
<1>1. CASE PrintSplash
  BY <1>1, MovesReport, ConsoleAssumption
<1>2. CASE Transmit \/ UNCHANGED vars
  <2>1. UNCHANGED << lock, pc, call, panic, screen >>
    BY <1>2 DEF Transmit, vars, core
  <2>2. HolderInv'
    BY <2>1 DEF ReportInv, HolderInv, Reporter, Busy, InSplash
  <2>3. LastInv' /\ ReportsApart'
    BY <2>1 DEF ReportInv, LastInv, ReportsApart, Reporting
  <2>. QED
    BY <2>2, <2>3 DEF ReportInv
<1>. QED
  BY <1>1, <1>2, MovesReport, PanicReport, FlantermReport DEF Next, Run, Moves

(* The reports of two panics that take the same lock do not mix, however many
   cores panic and whatever else is logged meanwhile: a report is three calls
   of Log, LogSpinlock is free between them, and the panic's own lock keeps
   the other panics of its kind out until the core halts. *)
THEOREM ReportsStayApart == Spec => []ReportsApart
<1>1. ConsoleInv /\ ReportInv /\ [Next]_vars => (ConsoleInv /\ ReportInv)'
  BY TypeStep, LockStep, PlaceStep, ScreenStep, ReportStep DEF ConsoleInv
<1>2. ReportInv => ReportsApart
  BY DEF ReportInv
<1>. QED
  BY ConsoleInit, ReportInit, <1>1, <1>2, PTL DEF Spec

-----------------------------------------------------------------------------
(* Who waits for what *)

(* Between the acquisition and the release of PrintLock. *)
InPrint(c) ==
  pc[c] = "printed" \/ (pc[c] \in InPutChar \union { "put" } /\ text[c][pos[c]].run # 0)

(* The core that writes holds the locks of the functions it is in, and no
   other of the three is taken. *)
InnerOf(c) ==
  /\ Busy(c) => /\ lock["PrintLock"] <=> InPrint(c)
                /\ lock["PutCharLock"] <=> pc[c] \in InPutChar
                /\ lock["LogSpinlock"] <=> ~InSplash(c)
  /\ pc[c] = "print" => text[c][pos[c]].run # 0
AllFree == ~lock["PrintLock"] /\ ~lock["PutCharLock"] /\ ~lock["LogSpinlock"]
InnerInv ==
  /\ \A c \in Cores : InnerOf(c)
  /\ (\A c \in Cores : ~Busy(c)) => AllFree

(* A panic's lock that is taken has a panic that reports. *)
OwnerInv == \A l \in PanicLocks : lock[l] => \E c \in Cores : Reporter(c) /\ panic[c] = l

WaitInv == InnerInv /\ OwnerInv

LEMMA WaitInit == Init => WaitInv
<1> SUFFICES ASSUME Init PROVE WaitInv
  OBVIOUS
<1>1. \A c \in Cores : pc[c] \in { "off", "idle" }
  BY DEF Init
<1>2. \A l \in Locks : ~lock[l]
  BY DEF Init
<1>3. InnerInv
  BY <1>1, <1>2 DEF InnerInv, InnerOf, AllFree, Busy, Writing, InPutChar, Locks
<1>4. OwnerInv
  BY <1>2 DEF OwnerInv, Locks
<1>. QED
  BY <1>3, <1>4 DEF WaitInv

(* A step of core c: it goes on writing, ends its text, or never wrote. *)
LEMMA InnerFrame ==
  ASSUME InnerInv, OneBusy, OneBusy', NEW c \in Cores, Only(c),
         \/ Busy(c)' /\ InnerOf(c)'
         \/ Busy(c) /\ ~Busy(c)' /\ AllFree'
         \/ /\ ~Busy(c) /\ ~Busy(c)'
            /\ \A l \in Locks \ PanicLocks : lock'[l] = lock[l]
  PROVE  InnerInv'
<1>1. \A d \in Cores : ~Busy(d)' => InnerOf(d)'
  BY DEF InnerOf, Busy, Writing
<1>2. \A d \in Cores : d # c => (Busy(d)' <=> Busy(d))
  BY DEF Only, Busy
<1>3. CASE Busy(c)' /\ InnerOf(c)'
  <2>1. \A d \in Cores : d # c => ~Busy(d)'
    BY <1>3 DEF OneBusy
  <2>. QED
    BY <1>1, <1>3, <2>1 DEF InnerInv
<1>4. CASE Busy(c) /\ ~Busy(c)' /\ AllFree'
  <2>1. \A d \in Cores : ~Busy(d)'
    BY <1>2, <1>4 DEF OneBusy
  <2>. QED
    BY <1>1, <1>4, <2>1 DEF InnerInv
<1>5. CASE /\ ~Busy(c) /\ ~Busy(c)'
           /\ \A l \in Locks \ PanicLocks : lock'[l] = lock[l]
  <2>1. \A d \in Cores : Busy(d)' <=> Busy(d)
    BY <1>2, <1>5
  <2>2. \A l \in { "PrintLock", "PutCharLock", "LogSpinlock" } : lock'[l] = lock[l]
    BY <1>5 DEF Locks, PanicLocks
  <2>3. AllFree' <=> AllFree
    BY <2>2 DEF AllFree
  <2>4. ASSUME NEW d \in Cores, Busy(d)' PROVE InnerOf(d)'
    <3>1. d # c
      BY <1>5, <2>4
    <3>2. pc'[d] = pc[d] /\ text'[d] = text[d] /\ pos'[d] = pos[d] /\ call'[d] = call[d]
      BY <3>1 DEF Only
    <3>3. InnerOf(d) /\ Busy(d)
      BY <2>1, <2>4 DEF InnerInv
    <3>. QED
      BY <2>2, <3>2, <3>3 DEF InnerOf, InPrint, InSplash
  <2>. QED
    BY <1>1, <2>1, <2>3, <2>4 DEF InnerInv
<1>. QED
  BY <1>3, <1>4, <1>5

(* The callers take no lock of Log's. *)
LEMMA CallsInner ==
  ASSUME ConsoleInv, InnerInv, OneBusy', NEW c \in Cores, Calls(c)
  PROVE  InnerInv'
<1>1. pc \in [Cores -> Labels] /\ lock \in [Locks -> BOOLEAN]
      /\ panic \in [Cores -> PanicLocks \union {None}]
  BY DEF ConsoleInv, ConsoleTypeOK
<1>2. Only(c)
  BY StepOnly
<1>3. ~Busy(c) /\ ~Busy(c)'
  BY <1>1 DEF Calls, StartCore, CallLog, CallPanic, PanicAcquire, PanicLogs, PanicHalts, Begin,
              Goto, Busy, Writing, InPutChar
<1>4. lock' = lock \/ \E b : \E l \in PanicLocks \union {None} : lock' = [lock EXCEPT ![l] = b]
  BY <1>1 DEF Calls, StartCore, CallLog, CallPanic, PanicAcquire, PanicLogs, PanicHalts, Acquire,
              Release, Taken
<1>5. \A l \in Locks \ PanicLocks : lock'[l] = lock[l]
  BY <1>1, <1>4 DEF Locks, PanicLocks, None
<1>. QED
  BY <1>2, <1>3, <1>5, InnerFrame DEF ConsoleInv, LockInv

(* The core that writes takes a function's lock and gives it back. *)
LEMMA MovesInner ==
  ASSUME ConsoleInv, InnerInv, OneBusy', NEW c \in Cores, Moves(c) \/ FlantermWrite(c)
  PROVE  InnerInv'
<1>1. pc \in [Cores -> Labels] /\ lock \in [Locks -> BOOLEAN] /\ pos \in [Cores -> Nat \ {0}]
  BY DEF ConsoleInv, ConsoleTypeOK
<1>2. Only(c) /\ OneBusy
  BY StepOnly DEF ConsoleInv, LockInv
<1>3. UNCHANGED << call, text >>
  BY DEF FlantermWrite, Moves, LogAcquire, Format, LogRelease, PrintAcquire, PrintRelease,
         PutAcquire, WriteReturn, WriteByte, PutRelease
<1>4. Busy(c) => /\ lock["PrintLock"] <=> InPrint(c)
                 /\ lock["PutCharLock"] <=> pc[c] \in InPutChar
                 /\ lock["LogSpinlock"] <=> ~InSplash(c)
  BY DEF InnerInv, InnerOf
<1>5. pc[c] = "print" => text[c][pos[c]].run # 0
  BY DEF InnerInv, InnerOf
<1>6. InSplash(c)' = InSplash(c)
  BY <1>3 DEF InSplash
<1> USE DEF Goto, Acquire, Release, Taken, Locks, Busy, Writing, InPutChar
<1>7. CASE LogAcquire(c)
  <2>1. Splashed
    BY <1>7, AfterSplash DEF LogAcquire
  <2>2. ~InSplash(c)
    BY <1>7, <2>1 DEF LogAcquire, InSplash, Splashed, InCall, Outside
  <2>3. \A d \in Cores : ~Busy(d)
    <3>1. ASSUME NEW d \in Cores, Busy(d) PROVE FALSE
      <4>1. InSplash(d)
        BY <1>7, <3>1 DEF LogAcquire, ConsoleInv, LockInv, BusyHolds
      <4>2. InCall(Boot) /\ call[Boot] = 1
        BY <3>1, <4>1 DEF InSplash, InCall, Outside
      <4>. QED
        BY <2>1, <4>2 DEF Splashed
    <3>. QED
      BY <3>1
  <2>4. AllFree
    BY <2>3 DEF InnerInv
  <2>5. InnerOf(c)'
    BY <1>1, <1>6, <1>7, <2>2, <2>4 DEF LogAcquire, InnerOf, InPrint, AllFree
  <2>. QED
    BY <1>1, <1>2, <1>7, <2>5, InnerFrame DEF LogAcquire
<1>8. CASE LogRelease(c)
  <2>1. ~lock["PrintLock"] /\ ~lock["PutCharLock"]
    BY <1>4, <1>8 DEF LogRelease, InPrint
  <2>2. AllFree'
    BY <1>1, <1>8, <2>1 DEF LogRelease, AllFree
  <2>. QED
    BY <1>1, <1>2, <1>8, <2>2, InnerFrame DEF LogRelease
<1>9. CASE PrintRelease(c)
  <2>1. ~lock["PutCharLock"] /\ ~lock'["PrintLock"] /\ ~lock'["PutCharLock"]
        /\ lock'["LogSpinlock"] = lock["LogSpinlock"]
    BY <1>1, <1>4, <1>9 DEF PrintRelease
  <2>2. CASE InSplash(c)
    <3>1. AllFree'
      BY <1>4, <1>9, <2>1, <2>2 DEF PrintRelease, AllFree
    <3>. QED
      BY <1>1, <1>2, <1>9, <2>2, <3>1, InnerFrame DEF PrintRelease
  <2>3. CASE ~InSplash(c)
    <3>1. pc'[c] = "format" /\ pc[c] = "printed"
      BY <1>1, <1>9, <2>3 DEF PrintRelease
    <3>2. InnerOf(c)'
      BY <1>4, <1>6, <2>1, <2>3, <3>1 DEF InnerOf, InPrint
    <3>. QED
      BY <1>2, <3>1, <3>2, InnerFrame
  <2>. QED
    BY <2>2, <2>3
<1>10. CASE Format(c)
  <2>1. /\ UNCHANGED << lock, pos >> /\ pc[c] = "format"
        /\ pc'[c] = IF text[c][pos[c]].run = 0 THEN "put" ELSE "print"
    BY <1>1, <1>10 DEF Format
  <2>2. InnerOf(c)'
    BY <1>3, <1>4, <1>6, <2>1 DEF InnerOf, InPrint
  <2>. QED
    BY <1>2, <2>1, <2>2, InnerFrame
<1>11. CASE PrintAcquire(c)
  <2>1. /\ pos' = pos /\ pc[c] = "print" /\ pc'[c] = "put"
        /\ lock'["PrintLock"] /\ lock'["PutCharLock"] = lock["PutCharLock"]
        /\ lock'["LogSpinlock"] = lock["LogSpinlock"]
    BY <1>1, <1>11 DEF PrintAcquire
  <2>2. InnerOf(c)'
    BY <1>3, <1>4, <1>5, <1>6, <2>1 DEF InnerOf, InPrint
  <2>. QED
    BY <1>2, <2>1, <2>2, InnerFrame
<1>12. CASE PutAcquire(c)
  <2>1. /\ pos' = pos /\ pc[c] = "put" /\ pc'[c] = "flanterm"
        /\ lock'["PutCharLock"] /\ lock'["PrintLock"] = lock["PrintLock"]
        /\ lock'["LogSpinlock"] = lock["LogSpinlock"]
    BY <1>1, <1>12 DEF PutAcquire
  <2>2. InnerOf(c)'
    BY <1>3, <1>4, <1>6, <2>1 DEF InnerOf, InPrint
  <2>. QED
    BY <1>2, <2>1, <2>2, InnerFrame
<1>13. CASE FlantermWrite(c) \/ WriteReturn(c) \/ WriteByte(c)
  <2>1. /\ UNCHANGED << lock, pos >> /\ pc[c] \in InPutChar /\ pc'[c] \in InPutChar
    BY <1>1, <1>13 DEF FlantermWrite, WriteReturn, WriteByte
  <2>2. InnerOf(c)'
    BY <1>3, <1>4, <1>6, <2>1 DEF InnerOf, InPrint
  <2>. QED
    BY <1>2, <2>1, <2>2, InnerFrame
<1>14. CASE PutRelease(c)
  <2> DEFINE run == text[c][pos[c]].run
             next == text[c][pos[c] + 1].run
  <2>1. /\ pos'[c] = pos[c] + 1 /\ pc[c] = "put done"
        /\ ~lock'["PutCharLock"] /\ lock'["PrintLock"] = lock["PrintLock"]
        /\ lock'["LogSpinlock"] = lock["LogSpinlock"]
        /\ \/ run = 0 /\ pc'[c] = "format"
           \/ run # 0 /\ next = run /\ pc'[c] = "put"
           \/ run # 0 /\ pc'[c] = "printed"
    BY <1>1, <1>14 DEF PutRelease
  <2>2. text'[c][pos'[c]].run = next /\ (lock["PrintLock"] <=> run # 0)
    BY <1>3, <1>4, <2>1 DEF InPrint
  <2>3. lock["LogSpinlock"] <=> ~InSplash(c)
    BY <1>4, <2>1
  <2> HIDE DEF run, next
  <2>4. InnerOf(c)'
    BY <1>6, <2>1, <2>2, <2>3 DEF InnerOf, InPrint
  <2>. QED
    BY <1>2, <2>1, <2>4, InnerFrame
<1>. QED
  BY <1>7, <1>8, <1>9, <1>10, <1>11, <1>12, <1>13, <1>14 DEF Moves

LEMMA InnerStep == ConsoleInv /\ OneBusy' /\ InnerInv /\ [Next]_vars => InnerInv'
<1> SUFFICES ASSUME ConsoleInv, OneBusy', InnerInv, [Next]_vars PROVE InnerInv'
  OBVIOUS
<1>1. pc \in [Cores -> Labels] /\ call \in [Cores -> Nat] /\ pos \in [Cores -> Nat \ {0}]
      /\ text \in [Cores -> Seq(Char)] /\ Boot \in Cores
  BY ConsoleAssumption DEF ConsoleInv, ConsoleTypeOK
<1>2. CASE PrintSplash
  <2>1. /\ call'[Boot] = 1 /\ pc'[Boot] = "print" /\ pos'[Boot] = 1 /\ text'[Boot] = Splash
        /\ lock' = lock /\ call[Boot] = 0
    BY <1>1, <1>2 DEF PrintSplash, Begin, Goto
  <2>2. \A c \in Cores : ~Busy(c)
    <3>1. ~Splashed
      BY <2>1 DEF Splashed
    <3>2. \A c \in Cores \ {Boot} : pc[c] = "off"
      BY <3>1 DEF ConsoleInv, LockInv, SplashAlone
    <3>3. pc[Boot] = "idle"
      BY <2>1, <3>1 DEF ConsoleInv, LockInv, SplashAlone
    <3>. QED
      BY <3>2, <3>3 DEF Busy, Writing, InPutChar
  <2>3. AllFree'
    BY <2>1, <2>2 DEF InnerInv, AllFree
  <2>4. Splash[1].run # 0
    <3>1. Splash # << >> /\ Splash \in Seq(Char) /\ \A i \in DOMAIN Splash : Splash[i].run = 1
      BY ConsoleAssumption DEF IsText
    <3>2. 1 \in DOMAIN Splash
      BY <3>1
    <3>. QED
      BY <3>1, <3>2
  <2>5. InnerOf(Boot)' /\ Busy(Boot)'
    BY <2>1, <2>3, <2>4 DEF InnerOf, AllFree, InPrint, Busy, Writing, InPutChar, InSplash
  <2>6. Only(Boot) /\ OneBusy
    BY <1>1, <1>2, StepOnly DEF ConsoleInv, LockInv
  <2>. QED
    BY <1>1, <2>5, <2>6, InnerFrame
<1>3. CASE Transmit \/ UNCHANGED vars
  <2>1. UNCHANGED << lock, pc, call, text, pos >>
    BY <1>3 DEF Transmit, vars, core
  <2>. QED
    BY <2>1 DEF InnerInv, InnerOf, InPrint, AllFree, Busy, InSplash
<1>. QED
  BY <1>2, <1>3, CallsInner, MovesInner DEF Next, Run, Calls, Moves

(* The locks of the panics. *)
LEMMA OwnerFrame ==
  ASSUME OwnerInv, panic' = panic, \A l \in PanicLocks : lock'[l] = lock[l],
         \A c \in Cores : Reporter(c) => Reporter(c)'
  PROVE  OwnerInv'
BY DEF OwnerInv

LEMMA OwnerStep == ConsoleInv /\ ReportInv /\ OwnerInv /\ [Next]_vars => OwnerInv'
<1> SUFFICES ASSUME ConsoleInv, ReportInv, OwnerInv, [Next]_vars PROVE OwnerInv'
  OBVIOUS
<1>1. pc \in [Cores -> Labels] /\ lock \in [Locks -> BOOLEAN] /\ Boot \in Cores
      /\ panic \in [Cores -> PanicLocks \union {None}]
  BY ConsoleAssumption DEF ConsoleInv, ConsoleTypeOK
<1>2. CASE PrintSplash
  <2>1. \A c \in Cores : pc'[c] = pc[c] \/ pc'[c] = "print"
    BY <1>1, <1>2 DEF PrintSplash, Begin, Goto
  <2>2. panic' = panic /\ lock' = lock
    BY <1>2 DEF PrintSplash
  <2>. QED
    BY <2>1, <2>2, OwnerFrame DEF Reporter
<1>3. CASE Transmit \/ UNCHANGED vars
  <2>1. UNCHANGED << lock, pc, panic >>
    BY <1>3 DEF Transmit, vars, core
  <2>. QED
    BY <2>1, OwnerFrame DEF Reporter
<1>4. ASSUME NEW c \in Cores,
             StartCore(c) \/ CallLog(c) \/ PanicLogs(c) \/ Moves(c) \/ FlantermWrite(c)
      PROVE  OwnerInv'
  <2>1. panic' = panic
    BY <1>4 DEF StartCore, CallLog, PanicLogs, FlantermWrite, Moves, LogAcquire, Format,
                LogRelease, PrintAcquire, PrintRelease, PutAcquire, WriteReturn, WriteByte,
                PutRelease
  <2>2. \A d \in Cores : pc'[d] = pc[d] \/ pc'[d] \notin { "panic", "halted" }
    BY <1>1, <1>4 DEF StartCore, CallLog, PanicLogs, FlantermWrite, Moves, LogAcquire, Format,
                LogRelease, PrintAcquire, PrintRelease, PutAcquire, WriteReturn, WriteByte,
                PutRelease, Begin, Goto
  <2>3. lock' = lock \/ \E b : \E l \in Locks \ PanicLocks : lock' = [lock EXCEPT ![l] = b]
    BY <1>4 DEF StartCore, CallLog, PanicLogs, FlantermWrite, Moves, LogAcquire, Format,
                LogRelease, PrintAcquire, PrintRelease, PutAcquire, WriteReturn, WriteByte,
                PutRelease, Acquire, Release, Taken, Locks, PanicLocks
  <2>4. \A l \in PanicLocks : lock'[l] = lock[l]
    BY <1>1, <2>3 DEF Locks
  <2>. QED
    BY <2>1, <2>2, <2>4, OwnerFrame DEF Reporter
<1>5. ASSUME NEW c \in Cores, CallPanic(c) PROVE OwnerInv'
  <2>1. /\ pc[c] = "idle" /\ lock' = lock
        /\ \A d \in Cores : d # c => panic'[d] = panic[d] /\ pc'[d] = pc[d]
    BY <1>1, <1>5 DEF CallPanic, Goto
  <2>2. ~Reporter(c)
    BY <2>1 DEF ReportInv, HolderInv, Reporter
  <2>3. \A d \in Cores : Reporter(d) => Reporter(d)' /\ panic'[d] = panic[d]
    BY <2>1, <2>2 DEF Reporter
  <2>. QED
    BY <2>1, <2>3 DEF OwnerInv
<1>6. ASSUME NEW c \in Cores, PanicAcquire(c) PROVE OwnerInv'
  <2>1. /\ pc[c] = "panic" /\ pc'[c] = "report" /\ panic' = panic
        /\ \A d \in Cores : d # c => pc'[d] = pc[d]
        /\ \A l \in PanicLocks : l # panic[c] => lock'[l] = lock[l]
    BY <1>1, <1>6 DEF PanicAcquire, Acquire, Taken, Goto, Locks
  <2>2. Reporter(c)'
    BY <2>1 DEF Reporter, ReportInv, HolderInv
  <2>3. \A d \in Cores : Reporter(d) => Reporter(d)'
    BY <2>1, <2>2 DEF Reporter
  <2>. QED
    BY <2>1, <2>2, <2>3 DEF OwnerInv
<1>7. ASSUME NEW c \in Cores, PanicHalts(c) PROVE OwnerInv'
  <2>1. /\ pc[c] = "report" /\ panic' = panic
        /\ \A d \in Cores : d # c => pc'[d] = pc[d]
        /\ \A l \in PanicLocks : IF l = panic[c] THEN ~lock'[l] ELSE lock'[l] = lock[l]
    BY <1>1, <1>7 DEF PanicHalts, Release, Taken, Goto, Locks
  <2>2. \A d \in Cores : d # c /\ Reporter(d) => Reporter(d)'
    BY <2>1 DEF Reporter
  <2>. QED
    BY <2>1, <2>2 DEF OwnerInv
<1>. QED
  BY <1>2, <1>3, <1>4, <1>5, <1>6, <1>7 DEF Next, Run, Moves

(* What a core may find taken, and by whom. *)
NoCircle ==
  \A c \in Cores :
    /\ pc[c] = "panic" /\ lock[panic[c]] =>
         \E d \in Cores : panic[d] = panic[c] /\ (pc[d] = "report" \/ InCall(d))
    /\ pc[c] = "log" /\ lock["LogSpinlock"] => \E d \in Cores : d # c /\ Busy(d)
    /\ pc[c] = "print" => ~lock["PrintLock"]
    /\ pc[c] = "put" => ~lock["PutCharLock"]

(* The locks of the console cannot make a circle.  PrintLock and PutCharLock
   are always free when they are wanted, as LogSpinlock, or being alone in
   _start's Print, keeps everybody else out; LogSpinlock is held by a core that
   writes and so waits for nothing but the serial port; a panic's lock by one
   that reports and waits for LogSpinlock at most.  For any number of cores and
   any texts. *)
THEOREM LocksInOrder == Spec => []NoCircle
<1>1. ConsoleInv /\ ReportInv /\ WaitInv /\ [Next]_vars => (ConsoleInv /\ ReportInv /\ WaitInv)'
  <2>1. ConsoleInv /\ ReportInv /\ [Next]_vars => (ConsoleInv /\ ReportInv)'
    BY TypeStep, LockStep, PlaceStep, ScreenStep, ReportStep DEF ConsoleInv
  <2>2. ConsoleInv' => OneBusy'
    BY DEF ConsoleInv, LockInv
  <2>. QED
    BY <2>1, <2>2, InnerStep, OwnerStep DEF WaitInv
<1>2. ConsoleInv /\ ReportInv /\ WaitInv => NoCircle
  <2> SUFFICES ASSUME ConsoleInv, ReportInv, WaitInv, NEW c \in Cores
               PROVE  /\ pc[c] = "panic" /\ lock[panic[c]] =>
                           \E d \in Cores : panic[d] = panic[c] /\ (pc[d] = "report" \/ InCall(d))
                      /\ pc[c] = "log" /\ lock["LogSpinlock"] => \E d \in Cores : d # c /\ Busy(d)
                      /\ pc[c] = "print" => ~lock["PrintLock"]
                      /\ pc[c] = "put" => ~lock["PutCharLock"]
    BY DEF NoCircle
  <2>1. panic[c] \in PanicLocks \union {None}
    BY DEF ConsoleInv, ConsoleTypeOK
  <2>2. ASSUME pc[c] = "panic", lock[panic[c]]
        PROVE  \E d \in Cores : panic[d] = panic[c] /\ (pc[d] = "report" \/ InCall(d))
    <3>1. panic[c] \in PanicLocks
      BY <2>1, <2>2 DEF ReportInv, HolderInv
    <3>2. PICK d \in Cores : Reporter(d) /\ panic[d] = panic[c]
      BY <2>2, <3>1 DEF WaitInv, OwnerInv
    <3>3. pc[d] \notin { "off", "idle", "panic", "halted" }
      BY <3>2 DEF Reporter, ReportInv, HolderInv
    <3>. QED
      BY <3>2, <3>3 DEF InCall, Outside
  <2>3. ASSUME pc[c] = "log", lock["LogSpinlock"] PROVE \E d \in Cores : d # c /\ Busy(d)
    <3>1. \E d \in Cores : Busy(d)
      BY <2>3 DEF WaitInv, InnerInv, AllFree
    <3>. QED
      BY <2>3, <3>1 DEF Busy, Writing, InPutChar
  <2>4. Busy(c) => /\ lock["PrintLock"] <=> InPrint(c)
                   /\ (lock["PutCharLock"] <=> pc[c] \in InPutChar)
    BY DEF WaitInv, InnerInv, InnerOf
  <2>5. pc[c] = "print" => ~lock["PrintLock"]
    BY <2>4 DEF Busy, Writing, InPrint, InPutChar
  <2>6. pc[c] = "put" => ~lock["PutCharLock"]
    BY <2>4 DEF Busy, Writing, InPutChar
  <2>. QED
    BY <2>2, <2>3, <2>5, <2>6
<1>. QED
  BY ConsoleInit, ReportInit, WaitInit, <1>1, <1>2, PTL DEF Spec

-----------------------------------------------------------------------------
(* Flattening *)

(* The order of the numbers is well founded. *)
LEMMA LessThan ==
  \E R : IsWellFoundedOn(R, Nat) /\ \A x, y \in Nat : x < y => << x, y >> \in R
<1>1. \A x, y \in Nat : x < y => << x, y >> \in OpToRel(<, Nat)
  BY DEF OpToRel
<1>. QED
  BY <1>1, NatLessThanWellFounded, Zenon

(* A set of numbers has a least element. *)
LEMMA Least ==
  ASSUME NEW T, T \subseteq Nat, T # {}
  PROVE  \E x \in T : \A y \in T : x <= y
<1>1. PICK R : IsWellFoundedOn(R, Nat) /\ \A x, y \in Nat : x < y => << x, y >> \in R
  BY LessThan
<1>2. IsWellFoundedOn(R, Nat)
  BY <1>1
<1>3. PICK x \in T : \A y \in T : ~(<< y, x >> \in R)
  BY <1>2, WFMin, Zenon
<1>4. \A y \in T : ~(y < x)
  BY <1>1, <1>3
<1>. QED
  BY <1>3, <1>4

(* FlattenSeq's recursive function as far as n: a function with one value per
   part, defined by the one before it. *)
Joined(f, i, x) == IF i = 1 THEN x ELSE f[i - 1] \o x
IsFlat(f, s, n) == f = [i \in 1 .. n |-> Joined(f, i, s[i])]

LEMMA FlatExists == ASSUME NEW s, NEW n \in Nat PROVE \E f : IsFlat(f, s, n)
<1> DEFINE T == { k \in Nat : ~ \E f : IsFlat(f, s, k) }
<1>1. SUFFICES ASSUME T # {} PROVE FALSE
  OBVIOUS
<1>2. PICK k \in T : \A j \in T : k <= j
  <2>1. T \subseteq Nat
    OBVIOUS
  <2>. HIDE DEF T
  <2>. QED
    BY <1>1, <2>1, Least
<1>3. k \in Nat /\ ~ \E f : IsFlat(f, s, k)
  OBVIOUS
<1>4. CASE k = 0
  <2> DEFINE f == [i \in 1 .. 0 |-> 0]
  <2>1. f = [i \in 1 .. 0 |-> Joined(f, i, s[i])]
    OBVIOUS
  <2>2. IsFlat(f, s, 0)
    BY <2>1 DEF IsFlat
  <2>. QED
    BY <1>3, <1>4, <2>2
<1>5. CASE k # 0
  <2> DEFINE j == k - 1
  <2>1. j \in Nat /\ j < k /\ k = j + 1 /\ 1 .. k = (1 .. j) \union {k}
    BY <1>3, <1>5
  <2>2. j \notin T
    BY <1>2, <1>3, <2>1
  <2>3. PICK f : IsFlat(f, s, j)
    BY <2>1, <2>2
  <2> HIDE DEF j
  <2> DEFINE g == [i \in 1 .. k |-> IF i = k THEN Joined(f, k, s[k]) ELSE f[i]]
  <2>4. \A i \in 1 .. j : g[i] = f[i]
    BY <2>1, <1>3
  <2>5. \A i \in 1 .. j : f[i] = Joined(f, i, s[i])
    BY <2>3 DEF IsFlat
  <2>6. \A i \in 1 .. k : g[i] = Joined(g, i, s[i])
    <3>1. SUFFICES ASSUME NEW i \in 1 .. k
                   PROVE  g[i] = Joined(g, i, s[i])
      OBVIOUS
    <3>2. i # 1 => g[i - 1] = f[i - 1]
      <4>1. i # 1 => i - 1 \in 1 .. j
        BY <2>1, <1>3
      <4>. QED
        BY <2>4, <4>1
    <3>3. Joined(g, i, s[i]) = Joined(f, i, s[i])
      BY <3>2 DEF Joined
    <3>4. CASE i = k
      <4>1. g[i] = Joined(f, k, s[k])
        BY <3>4
      <4>. QED
        BY <3>3, <3>4, <4>1
    <3>5. CASE i # k
      <4>1. i \in 1 .. j
        BY <2>1, <3>5
      <4>. HIDE DEF g
      <4>. QED
        BY <2>4, <2>5, <3>3, <4>1
    <3>. QED
      BY <3>4, <3>5
  <2>7. g = [i \in 1 .. k |-> g[i]]
    OBVIOUS
  <2>8. IsFlat(g, s, k)
    <3>. HIDE DEF g
    <3>. QED
      BY <2>6, <2>7 DEF IsFlat
  <2>. QED
    BY <1>3, <2>8
<1>. QED
  BY <1>4, <1>5

LEMMA FlatValues ==
  ASSUME NEW f, NEW s, NEW n \in Nat, IsFlat(f, s, n)
  PROVE  \A i \in 1 .. n : f[i] = IF i = 1 THEN s[i] ELSE f[i - 1] \o s[i]
<1> DEFINE F(i) == Joined(f, i, s[i])
<1>1. f = [i \in 1 .. n |-> F(i)]
  BY DEF IsFlat
<1> HIDE DEF F
<1>2. \A i \in 1 .. n : f[i] = F(i)
  BY <1>1
<1>. QED
  BY <1>2 DEF F, Joined

LEMMA FlattenIs ==
  ASSUME NEW T, NEW s \in Seq(Seq(T)), s # << >>
  PROVE  \E f : IsFlat(f, s, Len(s)) /\ FlattenSeq(s) = f[Len(s)]
<1>1. Len(s) \in Nat /\ Len(s) # 0
  OBVIOUS
<1> DEFINE F == CHOOSE f : f = [i \in 1 .. Len(s) |-> IF i = 1 THEN s[i] ELSE f[i - 1] \o s[i]]
<1>2. \E f : f = [i \in 1 .. Len(s) |-> IF i = 1 THEN s[i] ELSE f[i - 1] \o s[i]]
  BY <1>1, FlatExists DEF IsFlat, Joined
<1>3. F = [i \in 1 .. Len(s) |-> IF i = 1 THEN s[i] ELSE F[i - 1] \o s[i]]
  BY <1>2, Zenon
<1>4. FlattenSeq(s) = F[Len(s)]
  BY <1>1, Zenon DEF FlattenSeq
<1>5. IsFlat(F, s, Len(s))
  <2> HIDE DEF F
  <2>. QED
    BY <1>3 DEF IsFlat, Joined
<1>. QED
  BY <1>4, <1>5

(* The parts are sequences, and depend only on what is flattened. *)
LEMMA FlatType ==
  ASSUME NEW T, NEW s \in Seq(Seq(T)), NEW f, IsFlat(f, s, Len(s))
  PROVE  \A i \in 1 .. Len(s) : f[i] \in Seq(T)
<1> DEFINE S == Seq(T)
           n == Len(s)
           B == { i \in 1 .. n : f[i] \notin S }
<1>1. n \in Nat /\ \A i \in 1 .. n : s[i] \in S
  OBVIOUS
<1>2. \A i \in 1 .. n : f[i] = IF i = 1 THEN s[i] ELSE f[i - 1] \o s[i]
  BY <1>1, FlatValues
<1>3. SUFFICES ASSUME B # {} PROVE FALSE
  OBVIOUS
<1>4. PICK k \in B : \A j \in B : k <= j
  <2>1. B \subseteq Nat
    BY <1>1
  <2>. HIDE DEF B
  <2>. QED
    BY <1>3, <2>1, Least
<1>5. k \in 1 .. n /\ f[k] \notin S
  OBVIOUS
<1>6. k # 1
  BY <1>1, <1>2, <1>5
<1>7. k - 1 \in 1 .. n /\ k - 1 < k
  BY <1>1, <1>5, <1>6
<1>8. f[k - 1] \in S
  BY <1>1, <1>4, <1>7
<1>9. f[k] = f[k - 1] \o s[k] /\ s[k] \in S
  <2>. HIDE DEF S, B
  <2>. QED
    BY <1>1, <1>2, <1>5, <1>6
<1>10. \A a, b \in S : a \o b \in S
  OBVIOUS
<1>. QED
  <2>. HIDE DEF S
  <2>. QED
    BY <1>5, <1>8, <1>9, <1>10

Agrees(s, t, n) == \A i \in 1 .. n : s[i] = t[i]

LEMMA FlatAgree ==
  ASSUME NEW s, NEW t, NEW n \in Nat, NEW m \in Nat, n <= m, Agrees(s, t, n),
         NEW f, IsFlat(f, s, n), NEW g, IsFlat(g, t, m)
  PROVE  Agrees(f, g, n)
<1> DEFINE B == { i \in 1 .. n : f[i] # g[i] }
<1>1. /\ \A i \in 1 .. n : f[i] = IF i = 1 THEN s[i] ELSE f[i - 1] \o s[i]
      /\ \A i \in 1 .. m : g[i] = IF i = 1 THEN t[i] ELSE g[i - 1] \o t[i]
  BY FlatValues
<1>2. SUFFICES ASSUME B # {} PROVE FALSE
  BY DEF Agrees
<1>3. PICK k \in B : \A j \in B : k <= j
  <2>1. B \subseteq Nat
    OBVIOUS
  <2>. HIDE DEF B
  <2>. QED
    BY <1>2, <2>1, Least
<1>4. k \in 1 .. n /\ k \in 1 .. m /\ f[k] # g[k]
  OBVIOUS
<1>5. k # 1
  BY <1>1, <1>4 DEF Agrees
<1>6. k - 1 \in 1 .. n /\ k - 1 < k
  BY <1>4, <1>5
<1>7. f[k - 1] = g[k - 1]
  BY <1>3, <1>6
<1>8. f[k] = f[k - 1] \o s[k] /\ g[k] = g[k - 1] \o t[k] /\ s[k] = t[k]
  <2>. HIDE DEF B
  <2>. QED
    BY <1>1, <1>4, <1>5 DEF Agrees
<1>. QED
  BY <1>4, <1>7, <1>8

(* FlattenSeq(Append(s, x)) = FlattenSeq(s) \o x *)
LEMMA FlattenAppend ==
  ASSUME NEW T, NEW s \in Seq(Seq(T)), NEW x \in Seq(T)
  PROVE  /\ FlattenSeq(s) \in Seq(T)
         /\ FlattenSeq(Append(s, x)) = FlattenSeq(s) \o x
<1> DEFINE S == Seq(T)
           t == Append(s, x)
           n == Len(s)
<1>1. /\ n \in Nat /\ t \in Seq(S) /\ Len(t) = n + 1 /\ t # << >>
      /\ \A i \in 1 .. n : t[i] = s[i]
      /\ t[n + 1] = x
  <2>1. s \in Seq(S) /\ x \in S
    OBVIOUS
  <2>. HIDE DEF S
  <2>. QED
    BY <2>1
<1>2. PICK g : IsFlat(g, t, n + 1) /\ FlattenSeq(t) = g[n + 1]
  <2>. HIDE DEF t
  <2>. QED
    BY <1>1, FlattenIs
<1>3. g[n + 1] = IF n + 1 = 1 THEN x ELSE g[n] \o x
  <2>. HIDE DEF t
  <2>1. n + 1 \in Nat /\ n + 1 \in 1 .. n + 1 /\ (n + 1) - 1 = n
    BY <1>1
  <2>2. g[n + 1] = IF n + 1 = 1 THEN t[n + 1] ELSE g[(n + 1) - 1] \o t[n + 1]
    BY <1>2, <2>1, FlatValues
  <2>. QED
    BY <1>1, <2>1, <2>2
<1>4. CASE s = << >>
  <2>1. n = 0 /\ FlattenSeq(s) = << >>
    BY <1>4 DEF FlattenSeq
  <2>2. FlattenSeq(t) = x
    BY <1>2, <1>3, <2>1
  <2>3. << >> \in S /\ << >> \o x = x
    OBVIOUS
  <2>. QED
    BY <2>1, <2>2, <2>3
<1>5. CASE s # << >>
  <2>1. n # 0 /\ n \in 1 .. n
    BY <1>1, <1>5
  <2>2. PICK f : IsFlat(f, s, n) /\ FlattenSeq(s) = f[n]
    BY <1>5, FlattenIs
  <2>3. f[n] = g[n]
    <3>. HIDE DEF t, n
    <3>1. n \in Nat /\ n + 1 \in Nat /\ n <= n + 1 /\ Agrees(s, t, n)
      BY <1>1 DEF Agrees
    <3>2. IsFlat(f, s, n) /\ IsFlat(g, t, n + 1)
      BY <1>2, <2>2
    <3>3. Agrees(f, g, n)
      BY <3>1, <3>2, FlatAgree
    <3>. QED
      BY <2>1, <3>3 DEF Agrees
  <2>4. f[n] \in S
    BY <2>1, <2>2, FlatType
  <2>5. FlattenSeq(t) = g[n] \o x
    BY <1>1, <1>2, <1>3, <2>1
  <2>. QED
    BY <2>2, <2>3, <2>4, <2>5
<1>. QED
  BY <1>4, <1>5

-----------------------------------------------------------------------------
(* The serial port *)

(* What PutChar sends for a character, and the line a character ends. *)
Bytes(t) == IF t.newline THEN << CR, t >> ELSE << t >>
Ended(t) == IF t.last THEN << << t.core, t.call >> >> ELSE << >>

CallIds == Cores \X Nat

LEMMA CarriageReturn == CR \in Tokens
  BY ConsoleAssumption DEF CR, Tokens, None

LEMMA BytesType == ASSUME NEW t \in Tokens PROVE Bytes(t) \in Seq(Tokens)
<1> DEFINE T == Tokens
<1>1. CR \in T /\ t \in T
  BY CarriageReturn
<1> HIDE DEF T
<1>2. << CR, t >> \in Seq(T) /\ << t >> \in Seq(T)
  BY <1>1
<1>. QED
  BY <1>2 DEF Bytes, T

LEMMA EndedType == ASSUME NEW t \in Tokens PROVE Ended(t) \in Seq(CallIds)
<1> DEFINE e == << t.core, t.call >>
           T == CallIds
<1>1. e \in T
  BY DEF Tokens, CallIds
<1> HIDE DEF e, T
<1>2. << e >> \in Seq(T) /\ << >> \in Seq(T)
  BY <1>1
<1>. QED
  BY <1>2 DEF Ended, e, T

(* g is f with b behind it. *)
Extends(g, f, b) ==
  /\ g = [i \in 1 .. Len(f) + 1 |-> g[i]]
  /\ g[Len(f) + 1] = b /\ \A i \in 1 .. Len(f) : g[i] = f[i]

LEMMA AppendIs ==
  ASSUME NEW S, NEW f \in Seq(S), NEW b \in S, NEW g, Extends(g, f, b)
  PROVE  g = Append(f, b)
<1> DEFINE n == Len(f)
           h == Append(f, b)
<1>1. n \in Nat /\ h \in Seq(S) /\ Len(h) = n + 1
  BY AppendProperties
<1>2. h[n + 1] = b /\ \A i \in 1 .. n : h[i] = f[i]
  BY AppendProperties
<1>3. h = [i \in 1 .. n + 1 |-> h[i]]
  <2>. HIDE DEF h, n
  <2>. QED
    BY <1>1
<1>4. \A i \in 1 .. n + 1 : i \in 1 .. n \/ i = n + 1
  BY <1>1
<1>5. \A i \in 1 .. n + 1 : g[i] = h[i]
  BY <1>2, <1>4 DEF Extends
<1>. HIDE DEF h, n
<1>6. g = [i \in 1 .. n + 1 |-> g[i]]
  BY DEF n, Extends
<1>7. g = h
  BY <1>3, <1>5, <1>6
<1>. QED
  BY <1>7 DEF h

LEMMA SerialAppend ==
  ASSUME NEW s \in Seq(Tokens), NEW t \in Tokens
  PROVE  Serial(s) \in Seq(Tokens) /\ Serial(Append(s, t)) = Serial(s) \o Bytes(t)
<1> DEFINE K == Tokens
           S == Seq(Tokens)
           n == Len(s)
           u == Append(s, t)
           f == [i \in DOMAIN s |-> Bytes(s[i])]
           g == [i \in DOMAIN u |-> Bytes(u[i])]
           b == Bytes(t)
<1>1. /\ n \in Nat /\ DOMAIN s = 1 .. n /\ DOMAIN u = 1 .. n + 1 /\ u[n + 1] = t
      /\ \A i \in 1 .. n : u[i] = s[i] /\ s[i] \in K
  <2>1. s \in Seq(K) /\ t \in K
    OBVIOUS
  <2>. HIDE DEF K
  <2>. QED
    BY <2>1
<1>2. \A x \in K : Bytes(x) \in S
  BY BytesType
<1>3. f = [i \in 1 .. n |-> Bytes(s[i])] /\ g = [i \in 1 .. n + 1 |-> Bytes(u[i])]
  BY <1>1
<1>4. f \in Seq(S) /\ Len(f) = n /\ b \in S
  <2>1. b \in S
    BY <1>2
  <2>2. \A i \in 1 .. n : Bytes(s[i]) \in S
    BY <1>1, <1>2
  <2>. HIDE DEF S, b
  <2>3. f \in [1 .. n -> S] /\ DOMAIN f = 1 .. n
    BY <1>3, <2>2
  <2>. HIDE DEF f, n
  <2>4. f \in Seq(S)
    BY <1>1, <2>3, SeqDef
  <2>5. Len(f) = n
    BY <1>1, <2>3, <2>4, LenProperties
  <2>. QED
    BY <2>1, <2>4, <2>5
<1>5. g = Append(f, b)
  <2>1. g[n + 1] = b
    <3>1. n + 1 \in 1 .. n + 1
      BY <1>1
    <3>. HIDE DEF n, u
    <3>. QED
      BY <1>1, <1>3, <3>1
  <2>2. \A i \in 1 .. n : g[i] = f[i]
    <3>1. \A i \in 1 .. n : i \in 1 .. n + 1
      BY <1>1
    <3>. HIDE DEF n, u
    <3>. QED
      BY <1>1, <1>3, <3>1
  <2>3. g = [i \in 1 .. Len(f) + 1 |-> g[i]]
    <3>1. g = [i \in 1 .. n + 1 |-> g[i]]
      <4>. HIDE DEF n
      <4>. QED
        BY <1>3
    <3>. QED
      BY <1>4, <3>1
  <2>4. Extends(g, f, b)
    <3>. HIDE DEF f, g, b, n
    <3>. QED
      BY <1>4, <2>1, <2>2, <2>3 DEF Extends
  <2>. HIDE DEF f, g, b, S, n
  <2>. QED
    BY <1>4, <2>4, AppendIs
<1>6. Serial(s) = FlattenSeq(f) /\ Serial(u) = FlattenSeq(g)
  BY DEF Serial, Bytes
<1>7. FlattenSeq(f) \in S /\ FlattenSeq(Append(f, b)) = FlattenSeq(f) \o b
  <2>. HIDE DEF f, b
  <2>. QED
    BY <1>4, FlattenAppend
<1>. QED
  BY <1>5, <1>6, <1>7

LEMMA LinesAppend ==
  ASSUME NEW s \in Seq(Tokens), NEW t \in Tokens
  PROVE  Lines(s) \in Seq(CallIds) /\ Lines(Append(s, t)) = Lines(s) \o Ended(t)
<1> DEFINE K == Tokens
           S == Seq(CallIds)
           n == Len(s)
           u == Append(s, t)
           f == [i \in DOMAIN s |-> Ended(s[i])]
           g == [i \in DOMAIN u |-> Ended(u[i])]
           b == Ended(t)
<1>1. /\ n \in Nat /\ DOMAIN s = 1 .. n /\ DOMAIN u = 1 .. n + 1 /\ u[n + 1] = t
      /\ \A i \in 1 .. n : u[i] = s[i] /\ s[i] \in K
  <2>1. s \in Seq(K) /\ t \in K
    OBVIOUS
  <2>. HIDE DEF K
  <2>. QED
    BY <2>1
<1>2. \A x \in K : Ended(x) \in S
  BY EndedType
<1>3. f = [i \in 1 .. n |-> Ended(s[i])] /\ g = [i \in 1 .. n + 1 |-> Ended(u[i])]
  BY <1>1
<1>4. f \in Seq(S) /\ Len(f) = n /\ b \in S
  <2>1. b \in S
    BY <1>2
  <2>2. \A i \in 1 .. n : Ended(s[i]) \in S
    BY <1>1, <1>2
  <2>. HIDE DEF S, b
  <2>3. f \in [1 .. n -> S] /\ DOMAIN f = 1 .. n
    BY <1>3, <2>2
  <2>. HIDE DEF f, n
  <2>4. f \in Seq(S)
    BY <1>1, <2>3, SeqDef
  <2>5. Len(f) = n
    BY <1>1, <2>3, <2>4, LenProperties
  <2>. QED
    BY <2>1, <2>4, <2>5
<1>5. g = Append(f, b)
  <2>1. g[n + 1] = b
    <3>1. n + 1 \in 1 .. n + 1
      BY <1>1
    <3>. HIDE DEF n, u
    <3>. QED
      BY <1>1, <1>3, <3>1
  <2>2. \A i \in 1 .. n : g[i] = f[i]
    <3>1. \A i \in 1 .. n : i \in 1 .. n + 1
      BY <1>1
    <3>. HIDE DEF n, u
    <3>. QED
      BY <1>1, <1>3, <3>1
  <2>3. g = [i \in 1 .. Len(f) + 1 |-> g[i]]
    <3>1. g = [i \in 1 .. n + 1 |-> g[i]]
      <4>. HIDE DEF n
      <4>. QED
        BY <1>3
    <3>. QED
      BY <1>4, <3>1
  <2>4. Extends(g, f, b)
    <3>. HIDE DEF f, g, b, n
    <3>. QED
      BY <1>4, <2>1, <2>2, <2>3 DEF Extends
  <2>. HIDE DEF f, g, b, S, n
  <2>. QED
    BY <1>4, <2>4, AppendIs
<1>6. Lines(s) = FlattenSeq(f) /\ Lines(u) = FlattenSeq(g)
  BY DEF Lines, Ended
<1>7. FlattenSeq(f) \in S /\ FlattenSeq(Append(f, b)) = FlattenSeq(f) \o b
  <2>. HIDE DEF f, b
  <2>. QED
    BY <1>4, FlattenAppend
<1>. QED
  BY <1>5, <1>6, <1>7

(* What the core inside PutChar has put on the screen and not yet handed to
   the port. *)
Pending(c) ==
  IF pc[c] = "return" THEN << CR, Token(c) >>
  ELSE IF pc[c] = "byte" THEN << Token(c) >> ELSE << >>

(* What is on the screen is sent, in the register or pending. *)
PortOf(c) == Serial(screen) = (wire \o thr) \o Pending(c)
PortInv ==
  /\ wire \in Seq(Tokens) /\ thr \in Seq(Tokens)
  /\ \A c \in Cores : pc[c] \in InPutChar => PortOf(c)
  /\ (\A c \in Cores : pc[c] \notin InPutChar) => Serial(screen) = wire \o thr

LEMMA PortInit == Init => PortInv
<1> SUFFICES ASSUME Init PROVE PortInv
  OBVIOUS
<1>1. wire = << >> /\ thr = << >> /\ screen = << >>
  BY DEF Init
<1>2. Serial(screen) = << >>
  <2>1. [i \in DOMAIN screen |-> IF screen[i].newline THEN << CR, screen[i] >>
                                 ELSE << screen[i] >>] = << >>
    BY <1>1
  <2>. QED
    BY <2>1 DEF Serial, FlattenSeq
<1>3. \A c \in Cores : pc[c] \notin InPutChar
  BY DEF Init, InPutChar
<1>. QED
  BY <1>1, <1>2, <1>3 DEF PortInv

(* Nobody but the core that writes is inside PutChar. *)
LEMMA AloneInPut ==
  ASSUME ConsoleInv, NEW c \in Cores, Busy(c), Only(c)
  PROVE  \A d \in Cores : d # c => pc[d] \notin InPutChar /\ pc'[d] \notin InPutChar
<1>1. \A d \in Cores : d # c => pc[d] \notin Writing /\ pc'[d] = pc[d]
  BY DEF ConsoleInv, LockInv, OneBusy, Busy, Only
<1>. QED
  BY <1>1 DEF Writing

LEMMA PortBefore ==
  ASSUME ConsoleInv, PortInv, NEW c \in Cores, Busy(c), Only(c)
  PROVE  PortOf(c)
<1>1. CASE pc[c] \in InPutChar
  BY <1>1 DEF PortInv
<1>2. CASE pc[c] \notin InPutChar
  <2>1. Serial(screen) = wire \o thr
    BY <1>2, AloneInPut DEF PortInv
  <2>2. Pending(c) = << >>
    BY <1>2 DEF Pending, InPutChar
  <2>3. wire \o thr \in Seq(Tokens)
    BY DEF PortInv
  <2>4. (wire \o thr) \o << >> = wire \o thr
    <3> DEFINE w == wire \o thr
    <3>. HIDE DEF w
    <3>1. w \in Seq(Tokens)
      BY <2>3 DEF w
    <3>2. w \o << >> = w
      BY <3>1, ConcatEmptySeq
    <3>. QED
      BY <3>2 DEF w
  <2>. QED
    BY <2>1, <2>2, <2>4 DEF PortOf
<1>. QED
  BY <1>1, <1>2

LEMMA PortAfter ==
  ASSUME ConsoleInv, NEW c \in Cores, Busy(c), Only(c), PortOf(c)',
         wire' \in Seq(Tokens), thr' \in Seq(Tokens)
  PROVE  PortInv'
<1>1. \A d \in Cores : pc'[d] \in InPutChar => d = c
  BY AloneInPut
<1>2. ASSUME pc'[c] \notin InPutChar PROVE (Serial(screen) = wire \o thr)'
  <2>1. Pending(c)' = << >>
    BY <1>2 DEF Pending, InPutChar
  <2> DEFINE w == (wire \o thr)'
  <2>2. w \in Seq(Tokens)
    OBVIOUS
  <2>3. w \o << >> = w
    <3>. HIDE DEF w
    <3>. QED
      BY <2>2, ConcatEmptySeq
  <2>. QED
    BY <2>1, <2>3 DEF PortOf
<1>. QED
  BY <1>1, <1>2 DEF PortInv

(* Steps outside PutChar. *)
LEMMA PortFrame ==
  ASSUME ConsoleInv, PortInv, NEW c \in Cores, Only(c), UNCHANGED << screen, thr, wire >>,
         \A d \in Cores : d # c => panic'[d] = panic[d],
         pc[c] \notin InPutChar, pc'[c] \notin InPutChar
  PROVE  PortInv'
<1>1. ASSUME NEW d \in Cores, pc'[d] \in InPutChar
      PROVE  pc[d] \in InPutChar /\ Pending(d)' = Pending(d)
  BY <1>1 DEF Only, Pending, Token
<1>2. \A d \in Cores : pc[d] \in InPutChar => pc'[d] \in InPutChar
  BY DEF Only
<1>. QED
  BY <1>1, <1>2 DEF PortInv, PortOf

(* The steps of PutChar. *)
LEMMA PutPort ==
  ASSUME ConsoleInv, PortInv, NEW c \in Cores,
         PutAcquire(c) \/ FlantermWrite(c) \/ WriteReturn(c) \/ WriteByte(c) \/ PutRelease(c)
  PROVE  PortInv'
<1> DEFINE T == Tokens
           t == Token(c)
<1>1. /\ pc \in [Cores -> Labels] /\ screen \in Seq(T) /\ wire \in Seq(T) /\ thr \in Seq(T)
      /\ pc[c] \in AtCharacter
  BY DEF ConsoleInv, ConsoleTypeOK, PortInv, PutAcquire, FlantermWrite, WriteReturn, WriteByte,
         PutRelease, AtCharacter, InPutChar
<1>2. Busy(c) /\ Only(c) /\ t \in T /\ CR \in T
  <2>1. Busy(c)
    BY <1>1 DEF Busy, Writing, AtCharacter, InPutChar
  <2>2. Only(c)
    BY StepOnly DEF Moves
  <2>. QED
    BY <1>1, <2>1, <2>2, TokenType, CarriageReturn
<1>3. PortOf(c)
  BY <1>2, PortBefore
<1>4. CASE PutAcquire(c) \/ PutRelease(c)
  <2>1. Pending(c) = << >> /\ Pending(c)' = << >> /\ UNCHANGED << screen, wire, thr >>
    BY <1>1, <1>4 DEF PutAcquire, PutRelease, Goto, Pending
  <2>2. PortOf(c)'
    BY <1>3, <2>1 DEF PortOf
  <2>. QED
    BY <1>1, <1>2, <2>1, <2>2, PortAfter
<1>5. CASE FlantermWrite(c)
  <2>1. /\ pc[c] = "flanterm" /\ screen' = Append(screen, t) /\ UNCHANGED << wire, thr >>
        /\ pc'[c] = IF t.newline THEN "return" ELSE "byte"
        /\ UNCHANGED << call, text, pos, panic >>
    BY <1>1, <1>5 DEF FlantermWrite, Goto
  <2>2. Pending(c) = << >> /\ Pending(c)' = Bytes(t)
    BY <2>1 DEF Pending, Bytes, Token
  <2>3. Serial(screen)' = Serial(screen) \o Bytes(t)
    BY <1>1, <1>2, <2>1, SerialAppend
  <2>4. PortOf(c)'
    <3> DEFINE w == wire \o thr
    <3>1. w \in Seq(T) /\ Serial(screen) = w \o << >>
      BY <1>1, <1>3, <2>2 DEF PortOf
    <3>2. w \o << >> = w
      <4>. HIDE DEF w, T
      <4>. QED
        BY <3>1, ConcatEmptySeq
    <3>. QED
      BY <2>1, <2>2, <2>3, <3>1, <3>2 DEF PortOf
  <2>. QED
    BY <1>1, <1>2, <2>1, <2>4, PortAfter
<1>6. CASE WriteReturn(c)
  <2>1. /\ pc[c] = "return" /\ pc'[c] = "byte" /\ thr = << >> /\ thr' = << CR >>
        /\ UNCHANGED << screen, wire, call, text, pos, panic >>
    BY <1>1, <1>6 DEF WriteReturn, WriteCharacter, Goto
  <2>2. Pending(c) = << CR, t >> /\ Pending(c)' = << t >>
    BY <2>1 DEF Pending, Token
  <2>. HIDE DEF T, t
  <2>3. (wire \o << >>) \o << CR, t >> = (wire \o << CR >>) \o << t >>
    BY <1>1, <1>2, SMTT(30)
  <2>4. PortOf(c)'
    BY <1>3, <2>1, <2>2, <2>3 DEF PortOf
  <2>5. thr' \in Seq(T)
    <3>1. << CR >> \in Seq(T)
      BY <1>2
    <3>. QED
      BY <2>1, <3>1
  <2>. QED
    BY <1>1, <1>2, <2>1, <2>4, <2>5, PortAfter DEF T
<1>7. CASE WriteByte(c)
  <2>1. /\ pc[c] = "byte" /\ pc'[c] = "put done" /\ thr = << >> /\ thr' = << t >>
        /\ UNCHANGED << screen, wire, call, text, pos, panic >>
    BY <1>1, <1>7 DEF WriteByte, WriteCharacter, Goto
  <2>2. Pending(c) = << t >> /\ Pending(c)' = << >>
    BY <2>1 DEF Pending, Token
  <2>. HIDE DEF T, t
  <2>3. (wire \o << >>) \o << t >> = (wire \o << t >>) \o << >>
    BY <1>1, <1>2
  <2>4. PortOf(c)'
    BY <1>3, <2>1, <2>2, <2>3 DEF PortOf
  <2>5. thr' \in Seq(T)
    <3>1. << t >> \in Seq(T)
      BY <1>2
    <3>. QED
      BY <2>1, <3>1
  <2>. QED
    BY <1>1, <1>2, <2>1, <2>4, <2>5, PortAfter DEF T
<1>. QED
  BY <1>4, <1>5, <1>6, <1>7

(* The port sends what its register holds. *)
LEMMA TransmitPort ==
  ASSUME ConsoleInv, PortInv, Transmit
  PROVE  PortInv'
<1> DEFINE T == Tokens
<1>1. wire \in Seq(T) /\ thr \in Seq(T) /\ wire' = wire \o thr /\ thr' = << >>
      /\ UNCHANGED << pc, call, text, pos, panic, screen >>
  BY DEF PortInv, Transmit, core
<1>2. wire' \in Seq(T) /\ thr' \in Seq(T) /\ wire' \o thr' = wire \o thr
  <2>. HIDE DEF T
  <2>1. wire \o thr \in Seq(T) /\ << >> \in Seq(T)
    BY <1>1
  <2> DEFINE w == wire \o thr
  <2>2. w \o << >> = w
    <3>. HIDE DEF w
    <3>. QED
      BY <2>1, ConcatEmptySeq DEF w
  <2>. QED
    BY <1>1, <2>1, <2>2
<1>3. \A c \in Cores : Pending(c)' = Pending(c)
  BY <1>1 DEF Pending, Token
<1>. QED
  BY <1>1, <1>2, <1>3 DEF PortInv, PortOf

LEMMA PortStep == ConsoleInv /\ PortInv /\ [Next]_vars => PortInv'
<1> SUFFICES ASSUME ConsoleInv, PortInv, [Next]_vars PROVE PortInv'
  OBVIOUS
<1>1. pc \in [Cores -> Labels] /\ panic \in [Cores -> PanicLocks \union {None}] /\ Boot \in Cores
  BY ConsoleAssumption DEF ConsoleInv, ConsoleTypeOK
<1>2. CASE PrintSplash
  <2>1. pc[Boot] = "idle" /\ pc'[Boot] = "print" /\ UNCHANGED << panic, screen, thr, wire >>
    BY <1>1, <1>2 DEF PrintSplash, Begin, Goto, ConsoleInv, LockInv, SplashAlone, Splashed
  <2>. QED
    BY <1>1, <1>2, <2>1, StepOnly, PortFrame DEF InPutChar
<1>3. ASSUME NEW c \in Cores,
             \/ Calls(c) \/ LogAcquire(c) \/ Format(c) \/ LogRelease(c) \/ PrintAcquire(c)
             \/ PrintRelease(c)
      PROVE  PortInv'
  <2>1. /\ pc[c] \notin InPutChar /\ pc'[c] \notin InPutChar
        /\ UNCHANGED << screen, thr, wire >>
        /\ \A d \in Cores : d # c => panic'[d] = panic[d]
    BY <1>1, <1>3 DEF Calls, StartCore, CallLog, CallPanic, PanicAcquire, PanicLogs, PanicHalts,
         LogAcquire, Format, LogRelease, PrintAcquire, PrintRelease, Begin, Goto, InPutChar
  <2>. QED
    BY <1>3, <2>1, StepOnly, PortFrame DEF Moves
<1>4. CASE UNCHANGED vars
  <2>1. UNCHANGED << pc, call, text, pos, panic, screen, wire, thr >>
    BY <1>4 DEF vars, core
  <2>2. \A c \in Cores : Pending(c)' = Pending(c)
    BY <2>1 DEF Pending, Token
  <2>. QED
    BY <2>1, <2>2 DEF PortInv, PortOf
<1>. QED
  BY <1>2, <1>3, <1>4, PutPort, TransmitPort DEF Next, Run, Calls

LEMMA PrefixOfConcat ==
  ASSUME NEW T, NEW a \in Seq(T), NEW b \in Seq(T)
  PROVE  IsPrefix(a, a \o b)
<1> DEFINE t == a \o b
           n == Len(a)
<1>1. t \in Seq(T) /\ n \in Nat /\ Len(t) = n + Len(b) /\ Len(b) \in Nat
  OBVIOUS
<1>2. \A i \in 1 .. n : t[i] = a[i]
  OBVIOUS
<1>3. SubSeq(a, 1, n) = [i \in 1 .. n |-> a[i]] /\ SubSeq(t, 1, n) = [i \in 1 .. n |-> t[i]]
  <2>. HIDE DEF t, n
  <2>. QED
    BY <1>1
<1>4. SubSeq(a, 1, n) = SubSeq(t, 1, n)
  <2>. HIDE DEF t, n
  <2>. QED
    BY <1>2, <1>3
<1>5. n <= Len(t)
  BY <1>1
<1>. QED
  BY <1>4, <1>5 DEF IsPrefix

LEMMA PortFollows == ConsoleInv /\ PortInv => SerialFollows
<1> SUFFICES ASSUME ConsoleInv, PortInv PROVE SerialFollows
  OBVIOUS
<1> DEFINE w == wire \o thr
           T == Tokens
<1>1. w \in Seq(T)
  BY DEF PortInv
<1>2. \E b \in Seq(T) : Serial(screen) = w \o b
  <2>1. CASE \A c \in Cores : pc[c] \notin InPutChar
    <3>1. << >> \in Seq(T) /\ Serial(screen) = w
      BY <2>1 DEF PortInv
    <3>2. w = w \o << >>
      <4>. HIDE DEF w, T
      <4>. QED
        BY <1>1, ConcatEmptySeq
    <3>. HIDE DEF w
    <3>. QED
      BY <3>1, <3>2
  <2>2. ASSUME NEW c \in Cores, pc[c] \in InPutChar
        PROVE  Serial(screen) = w \o Pending(c) /\ Pending(c) \in Seq(T)
    <3>1. Serial(screen) = w \o Pending(c)
      BY <2>2 DEF PortInv, PortOf
    <3>2. Token(c) \in T /\ CR \in T
      BY <2>2, TokenType, CarriageReturn DEF AtCharacter
    <3> DEFINE t == Token(c)
    <3>. HIDE DEF T, t
    <3>3. << t >> \in Seq(T) /\ << CR, t >> \in Seq(T) /\ << >> \in Seq(T)
      BY <3>2 DEF t
    <3>4. Pending(c) \in Seq(T)
      BY <3>3 DEF Pending, t
    <3>. QED
      BY <3>1, <3>4
  <2>. HIDE DEF w, T
  <2>. QED
    BY <2>1, <2>2
<1>3. IsPrefix(w, Serial(screen))
  <2>. HIDE DEF w, T
  <2>. QED
    BY <1>1, <1>2, PrefixOfConcat
<1>. QED
  BY <1>3 DEF SerialFollows, PortInv

(* The serial port sends what the screen shows, in order and complete, with a
   carriage return before each newline, whichever cores log and panic, and
   agrees with it whenever no core is inside PutChar: BlockUntilEmpty keeps a
   byte from overwriting the one before it, PutCharLock and LogSpinlock keep
   the bytes of two characters apart. *)
THEOREM PortFollowsScreen == Spec => []SerialFollows
<1>1. ConsoleInv /\ PortInv /\ [Next]_vars => (ConsoleInv /\ PortInv)'
  BY TypeStep, LockStep, PlaceStep, ScreenStep, PortStep DEF ConsoleInv
<1>. QED
  BY ConsoleInit, PortInit, PortFollows, <1>1, PTL DEF Spec

-----------------------------------------------------------------------------
(* The log's promise *)

(* The line of the call a core is in is out. *)
LineOut(c) == \E i \in DOMAIN Lines(screen) : Lines(screen)[i] = << c, call[c] >>

(* Lines are those of calls made, and that of a call in progress is among
   them as soon as its text is complete. *)
LinesMade == \A i \in DOMAIN Lines(screen) :
               \E d \in Cores, k \in Nat : Lines(screen)[i] = << d, k >> /\ k <= call[d]
LineOf(c) == InCall(c) =>
               /\ call[c] # 0
               /\ LineOut(c) <=> Busy(c) /\ Written(c) = Len(text[c])
LineInv == LinesMade /\ \A c \in Cores : LineOf(c)

LEMMA LineInit == Init => LineInv
<1> SUFFICES ASSUME Init PROVE LineInv
  OBVIOUS
<1>1. screen = << >> /\ \A c \in Cores : pc[c] \in Outside
  BY DEF Init, Outside
<1>2. Lines(screen) = << >>
  <2>1. [i \in DOMAIN screen |-> IF screen[i].last
           THEN << << screen[i].core, screen[i].call >> >> ELSE << >>] = << >>
    BY <1>1
  <2>. QED
    BY <2>1 DEF Lines, FlattenSeq
<1>. QED
  BY <1>1, <1>2 DEF LineInv, LinesMade, LineOf, InCall

LEMMA BusyCalls == ASSUME NEW c \in Cores, Busy(c) PROVE InCall(c)
  BY DEF Busy, Writing, InPutChar, InCall, Outside

(* A step of one core that writes no line. *)
LEMMA LineFrame ==
  ASSUME ConsoleInv, LineInv, NEW c \in Cores, Only(c), UNCHANGED screen,
         call'[c] \in Nat, call'[c] >= call[c], LineOf(c)'
  PROVE  LineInv'
<1>1. call \in [Cores -> Nat]
  BY DEF ConsoleInv, ConsoleTypeOK
<1>2. Lines(screen)' = Lines(screen)
  OBVIOUS
<1>3. ASSUME NEW d \in Cores, d # c PROVE LineOf(d)'
  BY <1>3, <1>2, ZenonT(30) DEF LineInv, LineOf, LineOut, Only, Busy, InCall, Written
<1>4. \A d \in Cores, k \in Nat : k <= call[d] => k <= call'[d]
  <2>1. SUFFICES ASSUME NEW d \in Cores, NEW k \in Nat, k <= call[d] PROVE k <= call'[d]
    OBVIOUS
  <2>2. CASE d # c
    BY <2>1, <2>2 DEF Only
  <2>3. CASE d = c
    BY <1>1, <2>1, <2>3
  <2>. QED
    BY <2>2, <2>3
<1>5. LinesMade'
  BY <1>2, <1>4 DEF LineInv, LinesMade
<1>. QED
  BY <1>3, <1>5 DEF LineInv

(* A call begun: none of its lines is out. *)
LEMMA NewCall ==
  ASSUME ConsoleInv, LineInv, NEW c \in Cores, UNCHANGED screen, call'[c] = call[c] + 1
  PROVE  ~LineOut(c)'
<1>1. call[c] \in Nat
  BY DEF ConsoleInv, ConsoleTypeOK
<1>2. SUFFICES ASSUME NEW i \in DOMAIN Lines(screen), Lines(screen)[i] = << c, call[c] + 1 >>
               PROVE  FALSE
  BY DEF LineOut
<1>3. PICK d \in Cores, k \in Nat : Lines(screen)[i] = << d, k >> /\ k <= call[d]
  BY DEF LineInv, LinesMade
<1>4. d = c /\ k = call[c] + 1
  BY <1>2, <1>3
<1>. QED
  BY <1>1, <1>3, <1>4

LEMMA BeginLine ==
  ASSUME ConsoleInv, LineInv, NEW c \in Cores, Only(c), UNCHANGED screen, PlaceOf(c)',
         pc'[c] \in { "log", "print" }, call'[c] = call[c] + 1, pos'[c] = 1
  PROVE  LineInv'
<1>1. call[c] \in Nat
  BY DEF ConsoleInv, ConsoleTypeOK
<1>2. call'[c] \in Nat /\ call'[c] >= call[c] /\ call'[c] # 0
  BY <1>1
<1>3. ~(Busy(c) /\ Written(c) = Len(text[c]))'
  <2>1. CASE pc'[c] = "log"
    BY <2>1 DEF Busy, Writing, InPutChar
  <2>2. CASE pc'[c] = "print"
    <3>1. Written(c)' = 0
      BY <2>2 DEF Written
    <3>2. pos'[c] <= Len(text'[c])
      BY <2>2 DEF PlaceOf, AtCharacter
    <3>. QED
      BY <3>1, <3>2
  <2>. QED
    BY <2>1, <2>2
<1>4. LineOf(c)'
  BY <1>2, <1>3, NewCall DEF LineOf
<1>. QED
  BY <1>2, <1>4, LineFrame

LEMMA CallsLine ==
  ASSUME ConsoleInv, LineInv, NEW c \in Cores, Calls(c)
  PROVE  LineInv'
<1>1. pc \in [Cores -> Labels] /\ call \in [Cores -> Nat] /\ pos \in [Cores -> Nat \ {0}]
  BY DEF ConsoleInv, ConsoleTypeOK
<1>2. Only(c) /\ UNCHANGED screen
  BY StepOnly DEF Calls, StartCore, CallLog, CallPanic, PanicAcquire, PanicLogs, PanicHalts
<1>3. CASE CallLog(c) \/ PanicLogs(c)
  <2>1. pc'[c] = "log" /\ call'[c] = call[c] + 1 /\ pos'[c] = 1
    BY <1>1, <1>3 DEF CallLog, PanicLogs, Begin, Goto
  <2>2. PlaceOf(c)'
    BY CallsPlace DEF PlaceInv
  <2>. QED
    BY <1>2, <2>1, <2>2, BeginLine
<1>4. CASE StartCore(c) \/ CallPanic(c) \/ PanicAcquire(c) \/ PanicHalts(c)
  <2>1. pc'[c] \in Outside /\ call' = call
    BY <1>1, <1>4 DEF StartCore, CallPanic, PanicAcquire, PanicHalts, Goto, Outside
  <2>2. LineOf(c)'
    BY <2>1 DEF LineOf, InCall
  <2>. QED
    BY <1>1, <1>2, <2>1, <2>2, LineFrame
<1>. QED
  BY <1>3, <1>4 DEF Calls

LEMMA MovesLine ==
  ASSUME ConsoleInv, LineInv, NEW c \in Cores, Moves(c)
  PROVE  LineInv'
<1>1. UNCHANGED << call, text, screen >> /\ Only(c) /\ call[c] \in Nat
  BY StepOnly DEF Moves, LogAcquire, Format, LogRelease, PrintAcquire, PrintRelease,
         PutAcquire, WriteReturn, WriteByte, PutRelease, ConsoleInv, ConsoleTypeOK
<1>2. LineOut(c)' <=> LineOut(c)
  BY <1>1 DEF LineOut
<1>3. LineOf(c)
  BY DEF LineInv
<1>4. LineOf(c)'
  <2>1. CASE pc[c] = "log" /\ Busy(c)' /\ Written(c)' = 0
    <3>1. InCall(c) /\ ~Busy(c)
      BY <2>1 DEF InCall, Outside, Busy, Writing, InPutChar
    <3>2. Len(text[c]) # 0
      <4>1. text[c] # << >> /\ text[c] \in Seq(Char)
        BY <2>1 DEF ConsoleInv, ConsoleTypeOK, PlaceInv, PlaceOf
      <4>. QED
        BY <4>1
    <3>. QED
      BY <1>1, <1>2, <1>3, <2>1, <3>1, <3>2 DEF LineOf
  <2>2. CASE pc'[c] \in { "idle", "report" }
    BY <2>2 DEF LineOf, InCall, Outside
  <2>3. CASE Busy(c) /\ Busy(c)' /\ Written(c)' = Written(c)
    BY <1>1, <1>2, <1>3, <2>3, BusyCalls DEF LineOf
  <2>. QED
    BY <2>1, <2>2, <2>3, MovesWritten
<1>5. call'[c] \in Nat /\ call'[c] >= call[c]
  BY <1>1
<1>. QED
  BY <1>1, <1>4, <1>5, LineFrame

(* The last character of a text makes its line. *)
LEMMA FlantermLine ==
  ASSUME ConsoleInv, LineInv, NEW c \in Cores, FlantermWrite(c)
  PROVE  /\ LineInv' /\ Busy(c) /\ Busy(c)' /\ UNCHANGED << call, text >> /\ Only(c)
         /\ \/ Lines(screen)' = Lines(screen)
            \/ Lines(screen)' = Append(Lines(screen), << c, call[c] >>) /\ ~LineOut(c)
<1> DEFINE t == Token(c)
           K == CallIds
           L == Lines(screen)
           e == << c, call[c] >>
           n == Len(L)
<1>1. /\ pc \in [Cores -> Labels] /\ screen \in Seq(Tokens) /\ t \in Tokens
      /\ call \in [Cores -> Nat] /\ pos[c] \in Nat \ {0} /\ Len(text[c]) \in Nat
      /\ pos[c] <= Len(text[c])
  <2>1. pc[c] \in AtCharacter
    BY DEF FlantermWrite, AtCharacter, InPutChar
  <2>. QED
    BY <2>1, TokenType, PlaceFacts DEF ConsoleInv, ConsoleTypeOK
<1>2. /\ pc[c] = "flanterm" /\ pc'[c] \in { "return", "byte" } /\ screen' = Append(screen, t)
      /\ UNCHANGED << call, text, pos >> /\ Only(c)
  BY <1>1, StepOnly DEF FlantermWrite, Goto
<1>3. t.core = c /\ t.call = call[c] /\ (t.last <=> pos[c] = Len(text[c]))
  BY DEF Token
<1>4. Busy(c) /\ Busy(c)' /\ Written(c) = pos[c] - 1 /\ Written(c)' = pos[c]
  BY <1>2 DEF Busy, Writing, InPutChar, Written
<1>5. L \in Seq(K) /\ L' = L \o Ended(t) /\ e \in K
  <2>1. e \in K
    BY <1>1 DEF CallIds
  <2>. HIDE DEF t
  <2>. QED
    BY <1>1, <1>2, <2>1, LinesAppend
<1>6. ~LineOut(c) /\ call[c] # 0
  <2>1. Written(c) # Len(text[c])
    BY <1>1, <1>4
  <2>2. LineOf(c) /\ InCall(c)
    BY <1>4, BusyCalls DEF LineInv
  <2>. QED
    BY <2>1, <2>2 DEF LineOf
<1>7. \A d \in Cores : d # c =>
        pc'[d] = pc[d] /\ (Busy(d)' <=> Busy(d)) /\ (InCall(d)' <=> InCall(d))
        /\ Written(d)' = Written(d)
  BY <1>2 DEF Only, Busy, InCall, Written
<1>8. CASE pos[c] # Len(text[c])
  <2>1. L' = L
    <3>1. Ended(t) = << >>
      BY <1>3, <1>8 DEF Ended
    <3>. HIDE DEF L, K
    <3>. QED
      BY <1>5, <3>1, ConcatEmptySeq
  <2>2. \A d \in Cores : LineOut(d)' <=> LineOut(d)
    BY <1>2, <2>1 DEF LineOut
  <2>3. LineOf(c)'
    BY <1>2, <1>4, <1>6, <1>8, <2>2 DEF LineOf
  <2>4. \A d \in Cores : d # c => LineOf(d)'
    BY <1>2, <1>7, <2>2 DEF LineInv, LineOf
  <2>5. LinesMade'
    BY <1>2, <2>1 DEF LineInv, LinesMade
  <2>. QED
    BY <1>2, <1>4, <2>1, <2>3, <2>4, <2>5 DEF LineInv
<1>9. CASE pos[c] = Len(text[c])
  <2>1. L' = Append(L, e)
    <3>1. Ended(t) = << e >>
      BY <1>3, <1>9 DEF Ended
    <3>2. L \o << e >> = Append(L, e)
      <4>. HIDE DEF L, K, e
      <4>. QED
        BY <1>5
    <3>. QED
      BY <1>5, <3>1, <3>2
  <2>2. /\ DOMAIN L' = 1 .. n + 1 /\ DOMAIN L = 1 .. n /\ n \in Nat /\ L'[n + 1] = e
        /\ \A i \in 1 .. n : L'[i] = L[i]
    <3> DEFINE M == Append(L, e)
    <3>1. /\ DOMAIN M = 1 .. n + 1 /\ DOMAIN L = 1 .. n /\ n \in Nat /\ M[n + 1] = e
          /\ \A i \in 1 .. n : M[i] = L[i]
      <4>. HIDE DEF L, K, e
      <4>. QED
        BY <1>5
    <3>. HIDE DEF M
    <3>2. L' = M
      BY <2>1 DEF M
    <3>. QED
      BY <3>1, <3>2
  <2>. HIDE DEF L, n
  <2>3. \A d \in Cores : LineOut(d)' <=> (LineOut(d) \/ d = c)
    <3>1. SUFFICES ASSUME NEW d \in Cores PROVE LineOut(d)' <=> (LineOut(d) \/ d = c)
      OBVIOUS
    <3>2. LineOut(d)' <=> \E i \in 1 .. n + 1 : L'[i] = << d, call[d] >>
      BY <1>2, <2>2 DEF LineOut, L
    <3>3. LineOut(d) <=> \E i \in 1 .. n : L[i] = << d, call[d] >>
      BY <2>2 DEF LineOut, L
    <3>4. ASSUME NEW i \in 1 .. n + 1 PROVE i \in 1 .. n \/ i = n + 1
      BY <2>2
    <3>5. n + 1 \in 1 .. n + 1 /\ \A i \in 1 .. n : i \in 1 .. n + 1
      BY <2>2
    <3>. QED
      BY <2>2, <3>2, <3>3, <3>4, <3>5
  <2>4. LineOf(c)'
    BY <1>2, <1>4, <1>6, <1>9, <2>3 DEF LineOf
  <2>5. \A d \in Cores : d # c => LineOf(d)'
    BY <1>2, <1>7, <2>3 DEF LineInv, LineOf
  <2>6. LinesMade'
    <3>1. ASSUME NEW i \in 1 .. n + 1
          PROVE  \E d \in Cores, k \in Nat : L'[i] = << d, k >> /\ k <= call[d]
      <4>1. CASE i = n + 1
        <5>1. L'[i] = << c, call[c] >> /\ call[c] \in Nat /\ call[c] <= call[c]
          BY <1>1, <2>2, <4>1
        <5>. QED
          BY <5>1
      <4>2. CASE i # n + 1
        <5>1. i \in 1 .. n
          BY <2>2, <4>2
        <5>. QED
          BY <2>2, <5>1 DEF LineInv, LinesMade, L
      <4>. QED
        BY <4>1, <4>2
    <3>. QED
      BY <1>2, <2>2, <3>1 DEF LinesMade, L
  <2>. QED
    BY <1>2, <1>4, <1>6, <2>1, <2>4, <2>5, <2>6 DEF LineInv, L
<1>. QED
  BY <1>8, <1>9

LEMMA LineStep == ConsoleInv /\ LineInv /\ [Next]_vars => LineInv'
<1> SUFFICES ASSUME ConsoleInv, LineInv, [Next]_vars PROVE LineInv'
  OBVIOUS
<1>1. pc \in [Cores -> Labels] /\ call \in [Cores -> Nat] /\ pos \in [Cores -> Nat \ {0}]
      /\ Boot \in Cores
  BY ConsoleAssumption DEF ConsoleInv, ConsoleTypeOK
<1>2. CASE PrintSplash
  <2>1. /\ pc'[Boot] = "print" /\ call'[Boot] = call[Boot] + 1 /\ pos'[Boot] = 1
        /\ UNCHANGED screen
    BY <1>1, <1>2 DEF PrintSplash, Begin, Goto
  <2>2. PlaceOf(Boot)'
    BY <1>1, PlaceStep DEF PlaceInv
  <2>. QED
    BY <1>1, <1>2, <2>1, <2>2, StepOnly, BeginLine
<1>3. CASE Transmit \/ UNCHANGED vars
  BY <1>3 DEF Transmit, vars, core, LineInv, LinesMade, LineOf, LineOut, InCall, Busy, Written
<1>. QED
  BY <1>2, <1>3, CallsLine, MovesLine, FlantermLine DEF Next, Run, Calls, Moves

(* What the callers see of a core: the call it is in, the calls it has made. *)
Active == [c \in Cores |-> IF InCall(c) THEN call[c] ELSE 0]
Made == [c \in Cores |-> IF InCall(c) THEN call[c] - 1 ELSE call[c]]
Seen == << Active, Made, Lines(screen) >>

LEMMA OtherCores ==
  ASSUME NEW c \in Cores, Only(c)
  PROVE  /\ Active' = [Active EXCEPT ![c] = Active'[c]]
         /\ Made' = [Made EXCEPT ![c] = Made'[c]]
<1>1. \A d \in Cores : d # c => Active'[d] = Active[d] /\ Made'[d] = Made[d]
  BY DEF Only, Active, Made, InCall
<1>2. /\ Active = [d \in Cores |-> Active[d]] /\ Active' = [d \in Cores |-> Active'[d]]
      /\ Made = [d \in Cores |-> Made[d]] /\ Made' = [d \in Cores |-> Made'[d]]
  BY DEF Active, Made
<1>. QED
  BY <1>1, <1>2

LEMMA SeenStays ==
  ASSUME NEW c \in Cores, Only(c), call'[c] = call[c], InCall(c)' <=> InCall(c),
         Lines(screen)' = Lines(screen)
  PROVE  UNCHANGED Seen
<1>1. \A d \in Cores : call'[d] = call[d] /\ (InCall(d)' <=> InCall(d))
  BY DEF Only, InCall
<1>2. Active' = Active /\ Made' = Made
  BY <1>1 DEF Active, Made
<1>. QED
  BY <1>2 DEF Seen

LEMMA CallSeen ==
  ASSUME ConsoleInv, NEW c \in Cores, Only(c), UNCHANGED screen, ~InCall(c), InCall(c)',
         call'[c] = call[c] + 1
  PROVE  Promise!Call(c)
<1>1. call[c] \in Nat
  BY DEF ConsoleInv, ConsoleTypeOK
<1>2. Active[c] = 0 /\ Active'[c] = Made[c] + 1 /\ Made'[c] = Made[c]
  <2>1. (call[c] + 1) - 1 = call[c]
    BY <1>1
  <2>. QED
    BY <2>1 DEF Active, Made
<1>3. Active' = [Active EXCEPT ![c] = Made[c] + 1] /\ Made' = [Made EXCEPT ![c] = Made[c]]
  BY <1>2, OtherCores
<1>4. Made' = Made
  <2>1. Made = [d \in Cores |-> Made[d]]
    BY DEF Made
  <2>. QED
    BY <1>3, <2>1
<1>. QED
  BY <1>2, <1>3, <1>4 DEF Promise!Call, Active, Made

LEMMA ReturnSeen ==
  ASSUME NEW c \in Cores, Only(c), UNCHANGED screen, InCall(c), ~InCall(c)', call'[c] = call[c],
         call[c] # 0, LineOut(c)
  PROVE  Promise!Return(c)
<1>1. Active[c] = call[c] /\ Active'[c] = 0 /\ Made'[c] = Active[c]
  BY DEF Active, Made
<1>2. Active' = [Active EXCEPT ![c] = 0] /\ Made' = [Made EXCEPT ![c] = Active[c]]
  BY <1>1, OtherCores
<1>3. Promise!Out(c)
  BY <1>1 DEF LineOut, Promise!Out, Active
<1>. QED
  BY <1>1, <1>2, <1>3 DEF Promise!Return, Active, Made

LEMMA WriteSeen ==
  ASSUME NEW c \in Cores, Only(c), InCall(c), InCall(c)', call'[c] = call[c], call[c] # 0,
         ~LineOut(c), Lines(screen)' = Append(Lines(screen), << c, call[c] >>)
  PROVE  Promise!Write(c)
<1>1. Active[c] = call[c]
  BY DEF Active
<1>2. \A d \in Cores : call'[d] = call[d] /\ (InCall(d)' <=> InCall(d))
  BY DEF Only, InCall
<1>3. Active' = Active /\ Made' = Made
  BY <1>2 DEF Active, Made
<1>4. ~Promise!Out(c)
  BY <1>1 DEF LineOut, Promise!Out, Active
<1>. QED
  BY <1>1, <1>3, <1>4 DEF Promise!Write, Active, Made

LEMMA PromiseStep == ConsoleInv /\ LineInv /\ [Next]_vars => [Promise!Next]_(Promise!vars)
<1> SUFFICES ASSUME ConsoleInv, LineInv, [Next]_vars
             PROVE  Promise!Next \/ UNCHANGED Seen
  BY DEF Promise!vars, Seen, Active, Made
<1>1. pc \in [Cores -> Labels] /\ call \in [Cores -> Nat] /\ pos \in [Cores -> Nat \ {0}]
      /\ Boot \in Cores
  BY ConsoleAssumption DEF ConsoleInv, ConsoleTypeOK
<1>2. CASE PrintSplash
  <2>1. /\ pc[Boot] = "idle" /\ pc'[Boot] = "print" /\ call'[Boot] = call[Boot] + 1
        /\ UNCHANGED screen
    BY <1>1, <1>2 DEF PrintSplash, Begin, Goto, ConsoleInv, LockInv, SplashAlone, Splashed
  <2>2. ~InCall(Boot) /\ InCall(Boot)'
    BY <2>1 DEF InCall, Outside
  <2>3. Promise!Call(Boot)
    BY <1>1, <1>2, <2>1, <2>2, StepOnly, CallSeen
  <2>. QED
    BY <1>1, <2>3 DEF Promise!Next
<1>3. ASSUME NEW c \in Cores, CallLog(c) \/ PanicLogs(c) PROVE Promise!Next
  <2>1. /\ pc[c] \in { "idle", "report" } /\ pc'[c] = "log" /\ call'[c] = call[c] + 1
        /\ UNCHANGED screen
    BY <1>1, <1>3 DEF CallLog, PanicLogs, Begin, Goto
  <2>2. ~InCall(c) /\ InCall(c)'
    BY <2>1 DEF InCall, Outside
  <2>3. Promise!Call(c)
    BY <1>3, <2>1, <2>2, StepOnly, CallSeen DEF Calls
  <2>. QED
    BY <2>3 DEF Promise!Next
<1>4. ASSUME NEW c \in Cores, StartCore(c) \/ CallPanic(c) \/ PanicAcquire(c) \/ PanicHalts(c)
      PROVE  UNCHANGED Seen
  <2>1. pc[c] \in Outside /\ pc'[c] \in Outside /\ UNCHANGED << call, screen >>
    BY <1>1, <1>4 DEF StartCore, CallPanic, PanicAcquire, PanicHalts, Goto, Outside
  <2>. QED
    BY <1>4, <2>1, StepOnly, SeenStays DEF Calls, InCall
<1>5. ASSUME NEW c \in Cores, Moves(c) PROVE Promise!Next \/ UNCHANGED Seen
  <2>1. UNCHANGED << call, screen >> /\ Only(c)
    BY <1>5, StepOnly DEF Moves, LogAcquire, Format, LogRelease, PrintAcquire, PrintRelease,
         PutAcquire, WriteReturn, WriteByte, PutRelease
  <2>2. CASE \/ pc[c] = "log" /\ Busy(c)'
             \/ Busy(c) /\ Busy(c)'
    <3>1. InCall(c) /\ InCall(c)'
      BY <2>2 DEF InCall, Outside, Busy, Writing, InPutChar
    <3>. QED
      BY <2>1, <3>1, SeenStays
  <2>3. CASE Busy(c) /\ Written(c) = Len(text[c]) /\ pc'[c] \in { "idle", "report" }
    <3>1. InCall(c) /\ ~InCall(c)'
      BY <2>3, BusyCalls DEF InCall, Outside
    <3>2. LineOut(c) /\ call[c] # 0
      BY <2>3, <3>1 DEF LineInv, LineOf
    <3>3. Promise!Return(c)
      BY <2>1, <3>1, <3>2, ReturnSeen
    <3>. QED
      BY <3>3 DEF Promise!Next
  <2>. QED
    BY <1>5, <2>2, <2>3, MovesWritten
<1>6. ASSUME NEW c \in Cores, FlantermWrite(c) PROVE Promise!Next \/ UNCHANGED Seen
  <2>1. /\ Busy(c) /\ Busy(c)' /\ call'[c] = call[c] /\ Only(c)
        /\ \/ Lines(screen)' = Lines(screen)
           \/ Lines(screen)' = Append(Lines(screen), << c, call[c] >>) /\ ~LineOut(c)
    BY <1>6, FlantermLine
  <2>2. InCall(c) /\ InCall(c)'
    BY <2>1 DEF InCall, Outside, Busy, Writing, InPutChar
  <2>3. call[c] # 0
    BY <2>2 DEF LineInv, LineOf
  <2>4. CASE Lines(screen)' = Lines(screen)
    BY <2>1, <2>2, <2>4, SeenStays
  <2>5. CASE Lines(screen)' = Append(Lines(screen), << c, call[c] >>) /\ ~LineOut(c)
    <3>1. Promise!Write(c)
      BY <2>1, <2>2, <2>3, <2>5, WriteSeen
    <3>. QED
      BY <3>1 DEF Promise!Next
  <2>. QED
    BY <2>1, <2>4, <2>5
<1>7. CASE Transmit \/ UNCHANGED vars
  BY <1>7 DEF Transmit, vars, core, Seen, Active, Made, InCall
<1>. QED
  BY <1>2, <1>3, <1>4, <1>5, <1>6, <1>7 DEF Next, Run, Moves

LEMMA PromiseInit == Init => Promise!Init
<1> SUFFICES ASSUME Init PROVE Promise!Init
  OBVIOUS
<1>1. \A c \in Cores : ~InCall(c) /\ call[c] = 0
  BY DEF Init, InCall, Outside
<1>2. Lines(screen) = << >>
  <2>1. [i \in DOMAIN screen |-> IF screen[i].last
           THEN << << screen[i].core, screen[i].call >> >> ELSE << >>] = << >>
    BY DEF Init
  <2>. QED
    BY <2>1 DEF Lines, FlattenSeq
<1>. QED
  BY <1>1, <1>2 DEF Promise!Init

(* Log implements the log its callers see: each call writes its line once,
   after it has begun and before it returns, whichever cores log, panic or
   take exceptions meanwhile. *)
THEOREM Refinement == Spec => KeepsPromise
<1>1. ConsoleInv /\ LineInv /\ [Next]_vars => (ConsoleInv /\ LineInv)'
  BY TypeStep, LockStep, PlaceStep, ScreenStep, LineStep DEF ConsoleInv
<1>. QED
  BY ConsoleInit, LineInit, PromiseInit, PromiseStep, <1>1, PTL
     DEF Spec, KeepsPromise, Promise!Spec
=============================================================================
