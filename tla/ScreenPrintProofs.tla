--------------------------- MODULE ScreenPrintProofs ---------------------------
(***************************************************************************)
(* With a screen that hears every command, and prints that are started     *)
(* when nothing is on its way: no file with a wrong sum is printed, a      *)
(* cancellation is not swallowed, and the screen and Klipper agree, for    *)
(* any files and any number of commands on their way.                      *)
(***************************************************************************)
EXTENDS ScreenPrint, TLAPS

Sent == Commands \cup File

\* An answer to M26 is in the queue; a file heads it.
Waits(q) == \E i \in 1 .. Len(q) : q[i] = "CANCEL_PRINT"
Fresh(q) == q # <<>> /\ Head(q) \in File

\* A file is nowhere else, and each M24 is before an answer to M26.
OnlyFirst(q) == \A i \in 1 .. Len(q) : i > 1 => q[i] \notin File
Covered(q) == \A i \in 1 .. Len(q) : q[i] = "M24" =>
                \E j \in 1 .. Len(q) : j > i /\ q[j] = "CANCEL_PRINT"

\* The file that is about to be begun is there, and the card is free for it.
StartInv ==
  /\ OnlyFirst(toKlipper)
  /\ Fresh(toKlipper) => Head(toKlipper) \in present /\ job \notin {"begun", "printing"}

\* What is on its way makes up the difference between the screen and the job.
ScreenInv ==
  /\ screen = "busy" => ~Waits(toKlipper) /\ (job = "none" => Fresh(toKlipper))
  /\ screen = "idle" =>
       /\ job \in {"begun", "printing"} \/ Fresh(toKlipper) => Waits(toKlipper)
       /\ job # "none" \/ Fresh(toKlipper) => Covered(toKlipper)

\* A verdict is good, about the file that is begun next, and gone with the print.
CheckInv ==
  check_md5 # "none" =>
    /\ check_md5 = "passed" /\ about \notin Bad
    /\ Fresh(toKlipper) => Head(toKlipper) = about
    /\ job = "begun" => file = about
    /\ screen = "idle" => Waits(toKlipper)

CancelInv == cancel_send = 1 => Waits(toKlipper) /\ check_md5 = "none"

IInv == TypeOK /\ StartInv /\ ScreenInv /\ CheckInv /\ CancelInv /\ BadNotPrinted

-----------------------------------------------------------------------------
(* The queue of commands.                                                  *)

\* A command that joins the queue.
LEMMA Joined ==
  ASSUME NEW q \in Seq(Sent), NEW c \in Commands
  PROVE  /\ Append(q, c) \in Seq(Sent) /\ Append(q, c) # <<>>
         /\ Waits(Append(q, c)) <=> c = "CANCEL_PRINT" \/ Waits(q)
         /\ Fresh(Append(q, c)) <=> Fresh(q)
         /\ Fresh(q) => Head(Append(q, c)) = Head(q)
         /\ OnlyFirst(q) => OnlyFirst(Append(q, c))
         /\ Covered(q) /\ c # "M24" => Covered(Append(q, c))
         /\ c = "CANCEL_PRINT" => Covered(Append(q, c))
  <1>1. /\ Append(q, c) \in Seq(Sent)
        /\ Len(q) \in Nat
        /\ Len(Append(q, c)) = Len(q) + 1
        /\ Append(q, c)[Len(q) + 1] = c
        /\ \A i \in 1 .. Len(q) : Append(q, c)[i] = q[i]
    BY SMT DEF Sent
  <1>2. c \notin File
    BY FileAssumption DEF Commands
  <1>3. Append(q, c) # <<>>
    <2>1. Len(<<>>) = 0
      OBVIOUS
    <2> QED BY <1>1, <2>1
  <1>4. /\ q # <<>> => Head(Append(q, c)) = Head(q)
        /\ q = <<>> => Head(Append(q, c)) = c
    BY SMT
  <1>5. Fresh(Append(q, c)) <=> Fresh(q)
    BY <1>2, <1>3, <1>4 DEF Fresh
  <1>6. Fresh(q) => Head(Append(q, c)) = Head(q)
    BY <1>4 DEF Fresh
  <1>7. Waits(Append(q, c)) <=> c = "CANCEL_PRINT" \/ Waits(q)
    BY <1>1, SMT DEF Waits
  <1>8. OnlyFirst(q) => OnlyFirst(Append(q, c))
    BY <1>1, <1>2, SMT DEF OnlyFirst
  <1>9. Covered(q) /\ c # "M24" => Covered(Append(q, c))
    BY <1>1, SMT DEF Covered
  <1>10. c = "CANCEL_PRINT" => Covered(Append(q, c))
    BY <1>1, SMT DEF Covered
  <1> QED BY <1>1, <1>3, <1>5, <1>6, <1>7, <1>8, <1>9, <1>10

\* A file that is alone in it.
LEMMA Alone ==
  ASSUME NEW f \in File
  PROVE  LET q == Append(<<>>, f)
         IN  q \in Seq(Sent) /\ ~Waits(q) /\ Fresh(q) /\ Head(q) = f /\ OnlyFirst(q)
  <1> DEFINE q == Append(<<>>, f)
  <1>1. q \in Seq(Sent) /\ Len(q) = 1 /\ q[1] = f /\ Head(q) = f
    BY SMT DEF Sent
  <1>2. q # <<>>
    BY SMT
  <1>3. f # "CANCEL_PRINT"
    BY FileAssumption DEF Commands
  <1> QED BY <1>1, <1>2, <1>3, SMT DEF Waits, Fresh, OnlyFirst

\* Nothing.
LEMMA Nothing ==
  <<>> \in Seq(Sent) /\ ~Waits(<<>>) /\ ~Fresh(<<>>) /\ OnlyFirst(<<>>) /\ Covered(<<>>)
  BY SMT DEF Waits, Fresh, OnlyFirst, Covered

\* The first command leaves.
LEMMA Taken ==
  ASSUME NEW q \in Seq(Sent), q # <<>>, OnlyFirst(q)
  PROVE  /\ Tail(q) \in Seq(Sent) /\ Head(q) \in Sent
         /\ OnlyFirst(Tail(q)) /\ ~Fresh(Tail(q))
         /\ Head(q) # "CANCEL_PRINT" => (Waits(Tail(q)) <=> Waits(q))
         /\ Head(q) = "CANCEL_PRINT" => Waits(q)
         /\ Covered(q) => Covered(Tail(q))
         /\ Covered(q) /\ Head(q) = "M24" => Waits(Tail(q))
  <1>1. /\ Tail(q) \in Seq(Sent) /\ Head(q) \in Sent /\ Head(q) = q[1]
        /\ Len(q) \in Nat /\ Len(q) >= 1
        /\ Len(Tail(q)) = Len(q) - 1
        /\ \A i \in 1 .. Len(Tail(q)) : Tail(q)[i] = q[i + 1]
    BY SMT
  <1>2. \A i \in 1 .. Len(q) : i > 1 => /\ i - 1 \in 1 .. Len(Tail(q))
                                         /\ Tail(q)[i - 1] = q[i]
    <2> TAKE i \in 1 .. Len(q)
    <2> HAVE i > 1
    <2>1. i - 1 \in 1 .. Len(Tail(q)) /\ (i - 1) + 1 = i
      BY <1>1
    <2> QED BY <2>1, <1>1
  <1>3. OnlyFirst(Tail(q))
    BY <1>1, SMT DEF OnlyFirst
  <1>4. ~Fresh(Tail(q))
    <2> SUFFICES ASSUME Tail(q) # <<>> PROVE Head(Tail(q)) \notin File
      BY DEF Fresh
    <2>1. Len(Tail(q)) >= 1 /\ Head(Tail(q)) = Tail(q)[1]
      BY <1>1, SMT
    <2>2. Head(Tail(q)) = q[2] /\ 2 \in 1 .. Len(q)
      BY <2>1, <1>1, SMT
    <2> QED BY <2>2 DEF OnlyFirst
  <1>5. Waits(Tail(q)) => Waits(q)
    BY <1>1, SMT DEF Waits
  <1>6. Head(q) # "CANCEL_PRINT" /\ Waits(q) => Waits(Tail(q))
    BY <1>1, <1>2, SMT DEF Waits
  <1>7. Head(q) = "CANCEL_PRINT" => Waits(q)
    BY <1>1 DEF Waits
  <1>8. Covered(q) => Covered(Tail(q))
    <2> SUFFICES ASSUME Covered(q), NEW i \in 1 .. Len(Tail(q)), Tail(q)[i] = "M24"
                 PROVE  \E j \in 1 .. Len(Tail(q)) : j > i /\ Tail(q)[j] = "CANCEL_PRINT"
      BY DEF Covered
    <2>1. i + 1 \in 1 .. Len(q) /\ q[i + 1] = "M24"
      BY <1>1
    <2>2. PICK j \in 1 .. Len(q) : j > i + 1 /\ q[j] = "CANCEL_PRINT"
      BY <2>1 DEF Covered
    <2>3. j - 1 \in 1 .. Len(Tail(q)) /\ Tail(q)[j - 1] = q[j] /\ j - 1 > i
      BY <2>2, <1>1, <1>2
    <2> QED BY <2>2, <2>3
  <1>9. Covered(q) /\ Head(q) = "M24" => Waits(Tail(q))
    <2> SUFFICES ASSUME Covered(q), q[1] = "M24" PROVE Waits(Tail(q))
      BY <1>1
    <2>1. 1 \in 1 .. Len(q)
      BY <1>1
    <2>2. PICK j \in 1 .. Len(q) : j > 1 /\ q[j] = "CANCEL_PRINT"
      BY <2>1 DEF Covered
    <2> QED BY <2>2, <1>2 DEF Waits
  <1> QED BY <1>1, <1>3, <1>4, <1>5, <1>6, <1>7, <1>8, <1>9

-----------------------------------------------------------------------------
(* The steps.                                                              *)

\* At first nothing is printed and nothing on its way.
LEMMA InitIInv == Init => IInv
  <1> SUFFICES ASSUME Init PROVE IInv
    OBVIOUS
  <1> QED
    BY Nothing, FileAssumption DEF Init, IInv, TypeOK, Verdicts, StartInv, ScreenInv,
       CheckInv, CancelInv, BadNotPrinted, Sent

\* PrintFile starts with nothing on its way, so with cancel_send 0 and no verdict.
LEMMA PrintFileKeeps ==
  ASSUME ~Deaf, ~Hasty, IInv, NEW f \in File, PrintFile(f)
  PROVE  IInv'
  <1>1. /\ toKlipper = <<>> /\ job = "none" /\ f \in present
        /\ screen = "idle" /\ cancel_send = 0 /\ check_md5 = "none"
    BY Nothing DEF PrintFile, Chosen, IInv, TypeOK, ScreenInv, CheckInv, CancelInv, Verdicts
  <1>2. PICK verdict \in Verdict(f) :
          IF verdict = "passed"
            THEN /\ check_md5' = verdict /\ about' = f
                 /\ Starts(f)
                 /\ UNCHANGED <<present, cancel_send>>
            ELSE Removed(verdict, f) /\ Cancelled(cancel_send, verdict, f, toKlipper)
    BY DEF PrintFile
  <1>3. file' = f /\ job' = "none"
    BY DEF PrintFile
  <1>4. CASE verdict = "passed"
    <2>1. f \notin Bad
      BY <1>1, <1>2, <1>4 DEF Verdict
    <2>2. screen' = "busy" /\ toKlipper' = Append(<<>>, f)
      BY <1>1, <1>2, <1>4 DEF Starts
    <2> QED
      BY <1>1, <1>2, <1>3, <1>4, <2>1, <2>2, Alone
      DEF IInv, TypeOK, Verdicts, Sent, StartInv, ScreenInv, CheckInv, CancelInv, BadNotPrinted
  <1>5. CASE verdict # "passed"
    <2>1. /\ cancel_send' = 1 /\ check_md5' = "none" /\ about' = NoFile
          /\ screen' = "idle" /\ toKlipper' = Append(<<>>, "CANCEL_PRINT")
      BY <1>1, <1>2, <1>5 DEF Cancelled, GivesUp
    <2>2. present' \subseteq File
      BY <1>2, <1>5 DEF Removed, IInv, TypeOK
    <2> QED
      BY <1>3, <2>1, <2>2, Nothing, Joined
      DEF IInv, TypeOK, Verdicts, Commands, Sent, StartInv, ScreenInv, CheckInv, CancelInv,
          BadNotPrinted
  <1> QED BY <1>4, <1>5

\* A CANCEL_PRINT, the user's or the screen's, when q has been sent before.
LEMMA CancelledStep ==
  ASSUME ~Deaf, NEW q \in Seq(Sent), OnlyFirst(q), NEW send \in {0, 1},
         NEW verdict, NEW f, Cancelled(send, verdict, f, q)
  PROVE  /\ toKlipper' \in Seq(Sent) /\ OnlyFirst(toKlipper')
         /\ Fresh(toKlipper') <=> Fresh(q)
         /\ Fresh(q) => Head(toKlipper') = Head(q)
         /\ send = 1 => /\ cancel_send' = 0 /\ check_md5' = verdict /\ about' = f
                        /\ toKlipper' = q /\ screen' = screen
         /\ send = 0 => /\ cancel_send' = 1 /\ check_md5' = "none" /\ about' = NoFile
                        /\ Waits(toKlipper') /\ Covered(toKlipper') /\ screen' = "idle"
  <1>1. CASE send = 1
    BY <1>1 DEF Cancelled, Silent
  <1>2. CASE send = 0
    <2>1. toKlipper' = Append(q, "CANCEL_PRINT") /\ screen' = "idle"
      BY <1>2 DEF Cancelled, GivesUp
    <2> QED BY <1>2, <2>1, Joined DEF Cancelled, Commands
  <1> QED BY <1>1, <1>2

\* _START_PRINT with and without a check.
LEMMA StartPrintKeeps ==
  ASSUME ~Deaf, IInv, StartPrint
  PROVE  IInv'
  <1>1. job = "begun" /\ ~Fresh(toKlipper) /\ toKlipper \in Seq(Sent) /\ OnlyFirst(toKlipper)
    BY DEF StartPrint, IInv, TypeOK, StartInv, Sent
  <1>2. CASE check_md5 # "none"
    <2>1. file \notin Bad
      BY <1>1, <1>2 DEF IInv, CheckInv
    <2> QED
      BY <1>1, <1>2, <2>1
      DEF StartPrint, IInv, TypeOK, StartInv, ScreenInv, CheckInv, CancelInv, BadNotPrinted,
          checkVars, screenVars
  <1>3. ASSUME check_md5 = "none", NEW verdict \in Verdict(file), verdict = "passed",
               job' = "printing", cancel_send' = 0, check_md5' = verdict, about' = file,
               UNCHANGED <<present, file, screenVars>>
        PROVE  IInv'
    <2>1. file \notin Bad
      BY <1>3 DEF Verdict
    <2> QED
      BY <1>1, <1>3, <2>1
      DEF IInv, TypeOK, Verdicts, StartInv, ScreenInv, CheckInv, CancelInv, BadNotPrinted,
          screenVars
  <1>4. ASSUME NEW verdict, Removed(verdict, file), CardCancelled,
               Cancelled(0, verdict, file, toKlipper)
        PROVE  IInv'
    <2>1. present' \subseteq present /\ job' = "none" /\ file' = NoFile
      BY <1>1, <1>4 DEF Removed, CardCancelled
    <2> QED
      BY <1>1, <1>4, <2>1, CancelledStep
      DEF IInv, TypeOK, Verdicts, Sent, StartInv, ScreenInv, CheckInv, CancelInv, BadNotPrinted
  <1> QED BY <1>2, <1>3, <1>4 DEF StartPrint

\* The end of the file: the verdict goes with the print.
LEMMA EndPrintKeeps ==
  ASSUME IInv, EndPrint
  PROVE  IInv'
  BY DEF EndPrint, IInv, TypeOK, Verdicts, StartInv, ScreenInv, CheckInv, CancelInv,
     BadNotPrinted

\* M25 or M24 joins the queue while the screen is busy.
LEMMA SentKeeps ==
  ASSUME IInv, NEW c \in {"M24", "M25"}, screen = "busy", Sends(c),
         UNCHANGED <<present, cardVars, checkVars, cancel_send>>
  PROVE  IInv'
  <1>1. toKlipper \in Seq(Sent) /\ OnlyFirst(toKlipper) /\ c \in Commands
    BY DEF IInv, TypeOK, StartInv, Sent, Commands
  <1>2. toKlipper' = Append(toKlipper, c) /\ screen' = "busy"
    BY DEF Sends
  <1>3. /\ toKlipper' \in Seq(Sent) /\ OnlyFirst(toKlipper')
        /\ Waits(toKlipper') <=> Waits(toKlipper)
        /\ Fresh(toKlipper') <=> Fresh(toKlipper)
        /\ Fresh(toKlipper) => Head(toKlipper') = Head(toKlipper)
    BY <1>1, <1>2, Joined
  <1> QED
    BY <1>2, <1>3
    DEF IInv, TypeOK, Sent, StartInv, ScreenInv, CheckInv, CancelInv, BadNotPrinted, cardVars,
        checkVars

\* M25 and M24 by way of the screen.
LEMMA PauseResumeKeeps ==
  ASSUME ~Deaf, IInv, PauseResume
  PROVE  IInv'
  <1>1. PICK c \in {"M24", "M25"} :
          IF screen = "busy" THEN Sends(c) ELSE Silent(toKlipper)
    BY DEF PauseResume, Asked
  <1>2. UNCHANGED <<present, cardVars, checkVars, cancel_send>>
    BY DEF PauseResume
  <1>3. CASE screen = "busy"
    BY <1>1, <1>2, <1>3, SentKeeps
  <1>4. CASE screen # "busy"
    BY <1>1, <1>2, <1>4
    DEF Silent, IInv, TypeOK, StartInv, ScreenInv, CheckInv, CancelInv, BadNotPrinted,
        cardVars, checkVars
  <1> QED BY <1>3, <1>4

\* A user's CANCEL_PRINT.
LEMMA CancelKeeps ==
  ASSUME ~Deaf, IInv, Cancel
  PROVE  IInv'
  <1>1. /\ toKlipper \in Seq(Sent) /\ OnlyFirst(toKlipper) /\ cancel_send \in {0, 1}
        /\ Cancelled(cancel_send, check_md5, about, toKlipper) /\ CardCancelled
        /\ present' = present
    BY DEF Cancel, IInv, TypeOK, StartInv, Sent
  <1>2. /\ job \in {"paused", "none"} => job' = job /\ file' = file
        /\ job \in {"begun", "printing"} => job' = "none" /\ file' = NoFile
    BY <1>1 DEF CardCancelled, cardVars
  <1>3. CASE cancel_send = 1
    <2>1. Waits(toKlipper) /\ check_md5 = "none"
      BY <1>3 DEF IInv, CancelInv
    <2>2. /\ cancel_send' = 0 /\ check_md5' = check_md5 /\ about' = about
          /\ toKlipper' = toKlipper /\ screen' = screen
      BY <1>1, <1>3, CancelledStep
    <2> QED
      BY <1>1, <1>2, <2>1, <2>2
      DEF IInv, TypeOK, StartInv, ScreenInv, CheckInv, CancelInv, BadNotPrinted
  <1>4. CASE cancel_send = 0
    BY <1>1, <1>2, <1>4, CancelledStep
    DEF IInv, TypeOK, Verdicts, Sent, StartInv, ScreenInv, CheckInv, CancelInv, BadNotPrinted
  <1> QED BY <1>1, <1>3, <1>4

\* A file comes back.
LEMMA UploadKeeps ==
  ASSUME IInv, NEW f \in File, Upload(f)
  PROVE  IInv'
  BY DEF Upload, IInv, TypeOK, StartInv, ScreenInv, CheckInv, CancelInv, BadNotPrinted,
     cardVars, checkVars, screenVars

\* A print that is started at the screen waits for _START_PRINT's check.
LEMMA ScreenStartsKeeps ==
  ASSUME ~Hasty, IInv, NEW f \in File, ScreenStarts(f)
  PROVE  IInv'
  <1>1. /\ toKlipper = <<>> /\ f \in present /\ screen = "idle"
        /\ screen' = "busy" /\ toKlipper' = Append(<<>>, f)
        /\ UNCHANGED <<present, cardVars, checkVars, cancel_send>>
    BY DEF ScreenStarts, Chosen, Starts
  <1>2. job \notin {"begun", "printing"} /\ check_md5 = "none" /\ cancel_send = 0
    BY <1>1, Nothing DEF IInv, TypeOK, ScreenInv, CheckInv, CancelInv
  <1> QED
    BY <1>1, <1>2, Alone
    DEF IInv, TypeOK, Sent, StartInv, ScreenInv, CheckInv, CancelInv, BadNotPrinted,
        cardVars, checkVars

\* Pause, resume and cancel at the screen.
LEMMA ScreenCommandsKeeps ==
  ASSUME IInv, ScreenCommands
  PROVE  IInv'
  <1>1. /\ toKlipper \in Seq(Sent) /\ OnlyFirst(toKlipper) /\ screen = "busy"
        /\ UNCHANGED <<present, cardVars, checkVars, cancel_send>>
    BY DEF ScreenCommands, IInv, TypeOK, StartInv, Sent
  <1>2. ASSUME NEW c \in {"M24", "M25"}, Sends(c)
        PROVE  IInv'
    BY <1>1, <1>2, SentKeeps
  <1>3. ASSUME screen' = "idle", toKlipper' = Append(toKlipper, "CANCEL_PRINT")
        PROVE  IInv'
    <2>1. /\ toKlipper' \in Seq(Sent) /\ OnlyFirst(toKlipper')
          /\ Waits(toKlipper') /\ Covered(toKlipper')
          /\ Fresh(toKlipper') <=> Fresh(toKlipper)
          /\ Fresh(toKlipper) => Head(toKlipper') = Head(toKlipper)
      BY <1>1, <1>3, Joined DEF Commands
    <2> QED
      BY <1>1, <1>3, <2>1
      DEF IInv, TypeOK, Sent, StartInv, ScreenInv, CheckInv, CancelInv, BadNotPrinted,
          cardVars, checkVars
  <1> QED BY <1>2, <1>3 DEF ScreenCommands

\* What the first command's leaving does, whichever it is.
LEMMA HandledStep ==
  ASSUME IInv, NEW c \in Sent, Received(c)
  PROVE  LET q == Tail(toKlipper)
         IN  /\ q \in Seq(Sent) /\ OnlyFirst(q) /\ ~Fresh(q)
             /\ c # "CANCEL_PRINT" => (Waits(q) <=> Waits(toKlipper))
             /\ c = "CANCEL_PRINT" => Waits(toKlipper)
             /\ Covered(toKlipper) => Covered(q)
             /\ Covered(toKlipper) /\ c = "M24" => Waits(q)
             /\ Fresh(toKlipper) <=> c \in File
             /\ c \in File => Head(toKlipper) = c
  <1>1. toKlipper \in Seq(Sent) /\ OnlyFirst(toKlipper)
    BY DEF IInv, TypeOK, StartInv, Sent
  <1>2. toKlipper # <<>> /\ Head(toKlipper) = c
    BY DEF Received
  <1> QED BY <1>1, <1>2, Taken DEF Fresh

\* The file that was to be begun is there, and the card is free for it.
LEMMA BeginKeeps ==
  ASSUME IInv, NEW f \in File, Begin(f)
  PROVE  IInv'
  <1> DEFINE q == Tail(toKlipper)
  <1>1. /\ toKlipper' = q /\ Received(f) /\ f \in Sent /\ f # "CANCEL_PRINT"
        /\ UNCHANGED <<present, checkVars, cancel_send, screen>>
    BY FileAssumption DEF Begin, Handled, Sent, Commands
  <1>2. /\ q \in Seq(Sent) /\ OnlyFirst(q) /\ ~Fresh(q)
        /\ Waits(q) <=> Waits(toKlipper)
        /\ Covered(toKlipper) => Covered(q)
        /\ Fresh(toKlipper) /\ Head(toKlipper) = f
    BY <1>1, HandledStep
  <1>3. file' = f /\ job' = "begun"
    BY <1>2 DEF Begin, IInv, StartInv
  <1> HIDE DEF q
  <1> QED
    BY <1>1, <1>2, <1>3
    DEF IInv, TypeOK, Sent, StartInv, ScreenInv, CheckInv, CancelInv, BadNotPrinted, checkVars

\* The screen's M25 and M24: with an idle screen an answer is behind the M24.
LEMMA PausedResumedKeeps ==
  ASSUME IInv, M25 \/ M24
  PROVE  IInv'
  <1> DEFINE q == Tail(toKlipper)
  <1>1. PICK c \in {"M24", "M25"} :
          /\ Received(c) /\ toKlipper' = q
          /\ UNCHANGED <<present, file, checkVars, cancel_send, screen>>
          /\ c = "M25" => job' = IF job = "printing" THEN "paused" ELSE job
          /\ c = "M24" => job' = IF job = "paused" THEN "printing" ELSE job
    BY DEF M25, M24, Handled
  <1>2. c \in Sent /\ c # "CANCEL_PRINT" /\ c \notin File
    BY FileAssumption DEF Sent, Commands
  <1>3. /\ q \in Seq(Sent) /\ OnlyFirst(q) /\ ~Fresh(q)
        /\ Waits(q) <=> Waits(toKlipper)
        /\ Covered(toKlipper) => Covered(q)
        /\ Covered(toKlipper) /\ c = "M24" => Waits(q)
        /\ ~Fresh(toKlipper)
    BY <1>1, <1>2, HandledStep
  <1> HIDE DEF q
  <1>4. /\ job' = "none" <=> job = "none"
        /\ job' = "begun" <=> job = "begun"
        /\ job' = "printing" => job = "printing" \/ (job = "paused" /\ c = "M24")
        /\ job' \in {"none", "begun", "printing", "paused"}
        /\ job' \in {"printing", "paused"} => job \in {"printing", "paused"}
    BY <1>1 DEF IInv, TypeOK
  <1> QED
    BY <1>1, <1>3, <1>4
    DEF IInv, TypeOK, Sent, StartInv, ScreenInv, CheckInv, CancelInv, BadNotPrinted, checkVars

\* The screen's CANCEL_PRINT.
LEMMA CancelReceivedKeeps ==
  ASSUME ~Deaf, IInv, CancelReceived
  PROVE  IInv'
  <1> DEFINE q == Tail(toKlipper)
  <1>1. /\ Received("CANCEL_PRINT") /\ CardCancelled /\ present' = present
        /\ Cancelled(cancel_send, check_md5, about, q) /\ cancel_send \in {0, 1}
    BY DEF CancelReceived, IInv, TypeOK
  <1>2. /\ q \in Seq(Sent) /\ OnlyFirst(q) /\ ~Fresh(q)
        /\ Waits(toKlipper) /\ Covered(toKlipper) => Covered(q)
    BY <1>1, HandledStep DEF Sent, Commands
  <1>3. /\ toKlipper' \in Seq(Sent) /\ OnlyFirst(toKlipper') /\ ~Fresh(toKlipper')
        /\ cancel_send = 1 => /\ cancel_send' = 0 /\ check_md5' = check_md5 /\ about' = about
                              /\ toKlipper' = q /\ screen' = screen
        /\ cancel_send = 0 => /\ cancel_send' = 1 /\ check_md5' = "none" /\ about' = NoFile
                              /\ Waits(toKlipper') /\ Covered(toKlipper') /\ screen' = "idle"
    BY <1>1, <1>2, CancelledStep
  <1> HIDE DEF q
  <1>4. /\ job \in {"paused", "none"} => job' = job /\ file' = file
        /\ job \in {"begun", "printing"} => job' = "none" /\ file' = NoFile
    BY <1>1 DEF CardCancelled, cardVars
  <1>5. screen = "idle"
    BY <1>1, HandledStep DEF IInv, TypeOK, ScreenInv, Sent, Commands
  <1>6. CASE cancel_send = 1
    BY <1>1, <1>2, <1>3, <1>4, <1>5, <1>6
    DEF IInv, TypeOK, Sent, StartInv, ScreenInv, CheckInv, CancelInv, BadNotPrinted
  <1>7. CASE cancel_send = 0
    BY <1>1, <1>3, <1>4, <1>7
    DEF IInv, TypeOK, Verdicts, Sent, StartInv, ScreenInv, CheckInv, CancelInv, BadNotPrinted
  <1> QED BY <1>1, <1>6, <1>7

\* Power off and on.
LEMMA PowerCutKeeps ==
  ASSUME IInv, PowerCut
  PROVE  IInv'
  BY Nothing DEF PowerCut, IInv, TypeOK, Verdicts, Sent, StartInv, ScreenInv, CheckInv,
     CancelInv, BadNotPrinted

\* Every step keeps the invariant.
LEMMA NextIInv ==
  ASSUME ~Deaf, ~Hasty, IInv, [Next]_vars
  PROVE  IInv'
  <1>1. CASE Macros
    BY <1>1, PrintFileKeeps, UploadKeeps, StartPrintKeeps, EndPrintKeeps, PauseResumeKeeps,
       CancelKeeps DEF Macros
  <1>2. CASE AtScreen
    BY <1>2, ScreenStartsKeeps, ScreenCommandsKeeps DEF AtScreen
  <1>3. CASE FromScreen
    BY <1>3, BeginKeeps, PausedResumedKeeps, CancelReceivedKeeps DEF FromScreen
  <1>4. CASE PowerCut
    BY <1>4, PowerCutKeeps
  <1>5. CASE UNCHANGED vars
    BY <1>5 DEF vars, cardVars, checkVars, screenVars, IInv, TypeOK, StartInv, ScreenInv,
       CheckInv, CancelInv, BadNotPrinted
  <1> QED BY <1>1, <1>2, <1>3, <1>4, <1>5 DEF Next

-----------------------------------------------------------------------------
(* The theorems.                                                           *)

\* The invariant of the specification.
LEMMA Invariant ==
  ASSUME ~Deaf, ~Hasty
  PROVE  Spec => []IInv
  <1>1. IInv /\ [Next]_vars => IInv'
    BY NextIInv
  <1> QED BY <1>1, InitIInv, PTL DEF Spec

\* A file whose sum does not match is never printed: a verdict that lets
\* _START_PRINT leave out its check is about the file it starts (base.cfg:1398).
THEOREM BadFilesAreNotPrinted ==
  ASSUME ~Deaf, ~Hasty
  PROVE  Spec => [](TypeOK /\ BadNotPrinted)
  <1>1. IInv => TypeOK /\ BadNotPrinted
    BY DEF IInv
  <1> QED BY <1>1, Invariant, PTL

\* A user's CANCEL_PRINT is taken for the screen's answer only while an answer
\* is on its way (mod.cfg:42).
THEOREM CancellationsAreSent ==
  ASSUME ~Deaf, ~Hasty
  PROVE  Spec => []CancelIsSent
  <1>1. IInv => CancelIsSent
    BY DEF IInv, CancelInv, CancelIsSent, Waits, Awaited
  <1> QED BY <1>1, Invariant, PTL

\* With nothing on its way, Klipper has a job exactly when the screen has.
THEOREM ScreenAgrees ==
  ASSUME ~Deaf, ~Hasty
  PROVE  Spec => []Agreed
  <1>1. IInv => Agreed
    BY Nothing DEF IInv, TypeOK, ScreenInv, Agreed
  <1> QED BY <1>1, Invariant, PTL

=============================================================================
