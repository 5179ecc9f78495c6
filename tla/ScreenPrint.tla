------------------------------ MODULE ScreenPrint ------------------------------
(***************************************************************************)
(* Printing with the printer's own screen: the macros of mod.cfg and       *)
(* base.cfg, the check of a file's MD5 sum (CHECK_MD5, checkMD5.sh,        *)
(* save_variables.py) and the commands that go to the screen and back.     *)
(*                                                                         *)
(* The macros send the screen a command (zsend) and the screen, a program  *)
(* of the vendor, acts on it by sending Klipper commands, in order.        *)
(* CANCEL_PRINT tells the screen's answer from a user's by cancel_send     *)
(* alone, and _START_PRINT takes a check_md5 other than 0 for a check of   *)
(* the file it starts.  A macro runs under the mutex and is one action;    *)
(* FORCE_MD5 is on.                                                        *)
(***************************************************************************)
EXTENDS Naturals, Sequences

CONSTANTS File, Bad,    \* files, and those whose sum does not match
          NoFile,
          Deaf,         \* the screen may not hear a command
          Ahead,        \* a pause or a cancellation comes with so many on the way
          Hasty         \* so does a start

\* What the screen sends, besides the name of a file to print.
Commands == {"M24", "M25", "CANCEL_PRINT"}

ASSUME FileAssumption == NoFile \notin File /\ File \cap Commands = {} /\ Bad \subseteq File
ASSUME ScreenAssumption == Deaf \in BOOLEAN /\ Hasty \in BOOLEAN /\ Ahead \in Nat

VARIABLES present,      \* the files there are
          file, job,    \* the SD card: its file, and how far the job is
          check_md5,    \* the saved variable: the verdict of a check, or 0
          about,        \* the file that verdict is about
          cancel_send,
          screen,       \* whether the screen is busy with a print
          toKlipper     \* the commands it has sent

cardVars == <<file, job>>
checkVars == <<check_md5, about>>
screenVars == <<screen, toKlipper>>
vars == <<present, cardVars, checkVars, cancel_send, screenVars>>

\* A file without a sum passes, with a message; a check may run out of time.
Verdicts == {"none", "passed", "missing", "failed"}

TypeOK ==
  /\ present \subseteq File /\ file \in File \cup {NoFile}
  /\ job \in {"none", "begun", "printing", "paused"}
  /\ check_md5 \in Verdicts /\ about \in File \cup {NoFile}
  /\ cancel_send \in {0, 1}
  /\ screen \in {"idle", "busy"}
  /\ toKlipper \in Seq(Commands \cup File)

Init ==
  /\ present = File /\ file = NoFile /\ job = "none"
  /\ check_md5 = "none" /\ about = NoFile /\ cancel_send = 0
  /\ screen = "idle" /\ toKlipper = <<>>

\* A user's command, and a start.
User == Len(toKlipper) <= Ahead
Chosen(f) == f \in present /\ (toKlipper = <<>> \/ (Hasty /\ User))

-----------------------------------------------------------------------------
(* The screen.  q is what it has sent before.                              *)

Silent(q) == toKlipper' = q /\ UNCHANGED screen
Sends(command) == toKlipper' = Append(toKlipper, command) /\ UNCHANGED screen

\* zsend M23, M24, M25: heard unless the screen is deaf, or has nothing to do it to.
Starts(f) == IF screen = "idle"
               THEN screen' = "busy" /\ toKlipper' = Append(toKlipper, f)
               ELSE Silent(toKlipper)
Asked(command) == \/ IF screen = "busy" THEN Sends(command) ELSE Silent(toKlipper)
                  \/ Deaf /\ Silent(toKlipper)

\* M26: a print is given up, and CANCEL_PRINT is the answer in any case.
GivesUp(q) == \/ screen' = "idle" /\ toKlipper' = Append(q, "CANCEL_PRINT")
              \/ Deaf /\ ((screen' = "idle" /\ toKlipper' = q) \/ Silent(q))

-----------------------------------------------------------------------------
(* CHECK_MD5 and CANCEL_PRINT.                                             *)

\* What checkMD5.sh writes; nothing when it runs out of time.
Verdict(f) == IF f \notin present THEN {"missing"}
              ELSE {"none", IF f \in Bad THEN "failed" ELSE "passed"}

\* DELETE=True: a file that fails is removed.
Removed(verdict, f) ==
  present' = IF verdict = "failed" THEN present \ {f} ELSE present

\* CANCEL_PRINT_BASE ends a job that is printing; one that M25 has paused keeps
\* its file and is shown as paused.
CardCancelled ==
  IF job \in {"begun", "printing"} THEN job' = "none" /\ file' = NoFile
                                   ELSE UNCHANGED cardVars

\* Fault: the answer does not clear the mark.
CancelledKept(send, verdict, f, q) ==
  IF send = 1
    THEN cancel_send' = 1 /\ check_md5' = verdict /\ about' = f /\ Silent(q)
    ELSE /\ cancel_send' = 1 /\ check_md5' = "none" /\ about' = NoFile
         /\ GivesUp(q)

\* Fault: the job is cancelled in Klipper only.
CancelledUnsent(send, verdict, f, q) ==
  /\ cancel_send' = 0 /\ check_md5' = "none" /\ about' = NoFile
  /\ Silent(q)

\* CANCEL_PRINT, with cancel_send = send and check_md5 the verdict on f: it goes
\* to the screen, and _STOP sets check_md5 to 0, unless the one sent before has
\* not been answered.
Cancelled(send, verdict, f, q) ==
  IF send = 1
    THEN /\ cancel_send' = 0 /\ check_md5' = verdict /\ about' = f
         /\ Silent(q)
    ELSE /\ cancel_send' = 1 /\ check_md5' = "none" /\ about' = NoFile
         /\ GivesUp(q)

-----------------------------------------------------------------------------
(* The macros.                                                             *)

\* LEVELING_PRINT_FILE and NOLEVELING_PRINT_FILE: M23, the check, and the screen
\* is told to start.
PrintFile(f) ==
  /\ Chosen(f) /\ (job = "none" \/ (job = "paused" /\ Hasty))
  /\ file' = f /\ job' = "none"
  /\ \E verdict \in Verdict(f) :
       IF verdict = "passed"
         THEN /\ check_md5' = verdict /\ about' = f
              /\ Starts(f) \/ (Deaf /\ Silent(toKlipper))
              /\ UNCHANGED <<present, cancel_send>>
         ELSE Removed(verdict, f) /\ Cancelled(cancel_send, verdict, f, toKlipper)

\* The file's START_PRINT: cancel_send is reset, and the file is checked unless
\* check_md5 holds a verdict.
StartPrint ==
  /\ job = "begun"
  /\ IF check_md5 # "none"
       THEN /\ job' = "printing" /\ cancel_send' = 0
            /\ UNCHANGED <<present, file, checkVars, screenVars>>
       ELSE \E verdict \in Verdict(file) :
              IF verdict = "passed"
                THEN /\ job' = "printing" /\ cancel_send' = 0
                     /\ check_md5' = verdict /\ about' = file
                     /\ UNCHANGED <<present, file, screenVars>>
                ELSE /\ Removed(verdict, file) /\ CardCancelled
                     /\ Cancelled(0, verdict, file, toKlipper)

\* Fault: the verdict stays when the print ends.
EndPrintOnly ==
  /\ job = "printing"
  /\ job' = "none" /\ file' = NoFile /\ screen' = "idle"
  /\ UNCHANGED <<present, checkVars, cancel_send, toKlipper>>

\* The end of the file: END_PRINT calls _STOP.
EndPrint ==
  /\ job = "printing"
  /\ job' = "none" /\ file' = NoFile /\ screen' = "idle"
  /\ check_md5' = "none" /\ about' = NoFile
  /\ UNCHANGED <<present, cancel_send, toKlipper>>

\* PAUSE and RESUME leave the job to the screen's M25 and M24.
PauseResume ==
  /\ User /\ (Asked("M25") \/ Asked("M24"))
  /\ UNCHANGED <<present, cardVars, checkVars, cancel_send>>

Cancel ==
  /\ User /\ Cancelled(cancel_send, check_md5, about, toKlipper) /\ CardCancelled
  /\ UNCHANGED present

Upload(f) ==
  /\ f \notin present /\ present' = present \cup {f}
  /\ UNCHANGED <<cardVars, checkVars, cancel_send, screenVars>>

-----------------------------------------------------------------------------
(* What is done at the screen, and what Klipper does with its commands.    *)

ScreenStarts(f) ==
  /\ Chosen(f) /\ screen = "idle" /\ Starts(f)
  /\ UNCHANGED <<present, cardVars, checkVars, cancel_send>>

ScreenCommands ==
  /\ User /\ screen = "busy"
  /\ \/ \E command \in {"M24", "M25"} : Sends(command)
     \/ screen' = "idle" /\ toKlipper' = Append(toKlipper, "CANCEL_PRINT")
  /\ UNCHANGED <<present, cardVars, checkVars, cancel_send>>

Received(command) == toKlipper # <<>> /\ Head(toKlipper) = command
Handled == toKlipper' = Tail(toKlipper) /\ UNCHANGED <<present, checkVars, cancel_send, screen>>

\* With the SD card busy it is an error, and nothing starts without the file.
Begin(f) ==
  /\ Received(f) /\ Handled
  /\ IF job \in {"begun", "printing"}
       THEN UNCHANGED cardVars
       ELSE IF f \in present THEN file' = f /\ job' = "begun"
                             ELSE file' = NoFile /\ job' = "none"

M25 ==
  /\ Received("M25") /\ Handled
  /\ job' = IF job = "printing" THEN "paused" ELSE job
  /\ UNCHANGED file

M24 ==
  /\ Received("M24") /\ Handled
  /\ job' = IF job = "paused" THEN "printing" ELSE job
  /\ UNCHANGED file

CancelReceived ==
  /\ Received("CANCEL_PRINT") /\ CardCancelled
  /\ Cancelled(cancel_send, check_md5, about, Tail(toKlipper))
  /\ UNCHANGED present

\* The power goes and comes back: Klipper's variables start anew, check_md5 is
\* on disk; start_led resets it before anything is printed.
PowerCut ==
  /\ file' = NoFile /\ job' = "none" /\ cancel_send' = 0
  /\ check_md5' = "none" /\ about' = NoFile
  /\ screen' = "idle" /\ toKlipper' = <<>>
  /\ UNCHANGED present

-----------------------------------------------------------------------------
FromScreen == (\E f \in File : Begin(f)) \/ M25 \/ M24 \/ CancelReceived
Macros == \/ \E f \in File : PrintFile(f) \/ Upload(f)
          \/ StartPrint \/ EndPrint \/ PauseResume \/ Cancel
AtScreen == (\E f \in File : ScreenStarts(f)) \/ ScreenCommands

Next == Macros \/ AtScreen \/ FromScreen \/ PowerCut

Spec == Init /\ [][Next]_vars

-----------------------------------------------------------------------------
(* Properties.                                                             *)

Awaited(command) == \E i \in 1..Len(toKlipper) : toKlipper[i] = command

\* With FORCE_MD5 no file whose sum does not match is printed, wherever the print
\* is started: a verdict that lets _START_PRINT leave the check out is about the
\* file it starts, although it says nothing of which file it was for.
BadNotPrinted == job \in {"printing", "paused"} => file \notin Bad

\* While CANCEL_PRINT would be taken for the screen's answer, an answer is on its
\* way: a user's cancellation is swallowed only when the screen knows already.
CancelIsSent == cancel_send = 1 => Awaited("CANCEL_PRINT")

\* When nothing is on its way, Klipper has a job if and only if the screen shows
\* a print: a check that fails, a cancellation and its answer end both.
Agreed ==
  toKlipper = <<>> =>
    /\ job \in {"begun", "printing"} => screen = "busy"
    /\ screen = "busy" => job # "none"

=============================================================================
