----------------------------- MODULE UartCapture ------------------------------
(***************************************************************************)
(* capture_uart_output of services/uart_capture.py: read a serial port     *)
(* until the expected text was seen, a window per open, the port reopened  *)
(* in between.  The target prints whenever it likes; what it prints while  *)
(* the port is closed, or what is in the input buffer when it is reset, is *)
(* lost.  `now` is the monotonic clock since the call started.             *)
(***************************************************************************)
EXTENDS Integers, Sequences, FiniteSetsExt

CONSTANTS
  ReadSeconds,      \* read_seconds, in clock units
  Window,           \* per_open_window_seconds
  ReopenDelay,      \* reopen_delay_seconds
  ReopenAttempts,   \* reopen_attempts
  MinTimeout,       \* the 0.05 s and the 0.2 s that bound a blocking read
  MaxTimeout,
  Expected          \* the expected text, a sequence of tokens, never empty

ASSUME CaptureAssumption ==
  /\ {ReadSeconds, Window, MinTimeout, MaxTimeout} \subseteq Nat \ {0}
  /\ {ReopenDelay, ReopenAttempts} \subseteq Nat
  /\ MinTimeout <= MaxTimeout
  /\ Expected \in Seq({Expected[i] : i \in DOMAIN Expected}) \ {<<>>}

VARIABLES
  capture,       \* idle | closed | open | matched | silent | error
  now,
  attempt,       \* number of opens so far
  openUntil,     \* open_deadline
  timeout,       \* of a blocking read
  buffer,        \* bytes received by the open port and not read yet
  captured,      \* bytes read
  pending        \* what the target has still to print since its last reset

captureVars == <<capture, now, attempt, openUntil, timeout, buffer, captured,
                 pending>>

Minimum(a, b) == Min({a, b})
Maximum(a, b) == Max({a, b})

CaptureTypeOK ==
  /\ capture \in {"idle", "closed", "open", "matched", "silent", "error"}
  /\ now \in 0 .. ReadSeconds + MaxTimeout
  /\ attempt \in 0 .. ReopenAttempts + 1
  /\ openUntil \in 0 .. ReadSeconds /\ timeout \in 0 .. MaxTimeout

CaptureInit ==
  /\ capture = "idle" /\ now = 0 /\ attempt = 0 /\ openUntil = 0
  /\ timeout = 0 /\ buffer = <<>> /\ captured = <<>> /\ pending = <<>>

Remaining == ReadSeconds - now

(* matched: the expected text occurs in what was read, possibly across     *)
(* chunks or opens; with no expected text any output will do.              *)
Matches(text, anything) ==
  IF anything
    THEN text # <<>>
    ELSE \E i \in 1 .. Len(text) - Len(Expected) + 1 :
           SubSeq(text, i, i + Len(Expected) - 1) = Expected

(* The call: the clock starts.  `left` is what the running target has      *)
(* still to print.                                                         *)
StartCapture(left) ==
  /\ capture = "idle"
  /\ capture' = "closed" /\ now' = 0 /\ attempt' = 0
  /\ buffer' = <<>> /\ captured' = <<>> /\ pending' = left
  /\ UNCHANGED <<openUntil, timeout>>

\* Mutant of OpenDeadline: a window is not cut short by the deadline.
WholeWindow == now + Window

(* open_deadline.                                                          *)
OpenDeadline == Minimum(ReadSeconds, now + Minimum(Window, Remaining))

(* The top of the loop: open, clear the input buffer, and let the caller   *)
(* reset the target, which then prints `boot` from its start.              *)
OpenPort(resets, boot) ==
  /\ capture = "closed" /\ attempt <= ReopenAttempts /\ Remaining > 0
  /\ capture' = "open"
  /\ attempt' = attempt + 1
  /\ openUntil' = OpenDeadline
  /\ timeout' = Minimum(MaxTimeout,
                        Maximum(MinTimeout, Minimum(Window, Remaining)))
  /\ buffer' = <<>>
  /\ pending' = IF resets THEN boot ELSE pending
  /\ UNCHANGED <<now, captured>>

\* Mutant of GiveUp: a deadline that passes in the delay is not noticed.
GiveUpByCount ==
  /\ capture = "closed" /\ attempt > ReopenAttempts
  /\ capture' = "silent"
  /\ UNCHANGED <<now, attempt, openUntil, timeout, buffer, captured, pending>>

(* No attempt or no time is left: the text read so far did not match.      *)
GiveUp ==
  /\ capture = "closed"
  /\ attempt > ReopenAttempts \/ Remaining <= 0
  /\ capture' = "silent"
  /\ UNCHANGED <<now, attempt, openUntil, timeout, buffer, captured, pending>>

(* The target prints its next token.                                       *)
Emit ==
  /\ capture \in {"open", "closed"} /\ pending # <<>>
  /\ pending' = Tail(pending)
  /\ buffer' = IF capture = "open" THEN Append(buffer, Head(pending)) ELSE buffer
  /\ UNCHANGED <<capture, now, attempt, openUntil, timeout, captured>>

(* A blocking read: it returns what has arrived, after its timeout or, if  *)
(* the chunk is full, earlier.                                             *)
Read(anything) ==
  /\ capture = "open" /\ now < openUntil
  /\ \E d \in (IF buffer = <<>> THEN {timeout} ELSE 1 .. timeout) :
       now' = now + d
  /\ captured' = captured \o buffer /\ buffer' = <<>>
  /\ capture' = IF buffer # <<>> /\ Matches(captured \o buffer, anything)
                  THEN "matched" ELSE "open"
  /\ UNCHANGED <<attempt, openUntil, timeout, pending>>

(* The window is over: the port is closed, and unless this was the last    *)
(* attempt the call sleeps, never past its deadline.                       *)
CloseWindow ==
  /\ capture = "open" /\ now >= openUntil
  /\ capture' = "closed" /\ buffer' = <<>>
  /\ now' = IF attempt <= ReopenAttempts
              THEN now + Minimum(ReopenDelay, Maximum(0, Remaining)) ELSE now
  /\ UNCHANGED <<attempt, openUntil, timeout, captured, pending>>

(* Opening, resetting or reading fails: RuntimeError, with the port closed. *)
PortFails ==
  /\ \/ capture = "closed" /\ attempt <= ReopenAttempts /\ Remaining > 0
     \/ capture = "open" /\ now < openUntil
  /\ capture' = "error" /\ buffer' = <<>>
  /\ UNCHANGED <<now, attempt, openUntil, timeout, captured, pending>>

CaptureStep(resets, boot, anything) ==
  \/ OpenPort(resets, boot) \/ GiveUp \/ Emit \/ Read(anything)
  \/ CloseWindow \/ PortFails

(* The caller takes the result.                                            *)
CaptureDone == capture \in {"matched", "silent", "error"}
EndCapture ==
  /\ CaptureDone
  /\ capture' = "idle" /\ now' = 0 /\ attempt' = 0 /\ openUntil' = 0
  /\ timeout' = 0 /\ buffer' = <<>> /\ captured' = <<>> /\ pending' = <<>>
=============================================================================
