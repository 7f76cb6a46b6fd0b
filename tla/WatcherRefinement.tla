------------------------- MODULE WatcherRefinement -------------------------
(***************************************************************************)
(* WatcherCounter read off the live session's event log, once for each      *)
(* family of tools the convergence watcher looks at.                        *)
(***************************************************************************)
EXTENDS DebugServer

CONSTANT NoSignature  \* no failure is being counted

ASSUME NoSignatureIsNew == NoSignature \notin Signatures

SignaturesOf(family) == {s \in Signatures : s[1] = family}

\* The signatures of a log whose run of failures no later event has broken.
RunningIn(events, family) ==
  {Signature(e) : e \in {events[i] : i \in {j \in 1..Len(events) :
     /\ Signed(events[j]) /\ events[j].tool = family
     /\ Streak(events, Signature(events[j])) # {}}}}

Running(family) == RunningIn(record.events, family)

Last(family) ==
  IF Running(family) = {} THEN NoSignature ELSE CHOOSE s \in Running(family) : TRUE

Count(family) ==
  Cardinality(UNION {Streak(record.events, s) : s \in Running(family)})

FlashWatcher == INSTANCE WatcherCounter
  WITH Signatures <- SignaturesOf(FLASH_TOOL), Limit <- Threshold(FLASH_TOOL),
       last <- Last(FLASH_TOOL), count <- Count(FLASH_TOOL),
       blocked <- FLASH_TOOL \in record.blocked

UartWatcher == INSTANCE WatcherCounter
  WITH Signatures <- SignaturesOf(UART_TOOL), Limit <- Threshold(UART_TOOL),
       last <- Last(UART_TOOL), count <- Count(UART_TOOL),
       blocked <- UART_TOOL \in record.blocked

RecoverWatcher == INSTANCE WatcherCounter
  WITH Signatures <- SignaturesOf(RECOVER_TOOL), Limit <- Threshold(RECOVER_TOOL),
       last <- Last(RECOVER_TOOL), count <- Count(RECOVER_TOOL),
       blocked <- RECOVER_TOOL \in record.blocked

\* The watcher, which rescans the session log after every failure, implements
\* one counter of identical consecutive failures per family.
ImplementsCounter == FlashWatcher!Spec /\ UartWatcher!Spec /\ RecoverWatcher!Spec
============================================================================
