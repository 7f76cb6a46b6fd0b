------------------------ MODULE LocalConvergenceProofs ------------------------
(***************************************************************************)
(* Theorems about LocalConvergence, for any limits, files, outputs and     *)
(* number of turns: the counters count what the history says they should.  *)
(***************************************************************************)
EXTENDS LocalConvergence, FiniteSetTheorems, TLAPS

-----------------------------------------------------------------------------
(* Types, and the shape of a turn.  The three counters are then looked at  *)
(* one by one: each needs only what a turn adds to the history and does to *)
(* that counter.                                                           *)

Entry == [text : Text, verification : Verification,
          files : [Paths -> Contents \cup {Original}]]

Control == result = Convergence(buildFailures, streak, stagnant)
TypeInv == TypeOK /\ Control

\* The history is one turn longer; streak and lastTurn follow.
Grows(text) ==
  /\ text \in Text
  /\ Len(turns) \in Nat /\ Len(turns') = Len(turns) + 1
  /\ \A i \in 1 .. Len(turns) : turns'[i] = turns[i]
  /\ turns'[Len(turns) + 1] = [text |-> text, verification |-> verification',
                               files |-> files']
  /\ streak' = StreakAfter(text) /\ lastTurn' = text

\* What a turn does to the build counter.
Ended(text) == text.kind = "build" /\ text.outcome # "raised"
Builds(text) ==
  \/ ~Ended(text) /\ UNCHANGED building
  \/ /\ Ended(text) /\ text.outcome = "done"
     /\ buildFailures' = 0 /\ lastBuildFailure' = None
  \/ /\ Ended(text) /\ text.outcome \in Errors /\ UNCHANGED files
     /\ buildFailures' = FailuresAfter(text.outcome)
     /\ lastBuildFailure' = [error |-> text.outcome, changed |-> Changed(files)]

\* What it does to the verification and its counter.
Testing(text) == text.kind \in {"serial", "green"}
Tries(text) ==
  \/ /\ ~Testing(text) /\ text.kind # "flash"
     /\ pending' = (pending \/ text.kind \in {"edit", "build"})
     /\ UNCHANGED <<stagnant, verifying>>
  \/ /\ Testing(text) \/ text.kind = "flash"
     /\ \E found \in Verification : Verified(found, Testing(text))

TakesTurn == \E text \in Text : Grows(text) /\ Builds(text) /\ Tries(text)

\* No counter has reached its limit while the run goes on.
LEMMA BelowLimits ==
  ASSUME TypeInv, result = "running"
  PROVE  /\ streak + 1 \in 0 .. MAX_NO_PROGRESS_STREAK
         /\ buildFailures + 1 \in 0 .. MAX_IDENTICAL_BUILD_FAILURES
         /\ stagnant + 1 \in 0 .. MAX_STAGNANT_FIX_CYCLES
         /\ 1 \in 0 .. MAX_IDENTICAL_BUILD_FAILURES
         /\ 0 \in 0 .. MAX_NO_PROGRESS_STREAK
         /\ 0 \in 0 .. MAX_STAGNANT_FIX_CYCLES
         /\ 0 \in 0 .. MAX_IDENTICAL_BUILD_FAILURES
BY ConvergenceConstants DEF TypeInv, TypeOK, Control, Convergence

\* Turn appends one entry to the history and keeps the types it sets.
LEMMA TurnGrows ==
  ASSUME TypeInv, NEW kind, NEW outcome, Turn(kind, outcome),
         [kind |-> kind, outcome |-> outcome] \in Text,
         verification' \in Verification,
         files' \in [Paths -> Contents \cup {Original}]
  PROVE  /\ Grows([kind |-> kind, outcome |-> outcome])
         /\ Control' /\ result' \in {"running", "build", "progress", "improvement"}
         /\ streak' \in 0 .. MAX_NO_PROGRESS_STREAK /\ lastTurn' \in Text
         /\ turns' \in Seq(Entry)
<1> DEFINE text == [kind |-> kind, outcome |-> outcome]
<1> DEFINE entry == [text |-> text, verification |-> verification', files |-> files']
<1>1. turns \in Seq(Entry) /\ entry \in Entry
  BY DEF TypeInv, TypeOK, Entry
<1>2. turns' = Append(turns, entry) /\ streak' = StreakAfter(text) /\ lastTurn' = text
      /\ result = "running" /\ result' = Convergence(buildFailures', streak', stagnant')
  BY DEF Turn
<1> HIDE DEF entry
<1>3. /\ turns' \in Seq(Entry) /\ Len(turns) \in Nat /\ Len(turns') = Len(turns) + 1
      /\ \A i \in 1 .. Len(turns) : turns'[i] = turns[i]
      /\ turns'[Len(turns) + 1] = entry
  BY <1>1, <1>2
<1>4. streak' \in 0 .. MAX_NO_PROGRESS_STREAK
  BY <1>2, BelowLimits DEF StreakAfter
<1>5. Control' /\ result' \in {"running", "build", "progress", "improvement"}
  BY <1>2 DEF Control, Convergence
<1> QED
  BY <1>2, <1>3, <1>4, <1>5 DEF Grows, entry

\* _update_verification_state keeps its types.
LEMMA VerifiedTypes ==
  ASSUME TypeInv, result = "running", NEW found \in Verification,
         NEW evaluates \in BOOLEAN, Verified(found, evaluates)
  PROVE  /\ verification' \in Verification /\ lastVerification' \in Verification
         /\ pending' \in BOOLEAN /\ stagnant' \in 0 .. MAX_STAGNANT_FIX_CYCLES
         /\ UNCHANGED <<files, building>>
         /\ files' \in [Paths -> Contents \cup {Original}]
         /\ buildFailures' \in 0 .. MAX_IDENTICAL_BUILD_FAILURES
         /\ lastBuildFailure' \in [error : Errors, changed : SUBSET Paths] \cup {None}
<1>1. stagnant' \in 0 .. MAX_STAGNANT_FIX_CYCLES
  BY BelowLimits DEF Verified, StagnantAfter, TypeInv, TypeOK
<1> QED
  BY <1>1 DEF Verified, TypeInv, TypeOK, building

\* A turn keeps the types if what it sets has them.
LEMMA TurnTypes ==
  ASSUME TypeInv, NEW kind, NEW outcome, Turn(kind, outcome),
         [kind |-> kind, outcome |-> outcome] \in Text,
         files' \in [Paths -> Contents \cup {Original}],
         verification' \in Verification,
         lastVerification' \in Verification \cup {None},
         pending' \in BOOLEAN, stagnant' \in 0 .. MAX_STAGNANT_FIX_CYCLES,
         buildFailures' \in 0 .. MAX_IDENTICAL_BUILD_FAILURES,
         lastBuildFailure' \in [error : Errors, changed : SUBSET Paths] \cup {None}
  PROVE  TypeInv'
BY TurnGrows DEF TypeInv, TypeOK, Entry

\* Every action is a turn in the sense of TakesTurn, and keeps the types.
LEMMA TurnShape ==
  ASSUME TypeInv, Next
  PROVE  TypeInv' /\ TakesTurn
<1>1. result = "running"
  BY DEF Next, Look, ReplaceFile, BuildSucceeds, BuildFails, BuildRaises,
         FlashFirmware, ReadSerial, RunGreenCheck, Turn
<1>2. /\ files \in [Paths -> Contents \cup {Original}]
      /\ verification \in Verification /\ lastVerification \in Verification \cup {None}
      /\ pending \in BOOLEAN /\ stagnant \in 0 .. MAX_STAGNANT_FIX_CYCLES
      /\ buildFailures \in 0 .. MAX_IDENTICAL_BUILD_FAILURES
      /\ lastBuildFailure \in [error : Errors, changed : SUBSET Paths] \cup {None}
  BY DEF TypeInv, TypeOK
<1>3. CASE Look
  <2>1. [kind |-> "look", outcome |-> "told"] \in Text
    BY DEF Text
  <2>2. Turn("look", "told") /\ UNCHANGED <<files, fixing, building, verifying>>
    BY <1>3 DEF Look
  <2>3. TypeInv' /\ Grows([kind |-> "look", outcome |-> "told"])
    BY <1>2, <2>1, <2>2, TurnTypes, TurnGrows DEF fixing, building, verifying
  <2> QED
    BY <1>2, <2>1, <2>2, <2>3
    DEF TakesTurn, Builds, Tries, Ended, Testing, fixing, building, verifying
<1>4. ASSUME NEW path \in Paths, NEW content \in Contents, ReplaceFile(path, content)
      PROVE  TypeInv' /\ TakesTurn
  <2>1. [kind |-> "edit", outcome |-> "done"] \in Text
    BY DEF Text
  <2>2. /\ Turn("edit", "done") /\ pending' = TRUE
        /\ UNCHANGED <<stagnant, building, verifying>>
        /\ files' \in [Paths -> Contents \cup {Original}]
    BY <1>2, <1>4 DEF ReplaceFile
  <2>3. TypeInv' /\ Grows([kind |-> "edit", outcome |-> "done"])
    BY <1>2, <2>1, <2>2, TurnTypes, TurnGrows DEF building, verifying
  <2> QED
    BY <1>2, <2>1, <2>2, <2>3
    DEF TakesTurn, Builds, Tries, Ended, Testing, building, verifying
<1>5. CASE BuildSucceeds
  <2>1. [kind |-> "build", outcome |-> "done"] \in Text
    BY DEF Text
  <2>2. /\ Turn("build", "done") /\ pending' = TRUE
        /\ buildFailures' = 0 /\ lastBuildFailure' = None
        /\ UNCHANGED <<files, stagnant, verifying>>
    BY <1>5 DEF BuildSucceeds
  <2>3. TypeInv' /\ Grows([kind |-> "build", outcome |-> "done"])
    BY <1>1, <1>2, <2>1, <2>2, BelowLimits, TurnTypes, TurnGrows DEF verifying
  <2> QED
    BY <1>2, <2>1, <2>2, <2>3
    DEF TakesTurn, Builds, Tries, Ended, Testing, verifying
<1>6. ASSUME NEW error \in Errors, BuildFails(error)
      PROVE  TypeInv' /\ TakesTurn
  <2>1. [kind |-> "build", outcome |-> error] \in Text /\ error \notin {"done", "raised"}
    BY DistinctConstants DEF Text
  <2>2. /\ Turn("build", error) /\ pending' = TRUE
        /\ buildFailures' = FailuresAfter(error)
        /\ lastBuildFailure' = [error |-> error, changed |-> Changed(files)]
        /\ UNCHANGED <<files, stagnant, verifying>>
    BY <1>6 DEF BuildFails
  <2>3. /\ buildFailures' \in 0 .. MAX_IDENTICAL_BUILD_FAILURES
        /\ lastBuildFailure' \in [error : Errors, changed : SUBSET Paths]
    BY <1>1, <1>2, <2>2, BelowLimits DEF FailuresAfter, Changed
  <2>4. TypeInv' /\ Grows([kind |-> "build", outcome |-> error])
    BY <1>2, <2>1, <2>2, <2>3, TurnTypes, TurnGrows DEF verifying
  <2> QED
    BY <1>2, <2>1, <2>2, <2>4
    DEF TakesTurn, Builds, Tries, Ended, Testing, verifying
<1>7. CASE BuildRaises
  <2>1. [kind |-> "build", outcome |-> "raised"] \in Text
    BY DEF Text
  <2>2. /\ Turn("build", "raised") /\ pending' = TRUE
        /\ UNCHANGED <<files, stagnant, building, verifying>>
    BY <1>7 DEF BuildRaises
  <2>3. TypeInv' /\ Grows([kind |-> "build", outcome |-> "raised"])
    BY <1>2, <2>1, <2>2, TurnTypes, TurnGrows DEF building, verifying
  <2> QED
    BY <1>2, <2>1, <2>2, <2>3
    DEF TakesTurn, Builds, Tries, Ended, Testing, building, verifying
<1>8. ASSUME NEW kind \in {"flash", "serial", "green"}, NEW outcome,
             [kind |-> kind, outcome |-> outcome] \in Text, Turn(kind, outcome),
             NEW found \in Verification, Verified(found, kind # "flash")
      PROVE  TypeInv' /\ TakesTurn
  <2>1. (kind # "flash") \in BOOLEAN
    OBVIOUS
  <2>2. TypeInv' /\ Grows([kind |-> kind, outcome |-> outcome]) /\ UNCHANGED building
    BY <1>1, <1>8, <2>1, VerifiedTypes, TurnTypes, TurnGrows DEF building
  <2>3. Testing([kind |-> kind, outcome |-> outcome]) = (kind # "flash")
    BY DEF Testing
  <2>4. Tries([kind |-> kind, outcome |-> outcome])
    BY <1>8, <2>3 DEF Tries
  <2>5. Builds([kind |-> kind, outcome |-> outcome])
    BY <2>2 DEF Builds, Ended
  <2> QED
    BY <1>8, <2>2, <2>4, <2>5 DEF TakesTurn
<1>9. CASE FlashFirmware
  <2>1. [kind |-> "flash", outcome |-> "done"] \in Text
    BY DEF Text
  <2>2. [verification EXCEPT !.flash = TRUE] \in Verification
    BY <1>2 DEF Verification
  <2>3. Verified([verification EXCEPT !.flash = TRUE], "flash" # "flash")
    BY <1>9, ("flash" # "flash") = FALSE DEF FlashFirmware
  <2> QED
    BY <1>8, <1>9, <2>1, <2>2, <2>3 DEF FlashFirmware
<1>10. ASSUME NEW outcome \in {"matched", "missed"}, ReadSerial(outcome)
       PROVE  TypeInv' /\ TakesTurn
  <2>1. [kind |-> "serial", outcome |-> outcome] \in Text
    BY DEF Text
  <2>2. [verification EXCEPT !.uart = (outcome = "matched")] \in Verification
    BY <1>2 DEF Verification
  <2>3. Verified([verification EXCEPT !.uart = (outcome = "matched")],
                 "serial" # "flash")
    BY <1>10, ("serial" # "flash") = TRUE DEF ReadSerial
  <2> QED
    BY <1>8, <1>10, <2>1, <2>2, <2>3 DEF ReadSerial
<1>11. ASSUME NEW outcome \in {"passed", "missed", "mismatch"}, RunGreenCheck(outcome)
       PROVE  TypeInv' /\ TakesTurn
  <2>1. [kind |-> "green", outcome |-> outcome] \in Text
    BY DEF Text
  <2>2. GreenVerdict(outcome) \in Verification
    BY <1>2 DEF Verification, GreenVerdict
  <2>3. Verified(GreenVerdict(outcome), "green" # "flash")
    BY <1>11, ("green" # "flash") = TRUE DEF RunGreenCheck
  <2> QED
    BY <1>8, <1>11, <2>1, <2>2, <2>3 DEF RunGreenCheck
<1> QED
  BY <1>3, <1>4, <1>5, <1>6, <1>7, <1>9, <1>10, <1>11 DEF Next

\* The types hold at the start of a run.
LEMMA TypeStart == Init => TypeInv
<1> SUFFICES ASSUME Init PROVE TypeInv
  OBVIOUS
<1>1. << >> \in Seq([text : Text, verification : Verification,
                     files : [Paths -> Contents \cup {Original}]])
  OBVIOUS
<1>2. verification \in Verification /\ files \in [Paths -> Contents \cup {Original}]
  BY DEF Init, Verification
<1>3. Control
  BY ConvergenceConstants DEF Init, Control, Convergence
<1>4. /\ lastVerification = None /\ lastBuildFailure = None /\ lastTurn = None
      /\ pending \in BOOLEAN /\ turns = << >>
      /\ result \in {"running", "build", "progress", "improvement"}
  BY DEF Init
<1>5. /\ stagnant \in 0 .. MAX_STAGNANT_FIX_CYCLES
      /\ buildFailures \in 0 .. MAX_IDENTICAL_BUILD_FAILURES
      /\ streak \in 0 .. MAX_NO_PROGRESS_STREAK
  BY ConvergenceConstants DEF Init
<1>6. turns \in Seq([text : Text, verification : Verification,
                     files : [Paths -> Contents \cup {Original}]])
  BY <1>1, <1>4
<1> QED
  BY <1>2, <1>3, <1>4, <1>5, <1>6 DEF TypeInv, TypeOK

-----------------------------------------------------------------------------
(* Repeated turns: the last ones, one more than the streak, are the same,  *)
(* and the one before them is another.                                     *)

StreakInv ==
  /\ Len(turns) = 0 => lastTurn = None /\ streak = 0
  /\ Len(turns) > 0 =>
       /\ lastTurn \in Text /\ streak < Len(turns)
       /\ \A i \in Len(turns) - streak .. Len(turns) : turns[i].text = lastTurn
       /\ Len(turns) - streak > 1 => turns[Len(turns) - streak - 1].text # lastTurn

\* A turn keeps the streak exact.
LEMMA StreakKept ==
  ASSUME StreakInv, streak \in Nat, NEW text, Grows(text)
  PROVE  StreakInv'
<1> DEFINE n == Len(turns)
<1>1. /\ n \in Nat /\ Len(turns') = n + 1 /\ text \in Text /\ text # None
      /\ \A i \in 1 .. n : turns'[i] = turns[i]
      /\ turns'[n + 1].text = text
      /\ streak' = StreakAfter(text) /\ lastTurn' = text
  BY DistinctConstants DEF Grows
<1> HIDE DEF n
<1>2. CASE text = lastTurn
  <2>1. n > 0 /\ streak' = streak + 1 /\ streak < n
    BY <1>1, <1>2 DEF StreakInv, StreakAfter, n
  <2>2. \A i \in n - streak .. n : turns'[i].text = text
    BY <1>1, <1>2, <2>1 DEF StreakInv, n
  <2>3. \A i \in n - streak .. n + 1 : turns'[i].text = text
    BY <1>1, <2>1, <2>2
  <2>4. n - streak > 1 => turns'[n - streak - 1].text # text
    <3> SUFFICES ASSUME n - streak > 1 PROVE turns'[n - streak - 1].text # text
      OBVIOUS
    <3>1. n - streak - 1 \in 1 .. n
      BY <1>1, <2>1
    <3> QED
      BY <1>1, <1>2, <2>1, <3>1 DEF StreakInv, n
  <2>5. (n + 1) - (streak + 1) = n - streak
    BY <1>1
  <2> QED
    BY <1>1, <2>1, <2>3, <2>4, <2>5 DEF StreakInv
<1>3. CASE text # lastTurn
  <2>1. streak' = 0
    BY <1>1, <1>3 DEF StreakAfter
  <2>2. \A i \in (n + 1) - 0 .. n + 1 : turns'[i].text = text
    BY <1>1
  <2>3. (n + 1) - 0 > 1 => turns'[(n + 1) - 0 - 1].text # text
    <3> SUFFICES ASSUME n > 0 PROVE turns'[n].text # text
      BY <1>1, (n + 1) - 0 - 1 = n
    <3>1. n \in n - streak .. n /\ n \in 1 .. n
      BY <1>1 DEF StreakInv, n
    <3> QED
      BY <1>1, <1>3, <3>1 DEF StreakInv, n
  <2> QED
    BY <1>1, <2>1, <2>2, <2>3 DEF StreakInv
<1> QED
  BY <1>2, <1>3

\* The streak reaches its limit when the last turns are the same.
LEMMA StreakMeaning ==
  ASSUME TypeInv, StreakInv
  PROVE  SameTurns <=> streak >= MAX_NO_PROGRESS_STREAK
<1> DEFINE n == Len(turns)
<1> DEFINE limit == MAX_NO_PROGRESS_STREAK
<1>1. n \in Nat /\ limit \in Nat \ {0} /\ streak \in 0 .. limit
  BY ConvergenceConstants DEF TypeInv, TypeOK
<1>2. ASSUME streak >= limit
      PROVE  SameTurns
  <2>1. streak = limit /\ n > 0 /\ streak < n
    BY <1>1, <1>2 DEF StreakInv
  <2>2. \A i \in n - limit .. n : turns[i].text = lastTurn
    BY <2>1 DEF StreakInv
  <2>3. n \in n - limit .. n
    BY <1>1
  <2> QED
    BY <1>1, <2>1, <2>2, <2>3 DEF SameTurns
<1>3. ASSUME SameTurns, streak < limit
      PROVE  FALSE
  <2>1. n > limit /\ \A i \in n - limit .. n : turns[i].text = turns[n].text
    BY <1>3 DEF SameTurns
  <2>2. n > 0 /\ n - streak > 1 /\ n - streak - 1 \in n - limit .. n
    BY <1>1, <1>3, <2>1
  <2>3. turns[n].text = lastTurn /\ turns[n - streak - 1].text # lastTurn
    BY <1>1, <2>2, n \in n - streak .. n DEF StreakInv
  <2> QED
    BY <2>1, <2>2, <2>3
<1> QED
  BY <1>1, <1>2, <1>3

-----------------------------------------------------------------------------
(* Builds: the counter is the length of the longest end of the history in  *)
(* which all builds failed with the last signature.  (From here on the     *)
(* operators on the history are given it as an argument, T before a turn   *)
(* and U after it.)                                                        *)

Extends(T, U, entry) ==
  /\ Len(T) \in Nat /\ Len(U) = Len(T) + 1
  /\ \A i \in 1 .. Len(T) : U[i] = T[i]
  /\ U[Len(T) + 1] = entry

BuildsIn(T, h) == {j \in h .. Len(T) : Ended(T[j].text)}
Signature(entry) == [error |-> entry.text.outcome, changed |-> Changed(entry.files)]
FailedAs(entry, last) == entry.text.outcome \in Errors /\ Signature(entry) = last
AllFailedAs(T, h, last) == \A j \in BuildsIn(T, h) : FailedAs(T[j], last)

CountsBuilds(T, last, count) ==
  /\ last \in [error : Errors, changed : SUBSET Paths] \cup {None}
  /\ count \in Nat /\ Len(T) \in Nat
  /\ last = None => count = 0
  /\ \A h \in 1 .. Len(T) :
       AllFailedAs(T, h, last) => Cardinality(BuildsIn(T, h)) <= count
  /\ last # None =>
       \E i \in 1 .. Len(T) :
         /\ AllFailedAs(T, i, last) /\ BuildsIn(T, i) # {}
         /\ Cardinality(BuildsIn(T, i)) = count
  /\ last = None =>
       \A h \in 1 .. Len(T) :
         BuildsIn(T, h) # {} =>
           \E j \in BuildsIn(T, h) : T[j].text.outcome \notin Errors

BuildInv == CountsBuilds(turns, lastBuildFailure, buildFailures)

\* What a turn adds to the builds of the history.
LEMMA BuildsGrow ==
  ASSUME NEW T, NEW U, NEW entry, Extends(T, U, entry)
  PROVE  /\ \A h \in 1 .. Len(T) :
              BuildsIn(U, h) =
                BuildsIn(T, h) \cup (IF Ended(entry.text) THEN {Len(T) + 1} ELSE {})
         /\ BuildsIn(U, Len(T) + 1) = (IF Ended(entry.text) THEN {Len(T) + 1} ELSE {})
         /\ \A h \in 1 .. Len(T) + 1 : h \in 1 .. Len(T) \/ h = Len(T) + 1
         /\ \A h \in 1 .. Len(T) : \A j \in BuildsIn(T, h) : U[j] = T[j]
<1> DEFINE n == Len(T)
<1>1. /\ n \in Nat /\ Len(U) = n + 1 /\ U[n + 1] = entry
      /\ \A i \in 1 .. n : U[i] = T[i]
  BY DEF Extends
<1> HIDE DEF n
<1>2. ASSUME NEW h \in 1 .. n + 1
      PROVE  BuildsIn(U, h) = {j \in h .. n : Ended(T[j].text)}
                                \cup (IF Ended(entry.text) THEN {n + 1} ELSE {})
  <2>1. \A j \in h .. n : U[j] = T[j]
    BY <1>1
  <2>2. \A j : j \in h .. n + 1 <=> j \in h .. n \/ j = n + 1
    BY <1>1
  <2>3. BuildsIn(U, h) = {j \in h .. n + 1 : Ended(U[j].text)}
    BY <1>1 DEF BuildsIn
  <2>4. \A j \in h .. n : Ended(U[j].text) <=> Ended(T[j].text)
    BY <2>1
  <2>5. Ended(U[n + 1].text) <=> Ended(entry.text)
    BY <1>1
  <2>6. CASE Ended(entry.text)
    BY <2>2, <2>3, <2>4, <2>5, <2>6
  <2>7. CASE ~Ended(entry.text)
    BY <2>2, <2>3, <2>4, <2>5, <2>7
  <2> QED
    BY <2>6, <2>7
<1>3. n + 1 \in 1 .. n + 1 /\ n + 1 .. n = {}
  BY <1>1
<1>4. \A h \in 1 .. n + 1 : h \in 1 .. n \/ h = n + 1
  BY <1>1
<1>5. \A h \in 1 .. n : h \in 1 .. n + 1
  BY <1>1
<1>6. \A h \in 1 .. n : BuildsIn(T, h) = {j \in h .. n : Ended(T[j].text)}
  BY DEF BuildsIn, n
<1>7. \A h \in 1 .. n : \A j \in BuildsIn(T, h) : U[j] = T[j]
  BY <1>1, <1>6
<1>8. BuildsIn(U, n + 1) = (IF Ended(entry.text) THEN {n + 1} ELSE {})
  <2>1. {j \in n + 1 .. n : Ended(T[j].text)} = {}
    BY <1>3
  <2> QED
    BY <1>2, <1>3, <2>1
<1> QED
  BY <1>2, <1>4, <1>5, <1>6, <1>7, <1>8 DEF n

\* The builds of an end of the history are a finite set.
LEMMA BuildsFinite ==
  ASSUME NEW T, Len(T) \in Nat, NEW h \in Nat
  PROVE  /\ IsFiniteSet(BuildsIn(T, h)) /\ Cardinality(BuildsIn(T, h)) \in Nat
         /\ Cardinality(BuildsIn(T, h)) = 0 <=> BuildsIn(T, h) = {}
         /\ Len(T) + 1 \notin BuildsIn(T, h)
<1>1. BuildsIn(T, h) \in SUBSET (h .. Len(T)) /\ IsFiniteSet(h .. Len(T))
  BY FS_Interval DEF BuildsIn
<1>2. IsFiniteSet(BuildsIn(T, h))
  BY <1>1, FS_Subset
<1>3. Len(T) + 1 \notin h .. Len(T)
  OBVIOUS
<1> QED
  BY <1>1, <1>2, <1>3, FS_CardinalityType, FS_EmptySet

\* Of two ends of the history one contains the builds of the other.
LEMMA BuildsNested ==
  ASSUME NEW T, Len(T) \in Nat, NEW h \in Nat, NEW i \in Nat
  PROVE  BuildsIn(T, h) \subseteq BuildsIn(T, i) \/ BuildsIn(T, i) \subseteq BuildsIn(T, h)
BY DEF BuildsIn

\* A turn that ends no build leaves the count as it is.
LEMMA OtherTurnKeepsCount ==
  ASSUME NEW T, NEW U, NEW entry, NEW last, NEW count, Extends(T, U, entry),
         CountsBuilds(T, last, count), ~Ended(entry.text)
  PROVE  CountsBuilds(U, last, count)
<1> DEFINE n == Len(T)
<1>1. n \in Nat /\ Len(U) = n + 1 /\ count \in Nat
  BY DEF Extends, CountsBuilds
<1>2. /\ \A h \in 1 .. n : BuildsIn(U, h) = BuildsIn(T, h)
      /\ BuildsIn(U, n + 1) = {}
      /\ \A h \in 1 .. n + 1 : h \in 1 .. n \/ h = n + 1
      /\ \A h \in 1 .. n : \A j \in BuildsIn(T, h) : U[j] = T[j]
  <2>1. /\ \A h \in 1 .. n : BuildsIn(U, h) = BuildsIn(T, h) \cup {}
        /\ BuildsIn(U, n + 1) = {}
        /\ \A h \in 1 .. n + 1 : h \in 1 .. n \/ h = n + 1
        /\ \A h \in 1 .. n : \A j \in BuildsIn(T, h) : U[j] = T[j]
    BY ONLY BuildsGrow, Extends(T, U, entry), ~Ended(entry.text), ZenonT(40)
  <2> QED
    BY <2>1
<1>3. \A h \in 1 .. n : AllFailedAs(U, h, last) <=> AllFailedAs(T, h, last)
  BY <1>2 DEF AllFailedAs
<1> HIDE DEF n
<1>4. \A h \in 1 .. n + 1 :
        AllFailedAs(U, h, last) => Cardinality(BuildsIn(U, h)) <= count
  <2>1. \A h \in 1 .. n : AllFailedAs(T, h, last) => Cardinality(BuildsIn(T, h)) <= count
    BY DEF CountsBuilds, n
  <2>2. Cardinality({}) = 0 /\ 0 <= count
    BY <1>1, FS_EmptySet
  <2> QED
    BY <1>2, <1>3, <2>1, <2>2
<1>5. last # None =>
        \E i \in 1 .. n + 1 : /\ AllFailedAs(U, i, last) /\ BuildsIn(U, i) # {}
                             /\ Cardinality(BuildsIn(U, i)) = count
  <2> SUFFICES ASSUME last # None
               PROVE  \E i \in 1 .. n + 1 :
                        /\ AllFailedAs(U, i, last) /\ BuildsIn(U, i) # {}
                        /\ Cardinality(BuildsIn(U, i)) = count
    OBVIOUS
  <2>1. PICK i \in 1 .. n : /\ AllFailedAs(T, i, last) /\ BuildsIn(T, i) # {}
                            /\ Cardinality(BuildsIn(T, i)) = count
    BY DEF CountsBuilds, n
  <2>2. i \in 1 .. n + 1
    BY <1>1
  <2> QED
    BY <1>2, <1>3, <2>1, <2>2
<1>6. last = None =>
        \A h \in 1 .. n + 1 :
          BuildsIn(U, h) # {} =>
            \E j \in BuildsIn(U, h) : U[j].text.outcome \notin Errors
  BY <1>2 DEF CountsBuilds, n
<1> QED
  BY <1>1, <1>4, <1>5, <1>6 DEF CountsBuilds

\* A build that succeeds ends it.
LEMMA SuccessEndsCount ==
  ASSUME NEW T, NEW U, NEW entry, Extends(T, U, entry),
         Ended(entry.text), entry.text.outcome \notin Errors
  PROVE  CountsBuilds(U, None, 0)
<1> DEFINE n == Len(T)
<1>1. n \in Nat /\ Len(U) = n + 1 /\ U[n + 1] = entry
  BY DEF Extends
<1>2. \A h \in 1 .. n + 1 : n + 1 \in BuildsIn(U, h)
  <2>1. /\ \A h \in 1 .. n : BuildsIn(U, h) = BuildsIn(T, h) \cup {n + 1}
        /\ BuildsIn(U, n + 1) = {n + 1}
        /\ \A h \in 1 .. n + 1 : h \in 1 .. n \/ h = n + 1
    BY ONLY BuildsGrow, Extends(T, U, entry), Ended(entry.text)
  <2> QED
    BY <2>1
<1> HIDE DEF n
<1>3. \A h \in 1 .. n + 1 : ~AllFailedAs(U, h, None)
  BY <1>1, <1>2 DEF AllFailedAs, FailedAs
<1> QED
  BY <1>1, <1>2, <1>3 DEF CountsBuilds

\* A build that fails counts, from one again if it failed otherwise.
LEMMA FailureCounts ==
  ASSUME NEW T, NEW U, NEW entry, NEW last, NEW count, Extends(T, U, entry),
         CountsBuilds(T, last, count), Ended(entry.text),
         entry.text.outcome \in Errors
  PROVE  CountsBuilds(U, Signature(entry),
                      IF last = Signature(entry) THEN count + 1 ELSE 1)
<1> DEFINE n == Len(T)
<1> DEFINE now == Signature(entry)
<1>1. n \in Nat /\ Len(U) = n + 1 /\ U[n + 1] = entry /\ count \in Nat
  BY DEF Extends, CountsBuilds
<1>2. now \in [error : Errors, changed : SUBSET Paths] /\ now # None
  BY DistinctConstants DEF Signature, Changed
<1>3. /\ \A h \in 1 .. n : BuildsIn(U, h) = BuildsIn(T, h) \cup {n + 1}
      /\ BuildsIn(U, n + 1) = {n + 1}
      /\ \A h \in 1 .. n + 1 : h \in 1 .. n \/ h = n + 1
      /\ \A h \in 1 .. n : \A j \in BuildsIn(T, h) : U[j] = T[j]
  BY BuildsGrow
<1>4. \A h \in 1 .. n :
        /\ Cardinality(BuildsIn(U, h)) = Cardinality(BuildsIn(T, h)) + 1
        /\ Cardinality(BuildsIn(T, h)) \in Nat
        /\ Cardinality(BuildsIn(T, h)) = 0 <=> BuildsIn(T, h) = {}
  <2> SUFFICES ASSUME NEW h \in 1 .. n
               PROVE  /\ Cardinality(BuildsIn(U, h)) = Cardinality(BuildsIn(T, h)) + 1
                      /\ Cardinality(BuildsIn(T, h)) \in Nat
                      /\ Cardinality(BuildsIn(T, h)) = 0 <=> BuildsIn(T, h) = {}
    OBVIOUS
  <2>1. h \in Nat
    BY <1>1
  <2>2. /\ IsFiniteSet(BuildsIn(T, h)) /\ Cardinality(BuildsIn(T, h)) \in Nat
        /\ Cardinality(BuildsIn(T, h)) = 0 <=> BuildsIn(T, h) = {}
        /\ n + 1 \notin BuildsIn(T, h)
    BY <1>1, <2>1, BuildsFinite
  <2> QED
    BY <1>3, <2>2, FS_AddElement
<1>5. FailedAs(entry, now)
  BY DEF FailedAs
<1> HIDE DEF n, now
<1>6. \A h \in 1 .. n : AllFailedAs(U, h, now) <=> AllFailedAs(T, h, now)
  <2> SUFFICES ASSUME NEW h \in 1 .. n
               PROVE  AllFailedAs(U, h, now) <=> AllFailedAs(T, h, now)
    OBVIOUS
  <2>1. BuildsIn(U, h) = BuildsIn(T, h) \cup {n + 1}
    BY <1>3
  <2>2. \A j \in BuildsIn(T, h) : FailedAs(U[j], now) <=> FailedAs(T[j], now)
    BY <1>3
  <2>3. FailedAs(U[n + 1], now)
    BY <1>1, <1>5
  <2> QED
    BY <2>1, <2>2, <2>3 DEF AllFailedAs
<1>7. /\ AllFailedAs(U, n + 1, now) /\ BuildsIn(U, n + 1) # {}
      /\ Cardinality(BuildsIn(U, n + 1)) = 1 /\ n + 1 \in 1 .. n + 1
  <2>1. BuildsIn(U, n + 1) = {n + 1} /\ n + 1 \in 1 .. n + 1
    BY <1>1, <1>3
  <2>2. AllFailedAs(U, n + 1, now)
    BY <1>1, <1>5, <2>1 DEF AllFailedAs
  <2> QED
    BY <2>1, <2>2, FS_Singleton
<1>8. CASE last = now
  <2>1. ASSUME NEW h \in 1 .. n + 1, AllFailedAs(U, h, now)
        PROVE  Cardinality(BuildsIn(U, h)) <= count + 1
    <3>1. CASE h = n + 1
      BY <1>1, <1>7, <3>1
    <3>2. CASE h \in 1 .. n
      <4>1. Cardinality(BuildsIn(T, h)) <= count
        BY <1>6, <1>8, <2>1, <3>2 DEF CountsBuilds, n
      <4> QED
        BY <1>1, <1>4, <3>2, <4>1
    <3> QED
      BY <1>3, <3>1, <3>2
  <2>2. PICK i \in 1 .. n : /\ AllFailedAs(T, i, now) /\ BuildsIn(T, i) # {}
                            /\ Cardinality(BuildsIn(T, i)) = count
    BY <1>2, <1>8 DEF CountsBuilds, n
  <2>3. /\ i \in 1 .. n + 1 /\ AllFailedAs(U, i, now) /\ BuildsIn(U, i) # {}
        /\ Cardinality(BuildsIn(U, i)) = count + 1
    BY <1>1, <1>3, <1>4, <1>6, <2>2
  <2>4. CountsBuilds(U, now, count + 1)
    BY <1>1, <1>2, <2>1, <2>3 DEF CountsBuilds
  <2> QED
    BY <1>8, <2>4 DEF now
<1>9. CASE last # now
  <2>1. ASSUME NEW h \in 1 .. n, AllFailedAs(T, h, now)
        PROVE  BuildsIn(T, h) = {}
    <3>1. CASE last = None
      BY <2>1, <3>1 DEF CountsBuilds, n, AllFailedAs, FailedAs
    <3>2. CASE last # None
      <4>1. PICK i \in 1 .. n : AllFailedAs(T, i, last) /\ BuildsIn(T, i) # {}
        BY <3>2 DEF CountsBuilds, n
      <4>2. BuildsIn(T, h) \subseteq BuildsIn(T, i) \/ BuildsIn(T, i) \subseteq BuildsIn(T, h)
        BY <1>1, BuildsNested DEF n
      <4> QED
        BY <1>9, <2>1, <4>1, <4>2 DEF AllFailedAs, FailedAs
    <3> QED
      BY <3>1, <3>2
  <2>2. ASSUME NEW h \in 1 .. n + 1, AllFailedAs(U, h, now)
        PROVE  Cardinality(BuildsIn(U, h)) <= 1
    <3>1. CASE h = n + 1
      BY <1>7, <3>1
    <3>2. CASE h \in 1 .. n
      BY <1>4, <1>6, <2>1, <2>2, <3>2
    <3> QED
      BY <1>3, <3>1, <3>2
  <2>3. CountsBuilds(U, now, 1)
    BY <1>1, <1>2, <1>7, <2>2 DEF CountsBuilds
  <2> QED
    BY <1>9, <2>3 DEF now
<1> QED
  BY <1>8, <1>9

\* A turn keeps the count of failed builds exact.
LEMMA BuildKept ==
  ASSUME BuildInv, NEW text, Grows(text), Builds(text)
  PROVE  BuildInv'
<1> DEFINE entry == [text |-> text, verification |-> verification', files |-> files']
<1>1. Extends(turns, turns', entry) /\ entry.text = text /\ entry.files = files'
  BY DEF Grows, Extends
<1>2. CountsBuilds(turns, lastBuildFailure, buildFailures)
  BY DEF BuildInv
<1> HIDE DEF entry
<1>3. CASE ~Ended(text) /\ UNCHANGED building
  BY <1>1, <1>2, <1>3, OtherTurnKeepsCount DEF BuildInv, building
<1>4. CASE /\ Ended(text) /\ text.outcome = "done"
           /\ buildFailures' = 0 /\ lastBuildFailure' = None
  BY <1>1, <1>4, SuccessEndsCount, DistinctConstants DEF BuildInv
<1>5. CASE /\ Ended(text) /\ text.outcome \in Errors /\ UNCHANGED files
           /\ buildFailures' = FailuresAfter(text.outcome)
           /\ lastBuildFailure' = [error |-> text.outcome, changed |-> Changed(files)]
  <2>1. Signature(entry) = lastBuildFailure'
    BY <1>1, <1>5 DEF Signature
  <2>2. buildFailures' =
          IF lastBuildFailure = Signature(entry) THEN buildFailures + 1 ELSE 1
    BY <1>5, <2>1 DEF FailuresAfter
  <2>3. CountsBuilds(turns', Signature(entry),
          IF lastBuildFailure = Signature(entry) THEN buildFailures + 1 ELSE 1)
    BY <1>1, <1>2, <1>5, FailureCounts
  <2> QED
    BY <2>1, <2>2, <2>3 DEF BuildInv
<1> QED
  BY <1>3, <1>4, <1>5 DEF Builds

\* The count reaches its limit when that many builds failed alike.
LEMMA BuildMeaning ==
  ASSUME TypeInv, BuildInv
  PROVE  SameFailures <=> buildFailures >= MAX_IDENTICAL_BUILD_FAILURES
<1> DEFINE limit == MAX_IDENTICAL_BUILD_FAILURES
<1> DEFINE last == lastBuildFailure
<1>1. limit \in Nat \ {0} /\ buildFailures \in Nat /\ Len(turns) \in Nat
  BY ConvergenceConstants DEF TypeInv, TypeOK
<1>2. CountsBuilds(turns, last, buildFailures)
  BY DEF BuildInv
<1>3. \A h : BuildsFrom(h) = BuildsIn(turns, h)
  BY DEF BuildsFrom, BuildsIn, Ended, Kind, Outcome
<1>4. SameFailures <=>
        \E i \in 1 .. Len(turns) :
          /\ Cardinality(BuildsIn(turns, i)) >= limit
          /\ \A j, k \in BuildsIn(turns, i) :
               /\ turns[j].text.outcome \in Errors
               /\ turns[j].text.outcome = turns[k].text.outcome
               /\ Changed(turns[j].files) = Changed(turns[k].files)
  BY <1>3 DEF SameFailures, Outcome
<1> HIDE DEF limit, last
<1>5. ASSUME buildFailures >= limit
      PROVE  SameFailures
  <2>1. last # None
    BY <1>1, <1>2, <1>5 DEF CountsBuilds
  <2>2. PICK i \in 1 .. Len(turns) :
          /\ AllFailedAs(turns, i, last)
          /\ Cardinality(BuildsIn(turns, i)) = buildFailures
    BY <1>2, <2>1 DEF CountsBuilds
  <2>3. \A j \in BuildsIn(turns, i) :
          /\ turns[j].text.outcome \in Errors
          /\ turns[j].text.outcome = last.error
          /\ Changed(turns[j].files) = last.changed
    BY <2>2 DEF AllFailedAs, FailedAs, Signature
  <2> QED
    BY <1>4, <1>5, <2>2, <2>3
<1>6. ASSUME SameFailures
      PROVE  buildFailures >= limit
  <2>1. PICK i \in 1 .. Len(turns) :
          /\ Cardinality(BuildsIn(turns, i)) >= limit
          /\ \A j, k \in BuildsIn(turns, i) :
               /\ turns[j].text.outcome \in Errors
               /\ turns[j].text.outcome = turns[k].text.outcome
               /\ Changed(turns[j].files) = Changed(turns[k].files)
    BY <1>4, <1>6
  <2>2. \A j, k \in BuildsIn(turns, i) : Signature(turns[j]) = Signature(turns[k])
    <3> SUFFICES ASSUME NEW j \in BuildsIn(turns, i), NEW k \in BuildsIn(turns, i)
                 PROVE  Signature(turns[j]) = Signature(turns[k])
      OBVIOUS
    <3>1. /\ turns[j].text.outcome = turns[k].text.outcome
          /\ Changed(turns[j].files) = Changed(turns[k].files)
      BY <2>1
    <3> QED
      BY <3>1 DEF Signature
  <2>3. Cardinality(BuildsIn(turns, i)) \in Nat /\ BuildsIn(turns, i) # {}
    <3>1. i \in Nat
      BY <1>1
    <3>2. /\ Cardinality(BuildsIn(turns, i)) \in Nat
          /\ Cardinality(BuildsIn(turns, i)) = 0 <=> BuildsIn(turns, i) = {}
      BY <1>1, <3>1, BuildsFinite
    <3>3. Cardinality(BuildsIn(turns, i)) # 0
      BY <1>1, <2>1, <3>2
    <3> QED
      BY <3>2, <3>3
  <2>4. last # None
    BY <1>2, <2>1, <2>3 DEF CountsBuilds
  <2>5. PICK h \in 1 .. Len(turns) :
          AllFailedAs(turns, h, last) /\ BuildsIn(turns, h) # {}
    BY <1>2, <2>4 DEF CountsBuilds
  <2>6. \/ BuildsIn(turns, h) \subseteq BuildsIn(turns, i)
        \/ BuildsIn(turns, i) \subseteq BuildsIn(turns, h)
    BY <1>1, BuildsNested
  <2>7. PICK c \in BuildsIn(turns, i) : Signature(turns[c]) = last
    BY <2>3, <2>5, <2>6 DEF AllFailedAs, FailedAs
  <2>8. AllFailedAs(turns, i, last)
    BY <2>1, <2>2, <2>7 DEF AllFailedAs, FailedAs
  <2>9. Cardinality(BuildsIn(turns, i)) <= buildFailures
    BY <1>2, <2>8 DEF CountsBuilds
  <2> QED
    BY <1>1, <2>1, <2>3, <2>9
<1> QED
  BY <1>5, <1>6 DEF limit
-----------------------------------------------------------------------------
(* Fixes tested in vain: the counter is the number of tests that a fix     *)
(* waited for since the verification last changed.                         *)

IsFix(text) == text.kind \in {"edit", "build"}
IsVerdict(text) == Testing(text) \/ text.kind = "flash"

\* Before turn i there is a fix that no test has looked at.
FixWaits(T, i) ==
  \E j \in 1 .. i - 1 :
    IsFix(T[j].text) /\ \A k \in j + 1 .. i - 1 : ~Testing(T[k].text)
TestOf(T, i) == Testing(T[i].text) /\ FixWaits(T, i)
TestsIn(T, i) == {j \in i + 1 .. Len(T) : TestOf(T, j)}
ChangeAt(T, i) ==
  /\ IsVerdict(T[i].text)
  /\ \/ \A j \in 1 .. i - 1 : ~IsVerdict(T[j].text)
     \/ T[i].verification # (IF i = 1 THEN None ELSE T[i - 1].verification)

CountsTests(T, now, last, waits, count) ==
  /\ count \in Nat /\ Len(T) \in Nat /\ waits \in BOOLEAN
  /\ waits <=> FixWaits(T, Len(T) + 1)
  /\ Len(T) > 0 => T[Len(T)].verification = now
  /\ last = None => count = 0 /\ \A j \in 1 .. Len(T) : ~IsVerdict(T[j].text)
  /\ last # None =>
       /\ last = now /\ Len(T) > 0
       /\ \E i \in 1 .. Len(T) :
            /\ ChangeAt(T, i) /\ \A j \in i + 1 .. Len(T) : ~ChangeAt(T, j)
            /\ Cardinality(TestsIn(T, i)) = count

StagInv == CountsTests(turns, verification, lastVerification, pending, stagnant)

\* A turn changes nothing about the turns before it.
LEMMA PastStays ==
  ASSUME NEW T, NEW U, NEW entry, Extends(T, U, entry)
  PROVE  /\ \A i \in 1 .. Len(T) + 1 : FixWaits(U, i) <=> FixWaits(T, i)
         /\ \A i \in 1 .. Len(T) : TestOf(U, i) <=> TestOf(T, i)
         /\ \A i \in 1 .. Len(T) : ChangeAt(U, i) <=> ChangeAt(T, i)
<1> DEFINE n == Len(T)
<1>1. n \in Nat /\ \A i \in 1 .. n : U[i] = T[i]
  BY DEF Extends
<1> HIDE DEF n
<1>2. ASSUME NEW i \in 1 .. n + 1
      PROVE  FixWaits(U, i) <=> FixWaits(T, i)
  <2>1. \A j \in 1 .. i - 1 : U[j] = T[j] /\ \A k \in j + 1 .. i - 1 : U[k] = T[k]
    BY <1>1
  <2> QED
    BY <2>1 DEF FixWaits
<1>3. ASSUME NEW i \in 1 .. n
      PROVE  ChangeAt(U, i) <=> ChangeAt(T, i)
  <2>1. U[i] = T[i] /\ (\A j \in 1 .. i - 1 : U[j] = T[j])
    BY <1>1
  <2>2. i # 1 => U[i - 1] = T[i - 1]
    BY <1>1
  <2> QED
    BY <2>1, <2>2 DEF ChangeAt
<1>4. ASSUME NEW i \in 1 .. n
      PROVE  TestOf(U, i) <=> TestOf(T, i)
  <2>1. U[i] = T[i] /\ i \in 1 .. n + 1
    BY <1>1
  <2> QED
    BY <1>2, <2>1 DEF TestOf
<1> QED
  BY <1>2, <1>3, <1>4 DEF n

\* What a turn adds: a fix that waits, and a test of one that waited.
LEMMA TestsGrow ==
  ASSUME NEW T, NEW U, NEW entry, Extends(T, U, entry)
  PROVE  /\ FixWaits(U, Len(T) + 2) <=>
              \/ IsFix(entry.text)
              \/ FixWaits(T, Len(T) + 1) /\ ~Testing(entry.text)
         /\ Testing(entry.text) /\ FixWaits(T, Len(T) + 1) =>
              \A i \in 1 .. Len(T) : TestsIn(U, i) = TestsIn(T, i) \cup {Len(T) + 1}
         /\ ~(Testing(entry.text) /\ FixWaits(T, Len(T) + 1)) =>
              \A i \in 1 .. Len(T) : TestsIn(U, i) = TestsIn(T, i)
         /\ TestsIn(U, Len(T) + 1) = {}
<1> DEFINE n == Len(T)
<1>1. /\ n \in Nat /\ Len(U) = n + 1 /\ U[n + 1] = entry
      /\ \A i \in 1 .. n : U[i] = T[i]
  BY DEF Extends
<1>2. /\ \A i \in 1 .. n : TestOf(U, i) <=> TestOf(T, i)
      /\ TestOf(U, n + 1) <=> Testing(entry.text) /\ FixWaits(T, n + 1)
  <2>1. n + 1 \in 1 .. n + 1
    BY <1>1
  <2>2. FixWaits(U, n + 1) <=> FixWaits(T, n + 1)
    BY <2>1, PastStays
  <2> QED
    BY <1>1, <2>2, PastStays DEF TestOf
<1>3. \A i \in 1 .. n : TestsIn(T, i) = {j \in i + 1 .. n : TestOf(T, j)}
  BY DEF TestsIn
<1> HIDE DEF n
<1>4. ASSUME NEW i \in 1 .. n
      PROVE  /\ \A j : j \in TestsIn(U, i) <=>
                         \/ j \in TestsIn(T, i)
                         \/ j = n + 1 /\ Testing(entry.text) /\ FixWaits(T, n + 1)
  <2>1. \A j : j \in i + 1 .. n + 1 <=> j \in i + 1 .. n \/ j = n + 1
    BY <1>1
  <2>2. \A j \in i + 1 .. n : TestOf(U, j) <=> TestOf(T, j)
    BY <1>1, <1>2
  <2>3. TestsIn(U, i) = {j \in i + 1 .. n + 1 : TestOf(U, j)}
    BY <1>1 DEF TestsIn
  <2> QED
    BY <1>2, <1>3, <2>1, <2>2, <2>3
<1>5. FixWaits(U, n + 2) <=>
       \/ IsFix(entry.text)
       \/ FixWaits(T, n + 1) /\ ~Testing(entry.text)
  <2>1. FixWaits(U, n + 2) <=>
          \E j \in 1 .. n + 1 :
            IsFix(U[j].text) /\ \A k \in j + 1 .. n + 1 : ~Testing(U[k].text)
    BY <1>1, (n + 2) - 1 = n + 1 DEF FixWaits
  <2>2. FixWaits(T, n + 1) <=>
          \E j \in 1 .. n :
            IsFix(T[j].text) /\ \A k \in j + 1 .. n : ~Testing(T[k].text)
    BY <1>1, (n + 1) - 1 = n DEF FixWaits
  <2>3. ASSUME IsFix(entry.text)
        PROVE  FixWaits(U, n + 2)
    <3>1. n + 1 \in 1 .. n + 1 /\ (n + 1) + 1 .. n + 1 = {}
      BY <1>1
    <3> QED
      BY <1>1, <2>1, <2>3, <3>1
  <2>4. ASSUME FixWaits(T, n + 1), ~Testing(entry.text)
        PROVE  FixWaits(U, n + 2)
    <3>1. PICK j \in 1 .. n :
            IsFix(T[j].text) /\ \A k \in j + 1 .. n : ~Testing(T[k].text)
      BY <2>2, <2>4
    <3>2. j \in 1 .. n + 1 /\ \A k \in j + 1 .. n + 1 : (k \in 1 .. n /\ k \in j + 1 .. n) \/ k = n + 1
      BY <1>1
    <3>3. IsFix(U[j].text) /\ \A k \in j + 1 .. n + 1 : ~Testing(U[k].text)
      BY <1>1, <2>4, <3>1, <3>2
    <3> QED
      BY <2>1, <3>2, <3>3
  <2>5. ASSUME FixWaits(U, n + 2), ~IsFix(entry.text)
        PROVE  FixWaits(T, n + 1) /\ ~Testing(entry.text)
    <3>1. PICK j \in 1 .. n + 1 :
            IsFix(U[j].text) /\ \A k \in j + 1 .. n + 1 : ~Testing(U[k].text)
      BY <2>1, <2>5
    <3>2. j \in 1 .. n
      BY <1>1, <2>5, <3>1
    <3>3. n + 1 \in j + 1 .. n + 1
          /\ \A k \in j + 1 .. n : k \in j + 1 .. n + 1 /\ k \in 1 .. n
      BY <1>1, <3>2
    <3>4. IsFix(T[j].text) /\ \A k \in j + 1 .. n : ~Testing(T[k].text)
      BY <1>1, <3>1, <3>2, <3>3
    <3> QED
      BY <1>1, <2>2, <3>1, <3>2, <3>3, <3>4
  <2> QED
    BY <2>3, <2>4, <2>5
<1>6. TestsIn(U, n + 1) = {}
  BY <1>1, (n + 1) + 1 .. n + 1 = {} DEF TestsIn
<1>7. ASSUME Testing(entry.text), FixWaits(T, n + 1)
      PROVE  \A i \in 1 .. n : TestsIn(U, i) = TestsIn(T, i) \cup {n + 1}
  BY <1>4, <1>7
<1>8. ASSUME ~(Testing(entry.text) /\ FixWaits(T, n + 1))
      PROVE  \A i \in 1 .. n : TestsIn(U, i) = TestsIn(T, i)
  BY <1>4, <1>8
<1> QED
  BY <1>5, <1>6, <1>7, <1>8 DEF n

\* The tests of an end of the history are a finite set.
LEMMA TestsFinite ==
  ASSUME NEW T, Len(T) \in Nat, NEW i \in Nat
  PROVE  /\ IsFiniteSet(TestsIn(T, i)) /\ Cardinality(TestsIn(T, i)) \in Nat
         /\ Len(T) + 1 \notin TestsIn(T, i)
<1>1. TestsIn(T, i) \in SUBSET (i + 1 .. Len(T)) /\ IsFiniteSet(i + 1 .. Len(T))
  BY FS_Interval DEF TestsIn
<1>2. IsFiniteSet(TestsIn(T, i))
  BY <1>1, FS_Subset
<1>3. Len(T) + 1 \notin i + 1 .. Len(T)
  OBVIOUS
<1> QED
  BY <1>1, <1>2, <1>3, FS_CardinalityType

\* A turn that verifies nothing leaves the count as it is.
LEMMA QuietTurnKeepsCount ==
  ASSUME NEW T, NEW U, NEW entry, NEW now, NEW last, NEW waits, NEW count,
         Extends(T, U, entry), CountsTests(T, now, last, waits, count),
         ~IsVerdict(entry.text), entry.verification = now
  PROVE  CountsTests(U, now, last, waits \/ IsFix(entry.text), count)
<1> DEFINE n == Len(T)
<1>1. /\ n \in Nat /\ Len(U) = n + 1 /\ U[n + 1] = entry /\ count \in Nat
      /\ \A i \in 1 .. n : U[i] = T[i]
  BY DEF Extends, CountsTests
<1>2. ~Testing(entry.text)
  BY DEF IsVerdict
<1>3. (waits \/ IsFix(entry.text)) <=> FixWaits(U, n + 2)
  BY ONLY <1>2, TestsGrow, Extends(T, U, entry), CountsTests(T, now, last, waits, count)
  DEF CountsTests
<1>4. /\ \A i \in 1 .. n : TestsIn(U, i) = TestsIn(T, i)
      /\ \A i \in 1 .. n : ChangeAt(U, i) <=> ChangeAt(T, i)
  BY ONLY <1>2, TestsGrow, PastStays, Extends(T, U, entry)
<1>5. ~ChangeAt(U, n + 1)
  BY <1>1 DEF ChangeAt
<1> HIDE DEF n
<1>6. ASSUME last # None
      PROVE  /\ last = now
             /\ \E i \in 1 .. n + 1 :
                  /\ ChangeAt(U, i) /\ \A j \in i + 1 .. n + 1 : ~ChangeAt(U, j)
                  /\ Cardinality(TestsIn(U, i)) = count
  <2>1. last = now
    BY <1>6 DEF CountsTests
  <2>2. PICK i \in 1 .. n :
          /\ ChangeAt(T, i) /\ \A j \in i + 1 .. n : ~ChangeAt(T, j)
          /\ Cardinality(TestsIn(T, i)) = count
    BY <1>6 DEF CountsTests, n
  <2>3. i \in 1 .. n + 1 /\ \A j \in i + 1 .. n + 1 : (j \in 1 .. n /\ j \in i + 1 .. n) \/ j = n + 1
    BY <1>1
  <2> QED
    BY <1>4, <1>5, <2>1, <2>2, <2>3
<1>7. ASSUME last = None
      PROVE  count = 0 /\ \A j \in 1 .. n + 1 : ~IsVerdict(U[j].text)
  <2>1. count = 0 /\ \A j \in 1 .. n : ~IsVerdict(T[j].text)
    BY <1>7 DEF CountsTests, n
  <2>2. \A j \in 1 .. n + 1 : j \in 1 .. n \/ j = n + 1
    BY <1>1
  <2> QED
    BY <1>1, <2>1, <2>2
<1>8. (n + 1) + 1 = n + 2 /\ n + 1 > 0 /\ n + 1 \in Nat
  BY <1>1
<1> QED
  BY <1>1, <1>3, <1>6, <1>7, <1>8 DEF CountsTests

\* A test that finds nothing new counts if a fix waited for it.
LEMMA SameVerdictCounts ==
  ASSUME NEW T, NEW U, NEW entry, NEW now, NEW last, NEW waits, NEW count,
         Extends(T, U, entry), CountsTests(T, now, last, waits, count),
         IsVerdict(entry.text), entry.verification = last, last # None
  PROVE  CountsTests(U, last, last, waits /\ ~Testing(entry.text),
                     IF Testing(entry.text) /\ waits THEN count + 1 ELSE count)
<1> DEFINE n == Len(T)
<1> DEFINE after == IF Testing(entry.text) /\ waits THEN count + 1 ELSE count
<1>1. /\ n \in Nat /\ n > 0 /\ Len(U) = n + 1 /\ U[n + 1] = entry /\ count \in Nat
      /\ \A i \in 1 .. n : U[i] = T[i]
  BY DEF Extends, CountsTests
<1>2. ~IsFix(entry.text)
  BY DEF IsVerdict, Testing, IsFix
<1>3. (waits /\ ~Testing(entry.text)) <=> FixWaits(U, n + 2)
  BY ONLY <1>2, TestsGrow, Extends(T, U, entry), CountsTests(T, now, last, waits, count)
  DEF CountsTests
<1>4. \A i \in 1 .. n : ChangeAt(U, i) <=> ChangeAt(T, i)
  BY ONLY PastStays, Extends(T, U, entry)
<1>5. \A i \in 1 .. n : Cardinality(TestsIn(T, i)) = count => Cardinality(TestsIn(U, i)) = after
  <2> SUFFICES ASSUME NEW i \in 1 .. n, Cardinality(TestsIn(T, i)) = count
               PROVE  Cardinality(TestsIn(U, i)) = after
    OBVIOUS
  <2>1. IsFiniteSet(TestsIn(T, i)) /\ n + 1 \notin TestsIn(T, i)
    BY <1>1, i \in Nat, TestsFinite
  <2>2. waits <=> FixWaits(T, n + 1)
    BY DEF CountsTests
  <2>3. CASE Testing(entry.text) /\ waits
    <3>1. TestsIn(U, i) = TestsIn(T, i) \cup {n + 1}
      BY ONLY <2>2, <2>3, TestsGrow, Extends(T, U, entry), i \in 1 .. n
    <3> QED
      BY <2>1, <2>3, <3>1, FS_AddElement
  <2>4. CASE ~(Testing(entry.text) /\ waits)
    <3>1. TestsIn(U, i) = TestsIn(T, i)
      BY ONLY <2>2, <2>4, TestsGrow, Extends(T, U, entry), i \in 1 .. n
    <3> QED
      BY <2>4, <3>1
  <2> QED
    BY <2>3, <2>4
<1>6. ~ChangeAt(U, n + 1)
  <2>1. T[n].verification = now /\ now = last
    BY <1>1 DEF CountsTests
  <2>2. PICK i \in 1 .. n : ChangeAt(T, i)
    BY DEF CountsTests
  <2>3. i \in 1 .. (n + 1) - 1 /\ IsVerdict(U[i].text)
    BY <1>1, <2>2 DEF ChangeAt
  <2>4. U[n + 1].verification = U[n].verification /\ n + 1 # 1 /\ (n + 1) - 1 = n
    BY <1>1, <2>1
  <2> QED
    BY <2>3, <2>4 DEF ChangeAt
<1> HIDE DEF n, after
<1>7. \E i \in 1 .. n + 1 :
        /\ ChangeAt(U, i) /\ \A j \in i + 1 .. n + 1 : ~ChangeAt(U, j)
        /\ Cardinality(TestsIn(U, i)) = after
  <2>1. PICK i \in 1 .. n :
          /\ ChangeAt(T, i) /\ \A j \in i + 1 .. n : ~ChangeAt(T, j)
          /\ Cardinality(TestsIn(T, i)) = count
    BY DEF CountsTests, n
  <2>2. i \in 1 .. n + 1 /\ \A j \in i + 1 .. n + 1 : (j \in 1 .. n /\ j \in i + 1 .. n) \/ j = n + 1
    BY <1>1
  <2> QED
    BY <1>4, <1>5, <1>6, <2>1, <2>2
<1>8. (n + 1) + 1 = n + 2 /\ n + 1 > 0 /\ n + 1 \in Nat /\ after \in Nat
  BY <1>1 DEF after
<1>9. CountsTests(U, last, last, waits /\ ~Testing(entry.text), after)
  BY <1>1, <1>3, <1>7, <1>8 DEF CountsTests
<1> QED
  BY <1>9 DEF after

\* A verification that differs from the last one starts a new count.
LEMMA NewVerdictResets ==
  ASSUME NEW T, NEW U, NEW entry, NEW now, NEW last, NEW waits, NEW count, NEW found,
         Extends(T, U, entry), CountsTests(T, now, last, waits, count),
         IsVerdict(entry.text), entry.verification = found, found # None,
         last # found
  PROVE  CountsTests(U, found, found, waits /\ ~Testing(entry.text), 0)
<1> DEFINE n == Len(T)
<1>1. /\ n \in Nat /\ Len(U) = n + 1 /\ U[n + 1] = entry
      /\ \A i \in 1 .. n : U[i] = T[i]
  BY DEF Extends
<1>2. ~IsFix(entry.text)
  BY DEF IsVerdict, Testing, IsFix
<1>3. (waits /\ ~Testing(entry.text)) <=> FixWaits(U, n + 2)
  BY ONLY <1>2, TestsGrow, Extends(T, U, entry), CountsTests(T, now, last, waits, count)
  DEF CountsTests
<1>4. ChangeAt(U, n + 1)
  <2>1. CASE last = None
    <3>1. \A j \in 1 .. n : ~IsVerdict(U[j].text)
      BY <1>1, <2>1 DEF CountsTests
    <3> QED
      BY <1>1, <3>1, (n + 1) - 1 = n DEF ChangeAt
  <2>2. CASE last # None
    <3>1. n > 0 /\ T[n].verification = last
      BY <2>2 DEF CountsTests
    <3>2. U[(n + 1) - 1].verification = last /\ n + 1 # 1
      BY <1>1, <3>1, (n + 1) - 1 = n
    <3> QED
      BY <1>1, <3>2 DEF ChangeAt
  <2> QED
    BY <2>1, <2>2
<1>5. Cardinality(TestsIn(U, n + 1)) = 0
  <2>1. TestsIn(U, n + 1) = {}
    BY ONLY TestsGrow, Extends(T, U, entry)
  <2> QED
    BY <2>1, FS_EmptySet
<1> HIDE DEF n
<1>6. /\ n + 1 \in 1 .. n + 1 /\ (n + 1) + 1 .. n + 1 = {}
      /\ (n + 1) + 1 = n + 2 /\ n + 1 > 0 /\ n + 1 \in Nat
  BY <1>1
<1> QED
  BY <1>1, <1>3, <1>4, <1>5, <1>6 DEF CountsTests
\* A turn keeps the count of fixes tested in vain exact.
LEMMA StagKept ==
  ASSUME TypeInv, StagInv, NEW text, Grows(text), Tries(text)
  PROVE  StagInv'
<1> DEFINE entry == [text |-> text, verification |-> verification', files |-> files']
<1>1. /\ Extends(turns, turns', entry) /\ entry.text = text
      /\ entry.verification = verification'
  BY DEF Grows, Extends
<1>2. /\ CountsTests(turns, verification, lastVerification, pending, stagnant)
      /\ pending \in BOOLEAN
  BY DEF StagInv, TypeInv, TypeOK
<1> HIDE DEF entry
<1>3. CASE /\ ~Testing(text) /\ text.kind # "flash"
           /\ pending' = (pending \/ text.kind \in {"edit", "build"})
           /\ UNCHANGED <<stagnant, verifying>>
  <2>1. ~IsVerdict(entry.text) /\ entry.verification = verification
    BY <1>1, <1>3 DEF IsVerdict, verifying
  <2>2. CountsTests(turns', verification, lastVerification,
                    pending \/ IsFix(entry.text), stagnant)
    BY <1>1, <1>2, <2>1, QuietTurnKeepsCount
  <2>3. pending' = (pending \/ IsFix(entry.text))
    BY <1>1, <1>3 DEF IsFix
  <2> QED
    BY <1>3, <2>2, <2>3 DEF StagInv, verifying
<1>4. ASSUME NEW found \in Verification, IsVerdict(text),
             Verified(found, Testing(text))
      PROVE  StagInv'
  <2>1. /\ verification' = found /\ lastVerification' = found
        /\ pending' = (pending /\ ~Testing(entry.text))
        /\ stagnant' = StagnantAfter(found, Testing(entry.text))
    BY <1>1, <1>4 DEF Verified
  <2>2. found # None /\ IsVerdict(entry.text) /\ entry.verification = found
    BY <1>1, <1>4, <2>1, DistinctConstants
  <2>3. CASE lastVerification = found
    <3>1. CountsTests(turns', found, found, pending /\ ~Testing(entry.text),
            IF Testing(entry.text) /\ pending THEN stagnant + 1 ELSE stagnant)
      BY <1>1, <1>2, <2>2, <2>3, SameVerdictCounts
    <3>2. stagnant' = IF Testing(entry.text) /\ pending THEN stagnant + 1 ELSE stagnant
      BY <2>1, <2>3 DEF StagnantAfter
    <3> QED
      BY <2>1, <3>1, <3>2 DEF StagInv
  <2>4. CASE lastVerification # found
    <3>1. CountsTests(turns', found, found, pending /\ ~Testing(entry.text), 0)
      BY <1>1, <1>2, <2>2, <2>4, NewVerdictResets
    <3>2. stagnant' = 0
      BY <2>1, <2>4 DEF StagnantAfter
    <3> QED
      BY <2>1, <3>1, <3>2 DEF StagInv
  <2> QED
    BY <2>3, <2>4
<1> QED
  BY <1>3, <1>4 DEF Tries, IsVerdict

\* The count reaches its limit when that many fixes were tested in vain.
LEMMA StagMeaning ==
  ASSUME TypeInv, StagInv
  PROVE  Stagnated <=> stagnant >= MAX_STAGNANT_FIX_CYCLES
<1> DEFINE limit == MAX_STAGNANT_FIX_CYCLES
<1>1. limit \in Nat \ {0} /\ stagnant \in Nat /\ Len(turns) \in Nat
  BY ConvergenceConstants DEF TypeInv, TypeOK
<1>2. CountsTests(turns, verification, lastVerification, pending, stagnant)
  BY DEF StagInv
<1>3. \A i : TestsFix(i) <=> TestOf(turns, i)
  BY DEF TestsFix, TestOf, FixWaits, Tests, Fixes, IsFix, Testing, Kind
<1>4. \A i : Differs(i) <=> ChangeAt(turns, i)
  BY DEF Differs, ChangeAt, Verifies, IsVerdict, Tests, Testing, Kind, Before
<1>5. Stagnated <=>
        \E i \in 1 .. Len(turns) :
          /\ ChangeAt(turns, i)
          /\ \A j \in i + 1 .. Len(turns) : ~ChangeAt(turns, j)
          /\ Cardinality(TestsIn(turns, i)) >= limit
  <2>1. \A i : {j \in (i + 1) .. Len(turns) : TestsFix(j)} = TestsIn(turns, i)
    BY <1>3 DEF TestsIn
  <2> QED
    BY <1>4, <2>1 DEF Stagnated
<1> HIDE DEF limit
<1>6. ASSUME stagnant >= limit
      PROVE  Stagnated
  <2>1. lastVerification # None
    BY <1>1, <1>2, <1>6 DEF CountsTests
  <2>2. PICK i \in 1 .. Len(turns) :
          /\ ChangeAt(turns, i)
          /\ \A j \in i + 1 .. Len(turns) : ~ChangeAt(turns, j)
          /\ Cardinality(TestsIn(turns, i)) = stagnant
    BY <1>2, <2>1 DEF CountsTests
  <2> QED
    BY <1>5, <1>6, <2>2
<1>7. ASSUME Stagnated
      PROVE  stagnant >= limit
  <2>1. PICK i \in 1 .. Len(turns) :
          /\ ChangeAt(turns, i)
          /\ \A j \in i + 1 .. Len(turns) : ~ChangeAt(turns, j)
          /\ Cardinality(TestsIn(turns, i)) >= limit
    BY <1>5, <1>7
  <2>2. lastVerification # None
    BY <1>2, <2>1 DEF CountsTests, ChangeAt
  <2>3. PICK k \in 1 .. Len(turns) :
          /\ ChangeAt(turns, k)
          /\ \A j \in k + 1 .. Len(turns) : ~ChangeAt(turns, j)
          /\ Cardinality(TestsIn(turns, k)) = stagnant
    BY <1>2, <2>2 DEF CountsTests
  <2>4. i = k
    <3>1. ~(i < k) /\ ~(k < i)
      BY <1>1, <2>1, <2>3
    <3> QED
      BY <1>1, <3>1
  <2> QED
    BY <2>1, <2>3, <2>4
<1> QED
  BY <1>6, <1>7 DEF limit

-----------------------------------------------------------------------------
(* The invariant, and what it says at the end of a run.                    *)

IInv == TypeInv /\ StreakInv /\ BuildInv /\ StagInv

\* The invariant holds at the start of a run.
LEMMA IInvStart == Init => IInv
<1> SUFFICES ASSUME Init PROVE IInv
  OBVIOUS
<1>1. /\ turns = << >> /\ Len(turns) = 0 /\ lastTurn = None /\ streak = 0
      /\ lastBuildFailure = None /\ buildFailures = 0
      /\ lastVerification = None /\ pending = FALSE /\ stagnant = 0
  BY DEF Init
<1>2. TypeInv
  BY TypeStart
<1>3. StreakInv
  BY <1>1 DEF StreakInv
<1>4. 1 .. 0 = {} /\ 1 .. Len(turns) = {} /\ Len(turns) \in Nat
  BY <1>1
<1>5. BuildInv
  <2>1. buildFailures \in Nat /\ lastBuildFailure \in {None}
    BY <1>1
  <2> QED
    BY <1>1, <1>4, <2>1 DEF BuildInv, CountsBuilds
<1>6. ~FixWaits(turns, 0 + 1)
  <2>1. 1 .. (0 + 1) - 1 = {}
    OBVIOUS
  <2> QED
    BY <2>1 DEF FixWaits
<1>7. StagInv
  <2>1. stagnant \in Nat /\ pending \in BOOLEAN
    BY <1>1
  <2>2. pending <=> FixWaits(turns, Len(turns) + 1)
    <3>1. ~FixWaits(turns, Len(turns) + 1)
      BY <1>1, <1>6
    <3>2. ~pending
      BY <1>1
    <3> QED
      BY <3>1, <3>2
  <2>3. \A j \in 1 .. Len(turns) : ~IsVerdict(turns[j].text)
    BY <1>4
  <2>4. ~(Len(turns) > 0)
    BY <1>1
  <2>5. lastVerification = None /\ stagnant = 0
    BY <1>1
  <2> QED
    BY <1>4, <2>1, <2>2, <2>3, <2>4, <2>5 DEF StagInv, CountsTests
<1> QED
  BY <1>2, <1>3, <1>5, <1>7 DEF IInv

\* Every turn keeps it.
LEMMA IInvKept == IInv /\ [Next]_vars => IInv'
<1> SUFFICES ASSUME IInv, [Next]_vars PROVE IInv'
  OBVIOUS
<1>1. CASE Next
  <2>1. TypeInv /\ streak \in Nat
    BY ConvergenceConstants DEF IInv, TypeInv, TypeOK
  <2>2. TypeInv' /\ TakesTurn
    BY <1>1, <2>1, TurnShape
  <2>3. PICK text \in Text : Grows(text) /\ Builds(text) /\ Tries(text)
    BY <2>2 DEF TakesTurn
  <2>4. StreakInv'
    BY <2>1, <2>3, StreakKept DEF IInv
  <2>5. BuildInv'
    BY <2>3, BuildKept DEF IInv
  <2>6. StagInv'
    BY <2>1, <2>3, StagKept DEF IInv
  <2> QED
    BY <2>2, <2>4, <2>5, <2>6 DEF IInv
<1>2. CASE UNCHANGED vars
  <2>1. /\ UNCHANGED <<files, verification, lastVerification, pending, stagnant>>
        /\ UNCHANGED <<buildFailures, lastBuildFailure, streak, lastTurn, result, turns>>
    BY <1>2 DEF vars, fixing, building, verifying, observing
  <2>2. TypeInv'
    BY <2>1 DEF IInv, TypeInv, TypeOK, Control, Convergence
  <2>3. StreakInv' /\ BuildInv' /\ StagInv'
    BY <2>1 DEF IInv, StreakInv, BuildInv, StagInv
  <2> QED
    BY <2>2, <2>3 DEF IInv
<1> QED
  BY <1>1, <1>2

\* It holds in every state of every behaviour.
LEMMA AlwaysIInv == Spec => []IInv
BY IInvStart, IInvKept, PTL DEF Spec

\* What the run is stopped for, in terms of the history alone.
LEMMA ResultMeaning ==
  ASSUME IInv
  PROVE  NoProgressExact /\ BuildFailuresExact /\ StagnationExact
<1>1. /\ SameTurns <=> streak >= MAX_NO_PROGRESS_STREAK
      /\ SameFailures <=> buildFailures >= MAX_IDENTICAL_BUILD_FAILURES
      /\ Stagnated <=> stagnant >= MAX_STAGNANT_FIX_CYCLES
  BY StreakMeaning, BuildMeaning, StagMeaning DEF IInv
<1>2. result = Convergence(buildFailures, streak, stagnant)
  BY DEF IInv, TypeInv, Control
<1> QED
  BY <1>1, <1>2
  DEF Convergence, NoProgressExact, BuildFailuresExact, StagnationExact

\* In every behaviour of the brain the counters and signatures of a run have
\* their types and no counter passes its limit.
THEOREM TypeCorrect == Spec => []TypeOK
<1>1. IInv => TypeOK
  BY DEF IInv, TypeInv
<1> QED
  BY <1>1, AlwaysIInv, PTL

\* Whatever the limit and however long the run: it is stopped for lack of
\* progress exactly when its last turns, one more than the limit, repeat each
\* other and its last builds have not failed alike (_update_observation_state
\* counts repetitions and never carries one over a turn that differs).
THEOREM StopsWhenTurnsRepeat == Spec => []NoProgressExact
<1>1. IInv => NoProgressExact
  BY ResultMeaning
<1> QED
  BY <1>1, AlwaysIInv, PTL

\* Whatever the limit: it is stopped for its builds exactly when that many
\* builds that ran to an end failed in a row with one output and one set of
\* changed files, whatever happened between them
\* (_update_build_failure_state).
THEOREM StopsWhenBuildsFailAlike == Spec => []BuildFailuresExact
<1>1. IInv => BuildFailuresExact
  BY ResultMeaning
<1> QED
  BY <1>1, AlwaysIInv, PTL

\* Whatever the limit: it is stopped for lack of improvement exactly when that
\* many fixes were tested since the verification last changed, and neither of
\* the other two reasons holds (_update_verification_state).
THEOREM StopsWhenFixesAreInVain == Spec => []StagnationExact
<1>1. IInv => StagnationExact
  BY ResultMeaning
<1> QED
  BY <1>1, AlwaysIInv, PTL
=============================================================================
