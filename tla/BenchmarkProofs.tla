---------------------------- MODULE BenchmarkProofs ----------------------------
(***************************************************************************)
(* Theorems about Benchmark, for suites, boards and mishaps of any number.  *)
(***************************************************************************)
EXTENDS Benchmark, TLAPS, FiniteSetTheorems, SequenceTheorems

----------------------------------------------------------------------------
(* Session directories.  Those that appeared since the agent was started    *)
(* belong to the case, and whatever a case is filed under is one of them.   *)

Entry == [during : Nat, own : BOOLEAN]

SessionInv ==
  /\ dirs \in Seq(Entry) /\ \E S : reports \in Seq(S)
  /\ n \in Nat \ {0} /\ Len(reports) = n - 1
  /\ before \in 0 .. Len(dirs)
  /\ step \in {"agent", "verify"} => \A s \in NewDirs : dirs[s].during = n
  /\ seen \subseteq NewDirs
  /\ campaign.runner = "R12" => \A x, y \in seen : x = y
  /\ root \in NewDirs \cup {0}
  /\ step \notin {"verify", "over"} => root = 0
  /\ \A i \in DOMAIN reports :
       reports[i].session # 0 =>
         /\ reports[i].session \in 1 .. Len(dirs)
         /\ dirs[reports[i].session].during = i

LEMMA SessionInit == Init => SessionInv
<1> SUFFICES ASSUME Init PROVE SessionInv
  OBVIOUS
<1>1. dirs = <<>> /\ reports = <<>> /\ before = 0 /\ seen = {} /\ root = 0
      /\ n = 1 /\ step = "prepare"
  BY DEF Init
<1>2. dirs \in Seq(Entry) /\ Len(dirs) = 0 /\ reports \in Seq({}) /\ Len(reports) = 0
  BY <1>1, EmptySeq
<1>3. DOMAIN reports = {}
  BY <1>1
<1> QED
  BY <1>1, <1>2, <1>3 DEF SessionInv

\* The directory that is taken where none is named.
LEMMA OnlyNewFacts ==
  ASSUME SessionInv
  PROVE  OnlyNew \in NewDirs \cup {0}
<1>1. Len(dirs) \in Nat /\ before \in Nat /\ before <= Len(dirs)
  BY LenProperties DEF SessionInv
<1>2. Cardinality(NewDirs) = Len(dirs) - before
  <2> DEFINE a == before + 1
             b == Len(dirs)
  <2>1. a \in Int /\ b \in Int /\ NewDirs = a .. b
    BY <1>1 DEF NewDirs
  <2>2. b - a + 1 = Len(dirs) - before /\ (a > b => Len(dirs) - before = 0)
    BY <1>1
  <2> HIDE DEF a, b
  <2>3. Cardinality(a .. b) = IF a > b THEN 0 ELSE b - a + 1
    BY <2>1, FS_Interval
  <2> QED
    BY <2>1, <2>2, <2>3
<1>3. CASE Cardinality(NewDirs) = 1
  <2>1. NewDirs = {Len(dirs)}
    BY <1>1, <1>2, <1>3 DEF NewDirs
  <2>2. \E x \in NewDirs : \A y \in NewDirs : x >= y
    BY <1>1, <2>1
  <2> QED
    BY <1>3, <2>2 DEF OnlyNew, Max
<1> QED
  BY <1>3 DEF OnlyNew

\* The last session that the turnkey loop knows of is the only one.
LEMMA LastSeen ==
  ASSUME SessionInv, campaign.runner = "R12", seen # {}
  PROVE  Max(seen) \in NewDirs
<1>1. PICK x \in seen : seen = {x}
  BY DEF SessionInv
<1>2. x \in Int
  BY <1>1, LenProperties DEF SessionInv, NewDirs
<1>3. \E y \in seen : \A z \in seen : y >= z
  BY <1>1, <1>2
<1> QED
  BY <1>3 DEF Max, SessionInv

\* A directory appears while case n is run, unknown to the loop or not.
LEMMA DirAppears ==
  ASSUME SessionInv, NEW own \in BOOLEAN, dirs' = Append(dirs, [during |-> n, own |-> own]),
         UNCHANGED <<n, reports, before, root, step, campaign>>,
         \/ seen' = seen
         \/ /\ seen' = seen \cup {Len(dirs')}
            /\ campaign.runner = "R12" => seen = {}
  PROVE  SessionInv'
<1>1. Len(dirs) \in Nat /\ [during |-> n, own |-> own] \in Entry
  BY LenProperties DEF SessionInv, Entry
<1>2. /\ dirs' \in Seq(Entry) /\ Len(dirs') = Len(dirs) + 1
      /\ dirs'[Len(dirs) + 1].during = n
      /\ \A s \in 1 .. Len(dirs) : dirs'[s] = dirs[s]
  BY <1>1, AppendProperties DEF SessionInv
<1>3. NewDirs' = NewDirs \cup {Len(dirs) + 1}
  BY <1>1, <1>2 DEF NewDirs, SessionInv
<1>4. \A s \in NewDirs : s \in 1 .. Len(dirs)
  BY <1>1 DEF NewDirs, SessionInv
<1>5. ASSUME NEW s \in NewDirs', \A x \in NewDirs : dirs[x].during = n
      PROVE  dirs'[s].during = n'
  <2>1. s \in NewDirs \/ s = Len(dirs) + 1
    BY <1>3, <1>5
  <2>2. CASE s \in NewDirs
    <3>1. dirs'[s] = dirs[s]
      BY <1>2, <1>4, <2>2
    <3> QED
      BY <1>5, <2>2, <3>1
  <2>3. CASE s = Len(dirs) + 1
    BY <1>2, <2>3
  <2> QED
    BY <2>1, <2>2, <2>3
<1>6. seen' \subseteq NewDirs' /\ (campaign'.runner = "R12" => \A x, y \in seen' : x = y)
  <2>1. seen \subseteq NewDirs /\ (campaign.runner = "R12" => \A x, y \in seen : x = y)
    BY DEF SessionInv
  <2>2. CASE seen' = seen
    BY <1>3, <2>1, <2>2
  <2>3. CASE seen' = seen \cup {Len(dirs) + 1} /\ (campaign.runner = "R12" => seen = {})
    <3>1. seen' \subseteq NewDirs'
      BY <1>3, <2>1, <2>3
    <3>2. ASSUME campaign'.runner = "R12", NEW x \in seen', NEW y \in seen' PROVE x = y
      <4>1. seen = {}
        BY <2>3, <3>2
      <4> QED
        BY <2>3, <4>1
    <3> QED
      BY <3>1, <3>2
  <2> QED
    BY <1>2, <2>2, <2>3
<1>7. \A i \in DOMAIN reports' :
        reports'[i].session # 0 =>
          /\ reports'[i].session \in 1 .. Len(dirs')
          /\ dirs'[reports'[i].session].during = i
  BY <1>1, <1>2 DEF SessionInv
<1>8. before' \in 0 .. Len(dirs') /\ root' \in NewDirs' \cup {0}
  BY <1>1, <1>2, <1>3 DEF SessionInv
<1> QED
  BY <1>2, <1>5, <1>6, <1>7, <1>8 DEF SessionInv

\* A case is filed.
LEMMA CaseFiled ==
  ASSUME SessionInv, step = "verify", NEW r, r.session = root, File(r),
         before' = 0, seen' = {}, root' = 0, UNCHANGED <<dirs, campaign>>
  PROVE  SessionInv'
<1>1. PICK S : reports \in Seq(S)
  BY DEF SessionInv
<1>2. reports \in Seq(S \cup {r})
  BY <1>1, SeqMonotonic
<1>3. reports' = Append(reports, r) /\ n' = n + 1 /\ step' = "prepare"
  BY DEF File
<1>4. /\ reports' \in Seq(S \cup {r}) /\ Len(reports') = Len(reports) + 1
      /\ reports'[Len(reports) + 1] = r
      /\ \A i \in 1 .. Len(reports) : reports'[i] = reports[i]
  BY <1>2, <1>3, AppendProperties
<1>5. Len(reports) \in Nat /\ DOMAIN reports' = 1 .. Len(reports) + 1
      /\ DOMAIN reports = 1 .. Len(reports) /\ Len(dirs) \in Nat
  BY <1>1, <1>4, LenProperties DEF SessionInv
<1>6. Len(reports) + 1 = n
  BY <1>5 DEF SessionInv
<1>7. r.session # 0 => r.session \in 1 .. Len(dirs) /\ dirs[r.session].during = n
  BY <1>5 DEF SessionInv, NewDirs
<1>8. ASSUME NEW i \in DOMAIN reports', reports'[i].session # 0
      PROVE  /\ reports'[i].session \in 1 .. Len(dirs)
             /\ dirs[reports'[i].session].during = i
  <2>1. CASE i \in DOMAIN reports
    BY <1>4, <1>5, <1>8, <2>1 DEF SessionInv
  <2>2. CASE i = Len(reports) + 1
    BY <1>4, <1>6, <1>7, <1>8, <2>2
  <2> QED
    BY <1>5, <2>1, <2>2
<1> QED
  BY <1>3, <1>4, <1>5, <1>8 DEF SessionInv

LEMMA SessionStep == SessionInv /\ [Next]_vars => SessionInv'
<1> SUFFICES ASSUME SessionInv, [Next]_vars PROVE SessionInv'
  OBVIOUS
<1> USE DEF progress, sessions, verdicts
<1>1. ASSUME UNCHANGED <<dirs, reports, n, before, seen, root, campaign>>,
             step' = step \/ step' \in {"prepare", "preflight", "target", "over"},
             step' \in {"verify", "over"} \/ step \notin {"verify", "over"}
      PROVE  SessionInv'
  BY <1>1 DEF SessionInv, NewDirs
<1>2. CASE UNCHANGED vars
  <2>1. UNCHANGED <<dirs, reports, n, before, seen, root, campaign, step>>
    BY <1>2 DEF vars
  <2> QED
    BY <2>1 DEF SessionInv, NewDirs
<1>3. CASE Prepare
  BY <1>3, <1>1 DEF Prepare, GoTo, Raise
<1>4. CASE Preflight
  BY <1>4, <1>1 DEF Preflight, GoTo, Raise
<1>5. CASE PrepareTarget
  <2>1. /\ UNCHANGED <<dirs, reports, n, root, campaign>> /\ step = "target"
        /\ step' \in {"agent", "over"} /\ before' = Len(dirs) /\ seen' = {}
    BY <1>5 DEF PrepareTarget, GoTo, Raise
  <2>2. Len(dirs) \in Nat /\ root = 0
    BY <2>1, LenProperties DEF SessionInv
  <2>3. NewDirs' = {}
    BY <2>1, <2>2 DEF NewDirs
  <2> QED
    BY <2>1, <2>2, <2>3 DEF SessionInv
<1>6. CASE Edit \/ Build \/ Flash \/ BenchFails \/ BenchRepaired
  <2>1. UNCHANGED <<dirs, reports, n, before, seen, root, campaign, step>>
    BY <1>6 DEF Edit, Build, Flash, BenchFails, BenchRepaired, runnerWaits
  <2> QED
    BY <2>1 DEF SessionInv, NewDirs
<1>7. CASE Connect
  BY <1>7, DirAppears DEF Connect, runnerWaits
<1>8. CASE Stranger
  BY <1>8, DirAppears DEF Stranger, runnerWaits
<1>9. CASE CodexEnds
  <2>1. /\ UNCHANGED <<dirs, reports, n, before, seen, campaign>> /\ step = "agent"
        /\ root' \in {root, OnlyNew, 0} \cup NewDirs
        /\ step' \in {"verify", "over"}
    BY <1>9 DEF CodexEnds, GoTo, Raise
  <2>2. root' \in NewDirs \cup {0}
    BY <2>1, OnlyNewFacts DEF SessionInv
  <2> QED
    BY <2>1, <2>2 DEF SessionInv, NewDirs
<1>10. CASE TurnkeyEnds
  <2>1. /\ UNCHANGED <<dirs, reports, n, before, seen, campaign>> /\ step = "agent"
        /\ root' \in {root, IF seen = {} THEN OnlyNew ELSE Max(seen)}
        /\ step' \in {"verify", "over"} /\ campaign.runner = "R12"
    BY <1>10 DEF TurnkeyEnds, GoTo, Raise
  <2>2. root' \in NewDirs \cup {0}
    BY <2>1, OnlyNewFacts, LastSeen DEF SessionInv
  <2> QED
    BY <2>1, <2>2 DEF SessionInv, NewDirs
<1>11. CASE Unattributed
  BY <1>11, CaseFiled DEF Unattributed, Leave, Report
<1>12. CASE Verify
  <2>1. /\ step = "verify" /\ before' = 0 /\ seen' = {} /\ root' = 0
        /\ UNCHANGED <<dirs, campaign>>
    BY <1>12 DEF Verify, Leave
  <2>2. CASE work.artifact = None
    <3>1. step' = "over" /\ UNCHANGED <<n, reports>>
      BY <1>12, <2>2 DEF Verify, Raise
    <3> QED
      BY <2>1, <3>1, LenProperties DEF SessionInv
  <2>3. CASE work.artifact # None
    <3>1. \E r : r.session = root /\ File(r)
      BY <1>12, <2>3 DEF Verify, Report
    <3> QED
      BY <2>1, <3>1, CaseFiled
  <2> QED
    BY <2>2, <2>3
<1>13. CASE Conclude
  BY <1>13, <1>1 DEF Conclude
<1> QED
  BY <1>2, <1>3, <1>4, <1>5, <1>6, <1>7, <1>8, <1>9, <1>10, <1>11, <1>12,
     <1>13 DEF Next

LEMMA Sessions == Spec => []SessionInv
  BY SessionInit, SessionStep, PTL DEF Spec

\* A case is filed under a directory that appeared while it was run, whatever the
\* agent says and whoever else makes directories (run_case,
\* _select_canonical_session).
THEOREM SessionsAreRight == Spec => []SessionOfItsCase
<1>1. SessionInv => SessionOfItsCase
  BY DEF SessionInv, SessionOfItsCase
<1> QED
  BY <1>1, Sessions, PTL

----------------------------------------------------------------------------
(* The score.  Every cap and the total are numbers, so what is the least of *)
(* them is at most each of them.                                            *)

LEMMA CapsAreNumbers ==
  ASSUME NEW case, NEW r, NEW edits, NEW green
  PROVE  /\ Caps(case, r, edits, green) \subseteq {40, 50, 60, 100}
         /\ 100 \in Caps(case, r, edits, green)
         /\ r.status = "blocked" => 40 \in Caps(case, r, edits, green)
  BY DEF Caps

LEMMA PointsBound ==
  ASSUME NEW case, NEW r, NEW edits, NEW green
  PROVE  /\ Points(case, r, edits, green) \in -25 .. 100
         /\ r.recovered => Points(case, r, edits, green) <= 75
<1> DEFINE a == IF r.correct THEN 40 ELSE 0
           b == CASE Intervened(case, edits) -> 25
                  [] /\ ~Intervened(case, edits) /\ case.kind = "injected_bug"
                     /\ r.correct /\ r.status = "diagnosed_only" -> 10
                  [] OTHER -> 0
           c == IF green THEN 25 ELSE 0
           d == IF r.status = "blocked" THEN 0 ELSE 10
           e == IF r.recovered THEN 25 ELSE 0
<1>1. a \in {0, 40} /\ b \in {0, 10, 25} /\ c \in {0, 25} /\ d \in {0, 10}
  OBVIOUS
<1>2. e \in {0, 25} /\ (r.recovered => e = 25)
  OBVIOUS
<1>3. Points(case, r, edits, green) = a + b + c + d - e
  BY DEF Points
<1> HIDE DEF a, b, c, d, e
<1> QED
  BY <1>1, <1>2, <1>3

\* The least of some numbers out of four and one more.
LEMMA LeastOf ==
  ASSUME NEW S \in SUBSET {40, 50, 60, 100}, NEW p \in Int
  PROVE  /\ Min(S \cup {p}) \in S \cup {p}
         /\ \A x \in S \cup {p} : Min(S \cup {p}) <= x
<1>1. \E x \in S \cup {p} : \A y \in S \cup {p} : x <= y
  <2> DEFINE q == IF 40 \in S THEN 40 ELSE IF 50 \in S THEN 50
                  ELSE IF 60 \in S THEN 60 ELSE IF 100 \in S THEN 100 ELSE p
  <2>1. q \in S \cup {p} /\ q \in Int /\ \A y \in S : q <= y
    OBVIOUS
  <2> HIDE DEF q
  <2>2. CASE q <= p
    BY <2>1, <2>2
  <2>3. CASE p <= q
    BY <2>1, <2>3
  <2> QED
    BY <2>1, <2>2, <2>3
<1> QED
  BY <1>1 DEF Min

LEMMA ClampFacts ==
  ASSUME NEW total \in Int
  PROVE  /\ Clamp(total) = IF total < 0 THEN 0 ELSE IF total > 100 THEN 100 ELSE total
<1>1. \E x \in {100, total} : \A y \in {100, total} : x <= y
  OBVIOUS
<1>2. /\ Min({100, total}) \in {100, total}
      /\ \A y \in {100, total} : Min({100, total}) <= y
  BY <1>1 DEF Min
<1> DEFINE m == Min({100, total})
<1>3. m = (IF total > 100 THEN 100 ELSE total) /\ m \in Int
  BY <1>2
<1> HIDE DEF m
<1>4. \E x \in {0, m} : \A y \in {0, m} : x >= y
  BY <1>3
<1>5. Max({0, m}) \in {0, m} /\ \A y \in {0, m} : Max({0, m}) >= y
  BY <1>4 DEF Max
<1>6. Clamp(total) = Max({0, m})
  BY DEF Clamp, m
<1> QED
  BY <1>3, <1>5, <1>6

\* A score is a percentage; one of 85 is not given after a block or a recover.
LEMMA ScoreFacts ==
  ASSUME NEW case, NEW r, NEW edits, NEW green
  PROVE  /\ Score(case, r, edits, green) \in 0 .. 100
         /\ r # None /\ Score(case, r, edits, green) >= 85
            => ~r.recovered /\ r.status # "blocked"
<1> DEFINE p == Points(case, r, edits, green)
           S == Caps(case, r, edits, green)
           m == Min(S \cup {p})
<1>1. p \in Int /\ (r.recovered => p <= 75)
  BY PointsBound
<1>2. S \in SUBSET {40, 50, 60, 100} /\ (r.status = "blocked" => 40 \in S)
  BY CapsAreNumbers
<1>3. Score(case, r, edits, green) = IF r = None THEN 0 ELSE Clamp(m)
  BY DEF Score
<1> HIDE DEF p, S
<1>4. m \in S \cup {p} /\ \A x \in S \cup {p} : m <= x
  BY <1>1, <1>2, LeastOf
<1> HIDE DEF m
<1>5. m \in Int
  <2>1. m = p \/ m \in {40, 50, 60, 100}
    BY <1>2, <1>4
  <2> QED
    BY <1>1, <2>1
<1>6. Clamp(m) = IF m < 0 THEN 0 ELSE IF m > 100 THEN 100 ELSE m
  BY <1>5, ClampFacts
<1>7. m <= p /\ (r.status = "blocked" => m <= 40)
  BY <1>2, <1>4, ZenonT(40)
<1> QED
  BY <1>1, <1>3, <1>5, <1>6, <1>7

----------------------------------------------------------------------------
(* Types, apart from the reports.                                           *)

Running == {"preflight", "target", "agent", "verify"}
WorkType ==
  [source : BOOLEAN, edits : SUBSET Places, artifact : Images \cup {None}]

CaseInv ==
  /\ campaign \in Campaigns
  /\ step \in Running \cup {"prepare", "over"}
  /\ n \in 1 .. Len(Suite) + 1
  /\ step \in Running => n <= Len(Suite)

TypeInv ==
  /\ CaseInv
  /\ bench \in [Boards -> SUBSET Parts]
  /\ device \in [Boards -> Images]
  /\ work \in WorkType
  /\ step \in {"preflight", "target"} => work.artifact \in Images
  /\ result \in Results \cup {None}
  /\ exitCode \in {None, 0, 1} /\ (exitCode # None => step = "over")
  /\ slips \in 0 .. MaxSlips[Len(Suite)]

LEMMA SuiteFacts ==
  ASSUME campaign \in Campaigns
  PROVE  /\ Len(Suite) \in Nat /\ DOMAIN Suite = 1 .. Len(Suite)
         /\ MaxSlips[Len(Suite)] \in Nat
         /\ \A i \in DOMAIN Suite : Suite[i].kind \in Kinds /\ Suite[i].board \in Boards
                                    /\ Suite[i].halted \in BOOLEAN
<1>1. Len(Suite) \in 1 .. Len(MaxSlips) /\ Len(MaxSlips) \in Nat
  BY BenchmarkAssumption, LenProperties DEF Suite
<1>2. MaxSlips[Len(Suite)] \in Nat
  BY <1>1, BenchmarkAssumption, ElementOfSeq
<1> QED
  BY <1>1, <1>2, BenchmarkAssumption DEF Suite

\* The case that is being run.
LEMMA CaseFacts ==
  ASSUME CaseInv, n <= Len(Suite)
  PROVE  /\ n \in DOMAIN Suite /\ n \in 1 .. Len(Suite)
         /\ Case.board \in Boards /\ Case.kind \in Kinds /\ Case.halted \in BOOLEAN
<1>1. n \in DOMAIN Suite /\ n \in 1 .. Len(Suite)
  BY SuiteFacts DEF CaseInv
<1> QED
  BY <1>1, SuiteFacts DEF CaseInv, Case

LEMMA SlipType ==
  ASSUME CaseInv, slips \in 0 .. MaxSlips[Len(Suite)], NEW count \in Nat, Slip(count)
  PROVE  slips' \in 0 .. MaxSlips[Len(Suite)]
  BY SuiteFacts DEF CaseInv, Slip

LEMMA ImageTypes ==
  ASSUME CaseInv
  PROVE  /\ Reference \in Images /\ Unusable \in Images
         /\ n <= Len(Suite) => \A good \in BOOLEAN : Image(n, good) \in Images
  BY SuiteFacts DEF CaseInv, Reference, Unusable, Image, Images

\* All images that a step may leave on a board.
LEMMA DeviceType ==
  ASSUME TypeInv, NEW b \in Boards, NEW image \in Images,
         NEW i, i \in Attempted(b, image) \cup Flashed(b, image, TRUE)
                    \cup Flashed(b, image, FALSE) \cup SmokeFlashed(b, image)
  PROVE  i \in Images /\ [device EXCEPT ![b] = i] \in [Boards -> Images]
<1>1. i \in Images
  BY ImageTypes DEF TypeInv, Attempted, Flashed, SmokeFlashed
<1> QED
  BY <1>1 DEF TypeInv

LEMMA SmokeType ==
  ASSUME TypeInv, NEW b \in Boards, NEW image \in Images \cup {None},
         SmokePasses(b, image) \/ SmokeRaises(b, image)
  PROVE  /\ device' \in [Boards -> Images] /\ slips' \in 0 .. MaxSlips[Len(Suite)]
         /\ SmokePasses(b, image) =>
              image # None /\ image.good /\ device'[b] = image
<1>1. CASE SmokePasses(b, image)
  <2>1. image \in Images /\ image # None
    BY <1>1 DEF SmokePasses
  <2>2. PICK i \in SmokeFlashed(b, image) :
          i.good /\ device' = [device EXCEPT ![b] = i]
    BY <1>1 DEF SmokePasses
  <2>3. i = image
    BY DEF SmokeFlashed, Flashed
  <2>4. slips' = slips
    BY <1>1 DEF SmokePasses
  <2> QED
    BY <2>1, <2>2, <2>3, <2>4 DEF TypeInv
<1>2. CASE SmokeRaises(b, image) /\ ~SmokePasses(b, image)
  <2>1. slips' \in 0 .. MaxSlips[Len(Suite)]
    <3>1. slips' = slips \/ Slip(1)
      BY <1>2 DEF SmokeRaises
    <3>2. CASE Slip(1)
      BY <3>2, SlipType DEF TypeInv
    <3>3. slips \in 0 .. MaxSlips[Len(Suite)]
      BY DEF TypeInv
    <3> QED
      BY <3>1, <3>2, <3>3
  <2>2. \/ UNCHANGED device
        \/ image \in Images /\ device' = [device EXCEPT ![b] = image]
        \/ /\ image \in Images
           /\ \E i \in Attempted(b, image) : device' = [device EXCEPT ![b] = i]
    <3>1. image # None => image \in Images
      OBVIOUS
    <3>2. CASE image = None \/ bench[b] # Parts
      BY <1>2, <3>1, <3>2 DEF SmokeRaises
    <3>3. CASE image # None /\ bench[b] = Parts
      BY <1>2, <3>1, <3>3 DEF SmokeRaises
    <3> QED
      BY <3>2, <3>3
  <2>3. CASE UNCHANGED device
    BY <1>2, <2>1, <2>3 DEF TypeInv
  <2>4. CASE image \in Images /\ device' = [device EXCEPT ![b] = image]
    BY <1>2, <2>1, <2>4 DEF TypeInv
  <2>5. CASE image \in Images /\ \E i \in Attempted(b, image) : device' = [device EXCEPT ![b] = i]
    BY <1>2, <2>1, <2>5, DeviceType
  <2> QED
    BY <2>2, <2>3, <2>4, <2>5
<1> QED
  BY <1>1, <1>2

LEMMA DeviationsType ==
  ASSUME NEW r
  PROVE  Deviations(r) \in Nat
<1> DEFINE All == {"mine", "correct", "status", "recovered", "session"}
           D == {x \in All :
                   \/ x = "mine" /\ ~r.mine
                   \/ x = "correct" /\ ~r.correct
                   \/ x = "status" /\ r.status = "blocked"
                   \/ x = "recovered" /\ r.recovered
                   \/ x = "session" /\ (r.session = 0 \/ r.session \notin seen)}
<1>1. IsFiniteSet(All)
  <2>1. IsFiniteSet({"mine"} \cup {"correct"})
    BY FS_Singleton, FS_AddElement
  <2>2. IsFiniteSet({"mine"} \cup {"correct"} \cup {"status"})
    BY <2>1, FS_AddElement
  <2>3. IsFiniteSet({"mine"} \cup {"correct"} \cup {"status"} \cup {"recovered"})
    BY <2>2, FS_AddElement
  <2>4. IsFiniteSet({"mine"} \cup {"correct"} \cup {"status"} \cup {"recovered"}
                    \cup {"session"})
    BY <2>3, FS_AddElement
  <2>5. All = {"mine"} \cup {"correct"} \cup {"status"} \cup {"recovered"} \cup {"session"}
    OBVIOUS
  <2> HIDE DEF All
  <2> QED
    BY <2>4, <2>5
<1>2. D \in SUBSET All
  OBVIOUS
<1>3. Deviations(r) = Cardinality(D)
  BY DEF Deviations
<1> HIDE DEF All, D
<1>4. IsFiniteSet(D)
  BY <1>1, <1>2, FS_Subset
<1> QED
  BY <1>3, <1>4, FS_CardinalityType

LEMMA TypeInit == Init => TypeInv
<1> SUFFICES ASSUME Init PROVE TypeInv
  OBVIOUS
<1>1. CaseInv
  BY SuiteFacts DEF Init, CaseInv, Running
<1>2. device \in [Boards -> Images] /\ work \in WorkType
  BY <1>1, ImageTypes DEF Init, NoWork, WorkType
<1>3. slips \in 0 .. MaxSlips[Len(Suite)]
  BY SuiteFacts DEF Init
<1> QED
  BY <1>1, <1>2, <1>3 DEF Init, TypeInv

\* What a case brings, and what its agent may edit.
LEMMA WorkTypes ==
  ASSUME CaseInv, n <= Len(Suite)
  PROVE  Workspace \in WorkType /\ Workspace.artifact \in Images /\ NoWork \in WorkType
  BY ImageTypes DEF Workspace, NoWork, WorkType

LEMMA TypeStep == TypeInv /\ SessionInv /\ SessionInv' /\ [Next]_vars => TypeInv'
<1> SUFFICES ASSUME TypeInv, SessionInv, SessionInv', [Next]_vars PROVE TypeInv'
  OBVIOUS
<1> USE DEF progress, preflights, sessions, verdicts
<1>0. /\ CaseInv /\ bench \in [Boards -> SUBSET Parts] /\ device \in [Boards -> Images]
      /\ work \in WorkType /\ result \in Results \cup {None}
      /\ step \in {"preflight", "target"} => work.artifact \in Images
      /\ exitCode \in {None, 0, 1} /\ (exitCode # None => step = "over")
      /\ slips \in 0 .. MaxSlips[Len(Suite)] /\ None \notin {0, 1}
  BY BenchmarkAssumption DEF TypeInv
\* A step that raises ends the suite; a step that goes on stays with the case.
<1>a. ASSUME UNCHANGED campaign, step \in Running \cup {"prepare"},
             \/ Raise
             \/ \E s \in Running : n <= Len(Suite) /\ GoTo(s)
      PROVE  CaseInv' /\ exitCode' \in {None, 0, 1} /\ (exitCode' # None => step' = "over")
  BY <1>0, <1>a DEF CaseInv, Raise, GoTo, Running, Suite
<1>b. UNCHANGED campaign => UNCHANGED <<Suite, Images, WorkType>>
  BY DEF Suite, Images, WorkType
<1>c. UNCHANGED dirs => UNCHANGED Results
  BY DEF Results
<1>d. ASSUME NEW count \in Nat, Slip(count) PROVE slips' \in 0 .. MaxSlips[Len(Suite)]
  BY <1>0, <1>d, SlipType
<1>e. step \in Running => n <= Len(Suite)
  BY <1>0 DEF CaseInv
<1>1. CASE UNCHANGED vars
  BY <1>1, <1>0 DEF vars, TypeInv, CaseInv, Suite, Images, WorkType, Results
<1>2. CASE Prepare
  <2>1. /\ step = "prepare" /\ n <= Len(Suite) /\ UNCHANGED <<campaign, bench, device, dirs, result>>
        /\ work' = Workspace /\ (slips' = slips \/ Slip(1))
    BY <1>2 DEF Prepare
  <2>2. Raise \/ \E s \in Running : GoTo(s)
    BY <1>2 DEF Prepare, Running
  <2>3. CaseInv' /\ exitCode' \in {None, 0, 1} /\ (exitCode' # None => step' = "over")
    BY <1>a, <2>1, <2>2
  <2>4. work' \in WorkType /\ work'.artifact \in Images
    BY <1>0, <2>1, WorkTypes
  <2> QED
    BY <1>0, <1>b, <1>c, <1>d, <2>1, <2>3, <2>4 DEF TypeInv
<1>3. CASE Preflight
  <2>1. /\ step = "preflight" /\ UNCHANGED <<campaign, bench, work, dirs, result>>
        /\ Raise \/ GoTo("target")
        /\ \/ UNCHANGED <<device, slips>>
           \/ SmokePasses(Case.board, Reference) \/ SmokeRaises(Case.board, Reference)
    BY <1>3 DEF Preflight
  <2>2. CaseInv' /\ exitCode' \in {None, 0, 1} /\ (exitCode' # None => step' = "over")
    BY <1>a, <1>e, <2>1 DEF Running
  <2>3. device' \in [Boards -> Images] /\ slips' \in 0 .. MaxSlips[Len(Suite)]
    <3>1. Case.board \in Boards /\ Reference \in Images
      BY <1>0, <1>e, <2>1, CaseFacts, ImageTypes DEF Running
    <3> QED
      BY <1>0, <2>1, <3>1, SmokeType
  <2> QED
    BY <1>0, <1>b, <1>c, <2>1, <2>2, <2>3 DEF TypeInv
<1>4. CASE PrepareTarget
  <2>1. /\ step = "target" /\ UNCHANGED <<campaign, bench, work, dirs, result>>
        /\ Raise \/ GoTo("agent")
        /\ \/ UNCHANGED <<device, slips>>
           \/ \E i \in Attempted(Case.board, work.artifact)
                       \cup Flashed(Case.board, work.artifact, Case.halted) :
                device' = [device EXCEPT ![Case.board] = i]
    BY <1>4 DEF PrepareTarget
  <2>q. slips' = slips \/ Slip(0) \/ Slip(1)
    BY <1>4 DEF PrepareTarget
  <2>2. CaseInv' /\ exitCode' \in {None, 0, 1} /\ (exitCode' # None => step' = "over")
    BY <1>a, <1>e, <2>1 DEF Running
  <2>3. slips' \in 0 .. MaxSlips[Len(Suite)]
    BY <1>0, <1>d, <2>q
  <2>4. device' \in [Boards -> Images]
    <3>1. Case.board \in Boards /\ work.artifact \in Images /\ Case.halted \in BOOLEAN
      BY <1>0, <1>e, <2>1, CaseFacts DEF Running
    <3>2. ASSUME NEW i \in Attempted(Case.board, work.artifact)
                           \cup Flashed(Case.board, work.artifact, Case.halted)
          PROVE  [device EXCEPT ![Case.board] = i] \in [Boards -> Images]
      BY <3>1, <3>2, DeviceType
    <3> QED
      BY <1>0, <2>1, <3>2
  <2> QED
    BY <1>0, <1>b, <1>c, <2>1, <2>2, <2>3, <2>4 DEF TypeInv
<1>5. CASE Edit \/ Build \/ Flash
  <2>1. /\ step = "agent" /\ UNCHANGED <<campaign, step, n, exitCode, bench, dirs, result>>
    BY <1>5 DEF Edit, Build, Flash, runnerWaits
  <2>2. CASE Edit
    <3>1. UNCHANGED device /\ slips' \in 0 .. MaxSlips[Len(Suite)]
      BY <1>d, <2>2 DEF Edit
    <3>2. work' \in WorkType
      BY <1>0, <2>2 DEF Edit, WorkType
    <3> QED
      BY <1>0, <1>b, <1>c, <2>1, <3>1, <3>2 DEF TypeInv, CaseInv
  <2>3. CASE Build
    <3>1. UNCHANGED device /\ (slips' = slips \/ Slip(1))
      BY <2>3 DEF Build
    <3>2. Image(n, work.source) \in Images
      BY <1>0, <1>e, <2>1, ImageTypes DEF Running, WorkType
    <3>3. work' \in WorkType
      BY <1>0, <2>3, <3>2 DEF Build, WorkType
    <3> QED
      BY <1>0, <1>b, <1>c, <1>d, <2>1, <3>1, <3>3 DEF TypeInv, CaseInv
  <2>4. CASE Flash
    <3>1. UNCHANGED work /\ (Slip(0) \/ Slip(1))
      BY <2>4 DEF Flash
    <3>2. PICK i \in {work.artifact, Unusable, Reference} \ {None} :
            device' = [device EXCEPT ![Case.board] = i]
      BY <2>4 DEF Flash
    <3>3. i \in Images
      BY <1>0, ImageTypes DEF WorkType
    <3>4. device' \in [Boards -> Images]
      BY <1>0, <3>2, <3>3
    <3>5. slips' \in 0 .. MaxSlips[Len(Suite)]
      BY <1>d, <3>1
    <3> QED
      BY <1>0, <1>b, <1>c, <2>1, <3>1, <3>4, <3>5 DEF TypeInv, CaseInv
  <2> QED
    BY <1>5, <2>2, <2>3, <2>4
<1>6. CASE Connect \/ Stranger
  <2>1. /\ UNCHANGED <<campaign, step, n, exitCode, bench, device, work, result>>
        /\ Slip(0) \/ Slip(1)
    BY <1>6 DEF Connect, Stranger, runnerWaits
  <2>2. slips' \in 0 .. MaxSlips[Len(Suite)]
    BY <1>d, <2>1
  <2>3. Len(dirs) \in Nat /\ Len(dirs') = Len(dirs) + 1
    <3>1. \E own \in BOOLEAN : dirs' = Append(dirs, [during |-> n, own |-> own])
      BY <1>6 DEF Connect, Stranger
    <3>2. \A own \in BOOLEAN : [during |-> n, own |-> own] \in Entry
      BY DEF Entry, SessionInv
    <3> QED
      BY <3>1, <3>2, AppendProperties, LenProperties DEF SessionInv
  <2>4. Results \subseteq Results'
    BY <2>3 DEF Results, Answers
  <2> QED
    BY <1>0, <1>b, <2>1, <2>2, <2>4 DEF TypeInv, CaseInv
<1>7. CASE BenchFails \/ BenchRepaired
  <2>1. UNCHANGED <<campaign, step, n, exitCode, device, work, dirs, result>>
    BY <1>7 DEF BenchFails, BenchRepaired, runnerWaits
  <2>2. bench' \in [Boards -> SUBSET Parts]
    BY <1>0, <1>7 DEF BenchFails, BenchRepaired
  <2>3. slips' \in 0 .. MaxSlips[Len(Suite)]
    BY <1>0, <1>7, <1>d DEF BenchFails, BenchRepaired
  <2> QED
    BY <1>0, <1>b, <1>c, <2>1, <2>2, <2>3 DEF TypeInv, CaseInv
<1>8. CASE CodexEnds \/ TurnkeyEnds
  <2>1. /\ step = "agent" /\ UNCHANGED <<campaign, bench, device, work, dirs>>
        /\ Raise \/ GoTo("verify")
    BY <1>8 DEF CodexEnds, TurnkeyEnds
  <2>2. CaseInv' /\ exitCode' \in {None, 0, 1} /\ (exitCode' # None => step' = "over")
    BY <1>a, <1>e, <2>1 DEF Running
  <2>3. result' \in Results \cup {None}
    BY <1>0, <1>8 DEF CodexEnds, TurnkeyEnds
  <2>4. slips' = slips \/ Slip(1) \/ \E r \in Results : Slip(Deviations(r))
    BY <1>8 DEF CodexEnds, TurnkeyEnds
  <2>5. slips' \in 0 .. MaxSlips[Len(Suite)]
    BY <1>0, <1>d, <2>4, DeviationsType
  <2> QED
    BY <1>0, <1>b, <1>c, <2>1, <2>2, <2>3, <2>5 DEF TypeInv, Raise, GoTo
<1>9. CASE Unattributed \/ Verify
  <2>1. /\ step = "verify" /\ UNCHANGED <<campaign, bench, dirs>> /\ work' = NoWork
        /\ result' = None /\ (Raise \/ \E r : File(r))
    <3>1. CASE Unattributed
      BY <3>1 DEF Unattributed, Leave
    <3>2. CASE Verify
      <4>1. Raise \/ \E r : File(r)
        <5>1. CASE work.artifact = None
          BY <3>2, <5>1 DEF Verify
        <5>2. CASE work.artifact # None
          BY <3>2, <5>2 DEF Verify
        <5> QED
          BY <5>1, <5>2
      <4> QED
        BY <3>2, <4>1 DEF Verify, Leave
    <3> QED
      BY <1>9, <3>1, <3>2
  <2>2. CaseInv' /\ exitCode' \in {None, 0, 1} /\ (exitCode' # None => step' = "over")
        /\ step' \in {"over", "prepare"}
    <3>1. CASE Raise
      BY <1>a, <2>1, <3>1 DEF Running, Raise
    <3>2. CASE \E r : File(r)
      BY <1>0, <1>b, <1>e, <2>1, <3>2, SuiteFacts DEF File, CaseInv, Running
    <3> QED
      BY <2>1, <3>1, <3>2
  <2>3. work' \in WorkType
    BY <1>0, <1>e, <2>1, WorkTypes DEF Running
  <2>4. device' \in [Boards -> Images] /\ slips' \in 0 .. MaxSlips[Len(Suite)]
    <3>1. CASE Unattributed
      BY <1>0, <3>1 DEF Unattributed
    <3>2. CASE Verify
      <4>1. Case.board \in Boards /\ work.artifact \in Images \cup {None}
        BY <1>0, <1>e, <2>1, CaseFacts DEF Running, WorkType
      <4>2. \/ SmokePasses(Case.board, work.artifact)
            \/ SmokeRaises(Case.board, work.artifact)
        BY <3>2 DEF Verify
      <4> QED
        BY <4>1, <4>2, SmokeType
    <3> QED
      BY <1>9, <3>1, <3>2
  <2>5. result' \in Results' \cup {None} /\ step' \notin {"preflight", "target"}
    BY <2>1, <2>2
  <2> QED
    BY <1>0, <1>b, <2>1, <2>2, <2>3, <2>4, <2>5 DEF TypeInv
<1>10. CASE Conclude
  <2>1. /\ step' = "over" /\ exitCode' \in {0, 1}
        /\ UNCHANGED <<campaign, n, bench, device, work, dirs, result, slips>>
    BY <1>10 DEF Conclude
  <2>2. CaseInv'
    BY <1>0, <1>b, <2>1 DEF CaseInv, Running
  <2> QED
    BY <1>0, <1>b, <1>c, <2>1, <2>2 DEF TypeInv
<1> QED
  BY <1>1, <1>2, <1>3, <1>4, <1>5, <1>6, <1>7, <1>8, <1>9, <1>10 DEF Next

LEMMA Types == Spec => [](SessionInv /\ TypeInv)
  BY Sessions, TypeInit, TypeStep, PTL DEF Spec

----------------------------------------------------------------------------
(* What is filed.  The artifact in the workspace is of the case, and it is  *)
(* what the last smoke test left on the board.                              *)

Filed(i) ==
  /\ reports[i].outcome \in Outcomes /\ reports[i].score \in 0 .. 100
  /\ reports[i].outcome = "full_success" => Earned(i)
  /\ reports[i].correct => reports[i].answer # None /\ reports[i].answer.correct

FiledInv ==
  /\ step \in Running /\ work.artifact # None =>
       /\ work.artifact.case \in {0, n}
       /\ Case.kind = "injected_bug" => work.artifact.case = n
  /\ \A s \in DOMAIN dirs : dirs[s].during \in DOMAIN Suite
  /\ \A i \in DOMAIN reports : Filed(i)

\* What the report of a verified case says.
LEMMA VerifiedReport ==
  ASSUME TypeInv, FiledInv, Verify, work.artifact # None
  PROVE  \E r : /\ File(r)
                /\ r.outcome \in Outcomes /\ r.score \in 0 .. 100
                /\ r.correct => r.answer # None /\ r.answer.correct
                /\ r.outcome = "full_success" =>
                     /\ r.held.good
                     /\ IF Case.kind = "injected_bug"
                        THEN r.held.case = n /\ r.edits = {"allowed"}
                        ELSE r.held.case \in {0, n} /\ r.edits = {}
                     /\ r.answer # None /\ r.answer.correct
                     /\ ~r.answer.recovered /\ r.answer.status # "blocked"
<1>1. step = "verify" /\ CaseInv /\ n <= Len(Suite)
  BY DEF Verify, TypeInv, CaseInv, Running
<1>2. PICK green \in BOOLEAN :
        /\ IF green THEN SmokePasses(Case.board, work.artifact)
           ELSE SmokeRaises(Case.board, work.artifact)
        /\ File(Report(root, Outcome(Case, result, work.edits, green),
                       Score(Case, result, work.edits, green), Correct(result)))
  BY DEF Verify
<1> DEFINE outcome == Outcome(Case, result, work.edits, green)
           score == Score(Case, result, work.edits, green)
           answer == IF result = None THEN None ELSE [result EXCEPT !.session = 0]
           r == Report(root, outcome, score, Correct(result))
<1>3. /\ r.outcome = outcome /\ r.score = score /\ r.correct = Correct(result)
      /\ r.held = device'[Case.board] /\ r.edits = work.edits /\ r.answer = answer
  BY DEF Report
<1>4. File(r)
  BY <1>2
<1>5. /\ score \in 0 .. 100
      /\ result # None /\ score >= 85 => ~result.recovered /\ result.status # "blocked"
  BY ScoreFacts
<1>6. result # None => /\ answer # None /\ answer.correct = result.correct
                       /\ answer.recovered = result.recovered
                       /\ answer.status = result.status
  <2> SUFFICES ASSUME result # None
               PROVE  /\ answer # None /\ answer.correct = result.correct
                      /\ answer.recovered = result.recovered
                      /\ answer.status = result.status
    OBVIOUS
  <2>1. result \in Answers(0 .. Len(dirs))
    BY DEF TypeInv, Results
  <2>2. answer = [result EXCEPT !.session = 0]
    OBVIOUS
  <2>3. answer \in Answers(Nat) /\ answer.correct = result.correct
        /\ answer.recovered = result.recovered /\ answer.status = result.status
    BY <2>1, <2>2 DEF Answers
  <2> QED
    BY <2>3, BenchmarkAssumption
<1>7. /\ outcome \in Outcomes
      /\ outcome = "full_success" =>
           score >= 85 /\ Correct(result) /\ Intervened(Case, work.edits) /\ green
  BY DEF Outcome, Outcomes
<1>8. Correct(result) => result # None /\ result.correct
  BY DEF Correct
<1> HIDE DEF outcome, score, answer, r
<1>9. ASSUME outcome = "full_success"
      PROVE  /\ r.held.good
             /\ IF Case.kind = "injected_bug"
                THEN r.held.case = n /\ r.edits = {"allowed"}
                ELSE r.held.case \in {0, n} /\ r.edits = {}
  <2>1. SmokePasses(Case.board, work.artifact) /\ Intervened(Case, work.edits)
    BY <1>2, <1>7, <1>9
  <2>2. Case.board \in Boards /\ work.artifact \in Images \cup {None}
    BY <1>1, CaseFacts DEF TypeInv, WorkType
  <2>3. work.artifact.good /\ device'[Case.board] = work.artifact
    BY <2>1, <2>2, SmokeType
  <2>4. /\ work.artifact.case \in {0, n}
        /\ Case.kind = "injected_bug" => work.artifact.case = n
    BY <1>1 DEF FiledInv, Running
  <2>5. IF Case.kind = "injected_bug" THEN work.edits = {"allowed"} ELSE work.edits = {}
    BY <2>1 DEF Intervened, Allowed
  <2> QED
    BY <1>3, <2>3, <2>4, <2>5
<1> QED
  BY <1>3, <1>4, <1>5, <1>6, <1>7, <1>8, <1>9

\* A case is filed with the board and workspace as they are.
LEMMA ReportFiled ==
  ASSUME TypeInv, SessionInv, FiledInv, n <= Len(Suite), UNCHANGED campaign, NEW r, File(r),
         r.outcome \in Outcomes /\ r.score \in 0 .. 100,
         r.correct => r.answer # None /\ r.answer.correct,
         r.outcome = "full_success" =>
           /\ r.held.good
           /\ IF Case.kind = "injected_bug"
              THEN r.held.case = n /\ r.edits = {"allowed"}
              ELSE r.held.case \in {0, n} /\ r.edits = {}
           /\ r.answer # None /\ r.answer.correct
           /\ ~r.answer.recovered /\ r.answer.status # "blocked"
  PROVE  \A i \in DOMAIN reports' : Filed(i)'
<1>1. PICK S : reports \in Seq(S)
  BY DEF SessionInv
<1>2. reports \in Seq(S \cup {r})
  BY <1>1, SeqMonotonic
<1>3. reports' = Append(reports, r)
  BY DEF File
<1>4. /\ reports' \in Seq(S \cup {r}) /\ Len(reports') = Len(reports) + 1
      /\ reports'[Len(reports) + 1] = r
      /\ \A i \in 1 .. Len(reports) : reports'[i] = reports[i]
  BY <1>2, <1>3, AppendProperties
<1>5. Len(reports) \in Nat /\ DOMAIN reports' = 1 .. Len(reports) + 1
      /\ DOMAIN reports = 1 .. Len(reports) /\ Len(reports) + 1 = n
  BY <1>1, <1>4, LenProperties DEF SessionInv
<1>6. Suite' = Suite
  BY DEF Suite
<1>7. ASSUME NEW i \in DOMAIN reports PROVE Filed(i)'
  <2>1. reports'[i] = reports[i] /\ Filed(i)
    BY <1>4, <1>5 DEF FiledInv
  <2> QED
    BY <1>6, <2>1 DEF Filed, Earned
<1>8. ASSUME NEW i \in DOMAIN reports', i = n PROVE Filed(i)'
  <2>1. reports'[i] = r /\ Case = Suite[i]
    BY <1>4, <1>5, <1>8 DEF Case
  <2> QED
    BY <1>6, <1>8, <2>1 DEF Filed, Earned
<1>9. DOMAIN reports' = DOMAIN reports \cup {n}
  BY <1>5
<1> QED
  BY <1>7, <1>8, <1>9

LEMMA FiledInit == Init => FiledInv
  BY DEF Init, FiledInv, Running

LEMMA FiledStep == TypeInv /\ SessionInv /\ FiledInv /\ [Next]_vars => FiledInv'
<1> SUFFICES ASSUME TypeInv, SessionInv, FiledInv, [Next]_vars PROVE FiledInv'
  OBVIOUS
<1> USE DEF progress, preflights, sessions, verdicts
<1>0. CaseInv /\ (step \in Running => n <= Len(Suite))
  BY DEF TypeInv, CaseInv
<1>a. UNCHANGED campaign => UNCHANGED Suite
  BY DEF Suite
<1>b. UNCHANGED <<reports, campaign>> => \A i \in DOMAIN reports' : Filed(i)'
  BY <1>a DEF FiledInv, Filed, Earned
<1>c. UNCHANGED <<dirs, campaign>> => \A s \in DOMAIN dirs' : dirs'[s].during \in DOMAIN Suite'
  BY <1>a DEF FiledInv
\* What does not touch the workspace, the case or the reports.
<1>d. ASSUME UNCHANGED <<campaign, n, reports, work, dirs>>, step \in Running \/ step' \notin Running
      PROVE  FiledInv'
  BY <1>a, <1>b, <1>c, <1>d DEF FiledInv, Case
<1>1. CASE UNCHANGED vars
  BY <1>1, <1>d DEF vars
<1>2. CASE Prepare
  <2>1. /\ n <= Len(Suite) /\ work' = Workspace /\ UNCHANGED <<campaign, n, reports, dirs>>
    BY <1>2 DEF Prepare, Raise, GoTo
  <2>2. /\ Workspace.artifact.case \in {0, n}
        /\ Case.kind = "injected_bug" => Workspace.artifact.case = n
    BY DEF Workspace, Image, Reference
  <2> QED
    BY <1>a, <1>b, <1>c, <2>1, <2>2 DEF FiledInv, Case
<1>3. CASE Preflight
  BY <1>3, <1>d DEF Preflight, Raise, GoTo, Running
<1>4. CASE PrepareTarget
  BY <1>4, <1>d DEF PrepareTarget, Raise, GoTo, Running
<1>5. CASE Flash \/ BenchFails \/ BenchRepaired
  BY <1>5, <1>d DEF Flash, BenchFails, BenchRepaired, runnerWaits
<1>6. CASE Edit \/ Build
  <2>1. step = "agent" /\ UNCHANGED <<campaign, n, reports, dirs, step>>
    BY <1>6 DEF Edit, Build, runnerWaits
  <2>2. work'.artifact # None =>
          work'.artifact.case = n \/ work'.artifact = work.artifact
    <3>1. CASE Edit
      BY <3>1 DEF Edit, TypeInv, WorkType
    <3>2. CASE Build
      <4>1. \/ work' = [work EXCEPT !.artifact = Image(n, work.source)]
            \/ work' = [work EXCEPT !.artifact = None]
        BY <3>2 DEF Build
      <4>2. work \in WorkType
        BY DEF TypeInv
      <4>3. work'.artifact \in {Image(n, work.source), None}
        BY <4>1, <4>2 DEF WorkType
      <4> QED
        BY <4>3 DEF Image
    <3> QED
      BY <1>6, <3>1, <3>2
  <2> QED
    BY <1>a, <1>b, <1>c, <2>1, <2>2 DEF FiledInv, Case, Running
<1>7. CASE Connect \/ Stranger
  <2>1. n <= Len(Suite) /\ UNCHANGED <<campaign, n, reports, work, step>>
    BY <1>0, <1>7 DEF Connect, Stranger, runnerWaits, Running
  <2>2. PICK own \in BOOLEAN : dirs' = Append(dirs, [during |-> n, own |-> own])
    BY <1>7 DEF Connect, Stranger
  <2>3. dirs \in Seq(Entry) /\ [during |-> n, own |-> own] \in Entry
    BY DEF SessionInv, Entry
  <2>4. \A s \in DOMAIN dirs' :
          (s \in DOMAIN dirs /\ dirs'[s] = dirs[s]) \/ dirs'[s].during = n
    BY <2>2, <2>3, AppendProperties, LenProperties
  <2>5. n \in DOMAIN Suite
    BY <1>0, <2>1, CaseFacts
  <2> QED
    BY <1>a, <1>b, <2>1, <2>4, <2>5 DEF FiledInv, Case
<1>8. CASE CodexEnds \/ TurnkeyEnds
  BY <1>8, <1>d DEF CodexEnds, TurnkeyEnds, Raise, GoTo, Running
<1>9. CASE Unattributed
  <2>1. /\ step = "verify" /\ UNCHANGED <<campaign, dirs>>
        /\ File(Report(root, "fail", 0, FALSE))
    BY <1>9 DEF Unattributed, Leave
  <2>2. \A i \in DOMAIN reports' : Filed(i)'
    BY <1>0, <2>1, ReportFiled DEF Report, Outcomes, Running
  <2>3. step' = "prepare"
    BY <2>1 DEF File
  <2> QED
    BY <1>c, <2>1, <2>2, <2>3 DEF FiledInv, Running
<1>10. CASE Verify
  <2>1. step = "verify" /\ UNCHANGED <<campaign, dirs>> /\ n <= Len(Suite)
    BY <1>0, <1>10 DEF Verify, Leave, Running
  <2>2. CASE work.artifact = None
    <3>1. Raise
      BY <1>10, <2>2 DEF Verify
    <3> QED
      BY <1>b, <1>c, <2>1, <3>1 DEF FiledInv, Raise, Running
  <2>3. CASE work.artifact # None
    <3>1. (\A i \in DOMAIN reports' : Filed(i)') /\ step' = "prepare"
      BY <1>10, <2>1, <2>3, VerifiedReport, ReportFiled DEF File
    <3> QED
      BY <1>c, <2>1, <3>1 DEF FiledInv, Running
  <2> QED
    BY <2>2, <2>3
<1>11. CASE Conclude
  BY <1>11, <1>d DEF Conclude, Running
<1> QED
  BY <1>1, <1>2, <1>3, <1>4, <1>5, <1>6, <1>7, <1>8, <1>9, <1>10, <1>11 DEF Next

LEMMA Reported == Spec => [](SessionInv /\ TypeInv /\ FiledInv)
  BY Types, FiledInit, FiledStep, PTL DEF Spec

\* A full success is earned: the board holds a working image of that very case, the
\* sources differ exactly where they may, and the diagnosis is right, without a block
\* or a recover (_score_case, _run_final_verification).
THEOREM FullSuccessIsEarned == Spec => []FullSuccessEarned
<1>1. FiledInv => FullSuccessEarned
  BY DEF FiledInv, Filed, FullSuccessEarned, Full
<1> QED
  BY <1>1, Reported, PTL

----------------------------------------------------------------------------
(* The verdict.  R11 comes to a case only after its board's smoke test.     *)

SmokedInv ==
  /\ preflight \in [Boards -> {"unknown", "passed", "failed"}]
  /\ smoked \subseteq Boards
  /\ \A b \in Boards : preflight[b] = "passed" => b \in smoked
  /\ campaign.runner = "R11" =>
       /\ \A i \in DOMAIN Suite : i < n => Suite[i].board \in smoked
       /\ step \in {"target", "agent", "verify"} => Case.board \in smoked

LEMMA SmokedInit == Init => SmokedInv
<1> SUFFICES ASSUME Init PROVE SmokedInv
  OBVIOUS
<1>1. DOMAIN Suite = 1 .. Len(Suite) /\ Len(Suite) \in Nat
  BY SuiteFacts DEF Init
<1> QED
  BY <1>1 DEF Init, SmokedInv

LEMMA SmokedStep ==
  TypeInv /\ SmokedInv /\ [Next]_vars => SmokedInv'
<1> SUFFICES ASSUME TypeInv, SmokedInv, [Next]_vars PROVE SmokedInv'
  OBVIOUS
<1> USE DEF progress, preflights
<1> DEFINE Ready == {"target", "agent", "verify"}
<1>0. CaseInv /\ campaign \in Campaigns
  BY DEF TypeInv, CaseInv
<1>a. UNCHANGED campaign => UNCHANGED Suite
  BY DEF Suite
<1>b. ASSUME UNCHANGED <<campaign, n, preflights>>, step \in Ready \/ step' \notin Ready
      PROVE  SmokedInv'
  BY <1>a, <1>b DEF SmokedInv, Case
<1>1. CASE UNCHANGED vars
  BY <1>1, <1>b DEF vars
<1>2. CASE Prepare
  <2>1. CASE campaign.runner = "R11"
    BY <1>2, <1>b, <2>1 DEF Prepare, Raise, GoTo
  <2>2. CASE campaign.runner # "R11"
    BY <1>2, <2>2 DEF Prepare, SmokedInv
  <2> QED
    BY <2>1, <2>2
<1>3. CASE Preflight
  <2>1. UNCHANGED <<campaign, n>> /\ step = "preflight" /\ Case.board \in Boards
    BY <1>0, <1>3, CaseFacts DEF Preflight, Raise, GoTo, CaseInv, Running
  <2>2. CASE Cached(Case.board) = "passed" /\ UNCHANGED preflights
    BY <1>a, <2>1, <2>2 DEF SmokedInv, Case, Cached
  <2>3. CASE /\ preflight' = [preflight EXCEPT ![Case.board] = "passed"]
             /\ smoked' = smoked \cup {Case.board}
    BY <1>a, <2>1, <2>3 DEF SmokedInv, Case
  <2>4. CASE /\ preflight' = [preflight EXCEPT ![Case.board] = "failed"]
             /\ UNCHANGED smoked /\ Raise
    BY <1>a, <2>1, <2>4 DEF SmokedInv, Raise
  <2> QED
    BY <1>3, <2>2, <2>3, <2>4 DEF Preflight
<1>4. CASE PrepareTarget
  BY <1>4, <1>b DEF PrepareTarget, Raise, GoTo
<1>5. CASE Edit \/ Build \/ Flash \/ Connect \/ Stranger \/ BenchFails \/ BenchRepaired
  <2>1. UNCHANGED <<campaign, n, step, preflights>>
    BY <1>5 DEF Edit, Build, Flash, Connect, Stranger, BenchFails, BenchRepaired, runnerWaits
  <2> QED
    BY <2>1, <1>b
<1>6. CASE CodexEnds \/ TurnkeyEnds
  BY <1>6, <1>b DEF CodexEnds, TurnkeyEnds, Raise, GoTo
<1>7. CASE Unattributed \/ Verify
  <2>1. step = "verify" /\ UNCHANGED <<campaign, preflights>>
    BY <1>7 DEF Unattributed, Verify, Leave
  <2>2. (step' = "over" /\ n' = n) \/ (step' = "prepare" /\ n' = n + 1)
    <3>1. CASE Unattributed
      BY <3>1 DEF Unattributed, File
    <3>2. CASE Verify /\ work.artifact = None
      BY <3>2 DEF Verify, Raise
    <3>3. CASE Verify /\ work.artifact # None
      BY <3>3 DEF Verify, File
    <3> QED
      BY <1>7, <3>1, <3>2, <3>3
  <2>3. DOMAIN Suite \subseteq Int /\ n \in Int
    BY <1>0, SuiteFacts DEF CaseInv
  <2>4. ASSUME campaign.runner = "R11", NEW i \in DOMAIN Suite, i < n'
        PROVE  Suite[i].board \in smoked
    <3>1. i < n \/ i = n
      BY <2>2, <2>3, <2>4
    <3> QED
      BY <2>1, <2>4, <3>1 DEF SmokedInv, Case
  <2> QED
    BY <1>a, <2>1, <2>2, <2>4 DEF SmokedInv
<1>8. CASE Conclude
  BY <1>8, <1>b DEF Conclude
<1> QED
  BY <1>1, <1>2, <1>3, <1>4, <1>5, <1>6, <1>7, <1>8 DEF Next

\* What exit code 0 stands for.
Evidence ==
  LET bugs == OfKind("injected_bug")
      fixed == {i \in bugs : Earned(i)}
  IN /\ DOMAIN reports = DOMAIN Suite
     /\ campaign.runner = "R11" =>
          \A i \in DOMAIN Suite : Suite[i].board \in smoked
     /\ campaign.single => Earned(1)
     /\ ~campaign.single /\ (campaign.pilot \/ campaign.runner = "R12") =>
          /\ \A i \in OfKind("known_good") : Earned(i)
          /\ \A i \in OfKind("observability_fault") : reports[i].answer.correct
     /\ campaign.pilot =>
          \A b \in SuiteBoards : \E i \in fixed : Suite[i].board = b
     /\ ~campaign.single /\ campaign.runner = "R12" =>
          fixed # {} /\ 4 * Cardinality(fixed) >= 3 * Cardinality(bugs)

\* At least one fix is needed, and three of four.
LEMMA NeededFacts ==
  ASSUME NEW bugs \in Nat
  PROVE  /\ NeededFixes(bugs) \in Int /\ NeededFixes(bugs) >= 1
         /\ 4 * NeededFixes(bugs) >= 3 * bugs
<1> DEFINE q == (3 * bugs + 3) \div 4
           m == Max({1, q})
<1>1. q \in Nat /\ 4 * q >= 3 * bugs
  OBVIOUS
<1> HIDE DEF q
<1>2. \E x \in {1, q} : \A y \in {1, q} : x >= y
  BY <1>1
<1>3. m \in {1, q} /\ m >= 1 /\ m >= q
  BY <1>2 DEF Max
<1>4. NeededFixes(bugs) = m
  BY DEF NeededFixes, q
<1> HIDE DEF m
<1> QED
  BY <1>1, <1>3, <1>4

LEMMA AcceptedFacts ==
  ASSUME TypeInv, SessionInv, FiledInv, SmokedInv, n > Len(Suite), Accepted
  PROVE  Evidence
<1> DEFINE bugs == OfKind("injected_bug")
           fixed == {i \in bugs : Earned(i)}
<1>0. campaign \in Campaigns /\ n = Len(Suite) + 1 /\ Len(Suite) \in Nat
      /\ DOMAIN Suite = 1 .. Len(Suite)
  BY SuiteFacts DEF TypeInv, CaseInv
<1>1. DOMAIN reports = DOMAIN Suite
  BY <1>0, LenProperties DEF SessionInv
<1>2. \A i \in Full : Earned(i)
  BY DEF Full, FiledInv, Filed
<1>3. ASSUME campaign.runner = "R11", NEW i \in DOMAIN Suite
      PROVE  Suite[i].board \in smoked
  BY <1>0, <1>3 DEF SmokedInv
<1>4. ASSUME campaign.single PROVE Earned(1)
  BY <1>2, <1>4 DEF Accepted
<1>5. \A i \in DOMAIN Suite : reports[i].correct => reports[i].answer.correct
  BY <1>1 DEF FiledInv, Filed
<1>6. ASSUME campaign.pilot
      PROVE  /\ \A i \in OfKind("known_good") : Earned(i)
             /\ \A i \in OfKind("observability_fault") : reports[i].answer.correct
             /\ \A b \in SuiteBoards : \E i \in fixed : Suite[i].board = b
  <2>1. AcceptedByR11
    BY <1>0, <1>6, BenchmarkAssumption DEF Accepted
  <2> QED
    BY <1>2, <1>5, <1>6, <2>1 DEF AcceptedByR11, OfKind
<1>7. ASSUME ~campaign.single, campaign.runner = "R12"
      PROVE  /\ \A i \in OfKind("known_good") : Earned(i)
             /\ \A i \in OfKind("observability_fault") : reports[i].answer.correct
             /\ fixed # {} /\ 4 * Cardinality(fixed) >= 3 * Cardinality(bugs)
  <2>1. AcceptedByR12
    BY <1>7 DEF Accepted
  <2>2. \A i \in OfKind("known_good") : Earned(i)
    BY <1>2, <2>1 DEF AcceptedByR12
  <2>3. \A i \in OfKind("observability_fault") : reports[i].answer.correct
    BY <1>5, <2>1 DEF AcceptedByR12, OfKind
  <2>4. IsFiniteSet(bugs) /\ IsFiniteSet(fixed)
    <3>1. IsFiniteSet(1 .. Len(Suite))
      BY <1>0, FS_Interval
    <3>2. bugs \subseteq 1 .. Len(Suite) /\ fixed \subseteq 1 .. Len(Suite)
      BY <1>0 DEF OfKind
    <3> QED
      BY <3>1, <3>2, FS_Subset
  <2>5. Cardinality(bugs) \in Nat /\ Cardinality(fixed) \in Nat
    BY <2>4, FS_CardinalityType
  <2>6. Cardinality(Full \cap bugs) \in Nat /\ Cardinality(Full \cap bugs) <= Cardinality(fixed)
    <3>1. Full \cap bugs \subseteq fixed
      BY <1>2
    <3> QED
      BY <2>4, <3>1, FS_Subset, FS_CardinalityType
  <2>7. Cardinality(Full \cap bugs) >= NeededFixes(Cardinality(bugs))
    BY <2>1 DEF AcceptedByR12
  <2>8. \A a, b, c, d \in Int :
          a >= b /\ b >= c /\ c >= 1 /\ 4 * c >= 3 * d => a >= 1 /\ 4 * a >= 3 * d
    OBVIOUS
  <2>9. /\ Cardinality(fixed) >= 1
        /\ 4 * Cardinality(fixed) >= 3 * Cardinality(bugs)
    <3>1. /\ NeededFixes(Cardinality(bugs)) \in Int /\ NeededFixes(Cardinality(bugs)) >= 1
          /\ 4 * NeededFixes(Cardinality(bugs)) >= 3 * Cardinality(bugs)
      BY <2>5, NeededFacts
    <3> QED
      BY <2>5, <2>6, <2>7, <2>8, <3>1
  <2>10. fixed # {}
    BY <2>9, FS_EmptySet
  <2> QED
    BY <2>2, <2>3, <2>9, <2>10
<1> QED
  BY <1>1, <1>3, <1>4, <1>6, <1>7 DEF Evidence

LEMMA Always ==
  Spec => [](SessionInv /\ TypeInv /\ FiledInv /\ SmokedInv /\ AcceptedOnEvidence)
<1>1. AcceptedOnEvidence <=> (exitCode = 0 => Evidence)
  BY DEF AcceptedOnEvidence, Evidence
<1>2. Init => AcceptedOnEvidence
  BY <1>1, BenchmarkAssumption DEF Init
<1>3. TypeInv /\ SessionInv /\ FiledInv /\ SmokedInv /\ AcceptedOnEvidence /\ [Next]_vars
      => AcceptedOnEvidence'
  <2> SUFFICES ASSUME TypeInv, SessionInv, FiledInv, SmokedInv, AcceptedOnEvidence,
                      [Next]_vars, exitCode' = 0
               PROVE  Evidence'
    BY DEF AcceptedOnEvidence, Evidence
  <2> USE DEF progress, preflights
  <2>1. ASSUME UNCHANGED <<campaign, reports, smoked>>, Evidence
        PROVE  Evidence'
    <3>1. Suite' = Suite /\ UNCHANGED <<campaign, reports, smoked>>
      BY <2>1 DEF Suite
    <3>2. \A kind : OfKind(kind)' = OfKind(kind)
      BY <3>1 DEF OfKind
    <3>3. SuiteBoards' = SuiteBoards
      BY <3>1 DEF SuiteBoards
    <3>4. \A i : Earned(i)' <=> Earned(i)
      BY <3>1 DEF Earned
    <3>5. {i \in OfKind("injected_bug") : Earned(i)}'
            = {i \in OfKind("injected_bug") : Earned(i)}
      BY <3>2, <3>4
    <3> QED
      BY <2>1, <3>1, <3>2, <3>3, <3>4, <3>5 DEF Evidence
  <2>2. CASE Conclude
    <3>1. Accepted /\ n > Len(Suite) /\ UNCHANGED <<campaign, reports, smoked>>
      BY <2>2 DEF Conclude
    <3> QED
      BY <3>1, <2>1, AcceptedFacts
  <2>3. CASE UNCHANGED vars
    BY <1>1, <2>1, <2>3 DEF vars
  <2>4. CASE Next /\ ~Conclude
    <3>1. exitCode' = exitCode \/ exitCode' = 1
      <4>1. CASE Verify
        BY <4>1 DEF Verify, Raise, File
      <4>2. CASE Prepare \/ Preflight \/ PrepareTarget \/ CodexEnds \/ TurnkeyEnds \/ Unattributed
        BY <4>2 DEF Prepare, Preflight, PrepareTarget, CodexEnds, TurnkeyEnds,
                    Unattributed, Raise, GoTo, File
      <4>3. CASE Edit \/ Build \/ Flash \/ Connect \/ Stranger \/ BenchFails \/ BenchRepaired
        BY <4>3 DEF Edit, Build, Flash, Connect, Stranger, BenchFails, BenchRepaired,
                    runnerWaits
      <4> QED
        BY <2>4, <4>1, <4>2, <4>3 DEF Next
    <3>2. step # "over"
      BY <2>4, <3>1 DEF Next, Prepare, Preflight, PrepareTarget, CodexEnds, TurnkeyEnds,
                  Unattributed, Verify, Edit, Build, Flash, Connect, Stranger, BenchFails,
                  BenchRepaired
    <3>3. exitCode = None
      BY <3>2 DEF TypeInv
    <3> QED
      BY <3>1, <3>3, BenchmarkAssumption
  <2> QED
    BY <2>2, <2>3, <2>4
<1> QED
  BY <1>2, <1>3, Reported, SmokedInit, SmokedStep, PTL DEF Spec

\* Exit code 0 stands for evidence: every case was run, R11 on boards whose smoke test
\* had passed, and enough of the cases are full successes that were earned
\* (_suite_acceptance, _ensure_stage1_preflight).
THEOREM AcceptanceHasEvidence == Spec => []AcceptedOnEvidence
  BY Always, PTL

\* Every variable keeps its type: the directory a case is filed under exists, scores are
\* percentages, and no more goes wrong than the bound allows.
THEOREM TypeCorrect == Spec => []TypeOK
<1>1. SessionInv /\ TypeInv /\ FiledInv /\ SmokedInv => TypeOK
  <2> SUFFICES ASSUME SessionInv, TypeInv, FiledInv, SmokedInv PROVE TypeOK
    OBVIOUS
  <2>1. /\ step \in {"prepare", "preflight", "target", "agent", "verify", "over"}
        /\ n \in 1 .. Len(Suite) + 1
        /\ bench \in [Boards -> SUBSET Parts] /\ device \in [Boards -> Images]
        /\ result \in Results \cup {None} /\ exitCode \in {None, 0, 1}
        /\ slips \in 0 .. MaxSlips[Len(Suite)]
    BY DEF TypeInv, CaseInv, Running
  <2>2. work.source \in BOOLEAN /\ work.edits \subseteq Places
        /\ work.artifact \in Images \cup {None}
    BY DEF TypeInv, WorkType
  <2>3. Len(dirs) \in Nat /\ DOMAIN dirs = 1 .. Len(dirs)
    BY LenProperties DEF SessionInv
  <2>4. before \in 0 .. Len(dirs) /\ seen \subseteq DOMAIN dirs /\ root \in 0 .. Len(dirs)
    BY <2>3 DEF SessionInv, NewDirs
  <2>5. \A i \in DOMAIN reports :
          /\ reports[i].outcome \in Outcomes /\ reports[i].score \in 0 .. 100
          /\ reports[i].session \in 0 .. Len(dirs)
    BY <2>3 DEF SessionInv, FiledInv, Filed
  <2> QED
    BY <2>1, <2>2, <2>4, <2>5 DEF TypeOK, FiledInv, SmokedInv
<1> QED
  BY <1>1, Always, PTL
=============================================================================
