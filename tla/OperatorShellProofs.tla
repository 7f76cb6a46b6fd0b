-------------------------- MODULE OperatorShellProofs --------------------------
(***************************************************************************)
(* Theorems about OperatorShell, for any boards, cases and number of runs. *)
(***************************************************************************)
EXTENDS OperatorShell, TLAPS, SequenceTheorems

----------------------------------------------------------------------------
(* Types and the sequence of runs.  Every step adds runs at the end or none. *)

Keeps(q) ==
  /\ q.task \in {"verify", "diagnose"} => ~Edits(q)
  /\ q.task = "repair" => Edits(q)

Repeats(q, first) ==
  \A field \in DOMAIN q :
    \/ q[field] = first[field]
    \/ field = "timeouts" /\ q[field] = "default"
    \/ field = "limits" /\ q.task \in Cases /\ q[field] = "default"
    \/ field = "model" /\ first[field] = None

\* What a run may be that is added to the directory.
Good(r) ==
  /\ r \in Run /\ Keeps(r.asked) /\ CaseShape(r.asked)
  /\ r.rerunOf # 0 => /\ r.rerunOf \in DOMAIN runs /\ runs[r.rerunOf].saved
                      /\ Repeats(r.asked, runs[r.rerunOf].asked)

Adds(new) ==
  /\ new \in Seq(Run) /\ Len(runs) + Len(new) <= MaxRuns
  /\ \A n \in 1 .. Len(new) : Good(new[n])
  /\ runs' = runs \o new

RunsInv ==
  /\ runs \in Seq(Run) /\ Len(runs) <= MaxRuns
  /\ \A n \in DOMAIN runs : CaseShape(runs[n].asked)
  /\ GuidedRunsKeepTheirWord /\ RerunRepeats

LEMMA Added ==
  ASSUME RunsInv, NEW new, Adds(new)
  PROVE  /\ RunsInv' /\ Len(runs') = Len(runs) + Len(new)
         /\ Len(runs) \in Nat /\ Len(new) \in Nat
         /\ \A n \in 1 .. Len(runs) : runs'[n] = runs[n]
         /\ \A n \in 1 .. Len(new) : runs'[Len(runs) + n] = new[n]
<1>1. /\ runs \in Seq(Run) /\ new \in Seq(Run) /\ runs' = runs \o new
      /\ Len(runs) \in Nat /\ Len(new) \in Nat
  BY DEF RunsInv, Adds
<1>2. /\ runs' \in Seq(Run) /\ Len(runs') = Len(runs) + Len(new)
      /\ \A n \in 1 .. Len(runs') :
           runs'[n] = IF n <= Len(runs) THEN runs[n] ELSE new[n - Len(runs)]
  BY <1>1, ConcatProperties
<1>3. /\ \A n \in 1 .. Len(runs) : runs'[n] = runs[n]
      /\ \A n \in 1 .. Len(new) : runs'[Len(runs) + n] = new[n]
  <2>1. ASSUME NEW n \in 1 .. Len(runs)
        PROVE  runs'[n] = runs[n]
    BY <1>1, <1>2, n \in 1 .. Len(runs')
  <2>2. ASSUME NEW n \in 1 .. Len(new)
        PROVE  runs'[Len(runs) + n] = new[n]
    <3>1. Len(runs) + n \in 1 .. Len(runs') /\ ~(Len(runs) + n <= Len(runs))
          /\ (Len(runs) + n) - Len(runs) = n
      BY <1>1, <1>2
    <3> QED
      BY <1>2, <3>1
  <2> QED
    BY <2>1, <2>2
<1>4. \A n \in DOMAIN runs' :
        (n \in DOMAIN runs /\ runs'[n] = runs[n]) \/ (n > Len(runs) /\ Good(runs'[n]))
  <2> SUFFICES ASSUME NEW n \in 1 .. Len(runs'), ~(n <= Len(runs))
               PROVE  n > Len(runs) /\ Good(runs'[n])
    BY <1>1, <1>2, <1>3
  <2>1. n > Len(runs) /\ n - Len(runs) \in 1 .. Len(new)
        /\ runs'[n] = new[n - Len(runs)]
    BY <1>1, <1>2
  <2> QED
    BY <2>1 DEF Adds
<1>5. Len(runs') <= MaxRuns
  BY <1>2 DEF Adds
<1>6. (\A n \in DOMAIN runs : CaseShape(runs[n].asked))' /\ GuidedRunsKeepTheirWord'
  BY <1>4 DEF RunsInv, GuidedRunsKeepTheirWord, Good, Keeps
<1>7. RerunRepeats'
  <2> SUFFICES ASSUME NEW n \in DOMAIN runs', runs'[n].rerunOf # 0
               PROVE  /\ runs'[n].rerunOf < n
                      /\ runs'[runs'[n].rerunOf].saved
                      /\ Repeats(runs'[n].asked, runs'[runs'[n].rerunOf].asked)
    BY DEF RerunRepeats, Repeats
  <2>1. CASE n \in DOMAIN runs /\ runs'[n] = runs[n]
    <3>1. /\ runs[n].rerunOf < n /\ runs[runs[n].rerunOf].saved
          /\ Repeats(runs[n].asked, runs[runs[n].rerunOf].asked)
      BY <2>1 DEF RunsInv, RerunRepeats, Repeats
    <3>2. runs[n].rerunOf \in Nat
      <4>1. runs[n] \in Run
        BY <1>1, <2>1, ElementOfSeq
      <4>2. runs[n].rerunOf \in 0 .. MaxRuns
        BY <4>1 DEF Run
      <4> QED
        BY <4>2, ShellAssumption
    <3>3. runs[n].rerunOf \in 1 .. Len(runs)
      BY <1>1, <2>1, <3>1, <3>2
    <3> QED
      BY <1>3, <2>1, <3>1, <3>3
  <2>2. CASE n > Len(runs) /\ Good(runs'[n])
    <3>1. /\ runs'[n].rerunOf \in 1 .. Len(runs)
          /\ runs[runs'[n].rerunOf].saved
          /\ Repeats(runs'[n].asked, runs[runs'[n].rerunOf].asked)
      BY <1>1, <2>2 DEF Good
    <3> QED
      BY <1>1, <1>2, <1>3, <2>2, <3>1
  <2> QED
    BY <1>4, <2>1, <2>2
<1> QED
  BY <1>1, <1>2, <1>3, <1>5, <1>6, <1>7 DEF RunsInv

----------------------------------------------------------------------------
(* Requests.                                                                *)

ContextTypes ==
  /\ context \in [board : Boards \cup Typos \cup {None},
                  provider : Providers \cup {None}, model : Models \cup {None},
                  artifact : Artifacts \cup {None},
                  workspace : Workspaces \cup {None},
                  build : BuildCommands \cup {None}, last : 0 .. MaxRuns]
  /\ environment \in [provider : Providers \cup {None},
                      model : Models \cup {None}]

LEMMA Chosen ==
  ASSUME ContextTypes, NEW p \in Providers \cup {None}, NEW m \in Models \cup {None}
  PROVE  /\ ChosenProvider(p) \in Providers /\ ChosenModel(m) \in Models \cup {None}
         /\ p # None => ChosenProvider(p) = p
         /\ m # None => ChosenModel(m) = m
<1> USE ShellAssumption DEF ContextTypes
<1> DEFINE want == IF p # None THEN p
                   ELSE IF environment.provider # None THEN environment.provider
                   ELSE DefaultProvider
<1>1. want \in Providers
  OBVIOUS
<1>2. ChosenProvider(p) = want
  BY <1>1 DEF ChosenProvider
<1> QED
  BY <1>1, <1>2 DEF ChosenModel

LEMMA FreeformGood ==
  ASSUME ContextTypes, context.board # None, NEW task \in Tasks,
         task = "repair" => context.workspace # None /\ context.build # None
  PROVE  /\ FreeformRequest(task) \in Request
         /\ Keeps(FreeformRequest(task)) /\ CaseShape(FreeformRequest(task))
         /\ FreeformRequest(task).task = task
<1> USE ShellAssumption DEF ContextTypes
<1>1. /\ ChosenProvider(context.provider) \in Providers
      /\ ChosenModel(context.model) \in Models \cup {None}
  BY Chosen
<1>2. FreeformRequest(task) \in Request
  BY <1>1 DEF FreeformRequest, Request
<1>3. Keeps(FreeformRequest(task))
  BY DEF FreeformRequest, Keeps, Edits, UsesWorkspace
<1> QED
  BY <1>2, <1>3 DEF FreeformRequest, CaseShape

LEMMA CaseGood ==
  ASSUME ContextTypes, NEW case \in Cases,
         NEW p \in Providers \cup {None}, NEW m \in Models \cup {None}
  PROVE  /\ CaseRequest(case, p, m) \in Request
         /\ Keeps(CaseRequest(case, p, m)) /\ CaseShape(CaseRequest(case, p, m))
         /\ CaseRequest(case, p, m).task = case
<1>1. ChosenProvider(p) \in Providers /\ ChosenModel(m) \in Models \cup {None}
  BY Chosen
<1>2. CaseRequest(case, p, m) \in Request
  BY <1>1 DEF CaseRequest, Request
<1>3. case \notin {"verify", "diagnose", "repair"}
  BY ShellAssumption DEF Tasks, GuidedTasks
<1> QED
  BY <1>2, <1>3 DEF CaseRequest, Keeps, CaseShape

LEMMA RerunGood ==
  ASSUME ContextTypes, NEW q \in Request, Keeps(q), CaseShape(q)
  PROVE  /\ RerunRequest(q) \in Request /\ Keeps(RerunRequest(q))
         /\ CaseShape(RerunRequest(q)) /\ Repeats(RerunRequest(q), q)
         /\ RerunRequest(q).task = q.task
<1>1. /\ ChosenModel(q.model) \in Models \cup {None}
      /\ ChosenProvider(q.provider) = q.provider
      /\ q.model # None => ChosenModel(q.model) = q.model
  BY Chosen, ShellAssumption DEF Request
<1>2. CASE q.task \in Cases
  <2>1. RerunRequest(q) = CaseRequest(q.task, q.provider, q.model)
    BY <1>2 DEF RerunRequest
  <2>2. /\ CaseRequest(q.task, q.provider, q.model) \in Request
        /\ Keeps(CaseRequest(q.task, q.provider, q.model))
    BY <1>2, CaseGood, ShellAssumption DEF Request
  <2>3. /\ q.board = None /\ q.artifact = Reference
        /\ q.workspace = None /\ q.build = None
    BY <1>2 DEF CaseShape
  <2>4. Repeats(RerunRequest(q), q)
    BY <1>1, <1>2, <2>1, <2>3 DEF Repeats, CaseRequest
  <2> QED
    BY <2>1, <2>2, <2>4 DEF CaseRequest, CaseShape
<1>3. CASE q.task \notin Cases
  <2>1. RerunRequest(q)
          = [q EXCEPT !.model = ChosenModel(q.model), !.timeouts = "default"]
    BY <1>3 DEF RerunRequest
  <2>2. RerunRequest(q) \in Request /\ Keeps(RerunRequest(q))
    BY <1>1, <2>1, ZenonT(40) DEF Request, Keeps, Edits
  <2>3. Repeats(RerunRequest(q), q)
    BY <1>1, <1>3, <2>1 DEF Repeats, Request
  <2> QED
    BY <1>3, <2>1, <2>2, <2>3 DEF CaseShape, Request
<1> QED
  BY <1>2, <1>3

----------------------------------------------------------------------------
(* The session that the renderer knows is the newest of the shell's own.    *)

NewestIs(n) ==
  \/ n = 0 /\ Own = {}
  \/ n \in Own /\ \A m \in Own : m <= n

LEMMA NewestUnique ==
  ASSUME NEW S \in SUBSET Nat, NEW n,
         (n = 0 /\ S = {}) \/ (n \in S /\ \A m \in S : m <= n)
  PROVE  (IF S = {} THEN 0 ELSE CHOOSE k \in S : \A m \in S : m <= k) = n
<1>1. CASE n \in S /\ \A m \in S : m <= n
  <2> DEFINE k == CHOOSE l \in S : \A m \in S : m <= l
  <2>1. k \in S /\ \A m \in S : m <= k
    BY <1>1
  <2> HIDE DEF k
  <2>2. k <= n /\ n <= k /\ k \in Nat /\ n \in Nat
    BY <1>1, <2>1
  <2>3. k = n
    BY <2>2
  <2> QED
    BY <1>1, <2>3 DEF k
<1> QED
  BY <1>1

LEMMA OwnAdded ==
  ASSUME RunsInv, NEW new, Adds(new)
  PROVE  Own' = Own \cup {Len(runs) + n : n \in {m \in 1 .. Len(new) :
                                            new[m].own /\ new[m].session}}
<1>1. /\ runs' \in Seq(Run) /\ Len(runs') = Len(runs) + Len(new)
      /\ Len(runs) \in Nat /\ Len(new) \in Nat
      /\ \A n \in 1 .. Len(runs) : runs'[n] = runs[n]
      /\ \A n \in 1 .. Len(new) : runs'[Len(runs) + n] = new[n]
  BY Added DEF RunsInv
<1>2. DOMAIN runs = 1 .. Len(runs) /\ DOMAIN runs' = 1 .. Len(runs')
  BY <1>1 DEF RunsInv
<1>3. \A n \in DOMAIN runs' : n \in DOMAIN runs
          \/ \E m \in 1 .. Len(new) : n = Len(runs) + m
  <2> SUFFICES ASSUME NEW n \in DOMAIN runs', n \notin DOMAIN runs
               PROVE  n - Len(runs) \in 1 .. Len(new) /\ n = Len(runs) + (n - Len(runs))
    OBVIOUS
  <2> QED
    BY <1>1, <1>2
<1>4. \A m \in 1 .. Len(new) : Len(runs) + m \in DOMAIN runs'
  BY <1>1, <1>2
<1>5. \A n \in DOMAIN runs : n \in DOMAIN runs'
  BY <1>1, <1>2
<1> QED
  BY <1>1, <1>2, <1>3, <1>4, <1>5, ZenonT(40) DEF Own

ShellInv ==
  /\ ContextTypes /\ seen \in 0 .. MaxRuns
  /\ status \in {"open", "quit", "crashed"}
  /\ RunsInv
  /\ status = "open" => NewestIs(seen)

LEMMA InitShell == Init => ShellInv
<1> SUFFICES ASSUME Init PROVE ShellInv
  OBVIOUS
<1> USE ShellAssumption DEF Init
<1>1. ContextTypes
  BY DEF ContextTypes
<1>2. RunsInv
  BY DEF RunsInv, GuidedRunsKeepTheirWord, RerunRepeats
<1>3. NewestIs(0)
  BY DEF NewestIs, Own
<1> QED
  BY <1>1, <1>2, <1>3 DEF ShellInv

\* Only these three things happen to the runs and to what the renderer knows.
LEMMA Unmoved ==
  ASSUME ShellInv, UNCHANGED <<seen, runs>>, ContextTypes',
         status' \in {"open", "quit", "crashed"},
         status' = "open" => status = "open"
  PROVE  ShellInv'
<1>1. RunsInv'
  BY DEF ShellInv, RunsInv, GuidedRunsKeepTheirWord, RerunRepeats
<1>2. status' = "open" => NewestIs(seen)'
  BY DEF ShellInv, NewestIs, Own
<1> QED
  BY <1>1, <1>2 DEF ShellInv

LEMMA OneAdded ==
  ASSUME ShellInv, NEW r, Good(r), Len(runs) < MaxRuns, runs' = Append(runs, r)
  PROVE  /\ RunsInv' /\ Len(runs') = Len(runs) + 1 /\ runs'[Len(runs')] = r
         /\ Len(runs) \in Nat
         /\ r.own /\ r.session => /\ NewestIs(Len(runs))'
                                  /\ Len(runs) + 1 \in 0 .. MaxRuns
         /\ ~(r.own /\ r.session) => Own' = Own
<1>1. /\ runs \in Seq(Run) /\ r \in Run /\ <<r>> \in Seq(Run)
      /\ Len(<<r>>) = 1 /\ <<r>>[1] = r
      /\ Len(runs) \in Nat /\ MaxRuns \in Nat
  BY ShellAssumption DEF ShellInv, RunsInv, Good
<1>2. runs' = runs \o <<r>>
  BY <1>1, AppendIsConcat
<1>3. Adds(<<r>>)
  BY <1>1, <1>2 DEF Adds
<1>4. /\ RunsInv' /\ Len(runs') = Len(runs) + 1 /\ runs'[Len(runs) + 1] = r
  BY <1>1, <1>3, Added DEF ShellInv
<1>5. Own' = Own \cup {Len(runs) + n : n \in {m \in 1 .. 1 : r.own /\ r.session}}
  <2>1. Own' = Own \cup {Len(runs) + n : n \in {m \in 1 .. 1 :
                                           <<r>>[m].own /\ <<r>>[m].session}}
    BY <1>1, <1>3, OwnAdded DEF ShellInv
  <2>2. \A m \in 1 .. 1 : <<r>>[m] = r
    BY <1>1
  <2> QED
    BY <2>1, <2>2
<1>6. Own \subseteq 1 .. Len(runs)
  BY <1>1 DEF Own
<1>7. CASE r.own /\ r.session
  <2>1. Own' = Own \cup {Len(runs) + 1}
    BY <1>5, <1>7
  <2>2. NewestIs(Len(runs))'
    BY <1>1, <1>6, <2>1 DEF NewestIs
  <2> QED
    BY <1>1, <1>4, <1>7, <2>2
<1>8. CASE ~(r.own /\ r.session)
  BY <1>1, <1>4, <1>5, <1>8
<1> QED
  BY <1>7, <1>8

LEMMA TaskRuns ==
  ASSUME ShellInv, status = "open", NEW q \in Request, NEW i \in 0 .. MaxRuns,
         Keeps(q), CaseShape(q),
         i # 0 => /\ i \in DOMAIN runs /\ runs[i].saved
                  /\ Repeats(q, runs[i].asked),
         RunTask(q, i)
  PROVE  ShellInv' /\ context'.last = NewestOwn'
<1>1. PICK r \in Ended(q, i) :
        /\ runs' = Append(runs, r) /\ Len(runs) < MaxRuns
        /\ seen' = IF r.session THEN Len(runs) + 1 ELSE seen
        /\ context' = [context EXCEPT !.last = AfterTask(r.session, Len(runs) + 1)]
        /\ UNCHANGED <<environment, status>>
  BY DEF RunTask
<1>2. r \in Run /\ r.asked = q /\ r.rerunOf = i /\ r.own = TRUE
  BY <1>1 DEF Ended, Run
<1>3. Good(r)
  BY <1>2 DEF Good
<1>4. /\ RunsInv' /\ runs' \in Seq(Run)
      /\ r.session => NewestIs(Len(runs))' /\ Len(runs) + 1 \in 0 .. MaxRuns
      /\ ~r.session => Own' = Own
  BY <1>1, <1>2, <1>3, OneAdded DEF RunsInv
<1>5. NewestIs(seen)' /\ seen' \in 0 .. MaxRuns
  <2>1. NewestIs(seen) /\ seen \in 0 .. MaxRuns
    BY DEF ShellInv
  <2> QED
    BY <1>1, <1>4, <2>1 DEF NewestIs
<1>6. context'.last = seen' /\ ContextTypes'
  <2>1. AfterTask(r.session, Len(runs) + 1) = seen'
    BY <1>1 DEF AfterTask
  <2> QED
    BY <1>1, <1>5, <2>1 DEF ShellInv, ContextTypes
<1>7. NewestOwn' = seen'
  <2>1. Own' \in SUBSET Nat
    BY <1>4, LenProperties DEF Own
  <2>2. (seen' = 0 /\ Own' = {}) \/ (seen' \in Own' /\ \A m \in Own' : m <= seen')
    BY <1>5 DEF NewestIs
  <2> QED
    BY <2>1, <2>2, NewestUnique DEF NewestOwn
<1> QED
  BY <1>1, <1>4, <1>5, <1>6, <1>7 DEF ShellInv

LEMMA CasesRun ==
  ASSUME ShellInv, status = "open", NEW qs \in Seq(Request), NEW i \in 0 .. MaxRuns,
         qs # <<>>,
         \A n \in DOMAIN qs : /\ Keeps(qs[n]) /\ CaseShape(qs[n])
                              /\ qs[n].task \in Cases
                              /\ i # 0 => Repeats(qs[n], runs[i].asked),
         i # 0 => i \in DOMAIN runs /\ runs[i].saved,
         RunCases(qs, i)
  PROVE  /\ ShellInv'
         /\ Len(runs') > Len(runs) => runs'[Len(runs')].asked.task \in Cases
<1> DEFINE N == Len(qs)
<1>1. /\ N \in Nat \ {0} /\ DOMAIN qs = 1 .. N
  BY EmptySeq, LenProperties
<1>2. PICK new \in [1 .. N -> UNION {Ended(qs[n], i) : n \in 1 .. N}] :
        /\ \A n \in 1 .. N : new[n].asked = qs[n]
        /\ runs' = runs \o new /\ Len(runs) + N <= MaxRuns
        /\ \/ {n \in 1 .. N : new[n].session} = {} /\ seen' = seen
           \/ \E n \in {m \in 1 .. N : new[m].session} :
                /\ \A m \in {k \in 1 .. N : new[k].session} : m <= n
                /\ seen' = Len(runs) + n
        /\ \E l \in {Len(runs) + N, 0} : context' = [context EXCEPT !.last = l]
        /\ UNCHANGED <<environment, status>>
  BY <1>1 DEF RunCases
<1> DEFINE sessions == {n \in 1 .. N : new[n].session}
<1>3. \A n \in 1 .. N : /\ new[n] \in Run /\ new[n].asked = qs[n]
                        /\ new[n].rerunOf = i /\ new[n].own = TRUE
  <2> SUFFICES ASSUME NEW n \in 1 .. N
               PROVE  /\ new[n] \in Run /\ new[n].rerunOf = i /\ new[n].own = TRUE
    BY <1>2
  <2>1. PICK m \in 1 .. N : new[n] \in Ended(qs[m], i)
    BY <1>2
  <2>2. qs[m] \in Request
    BY <1>1
  <2> QED
    BY <2>1, <2>2 DEF Ended, Run
<1>4. new \in Seq(Run) /\ Len(new) = N
  <2>1. new \in [1 .. N -> Run]
    BY <1>2, <1>3
  <2> QED
    BY <1>1, <2>1
<1>5. Adds(new)
  BY <1>1, <1>2, <1>3, <1>4 DEF Adds, Good
<1>6. /\ RunsInv' /\ Len(runs') = Len(runs) + N /\ Len(runs) \in Nat
      /\ runs'[Len(runs) + N] = new[N]
  <2>1. /\ RunsInv' /\ Len(runs') = Len(runs) + Len(new) /\ Len(runs) \in Nat
        /\ \A n \in 1 .. Len(new) : runs'[Len(runs) + n] = new[n]
    BY <1>5, Added DEF ShellInv
  <2>2. N \in 1 .. N
    BY <1>1
  <2> QED
    BY <1>4, <2>1, <2>2
<1>7. Own' = Own \cup {Len(runs) + n : n \in sessions}
  <2>1. Own' = Own \cup {Len(runs) + n : n \in {m \in 1 .. N : new[m].own /\ new[m].session}}
    BY <1>4, <1>5, OwnAdded DEF ShellInv
  <2>2. {m \in 1 .. N : new[m].own /\ new[m].session} = sessions
    BY <1>3
  <2> QED
    BY <2>1, <2>2
<1>8. NewestIs(seen)' /\ seen' \in 0 .. MaxRuns
  <2>1. /\ NewestIs(seen) /\ seen \in 0 .. MaxRuns /\ Own \subseteq 1 .. Len(runs)
        /\ MaxRuns \in Nat
    BY <1>6, ShellAssumption DEF ShellInv, RunsInv, Own
  <2>2. CASE sessions = {} /\ seen' = seen
    BY <1>7, <2>1, <2>2 DEF NewestIs
  <2>3. ASSUME NEW n \in sessions, \A m \in sessions : m <= n,
               seen' = Len(runs) + n
        PROVE  NewestIs(seen)' /\ seen' \in 0 .. MaxRuns
    <3>1. seen' \in Own' /\ seen' \in 0 .. MaxRuns
      <4>1. n \in 1 .. N
        OBVIOUS
      <4>2. seen' \in 0 .. MaxRuns
        <5>1. Len(runs) + N <= MaxRuns /\ N \in Nat /\ Len(runs) \in Nat
          BY <1>1, <1>2, <1>6
        <5>2. seen' = Len(runs) + n /\ MaxRuns \in Nat
          BY <2>1, <2>3
        <5> HIDE DEF N, sessions
        <5>3. n \in Nat /\ n <= N
          BY <4>1, <5>1
        <5>4. Len(runs) + n <= MaxRuns /\ Len(runs) + n \in Nat
          BY <5>1, <5>2, <5>3
        <5> QED
          BY <5>2, <5>4
      <4>3. Len(runs) + n \in {Len(runs) + k : k \in sessions}
        OBVIOUS
      <4> QED
        BY <1>7, <2>3, <4>2, <4>3
    <3>2. \A m \in Own' : m <= seen'
      <4>1. \A m \in Own : m <= seen'
        BY <1>6, <2>1, <2>3
      <4>2. \A m \in sessions : Len(runs) + m <= seen'
        BY <1>1, <1>6, <2>3
      <4> QED
        BY <1>7, <4>1, <4>2
    <3> QED
      BY <3>1, <3>2 DEF NewestIs
  <2> QED
    BY <1>2, <2>2, <2>3
<1>9. ContextTypes'
  <2>1. MaxRuns \in Nat /\ \A l \in {Len(runs) + N, 0} : l \in 0 .. MaxRuns
    BY <1>1, <1>2, <1>6, ShellAssumption
  <2> QED
    BY <1>2, <2>1 DEF ShellInv, ContextTypes
<1>10. runs'[Len(runs')].asked.task \in Cases
  BY <1>1, <1>3, <1>6
<1> QED
  BY <1>2, <1>6, <1>8, <1>9, <1>10 DEF ShellInv

----------------------------------------------------------------------------
(* Every step.                                                              *)

\* What a step may do; the last conjunct is SelectsItsOwn for that step.
StepIsFine ==
  /\ ShellInv'
  /\ ( /\ Len(runs') > Len(runs) /\ status' = "open"
       /\ runs'[Len(runs')].own /\ runs'[Len(runs')].asked.task \in Tasks )
     => context'.last = NewestOwn'

LEMMA StillFine ==
  ASSUME ShellInv, UNCHANGED <<seen, runs>>, ContextTypes',
         status' \in {"open", "quit", "crashed"},
         status' = "open" => status = "open"
  PROVE  StepIsFine
<1>1. Len(runs) \in Nat /\ Len(runs') = Len(runs)
  BY DEF ShellInv, RunsInv
<1> QED
  BY <1>1, Unmoved DEF StepIsFine

LEMMA CrashFine ==
  ASSUME ShellInv, NEW q \in Request, Keeps(q), CaseShape(q),
         NEW i \in 0 .. MaxRuns,
         i # 0 => i \in DOMAIN runs /\ runs[i].saved /\ Repeats(q, runs[i].asked),
         Crashes(q, i)
  PROVE  StepIsFine
<1>1. /\ status' = "crashed" /\ UNCHANGED <<context, environment, seen>>
      /\ ContextTypes' /\ seen' \in 0 .. MaxRuns
  BY DEF Crashes, ShellInv, ContextTypes
<1>2. CASE UNCHANGED runs
  BY <1>1, <1>2, StillFine
<1>3. ASSUME Len(runs) < MaxRuns, NEW r \in BrokenOff(q, i), runs' = Append(runs, r)
      PROVE  RunsInv'
  <2>1. Good(r)
    BY DEF BrokenOff, Good, Run
  <2> QED
    BY <1>3, <2>1, OneAdded
<1> QED
  BY <1>1, <1>2, <1>3 DEF Crashes, StepIsFine, ShellInv

LEMMA TaskFine ==
  ASSUME ShellInv, NEW task \in Tasks, Task(task)
  PROVE  StepIsFine
<1> DEFINE q == FreeformRequest(task)
<1>1. /\ status = "open" /\ context.board # None /\ ContextTypes
      /\ RunTask(q, 0) \/ Crashes(q, 0)
      /\ task = "repair" => context.workspace # None /\ context.build # None
  BY DEF Task, ShellInv
<1>2. q \in Request /\ Keeps(q) /\ CaseShape(q) /\ 0 \in 0 .. MaxRuns
  BY <1>1, FreeformGood, ShellAssumption
<1> HIDE DEF q
<1>3. CASE RunTask(q, 0)
  BY <1>1, <1>2, <1>3, TaskRuns DEF StepIsFine
<1>4. CASE Crashes(q, 0)
  BY <1>2, <1>4, CrashFine
<1> QED
  BY <1>1, <1>3, <1>4

LEMMA SuiteFine ==
  ASSUME ShellInv, NEW suite \in Seq(Cases), Benchmark(suite)
  PROVE  StepIsFine
<1> DEFINE qs == [n \in DOMAIN suite |->
                    CaseRequest(suite[n], context.provider, context.model)]
<1>1. /\ status = "open" /\ suite # <<>> /\ ContextTypes
      /\ RunCases(qs, 0) \/ Crashes(qs[1], 0)
  BY DEF Benchmark, ShellInv
<1>2. /\ DOMAIN suite = 1 .. Len(suite) /\ Len(suite) \in Nat \ {0}
      /\ \A n \in 1 .. Len(suite) : suite[n] \in Cases
  BY <1>1, EmptySeq, LenProperties
<1>3. \A n \in 1 .. Len(suite) :
        /\ qs[n] \in Request /\ Keeps(qs[n]) /\ CaseShape(qs[n])
        /\ qs[n].task \in Cases
  <2> SUFFICES ASSUME NEW n \in 1 .. Len(suite),
                      qs[n] = CaseRequest(suite[n], context.provider, context.model)
               PROVE  /\ qs[n] \in Request /\ Keeps(qs[n]) /\ CaseShape(qs[n])
                      /\ qs[n].task \in Cases
    BY <1>2
  <2>1. suite[n] \in Cases /\ context.provider \in Providers \cup {None}
        /\ context.model \in Models \cup {None}
    BY <1>1, <1>2 DEF ContextTypes
  <2> DEFINE c == CaseRequest(suite[n], context.provider, context.model)
  <2>2. c \in Request /\ Keeps(c) /\ CaseShape(c) /\ c.task = suite[n]
    BY <1>1, <2>1, CaseGood
  <2>3. qs[n] = c
    BY <1>2
  <2> HIDE DEF c, qs
  <2> QED
    BY <2>1, <2>2, <2>3
<1>4. qs \in [1 .. Len(suite) -> Request]
  BY <1>2, <1>3
<1> HIDE DEF qs
<1>5. qs \in Seq(Request) /\ DOMAIN qs = 1 .. Len(suite) /\ qs # <<>>
  BY <1>2, <1>4
<1>6. 0 \in 0 .. MaxRuns /\ 1 \in 1 .. Len(suite)
  BY <1>2, ShellAssumption
<1>7. CASE RunCases(qs, 0)
  <2>1. /\ ShellInv'
        /\ Len(runs') > Len(runs) => runs'[Len(runs')].asked.task \in Cases
    BY <1>1, <1>3, <1>5, <1>6, <1>7, CasesRun
  <2> QED
    BY <2>1, ShellAssumption DEF StepIsFine
<1>8. CASE Crashes(qs[1], 0)
  BY <1>3, <1>6, <1>8, CrashFine
<1> QED
  BY <1>1, <1>7, <1>8

LEMMA RerunFine ==
  ASSUME ShellInv, NEW i \in DOMAIN runs, Rerun(i)
  PROVE  StepIsFine
<1> DEFINE q == RerunRequest(runs[i].asked)
<1>1. /\ status = "open" /\ runs[i].saved /\ ContextTypes
      /\ \/ IF q.task \in Cases THEN RunCases(<<q>>, i) ELSE RunTask(q, i)
         \/ Crashes(q, i)
  BY DEF Rerun, ShellInv
<1>2. /\ runs \in Seq(Run) /\ Len(runs) <= MaxRuns /\ Len(runs) \in Nat
      /\ i \in 1 .. Len(runs) /\ MaxRuns \in Nat
  BY ShellAssumption DEF ShellInv, RunsInv
<1>3. /\ runs[i].asked \in Request /\ Keeps(runs[i].asked)
      /\ CaseShape(runs[i].asked) /\ i \in 0 .. MaxRuns
  <2>1. runs[i] \in Run
    BY <1>2, ElementOfSeq
  <2> QED
    BY <1>2, <2>1 DEF Run, ShellInv, RunsInv, GuidedRunsKeepTheirWord, Keeps
<1>4. /\ q \in Request /\ Keeps(q) /\ CaseShape(q) /\ Repeats(q, runs[i].asked)
  BY <1>1, <1>3, RerunGood
<1> HIDE DEF q
<1>5. CASE q.task \in Cases /\ RunCases(<<q>>, i)
  <2>1. <<q>> \in Seq(Request) /\ <<q>> # <<>> /\ \A n \in DOMAIN <<q>> : <<q>>[n] = q
    BY <1>4
  <2>2. /\ ShellInv'
        /\ Len(runs') > Len(runs) => runs'[Len(runs')].asked.task \in Cases
    BY <1>1, <1>3, <1>4, <1>5, <2>1, CasesRun
  <2> QED
    BY <2>2, ShellAssumption DEF StepIsFine
<1>6. CASE RunTask(q, i)
  BY <1>1, <1>3, <1>4, <1>6, TaskRuns DEF StepIsFine
<1>7. CASE Crashes(q, i)
  BY <1>1, <1>3, <1>4, <1>7, CrashFine
<1> QED
  BY <1>1, <1>5, <1>6, <1>7

LEMMA OtherFine == ShellInv /\ OtherRun => StepIsFine
<1> SUFFICES ASSUME ShellInv, OtherRun PROVE StepIsFine
  OBVIOUS
<1>1. PICK q \in OtherRequests, saved \in BOOLEAN, session \in BOOLEAN,
           readable \in BOOLEAN :
        runs' = Append(runs, [asked |-> q, saved |-> saved, session |-> session,
                              readable |-> readable, own |-> FALSE, rerunOf |-> 0])
  BY DEF OtherRun
<1> DEFINE r == [asked |-> q, saved |-> saved, session |-> session,
                 readable |-> readable, own |-> FALSE, rerunOf |-> 0]
<1>2. Good(r)
  <2>1. q \in Request /\ q.task \in {"run"} \cup Cases /\ CaseShape(q)
    BY ShellAssumption
  <2>2. q.task \notin {"verify", "diagnose", "repair"}
    BY <2>1, ShellAssumption DEF Tasks, GuidedTasks
  <2>3. r \in Run
    BY <2>1, ShellAssumption DEF Run
  <2> QED
    BY <2>1, <2>2, <2>3 DEF Good, Keeps
<1>3. r.own = FALSE
  OBVIOUS
<1> HIDE DEF r
<1>4. RunsInv' /\ runs'[Len(runs')] = r /\ Own' = Own
  BY <1>1, <1>2, <1>3, OneAdded DEF OtherRun, r
<1>5. ShellInv'
  BY <1>4 DEF OtherRun, ShellInv, ContextTypes, NewestIs
<1> QED
  BY <1>3, <1>4, <1>5 DEF StepIsFine

LEMMA ShellStep == ShellInv /\ [Next]_vars => StepIsFine
<1> SUFFICES ASSUME ShellInv, [Next]_vars PROVE StepIsFine
  OBVIOUS
<1>1. ContextTypes /\ status \in {"open", "quit", "crashed"}
  BY DEF ShellInv
<1>2. CASE UNCHANGED vars
  BY <1>1, <1>2, StillFine DEF vars, ContextTypes
<1>3. CASE SetBoard \/ SetProvider \/ SetModel
  BY <1>1, <1>3, StillFine DEF SetBoard, SetProvider, SetModel, Set, ContextTypes
<1>4. CASE SetWorkspace \/ SetBuildCommand \/ SetArtifact
  BY <1>1, <1>4, StillFine
     DEF SetWorkspace, SetBuildCommand, SetArtifact, Set, ContextTypes
<1>5. CASE FillEnvironment \/ Quit
  BY <1>1, <1>5, StillFine DEF FillEnvironment, Quit, ContextTypes
<1>6. CASE View \/ ViewSelected
  <2>1. PICK i \in DOMAIN runs : Select(i)
    BY <1>6 DEF View, ViewSelected
  <2>2. i \in 0 .. MaxRuns
    BY ShellAssumption DEF ShellInv, RunsInv
  <2> QED
    BY <1>1, <2>1, <2>2, StillFine DEF Select, ContextTypes
<1>7. CASE \E task \in Tasks : Task(task)
  BY <1>7, TaskFine
<1>8. CASE \E suite \in Suites \cup {<<c>> : c \in Cases} : Benchmark(suite)
  <2>1. \A suite \in Suites \cup {<<c>> : c \in Cases} : suite \in Seq(Cases)
    <3>1. \A c \in Cases : <<c>> \in Seq(Cases)
      OBVIOUS
    <3> QED
      BY <3>1, ShellAssumption
  <2> QED
    BY <1>8, <2>1, SuiteFine
<1>9. CASE \E i \in DOMAIN runs : Rerun(i)
  BY <1>9, RerunFine
<1>10. CASE OtherRun
  BY <1>10, OtherFine
<1> QED
  BY <1>2, <1>3, <1>4, <1>5, <1>6, <1>7, <1>8, <1>9, <1>10 DEF Next

LEMMA ShellCorrect == Spec => []ShellInv
<1>1. ShellInv /\ [Next]_vars => ShellInv'
  BY ShellStep DEF StepIsFine
<1> QED
  BY <1>1, InitShell, PTL DEF Spec

\* The types of the shell's context, of what its renderer knows and of the runs.
THEOREM TypeCorrect == Spec => []TypeOK
<1>1. ShellInv => TypeOK
  BY DEF ShellInv, ContextTypes, RunsInv, TypeOK
<1> QED
  BY <1>1, ShellCorrect, PTL

\* /verify and /diagnose never edit, /repair always can, in every repetition
\* too (GUIDED_COMMANDS, _run_guided_command, _rerun_session).
THEOREM GuidedCommands == Spec => []GuidedRunsKeepTheirWord
<1>1. ShellInv => GuidedRunsKeepTheirWord
  BY DEF ShellInv, RunsInv
<1> QED
  BY <1>1, ShellCorrect, PTL

\* A rerun asks for what was saved but for the timeouts, the limits of a case
\* and a model that was not named (_rerun_session).
THEOREM RerunsRepeat == Spec => []RerunRepeats
<1>1. ShellInv => RerunRepeats
  BY DEF ShellInv, RunsInv
<1> QED
  BY <1>1, ShellCorrect, PTL

\* After a freeform run the shell selects the newest session of its own runs
\* (_run_task, UXRenderer.emit).
THEOREM OwnSessionSelected == Spec => SelectsItsOwn
<1>1. ShellInv /\ [Next]_vars
      => [ ( /\ Len(runs') > Len(runs) /\ status' = "open"
             /\ runs'[Len(runs')].own /\ runs'[Len(runs')].asked.task \in Tasks )
           => context'.last = NewestOwn' ]_vars
  BY ShellStep DEF StepIsFine
<1> QED
  BY <1>1, ShellCorrect, PTL DEF Spec, SelectsItsOwn
=============================================================================
