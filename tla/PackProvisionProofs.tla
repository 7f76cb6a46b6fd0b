-------------------------- MODULE PackProvisionProofs --------------------------
(***************************************************************************)
(* Theorems about PackProvision, for any number of calls, files and chunks. *)
(***************************************************************************)
EXTENDS PackProvision, TLAPS, FiniteSetTheorems, SequenceTheorems

----------------------------------------------------------------------------
(* Part files.                                                              *)

\* PartHasOwner is inductive as it stands: only OpenPart makes a part file, and
\* the steps that follow it end with the file renamed, removed or abandoned.
LEMMA OwnerStep ==
  ASSUME DOMAIN call = Provisioners, PartHasOwner, [Next]_vars
  PROVE  DOMAIN call' = Provisioners /\ PartHasOwner'
<1> USE DEF PartHasOwner, Busy, Step, At, Idle, names
<1>1. CASE UNCHANGED vars
  BY <1>1 DEF vars
<1>2. ASSUME NEW p \in Provisioners, Begin(p) \/ Open(p) \/ Read(p) \/ Decide(p)
      PROVE  DOMAIN call' = Provisioners /\ PartHasOwner'
  BY <1>2 DEF Begin, Open, Read, Decide, Reading
<1>3. ASSUME NEW p \in Provisioners, OpenPart(p)
      PROVE  DOMAIN call' = Provisioners /\ PartHasOwner'
  BY <1>3 DEF OpenPart
<1>4. ASSUME NEW p \in Provisioners, NEW chunk, Write(p, chunk)
      PROVE  DOMAIN call' = Provisioners /\ PartHasOwner'
  BY <1>4 DEF Write
<1>5. ASSUME NEW p \in Provisioners, EndOfDownload(p) \/ DownloadFails(p)
      PROVE  DOMAIN call' = Provisioners /\ PartHasOwner'
  BY <1>5 DEF EndOfDownload, DownloadFails
<1>6. ASSUME NEW p \in Provisioners, Replace(p) \/ Remove(p) \/ Crash(p)
      PROVE  DOMAIN call' = Provisioners /\ PartHasOwner'
  BY <1>6 DEF Replace, Remove, Crash
<1> QED
  BY <1>1, <1>2, <1>3, <1>4, <1>5, <1>6 DEF Next

\* A part file has a call that will rename or remove it, even while calls
\* interfere, or it was left by a crash (_download).
THEOREM PartIsOwned == Spec => []PartHasOwner
<1>1. Init => DOMAIN call = Provisioners /\ PartHasOwner
  BY DEF Init, PartHasOwner
<1>2. DOMAIN call = Provisioners /\ PartHasOwner /\ [Next]_vars
      => (DOMAIN call = Provisioners)' /\ PartHasOwner'
  BY OwnerStep
<1> QED
  BY <1>1, <1>2, PTL DEF Spec

----------------------------------------------------------------------------
(* Types.  A file holds no more chunks than the pack has; and a call holds  *)
(* a file open only while it reads or writes.                               *)

Packs == {s \in Seq(Chunk) : Len(s) <= Chunks}

TypeInv ==
  /\ content \in [Files -> Packs]
  /\ part \in Files \cup {None} /\ dest \in Files \cup {None}
  /\ part # None => part # dest
  /\ call \in [Provisioners -> Calls]
  /\ \A p \in Provisioners :
       call[p].step \notin {"verify", "check", "write"} => call[p].file = None
  /\ returned \in BOOLEAN /\ overlapped \in BOOLEAN
  /\ abandoned \subseteq {"part", "dest"}

LEMMA PacksFacts ==
  /\ << >> \in Packs /\ Pinned \in Packs /\ <<"wrong">> \in Packs
  /\ Len(Pinned) = Chunks
<1>1. << >> \in Packs /\ <<"wrong">> \in Packs
  BY ProvisionConstants, EmptySeq DEF Packs, Chunk
<1>2. Pinned \in [1..Chunks -> Chunk]
  BY DEF Pinned, Chunk
<1>3. Pinned \in Seq(Chunk) /\ Len(Pinned) = Chunks
  BY <1>2, ProvisionConstants
<1> QED
  BY <1>1, <1>3, ProvisionConstants DEF Packs

LEMMA OverwrittenType ==
  ASSUME NEW old \in Packs, NEW pos \in 1..Chunks, NEW chunk \in Chunk
  PROVE  Overwritten(old, pos, chunk) \in Packs
<1> DEFINE n == IF pos > Len(old) THEN pos ELSE Len(old)
<1>1. Len(old) \in Nat /\ Len(old) <= Chunks /\ old \in [1..Len(old) -> Chunk]
  BY LenProperties DEF Packs
<1>2. n \in Nat /\ n <= Chunks
  BY <1>1, ProvisionConstants
<1> HIDE DEF n
<1>3. Overwritten(old, pos, chunk) =
        [i \in 1..n |-> IF i = pos THEN chunk
                        ELSE IF i > Len(old) THEN "hole" ELSE old[i]]
  BY DEF Overwritten, n
<1>4. Overwritten(old, pos, chunk) \in [1..n -> Chunk]
  BY <1>1, <1>2, <1>3 DEF Chunk
<1> QED
  BY <1>2, <1>4 DEF Packs

\* What a step does to the files: they keep what was written, or are gone.
LEMMA StepFacts ==
  ASSUME TypeInv, NEW p \in Provisioners, NEW next, NEW written \in [Files -> Packs],
         next \in Calls, Step(p, next, written),
         next.step \notin {"verify", "check", "write"} => next.file = None
  PROVE  /\ content' \in [Files -> Packs]
         /\ call' \in [Provisioners -> Calls]
         /\ \A q \in Provisioners :
              call'[q].step \notin {"verify", "check", "write"} => call'[q].file = None
         /\ overlapped' \in BOOLEAN
         /\ \A f \in {part', dest'} \cap Files : content'[f] = written[f]
<1>1. call' = [call EXCEPT ![p] = next]
  BY DEF Step
<1>2. content' = [f \in Files |->
        IF f \in {part', dest'} \cup {call'[q].file : q \in Provisioners}
        THEN written[f] ELSE << >>]
  BY DEF Step
<1>3. overlapped' \in BOOLEAN
  BY DEF Step
<1>4. content' \in [Files -> Packs]
  BY <1>2, PacksFacts
<1> QED
  BY <1>1, <1>2, <1>3, <1>4 DEF TypeInv

\* There are files enough for two names and an open handle of every other call.
LEMMA FreeFileExists ==
  ASSUME TypeInv, NEW p \in Provisioners, call[p].step = "download"
  PROVE  FreeFile \in Files /\ FreeFile \notin {part, dest}
<1> DEFINE handle == [q \in Provisioners |-> call[q].file]
           T == {call[q].file : q \in Provisioners}
           Used == {part, dest} \cup T
<1>1. IsFiniteSet(T) /\ Cardinality(T) <= Cardinality(Provisioners)
  <2>1. handle \in Surjection(Provisioners, T)
    BY DEF Surjection
  <2> QED
    BY <2>1, FS_Surjection, ProvisionConstants
<1>5. None \in T
  BY DEF TypeInv
<1>4. Used = T \cup {part} \cup {dest}
  OBVIOUS
<1>q. \A f : f \notin Used => f \notin {part, dest} \cup {call[q].file : q \in Provisioners}
  OBVIOUS
<1> HIDE DEF T, Used, handle
<1>2. /\ IsFiniteSet(T \cup {part})
      /\ Cardinality(T \cup {part}) <= Cardinality(T) + 1
  <2>1. Cardinality(T) \in Nat
    BY <1>1, FS_CardinalityType
  <2>2. /\ IsFiniteSet(T \cup {part})
        /\ Cardinality(T \cup {part}) =
             IF part \in T THEN Cardinality(T) ELSE Cardinality(T) + 1
    BY <1>1, FS_AddElement
  <2> QED
    BY <2>1, <2>2
<1>3. /\ IsFiniteSet(T \cup {part} \cup {dest})
      /\ Cardinality(T \cup {part} \cup {dest}) <= Cardinality(T \cup {part}) + 1
  <2>1. Cardinality(T \cup {part}) \in Nat
    BY <1>2, FS_CardinalityType
  <2>2. /\ IsFiniteSet(T \cup {part} \cup {dest})
        /\ Cardinality(T \cup {part} \cup {dest}) =
             IF dest \in T \cup {part} THEN Cardinality(T \cup {part})
             ELSE Cardinality(T \cup {part}) + 1
    BY <1>2, FS_AddElement
  <2> QED
    BY <2>1, <2>2
<1>6. /\ IsFiniteSet(Files \cup {None})
      /\ Cardinality(Files \cup {None}) = Cardinality(Files) + 1
  BY FS_AddElement, ProvisionConstants
<1>7. /\ Cardinality(Provisioners) \in Nat /\ Cardinality(Files) \in Nat
      /\ Cardinality(T) \in Nat /\ Cardinality(T \cup {part}) \in Nat
      /\ Cardinality(Used) \in Nat
  BY <1>1, <1>2, <1>3, <1>4, FS_CardinalityType, ProvisionConstants
<1>8. ~(Files \subseteq Used)
  <2> SUFFICES ASSUME Files \subseteq Used PROVE FALSE
    OBVIOUS
  <2>1. Files \cup {None} \in SUBSET Used
    BY <1>4, <1>5
  <2>2. Cardinality(Files \cup {None}) <= Cardinality(Used)
    BY <2>1, <1>3, <1>4, FS_Subset
  <2>3. Cardinality(Used) <= Cardinality(Provisioners) + 2
    BY <1>1, <1>2, <1>3, <1>4, <1>7
  <2> QED
    BY <2>2, <2>3, <1>6, <1>7, ProvisionConstants
<1>9. \E f \in Files : f \notin Used
  BY <1>8
<1> QED
  BY <1>9, <1>q, <1>4 DEF FreeFile

LEMMA TypeInit == Init => TypeInv
<1> SUFFICES ASSUME Init PROVE TypeInv
  OBVIOUS
<1>1. content \in [Files -> Packs]
  BY PacksFacts DEF Init
<1>2. Idle \in Calls
  BY ProvisionConstants DEF Idle, At, Calls, Steps
<1> QED
  BY <1>1, <1>2, ProvisionConstants DEF Init, TypeInv, Idle, At

\* The calls that the steps go on with, and what they write.
LEMMA AtType ==
  ASSUME NEW step \in Steps, NEW file \in Files \cup {None}, NEW pos \in 0..Chunks,
         NEW same \in BOOLEAN
  PROVE  At(step, file, pos, same) \in Calls
  BY DEF At, Calls

LEMMA IdleType == Idle \in Calls /\ Idle.file = None /\ Idle.step = "idle"
<1>1. 0 \in 0..Chunks
  BY ProvisionConstants
<1> QED
  BY <1>1 DEF Idle, At, Calls, Steps

LEMMA TypeStep == TypeInv /\ [Next]_vars => TypeInv'
<1> SUFFICES ASSUME TypeInv, [Next]_vars PROVE TypeInv'
  OBVIOUS
<1>0. 0 \in 0..Chunks
  BY ProvisionConstants
<1>1. CASE UNCHANGED vars
  BY <1>1 DEF vars, names, TypeInv
<1>2. ASSUME NEW p \in Provisioners, NEW next \in Calls, NEW written \in [Files -> Packs],
             Step(p, next, written),
             next.step \notin {"verify", "check", "write"} => next.file = None,
             part' \in Files \cup {None}, dest' \in Files \cup {None},
             part' # None => part' # dest', returned' \in BOOLEAN,
             abandoned' \subseteq {"part", "dest"}
      PROVE  TypeInv'
  BY <1>2, StepFacts DEF TypeInv
<1> USE DEF names
<1>3. ASSUME NEW p \in Provisioners, Begin(p) PROVE TypeInv'
  <2>1. At(IF dest = None THEN "download" ELSE "verify", None, 0, TRUE) \in Calls
    BY <1>0, AtType DEF Steps
  <2>2. At(IF dest = None THEN "download" ELSE "verify", None, 0, TRUE).file = None
    BY DEF At
  <2> QED
    BY <1>2, <1>3, <2>1, <2>2 DEF Begin, TypeInv
<1>4. ASSUME NEW p \in Provisioners, Open(p) PROVE TypeInv'
  <2>1. [call[p] EXCEPT !.file = dest] \in Calls
    BY DEF TypeInv, Calls
  <2>2. [call[p] EXCEPT !.file = dest].step \in {"verify", "check"}
    BY <1>4 DEF Open, TypeInv, Calls
  <2> QED
    BY <1>2, <1>4, <2>1, <2>2, IdleType DEF Open, TypeInv
<1>5. ASSUME NEW p \in Provisioners, Read(p) PROVE TypeInv'
  <2> DEFINE same == content[call[p].file][call[p].pos + 1] = "pinned"
             next == [call[p] EXCEPT !.pos = @ + 1, !.same = @ /\ same]
  <2>1. call[p] \in Calls /\ call[p].step \in {"verify", "check"}
    BY <1>5 DEF Read, Reading, TypeInv
  <2>2. call[p].pos + 1 \in 0..Chunks
    BY <1>5, <2>1, ProvisionConstants DEF Read, AtEnd, Calls
  <2>3. (call[p].same /\ same) \in BOOLEAN
    OBVIOUS
  <2>4. Step(p, next, content)
    BY <1>5 DEF Read
  <2> HIDE DEF same
  <2>5. next \in Calls /\ next.step = call[p].step
    BY <2>1, <2>2, <2>3 DEF Calls
  <2> HIDE DEF next
  <2> QED
    BY <1>2, <1>5, <2>1, <2>4, <2>5 DEF Read, TypeInv
<1>6. ASSUME NEW p \in Provisioners, Decide(p) PROVE TypeInv'
  <2> DEFINE next == IF Matches(p) THEN Idle
                     ELSE At(IF call[p].step = "verify" THEN "download" ELSE "remove",
                             None, 0, TRUE)
  <2>1. next \in Calls /\ next.file = None
    BY <1>0, AtType, IdleType DEF At, Steps
  <2>2. (returned \/ Matches(p)) \in BOOLEAN
    OBVIOUS
  <2>3. Step(p, next, content)
    BY <1>6 DEF Decide
  <2> HIDE DEF next
  <2> QED
    BY <1>2, <1>6, <2>1, <2>2, <2>3 DEF Decide, TypeInv
<1>7. ASSUME NEW p \in Provisioners, OpenPart(p) PROVE TypeInv'
  <2>1. part' \in Files /\ part' # dest /\ UNCHANGED <<dest, returned>>
    BY <1>7, FreeFileExists DEF OpenPart, TypeInv
  <2>2. At("write", part', 0, TRUE) \in Calls
    BY <1>0, <2>1, AtType DEF Steps
  <2>3. [content EXCEPT ![part'] = << >>] \in [Files -> Packs]
    BY <2>1, PacksFacts DEF TypeInv
  <2>4. At("write", part', 0, TRUE).step = "write"
    BY DEF At
  <2> QED
    BY <1>2, <1>7, <2>1, <2>2, <2>3, <2>4 DEF OpenPart, TypeInv
<1>8. ASSUME NEW p \in Provisioners, NEW chunk \in {"pinned", "wrong"},
             Write(p, chunk)
      PROVE  TypeInv'
  <2> DEFINE file == call[p].file
             pos == call[p].pos + 1
             written == [content EXCEPT ![file] = Overwritten(@, pos, chunk)]
             next == [call[p] EXCEPT !.pos = @ + 1]
  <2>1. call[p] \in Calls /\ call[p].step = "write" /\ pos \in 1..Chunks
    BY <1>8, ProvisionConstants DEF Write, TypeInv, Calls
  <2>2. next \in Calls /\ next.step = "write"
    BY <2>1 DEF Calls
  <2>3. written \in [Files -> Packs]
    <3>1. ASSUME NEW old \in Packs PROVE Overwritten(old, pos, chunk) \in Packs
      BY <2>1, OverwrittenType DEF Chunk
    <3> HIDE DEF pos, file
    <3> QED
      BY <3>1 DEF TypeInv
  <2>4. Step(p, next, written)
    BY <1>8 DEF Write
  <2> HIDE DEF next, written
  <2> QED
    BY <1>2, <1>8, <2>2, <2>3, <2>4 DEF Write, TypeInv
<1>9. ASSUME NEW p \in Provisioners, EndOfDownload(p) PROVE TypeInv'
  <2>1. At("replace", None, 0, TRUE) \in Calls /\ At("replace", None, 0, TRUE).file = None
    BY <1>0, AtType DEF Steps, At
  <2> QED
    BY <1>2, <1>9, <2>1 DEF EndOfDownload, TypeInv
<1>10. ASSUME NEW p \in Provisioners, DownloadFails(p) \/ Remove(p) \/ Crash(p)
       PROVE  TypeInv'
  <2>1. Step(p, Idle, content)
    BY <1>10 DEF DownloadFails, Remove, Crash
  <2>2. /\ part' \in {part, None} /\ dest' \in {dest, None}
        /\ UNCHANGED returned /\ abandoned' \subseteq {"part", "dest"}
    BY <1>10 DEF DownloadFails, Remove, Crash, TypeInv
  <2> QED
    BY <1>2, <2>1, <2>2, IdleType DEF TypeInv
<1>11. ASSUME NEW p \in Provisioners, Replace(p) PROVE TypeInv'
  <2> DEFINE next == IF part = None THEN Idle ELSE At("check", None, 0, TRUE)
  <2>1. next \in Calls /\ next.file = None
    BY <1>0, AtType, IdleType DEF At, Steps
  <2>2. Step(p, next, content)
    BY <1>11 DEF Replace
  <2> HIDE DEF next
  <2> QED
    BY <1>2, <1>11, <2>1, <2>2 DEF Replace, TypeInv
<1> QED
  BY <1>1, <1>3, <1>4, <1>5, <1>6, <1>7, <1>8, <1>9, <1>10, <1>11 DEF Next

LEMMA Typed == Spec => []TypeInv
  BY TypeInit, TypeStep, PTL DEF Spec

\* Every variable keeps its type; no file outgrows the pack.
THEOREM TypeCorrect == Spec => []TypeOK
<1>1. TypeInv => TypeOK
  <2> SUFFICES ASSUME TypeInv PROVE TypeOK
    OBVIOUS
  <2>1. ASSUME NEW s \in Packs PROVE s \in UNION {[1..n -> Chunk] : n \in 0..Chunks}
    <3>1. Len(s) \in 0..Chunks /\ s \in [1..Len(s) -> Chunk]
      BY LenProperties, ProvisionConstants DEF Packs
    <3> QED
      BY <3>1
  <2>2. content \in [Files -> UNION {[1..n -> Chunk] : n \in 0..Chunks}]
    <3> DEFINE U == UNION {[1..n -> Chunk] : n \in 0..Chunks}
    <3>1. Packs \subseteq U
      BY <2>1
    <3> HIDE DEF U
    <3>2. content \in [Files -> U]
      BY <3>1 DEF TypeInv
    <3> QED
      BY <3>2 DEF U
  <2> QED
    BY <2>2 DEF TypeInv, TypeOK
<1> QED
  BY <1>1, Typed, PTL

----------------------------------------------------------------------------
(* The pack in place.  As long as no two calls have met, what a call reads   *)
(* is the file in place, what it writes is not, and once the pack has been   *)
(* returned a call does nothing but verify it.                               *)

Unpinned == dest # None /\ content[dest] # Pinned

ReadsSoFar(c) ==
  /\ c.file = None => c.pos = 0 /\ c.same
  /\ c.file # None =>
       /\ c.file = dest /\ c.pos <= Len(content[dest])
       /\ c.same => \A i \in 1..c.pos : content[dest][i] = "pinned"
       /\ (\A i \in 1..c.pos : content[dest][i] = "pinned") => c.same

CallAt(p) ==
  /\ call[p].step \in {"verify", "check"} => ReadsSoFar(call[p])
  /\ call[p].step = "write" => call[p].file = part /\ part # None
  /\ returned => call[p].step \in {"idle", "verify"}

PlaceOk ==
  /\ returned => dest # None /\ content[dest] = Pinned
  /\ Unpinned => Busy({"check", "remove"}) \/ "dest" \in abandoned

AloneInv ==
  \/ overlapped
  \/ /\ \A p, q \in Provisioners :
          p # q => call[p].step = "idle" \/ call[q].step = "idle"
     /\ \A p \in Provisioners : CallAt(p)
     /\ PlaceOk

LEMMA AloneInit == Init => AloneInv
<1> SUFFICES ASSUME Init PROVE AloneInv
  OBVIOUS
<1>1. \A p \in Provisioners : CallAt(p)
  BY DEF Init, CallAt, Idle, At
<1>2. PlaceOk
  BY DEF Init, PlaceOk
<1> QED
  BY <1>1, <1>2 DEF Init, AloneInv, Idle, At

\* A pack whose chunks are all pinned is the pinned one.
LEMMA AllPinned ==
  ASSUME NEW s \in Packs, Len(s) >= Chunks, \A i \in 1..Chunks : s[i] = "pinned"
  PROVE  s = Pinned
<1>1. Len(s) = Chunks /\ Len(Pinned) = Chunks
  BY PacksFacts, LenProperties, ProvisionConstants DEF Packs
<1>2. \A i \in 1..Len(s) : s[i] = Pinned[i]
  BY <1>1 DEF Pinned
<1> QED
  BY <1>1, <1>2, PacksFacts, SeqEqual DEF Packs

\* Whoever moves while nothing has overlapped is alone, before and after.
LEMMA Moves ==
  ASSUME TypeInv, AloneInv, NEW p \in Provisioners, NEW next, NEW written,
         Step(p, next, written), ~overlapped'
  PROVE  /\ ~overlapped /\ CallAt(p) /\ PlaceOk
         /\ \A q \in Provisioners \ {p} : call[q].step = "idle" /\ call'[q] = call[q]
         /\ call'[p] = next
         /\ CallAt(p)' /\ PlaceOk' => AloneInv'
<1>1. ~overlapped /\ \A q \in Provisioners \ {p} : call[q].step = "idle"
  BY DEF Step
<1>2. call' = [call EXCEPT ![p] = next] /\ call \in [Provisioners -> Calls]
  BY DEF Step, TypeInv
<1>3. ASSUME CallAt(p)', PlaceOk' PROVE AloneInv'
  <2>1. \A q \in Provisioners \ {p} : call'[q].step = "idle"
    BY <1>1, <1>2
  <2>2. \A q \in Provisioners \ {p} : CallAt(q)'
    BY <2>1 DEF CallAt
  <2> QED
    BY <1>3, <2>1, <2>2 DEF AloneInv
<1> QED
  BY <1>1, <1>2, <1>3 DEF AloneInv

\* The file in place is not touched by a step that leaves its name alone.
LEMMA InPlace ==
  ASSUME TypeInv, NEW p \in Provisioners, NEW next, NEW written,
         Step(p, next, written), dest' = dest, dest # None
  PROVE  content'[dest] = written[dest]
  BY DEF Step, TypeInv

\* A call that has looked at the whole file knows whether it is the pinned one.
LEMMA DecidesRightly ==
  ASSUME TypeInv, NEW p \in Provisioners, CallAt(p), Reading(p), AtEnd(p)
  PROVE  /\ dest \in Files
         /\ Matches(p) <=> content[dest] = Pinned
<1>1. /\ call[p].file = dest /\ dest \in Files /\ dest # None
      /\ call[p].pos <= Len(content[dest]) /\ call[p].pos \in 0..Chunks
      /\ call[p].same \in BOOLEAN
      /\ call[p].same => \A i \in 1..call[p].pos : content[dest][i] = "pinned"
      /\ (\A i \in 1..call[p].pos : content[dest][i] = "pinned") => call[p].same
  BY DEF CallAt, ReadsSoFar, Reading, TypeInv, Calls
<1>2. content[dest] \in Packs /\ Len(content[dest]) \in Nat /\ Len(content[dest]) <= Chunks
  BY <1>1, LenProperties DEF TypeInv, Packs
<1>3. ASSUME Matches(p) PROVE content[dest] = Pinned
  BY <1>1, <1>2, <1>3, AllPinned, ProvisionConstants DEF Matches
<1>4. ASSUME content[dest] = Pinned PROVE Matches(p)
  <2>1. call[p].pos = Chunks
    BY <1>1, <1>4, PacksFacts, ProvisionConstants DEF AtEnd
  <2>2. \A i \in 1..call[p].pos : content[dest][i] = "pinned"
    BY <1>4, <2>1 DEF Pinned
  <2> QED
    BY <1>1, <2>1, <2>2 DEF Matches
<1> QED
  BY <1>1, <1>3, <1>4

LEMMA AloneStep == TypeInv /\ AloneInv /\ [Next]_vars => AloneInv'
<1> SUFFICES ASSUME TypeInv, AloneInv, [Next]_vars, ~overlapped' PROVE AloneInv'
  BY DEF AloneInv
<1> USE DEF names
<1>1. CASE UNCHANGED vars
  BY <1>1 DEF vars, AloneInv, CallAt, ReadsSoFar, PlaceOk, Unpinned, Busy
<1>2. ASSUME NEW p \in Provisioners, Begin(p) PROVE AloneInv'
  <2> DEFINE next == At(IF dest = None THEN "download" ELSE "verify", None, 0, TRUE)
  <2>1. Step(p, next, content) /\ UNCHANGED <<part, dest, abandoned, returned>>
        /\ call[p].step = "idle"
    BY <1>2 DEF Begin
  <2>2. /\ next.step = IF dest = None THEN "download" ELSE "verify"
        /\ next.file = None /\ next.pos = 0 /\ next.same = TRUE
    BY DEF At
  <2> HIDE DEF next
  <2>3. CallAt(p)'
    BY <2>1, <2>2, Moves DEF CallAt, ReadsSoFar, PlaceOk
  <2>4. PlaceOk'
    BY <2>1, <2>2, Moves, InPlace DEF PlaceOk, Unpinned, Busy
  <2> QED
    BY <2>1, <2>3, <2>4, Moves
<1>3. ASSUME NEW p \in Provisioners, Open(p) PROVE AloneInv'
  <2> DEFINE next == IF dest = None THEN Idle ELSE [call[p] EXCEPT !.file = dest]
  <2>1. /\ Step(p, next, content) /\ UNCHANGED <<part, dest, abandoned, returned>>
        /\ call[p].step \in {"verify", "check"} /\ call[p].file = None
    BY <1>3 DEF Open
  <2>2. /\ dest = None => next.step = "idle"
        /\ dest # None => /\ next.step = call[p].step /\ next.file = dest
                          /\ next.pos = call[p].pos /\ next.same = call[p].same
    BY DEF At, Idle, TypeInv, Calls
  <2> HIDE DEF next
  <2>3. CallAt(p)'
    <3>1. dest # None => content'[dest] = content[dest] /\ Len(content[dest]) \in Nat
      BY <2>1, InPlace, LenProperties DEF TypeInv, Packs
    <3> QED
      BY <2>1, <2>2, <3>1, Moves DEF CallAt, ReadsSoFar
  <2>4. PlaceOk'
    BY <2>1, <2>2, Moves, InPlace DEF PlaceOk, Unpinned, Busy
  <2> QED
    BY <2>1, <2>3, <2>4, Moves
<1>4. ASSUME NEW p \in Provisioners, Read(p) PROVE AloneInv'
  <2> DEFINE c == call[p]
             next == [c EXCEPT !.pos = @ + 1,
                        !.same = @ /\ content[c.file][c.pos + 1] = "pinned"]
  <2>1. Step(p, next, content) /\ UNCHANGED <<part, dest, abandoned, returned>>
        /\ Reading(p) /\ ~AtEnd(p)
    BY <1>4 DEF Read
  <2>2. CallAt(p) /\ PlaceOk
    BY <2>1, Moves
  <2>3. /\ c \in Calls /\ c.step \in {"verify", "check"} /\ c.file = dest /\ dest \in Files
        /\ dest # None /\ c.pos \in Nat /\ c.pos < Len(content[dest]) /\ Len(content[dest]) \in Nat
        /\ c.same => \A i \in 1..c.pos : content[dest][i] = "pinned"
        /\ (\A i \in 1..c.pos : content[dest][i] = "pinned") => c.same
    BY <2>1, <2>2, LenProperties, ProvisionConstants
       DEF Reading, AtEnd, TypeInv, Calls, CallAt, ReadsSoFar, Packs
  <2>4. /\ next.step = c.step /\ next.file = dest /\ next.pos = c.pos + 1
        /\ next.same <=> c.same /\ content[dest][c.pos + 1] = "pinned"
    BY <2>3 DEF Calls
  <2>5. content'[dest] = content[dest]
    BY <2>1, <2>3, InPlace
  <2> HIDE DEF next
  <2>6. call'[p] = next
    BY <2>1, Moves
  <2>7. CallAt(p)'
    BY <2>1, <2>2, <2>3, <2>4, <2>5, <2>6 DEF CallAt, ReadsSoFar
  <2>8. PlaceOk'
    BY <2>1, <2>2, <2>3, <2>4, <2>5, <2>6, Moves DEF PlaceOk, Unpinned, Busy
  <2> QED
    BY <2>1, <2>7, <2>8, Moves
<1>5. ASSUME NEW p \in Provisioners, Decide(p) PROVE AloneInv'
  <2> DEFINE next == IF Matches(p) THEN Idle
                     ELSE At(IF call[p].step = "verify" THEN "download" ELSE "remove",
                             None, 0, TRUE)
  <2>1. /\ Step(p, next, content) /\ UNCHANGED <<part, dest, abandoned>>
        /\ Reading(p) /\ AtEnd(p) /\ (returned' <=> returned \/ Matches(p))
    BY <1>5 DEF Decide
  <2>2. next.step = IF Matches(p) THEN "idle"
                    ELSE IF call[p].step = "verify" THEN "download" ELSE "remove"
    BY DEF Idle, At
  <2> HIDE DEF next
  <2>3. CallAt(p) /\ PlaceOk /\ call'[p] = next
        /\ \A q \in Provisioners \ {p} : call[q].step = "idle" /\ call'[q] = call[q]
    BY <2>1, Moves
  <2>4. dest \in Files /\ dest # None /\ (Matches(p) <=> content[dest] = Pinned)
    BY <2>1, <2>3, DecidesRightly, ProvisionConstants
  <2>5. content'[dest] = content[dest]
    BY <2>1, <2>4, InPlace
  <2>6. call[p].step \in {"verify", "check"}
    BY <2>1 DEF Reading
  <2>7. CallAt(p)'
    BY <2>1, <2>2, <2>3, <2>4, <2>6 DEF CallAt, PlaceOk
  <2>8. PlaceOk'
    BY <2>1, <2>2, <2>3, <2>4, <2>5, <2>6 DEF PlaceOk, Unpinned, Busy
  <2> QED
    BY <2>1, <2>7, <2>8, Moves
<1>6. ASSUME NEW p \in Provisioners, OpenPart(p) PROVE AloneInv'
  <2> DEFINE next == At("write", part', 0, TRUE)
             written == [content EXCEPT ![part'] = << >>]
  <2>1. /\ Step(p, next, written) /\ UNCHANGED <<dest, returned>>
        /\ call[p].step = "download" /\ abandoned' = abandoned \ {"part"}
    BY <1>6 DEF OpenPart
  <2>2. part' \in Files /\ part' # None /\ part' # dest
    BY <1>6, FreeFileExists, ProvisionConstants DEF OpenPart, TypeInv
  <2>3. next.step = "write" /\ next.file = part'
    BY DEF At
  <2>4. dest # None => written[dest] = content[dest]
    BY <2>2 DEF TypeInv
  <2> HIDE DEF next, written
  <2>5. CallAt(p) /\ PlaceOk /\ call'[p] = next
        /\ \A q \in Provisioners \ {p} : call[q].step = "idle" /\ call'[q] = call[q]
    BY <2>1, Moves
  <2>6. CallAt(p)'
    BY <2>1, <2>2, <2>3, <2>5 DEF CallAt
  <2>7. PlaceOk'
    BY <2>1, <2>3, <2>4, <2>5, InPlace DEF PlaceOk, Unpinned, Busy, CallAt
  <2> QED
    BY <2>1, <2>6, <2>7, Moves
<1>7. ASSUME NEW p \in Provisioners, NEW chunk \in {"pinned", "wrong"},
             Write(p, chunk)
      PROVE  AloneInv'
  <2> DEFINE c == call[p]
             next == [c EXCEPT !.pos = @ + 1]
             written == [content EXCEPT ![c.file] = Overwritten(@, c.pos + 1, chunk)]
  <2>1. Step(p, next, written) /\ UNCHANGED <<part, dest, abandoned, returned>>
        /\ c.step = "write"
    BY <1>7 DEF Write
  <2>2. next.step = "write" /\ next.file = c.file
    BY <2>1 DEF TypeInv, Calls
  <2>3. CallAt(p) /\ PlaceOk
        /\ \A q \in Provisioners \ {p} : call[q].step = "idle" /\ call'[q] = call[q]
    BY <2>1, Moves
  <2>4. c.file = part /\ part # dest
    BY <2>1, <2>3 DEF CallAt, TypeInv
  <2>5. dest # None => written[dest] = content[dest]
    BY <2>4 DEF TypeInv
  <2> HIDE DEF next, written
  <2>6. call'[p] = next
    BY <2>1, Moves
  <2>7. CallAt(p)'
    BY <2>1, <2>2, <2>3, <2>4, <2>6 DEF CallAt
  <2>8. PlaceOk'
    BY <2>1, <2>2, <2>3, <2>5, <2>6, InPlace DEF PlaceOk, Unpinned, Busy, CallAt
  <2> QED
    BY <2>1, <2>7, <2>8, Moves
<1>8. ASSUME NEW p \in Provisioners, EndOfDownload(p) \/ DownloadFails(p)
      PROVE  AloneInv'
  <2> DEFINE next == IF EndOfDownload(p) THEN At("replace", None, 0, TRUE) ELSE Idle
  <2>1. /\ Step(p, next, content) /\ UNCHANGED <<dest, returned>>
        /\ call[p].step \in {"write", "download"}
        /\ "dest" \in abandoned => "dest" \in abandoned'
    BY <1>8 DEF EndOfDownload, DownloadFails
  <2>2. next.step \in {"replace", "idle"}
    BY DEF Idle, At
  <2> HIDE DEF next
  <2>3. CallAt(p) /\ PlaceOk /\ call'[p] = next
        /\ \A q \in Provisioners \ {p} : call[q].step = "idle" /\ call'[q] = call[q]
    BY <2>1, Moves
  <2>4. CallAt(p)'
    BY <2>1, <2>2, <2>3 DEF CallAt
  <2>5. PlaceOk'
    BY <2>1, <2>2, <2>3, InPlace DEF PlaceOk, Unpinned, Busy, CallAt
  <2> QED
    BY <2>1, <2>4, <2>5, Moves
<1>9. ASSUME NEW p \in Provisioners, Replace(p) PROVE AloneInv'
  <2> DEFINE next == IF part = None THEN Idle ELSE At("check", None, 0, TRUE)
  <2>1. Step(p, next, content) /\ UNCHANGED returned /\ call[p].step = "replace"
    BY <1>9 DEF Replace
  <2>2. /\ part = None => next.step = "idle"
        /\ part # None => /\ next.step = "check" /\ next.file = None
                          /\ next.pos = 0 /\ next.same
    BY DEF Idle, At
  <2> HIDE DEF next
  <2>3. CallAt(p) /\ PlaceOk /\ call'[p] = next
        /\ \A q \in Provisioners \ {p} : call[q].step = "idle" /\ call'[q] = call[q]
    BY <2>1, Moves
  <2>4. ~returned
    BY <2>1, <2>3 DEF CallAt
  <2>5. CallAt(p)'
    BY <2>1, <2>2, <2>3, <2>4 DEF CallAt, ReadsSoFar
  <2>6. PlaceOk'
    <3>1. CASE part = None
      <4>1. UNCHANGED <<dest, abandoned>>
        BY <1>9, <3>1 DEF Replace
      <4> QED
        BY <2>1, <2>2, <2>3, <2>4, <3>1, <4>1, InPlace DEF PlaceOk, Unpinned, Busy
    <3>2. CASE part # None
      BY <2>1, <2>2, <2>3, <2>4, <3>2 DEF PlaceOk, Busy
    <3> QED
      BY <3>1, <3>2
  <2> QED
    BY <2>1, <2>5, <2>6, Moves
<1>10. ASSUME NEW p \in Provisioners, Remove(p) PROVE AloneInv'
  <2>1. Step(p, Idle, content) /\ UNCHANGED returned /\ call[p].step = "remove"
        /\ dest' = None
    BY <1>10 DEF Remove
  <2>2. CallAt(p) /\ PlaceOk /\ call'[p].step = "idle"
    BY <2>1, Moves, IdleType
  <2>3. CallAt(p)' /\ PlaceOk'
    BY <2>1, <2>2 DEF CallAt, PlaceOk, Unpinned
  <2> QED
    BY <2>1, <2>3, Moves
<1>11. ASSUME NEW p \in Provisioners, Crash(p) PROVE AloneInv'
  <2>1. /\ Step(p, Idle, content) /\ UNCHANGED <<part, dest, returned>>
        /\ abandoned \subseteq abandoned'
        /\ call[p].step \in {"check", "remove"} => "dest" \in abandoned'
    BY <1>11 DEF Crash
  <2>2. CallAt(p) /\ PlaceOk /\ call'[p].step = "idle"
        /\ \A q \in Provisioners \ {p} : call[q].step = "idle" /\ call'[q] = call[q]
    BY <2>1, Moves, IdleType
  <2>3. CallAt(p)'
    BY <2>2 DEF CallAt
  <2>4. PlaceOk'
    BY <2>1, <2>2, InPlace DEF PlaceOk, Unpinned, Busy
  <2> QED
    BY <2>1, <2>3, <2>4, Moves
<1> QED
  BY <1>1, <1>2, <1>3, <1>4, <1>5, <1>6, <1>7, <1>8, <1>9, <1>10, <1>11 DEF Next

LEMMA Alone == Spec => []AloneInv
  BY AloneInit, AloneStep, Typed, PTL DEF Spec

\* Once a call has returned the pack, every connect gets the pinned one, through
\* failing downloads, wrong answers and crashes of any later call (ensure_pack).
THEOREM PackStays == Spec => []ReturnedPackStays
<1>1. AloneInv => ReturnedPackStays
  BY DEF AloneInv, PlaceOk, ReturnedPackStays, discover_local_packs
<1> QED
  BY <1>1, Alone, PTL

\* A pack that is not the pinned one is in place only while the call that put it
\* there is checking it, or where nobody ever looked or a call crashed.
THEOREM UnpinnedIsChecked == Spec => []UnpinnedOnlyWhileChecked
<1>1. AloneInv => UnpinnedOnlyWhileChecked
  BY DEF AloneInv, PlaceOk, Unpinned, UnpinnedOnlyWhileChecked, discover_local_packs
<1> QED
  BY <1>1, Alone, PTL
=============================================================================
