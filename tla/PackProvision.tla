--------------------------- MODULE PackProvision ---------------------------
(***************************************************************************)
(* Provisioning of one pinned CMSIS pack: host_bootstrap and stage0_check,   *)
(* run by hand and any number of times, call ensure_pack on one directory    *)
(* from which every connect takes whatever *.pack file it finds.             *)
(*                                                                           *)
(* A call is broken up at its system calls, since calls of other processes  *)
(* and a crash may come in between.  A file lives as long as a name or an   *)
(* open handle refers to it (POSIX).                                        *)
(***************************************************************************)
EXTENDS Naturals, Sequences, FiniteSets

CONSTANTS
  Provisioners,   \* processes that call ensure_pack
  Files,          \* inodes of the file system
  None,           \* no file
  Chunks          \* length of the pinned pack, in chunks of _CHUNK bytes

ASSUME ProvisionConstants ==
  /\ None \notin Files
  /\ Chunks \in Nat \ {0}
  /\ IsFiniteSet(Provisioners) /\ IsFiniteSet(Files)
  /\ Cardinality(Files) >= Cardinality(Provisioners) + 2

VARIABLES
  content,     \* chunks of every file
  part, dest,  \* files named <pack>.part and <pack>
  call,        \* what each provisioner is doing
  returned,    \* some call has returned a path to the pack
  overlapped,  \* two calls have been under way at once
  abandoned    \* names whose file nobody answers for: found at the start, or
               \* left by a crash

names == <<part, dest, abandoned>>
vars == <<content, names, call, returned, overlapped>>

Chunk == {"pinned", "wrong", "hole"}
Pinned == [i \in 1..Chunks |-> "pinned"]

Steps == {"idle", "verify", "download", "write", "replace", "check", "remove"}
Calls == [step : Steps, file : Files \cup {None}, pos : 0..Chunks, same : BOOLEAN]

At(step, file, pos, same) == [step |-> step, file |-> file, pos |-> pos, same |-> same]
Idle == At("idle", None, 0, TRUE)

\* What a connect passes to pyOCD: the file of that name, verified or not.
discover_local_packs == IF dest = None THEN {} ELSE {content[dest]}

----------------------------------------------------------------------------

\* p goes on to do next, and the files now read written; a file that has lost
\* its last name and handle is gone.
Step(p, next, written) ==
  /\ call' = [call EXCEPT ![p] = next]
  /\ content' = [f \in Files |->
       IF f \in {part', dest'} \cup {call'[q].file : q \in Provisioners}
       THEN written[f] ELSE << >>]
  /\ overlapped' = (overlapped \/ \E q \in Provisioners \ {p} : call[q].step # "idle")

\* Mutant of Begin: the pack in place is not looked at.
BeginAnyway(p) ==
  /\ call[p].step = "idle"
  /\ UNCHANGED <<names, returned>>
  /\ Step(p, At("download", None, 0, TRUE), content)

\* ensure_pack is called: a pack in place is verified first.
Begin(p) ==
  /\ call[p].step = "idle"
  /\ UNCHANGED <<names, returned>>
  /\ Step(p, At(IF dest = None THEN "download" ELSE "verify", None, 0, TRUE), content)

\* _sha256 opens the pack to verify or check it; it may be gone by now.
Open(p) ==
  /\ call[p].step \in {"verify", "check"} /\ call[p].file = None
  /\ UNCHANGED <<names, returned>>
  /\ Step(p, IF dest = None THEN Idle ELSE [call[p] EXCEPT !.file = dest], content)

Reading(p) == call[p].step \in {"verify", "check"} /\ call[p].file # None
AtEnd(p) == call[p].pos = Chunks \/ call[p].pos >= Len(content[call[p].file])

Read(p) ==
  LET c == call[p]
  IN  /\ Reading(p) /\ ~AtEnd(p)
      /\ UNCHANGED <<names, returned>>
      /\ Step(p, [c EXCEPT !.pos = @ + 1,
                           !.same = @ /\ content[c.file][c.pos + 1] = "pinned"], content)

Matches(p) == call[p].same /\ call[p].pos = Chunks

\* The checksum is known.  A match returns the path; a mismatch means a
\* download when it is the first look, and an error when it is the last.
Decide(p) ==
  /\ Reading(p) /\ AtEnd(p)
  /\ returned' = (returned \/ Matches(p))
  /\ UNCHANGED names
  /\ Step(p, IF Matches(p) THEN Idle
             ELSE At(IF call[p].step = "verify" THEN "download" ELSE "remove", None, 0, TRUE),
          content)

FreeFile == CHOOSE f \in Files :
  f \notin {part, dest} \cup {call[q].file : q \in Provisioners}

\* The server answers; tmp.open("wb") creates the file or empties the one there.
OpenPart(p) ==
  /\ call[p].step = "download"
  /\ part' = IF part = None THEN FreeFile ELSE part
  /\ abandoned' = abandoned \ {"part"}
  /\ UNCHANGED <<dest, returned>>
  /\ Step(p, At("write", part', 0, TRUE), [content EXCEPT ![part'] = << >>])

\* old, with a chunk written at a position that may lie behind its end.
Overwritten(old, pos, chunk) ==
  [i \in 1..(IF pos > Len(old) THEN pos ELSE Len(old)) |->
     IF i = pos THEN chunk ELSE IF i > Len(old) THEN "hole" ELSE old[i]]

\* The server may send what it likes, and may stop early.
Write(p, chunk) ==
  LET c == call[p]
  IN  /\ c.step = "write" /\ c.pos < Chunks
      /\ UNCHANGED <<names, returned>>
      /\ Step(p, [c EXCEPT !.pos = @ + 1],
              [content EXCEPT ![c.file] = Overwritten(@, c.pos + 1, chunk)])

EndOfDownload(p) ==
  /\ call[p].step = "write"
  /\ UNCHANGED <<names, returned>>
  /\ Step(p, At("replace", None, 0, TRUE), content)

\* Mutant of DownloadFails: what was downloaded so far is kept.
DownloadFailsKeeping(p) ==
  /\ call[p].step \in {"download", "write"}
  /\ UNCHANGED <<names, returned>>
  /\ Step(p, Idle, content)

\* No connection, or none any more: the part file is removed, whoever wrote it.
DownloadFails(p) ==
  /\ call[p].step \in {"download", "write"}
  /\ part' = None
  /\ abandoned' = abandoned \ {"part"}
  /\ UNCHANGED <<dest, returned>>
  /\ Step(p, Idle, content)

\* tmp.replace(dest), which raises if the part file is gone.
Replace(p) ==
  /\ call[p].step = "replace"
  /\ IF part = None THEN UNCHANGED names
     ELSE dest' = part /\ part' = None /\ abandoned' = {}
  /\ UNCHANGED returned
  /\ Step(p, IF part = None THEN Idle ELSE At("check", None, 0, TRUE), content)

\* Mutant of Remove: the error is raised, the file stays.
RemoveNothing(p) ==
  /\ call[p].step = "remove"
  /\ UNCHANGED <<names, returned>>
  /\ Step(p, Idle, content)

\* A mismatch after the download: the pack in place is removed.
Remove(p) ==
  /\ call[p].step = "remove"
  /\ dest' = None
  /\ abandoned' = abandoned \ {"dest"}
  /\ UNCHANGED <<part, returned>>
  /\ Step(p, Idle, content)

\* The process is killed.
Crash(p) ==
  /\ call[p].step # "idle"
  /\ abandoned' = abandoned
       \cup {name \in {"part"} : call[p].step \in {"write", "replace"}}
       \cup {name \in {"dest"} : call[p].step \in {"check", "remove"}}
  /\ UNCHANGED <<part, dest, returned>>
  /\ Step(p, Idle, content)

\* The directory holds what an earlier version or another host left there.
Init ==
  /\ part \in Files \cup {None} /\ dest \in Files \cup {None}
  /\ part # None => part # dest
  /\ content \in [Files -> {<< >>, Pinned, <<"wrong">>}]
  /\ \A f \in Files \ {part, dest} : content[f] = << >>
  /\ call = [p \in Provisioners |-> Idle]
  /\ returned = FALSE /\ overlapped = FALSE
  /\ abandoned = {"part", "dest"}

Next ==
  \E p \in Provisioners :
    \/ Begin(p)
    \/ Open(p) \/ Read(p) \/ Decide(p)
    \/ OpenPart(p)
    \/ \E chunk \in {"pinned", "wrong"} : Write(p, chunk)
    \/ EndOfDownload(p) \/ DownloadFails(p)
    \/ Replace(p) \/ Remove(p)
    \/ Crash(p)

Spec == Init /\ [][Next]_vars

----------------------------------------------------------------------------
(* What provisioning promises.                                              *)

\* Every variable keeps the type its comment gives it; no file outgrows the pack.
TypeOK ==
  /\ content \in [Files -> UNION {[1..n -> Chunk] : n \in 0..Chunks}]
  /\ part \in Files \cup {None} /\ dest \in Files \cup {None}
  /\ call \in [Provisioners -> Calls]
  /\ returned \in BOOLEAN /\ overlapped \in BOOLEAN
  /\ abandoned \subseteq {"part", "dest"}

Busy(steps) == \E p \in Provisioners : call[p].step \in steps

\* Once a call has returned the pack, every connect gets the pinned one, through
\* failing downloads, wrong answers and crashes of any later call
\* (ensure_pack); only two calls at a time can take it away again.
ReturnedPackStays == returned /\ ~overlapped => discover_local_packs = {Pinned}

\* A pack that is not the pinned one is in place only while the call that put it
\* there is checking it, if it was there from the start, or if that call
\* crashed; two calls at a time can leave one for good.
UnpinnedOnlyWhileChecked ==
  ~overlapped /\ discover_local_packs \notin {{}, {Pinned}}
    => Busy({"check", "remove"}) \/ "dest" \in abandoned

\* A part file has a call that will rename or remove it, even while calls
\* interfere, or it was left by a crash (_download).
PartHasOwner == part # None => Busy({"write", "replace"}) \/ "part" \in abandoned
============================================================================
