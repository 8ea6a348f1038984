----------------------------- MODULE RecordStore -----------------------------
(***************************************************************************)
(* The stores that keep a list of records in memory and in a file:         *)
(* EvolutionStore and HybridMemory, over writeFileAtomically and           *)
(* recoverFileFromBackup.  Calls are serialised by the store, so one at a  *)
(* time runs.  Every step of a write may fail, and the process may end     *)
(* after any of them and start again.                                      *)
(*                                                                         *)
(* Files are written whole or not at all (the temporary file is synced     *)
(* before it is renamed); a file someone else damaged is not modelled.     *)
(***************************************************************************)
EXTENDS Naturals, Sequences

CONSTANTS
  MaxAdds,       \* records ever added
  MaxRecords,    \* records the store keeps
  RollsBack      \* the stores chosen from: TRUE takes a rejected change back

VARIABLES
  rollsBack,     \* EvolutionStore takes it back, HybridMemory does not
  main, bak,     \* the file and its backup: <<>> or <<records>>
  memory,        \* <<>> until loaded, or <<records>>
  before,        \* the records before the change under way
  step,          \* of the call under way
  backedUp,      \* that call renamed the file to the backup
  added,
  saved,         \* the records when a call last succeeded, or at a restart
  forgotten      \* the backup holds them, a load could not move it into place, and memory has
                 \* begun without them

storeVars == <<rollsBack, main, bak, memory, before, step, backedUp, added, saved, forgotten>>

Contents(file) == IF file = <<>> THEN <<>> ELSE file[1]

\* What a start of the program would find.
Recoverable == Contents(IF main # <<>> THEN main ELSE bak)

Init ==
  /\ rollsBack \in RollsBack
  /\ main = <<>> /\ bak = <<>> /\ memory = <<>>
  /\ before = <<>> /\ step = "idle" /\ backedUp = FALSE
  /\ added = 0 /\ saved = <<>> /\ forgotten = FALSE

Trim(records) ==
  SubSeq(records, IF Len(records) > MaxRecords THEN Len(records) - MaxRecords + 1 ELSE 1, Len(records))

-----------------------------------------------------------------------------

EnsureLoaded_WithoutBackup ==
  /\ step = "idle" /\ memory = <<>>
  /\ memory' = <<Contents(main)>>
  /\ UNCHANGED <<rollsBack, main, bak, before, step, backedUp, added, saved, forgotten>>

\* The first call reads the file, or else moves the backup into its place.  If that is
\* not permitted (recoverFileFromBackup answers false), it goes on with no records.
EnsureLoaded ==
  /\ step = "idle" /\ memory = <<>>
  /\ \/ /\ memory' = <<Recoverable>>
        /\ main' = IF main = <<>> THEN bak ELSE main
        /\ bak' = IF main = <<>> THEN <<>> ELSE bak
        /\ forgotten' = FALSE
     \/ /\ main = <<>> /\ bak # <<>>
        /\ memory' = <<<<>>>>
        /\ forgotten' = TRUE
        /\ UNCHANGED <<main, bak>>
  /\ UNCHANGED <<rollsBack, before, step, backedUp, added, saved>>

Change(records) ==
  /\ step = "idle" /\ memory # <<>>
  /\ before' = memory[1]
  /\ memory' = <<records>>
  /\ step' = "temporary"
  /\ backedUp' = FALSE
  /\ UNCHANGED <<rollsBack, main, bak, saved, forgotten>>

Add ==
  /\ added < MaxAdds
  /\ added' = added + 1
  /\ Change(Trim(Append(Contents(memory), added + 1)))

\* Only HybridMemory removes.
Remove ==
  /\ ~rollsBack
  /\ \E i \in 1..Len(Contents(memory)) :
       LET r == memory[1] IN Change(SubSeq(r, 1, i - 1) \o SubSeq(r, i + 1, Len(r)))
  /\ UNCHANGED added

Succeed ==
  /\ step' = "idle"
  /\ saved' = Contents(memory)
  /\ forgotten' = FALSE
  /\ UNCHANGED memory

\* The call rejects.
Reject ==
  /\ step' = "idle"
  /\ memory' = IF rollsBack THEN <<before>> ELSE memory
  /\ UNCHANGED <<saved, forgotten>>

-----------------------------------------------------------------------------
(* writeFileAtomically *)

WriteTemporary ==
  /\ step = "temporary"
  /\ \/ Reject
     \/ step' = (IF main # <<>> THEN "unlink" ELSE "rename") /\ UNCHANGED <<memory, saved, forgotten>>
  /\ UNCHANGED <<rollsBack, main, bak, before, backedUp, added>>

\* The old backup is removed if it can be.
RemoveBackup ==
  /\ step = "unlink"
  /\ bak' \in {bak, <<>>}
  /\ step' = "backup"
  /\ UNCHANGED <<rollsBack, main, memory, before, backedUp, added, saved, forgotten>>

\* The file becomes the backup; where that is not permitted the write goes on.
Backup ==
  /\ step = "backup"
  /\ \/ /\ bak' = main /\ main' = <<>> /\ backedUp' = TRUE
        /\ step' = "rename" /\ UNCHANGED <<memory, saved, forgotten>>
     \/ step' = "rename" /\ UNCHANGED <<main, bak, backedUp, memory, saved, forgotten>>
     \/ Reject /\ UNCHANGED <<main, bak, backedUp>>
  /\ UNCHANGED <<rollsBack, before, added>>

Rename ==
  /\ step = "rename"
  /\ \/ main' = memory /\ Succeed
     \/ /\ UNCHANGED main
        /\ IF backedUp THEN step' = "restore" /\ UNCHANGED <<memory, saved, forgotten>> ELSE Reject
  /\ UNCHANGED <<rollsBack, bak, before, backedUp, added>>

\* The backup is moved back if it can be.
Restore ==
  /\ step = "restore"
  /\ \/ main' = bak /\ bak' = <<>>
     \/ UNCHANGED <<main, bak>>
  /\ Reject
  /\ UNCHANGED <<rollsBack, before, backedUp, added>>

\* The process ends, and starts again with what the files hold.
Crash ==
  /\ memory # <<>>
  /\ memory' = <<>> /\ step' = "idle"
  /\ saved' = Recoverable /\ forgotten' = FALSE
  /\ UNCHANGED <<rollsBack, main, bak, before, backedUp, added>>

Next ==
  \/ EnsureLoaded \/ Add \/ Remove
  \/ WriteTemporary \/ RemoveBackup \/ Backup \/ Rename \/ Restore \/ Crash

Spec == Init /\ [][Next]_storeVars

-----------------------------------------------------------------------------

\* Whatever step of a load or a write fails or is the last: the file, or else its backup,
\* holds what the last successful call left, or all of the change under way.
\* No half of it, and nothing older.
SavedSurvives == Recoverable = saved \/ (step # "idle" /\ Recoverable = Contents(memory))

\* A store that takes rejected changes back answers from what is saved.  Exempt is one
\* that began without the records of its backup, until a call of it succeeds: what that
\* call saves replaces them.
MemoryIsSaved ==
  rollsBack /\ step = "idle" /\ memory # <<>> /\ ~forgotten => memory[1] = saved
=============================================================================
