--------------------------- MODULE LegacyMigration ---------------------------
(***************************************************************************)
(* ai-memory-migration.ts and the writers it closes: migrations import a   *)
(* project's old memory and publish a receipt, and from then on whoever    *)
(* writes the old memory must find the receipt, or the backup a rewrite of *)
(* it was interrupted at, and keep out.                                    *)
(*                                                                         *)
(* Nothing serialises the migrations or the checks of the writers, and     *)
(* each reads the two files one after the other.  The process may end at   *)
(* any step.  A receipt is present, missing, or torn: copied in part.      *)
(***************************************************************************)
CONSTANTS
  Migrations,     \* each made once
  LegacyWriters   \* calls that write the old memory, each made once

VARIABLES
  file, bak,      \* "none", "torn" or "receipt"
  migration,      \* per migration: its step
  writer,         \* per writer: its step
  published,      \* a receipt has been published
  closedBefore,   \* writers whose check began after that
  crossed,        \* writers during whose check somebody else changed a file
  overlapped      \* two migrations rewrote the receipt at the same time

migrationVars == <<file, bak, migration, writer, published, closedBefore, crossed, overlapped>>

Init ==
  /\ file = "none" /\ bak = "none"
  /\ migration = [m \in Migrations |-> "new"]
  /\ writer = [w \in LegacyWriters |-> "new"]
  /\ published = FALSE /\ closedBefore = {} /\ crossed = {} /\ overlapped = FALSE

Checking == {w \in LegacyWriters : writer[w] \in {"again", "backup", "copy", "copying"}}
RewriteSteps == {"publish", "fallback", "replace", "cleanup"}

\* The files after a step of who: every other check under way is crossed.
Files(who, f, b) ==
  /\ file' = f /\ bak' = b
  /\ published' = (published \/ f = "receipt")
  /\ crossed' = IF <<f, b>> = <<file, bak>> THEN crossed ELSE crossed \cup (Checking \ {who})

GoOn(m, step) ==
  /\ migration' = [migration EXCEPT ![m] = step]
  /\ overlapped' = (overlapped \/
       (step \in RewriteSteps /\ \E x \in Migrations \ {m} : migration[x] \in RewriteSteps))

-----------------------------------------------------------------------------
(* runLegacyMigration *)

\* loadReceiptWithRecovery reads the file.  A torn one is written anew; a read
\* that fails aborts; one that finds nothing goes on to the backup.
Lookup(m) ==
  /\ migration[m] = "new"
  /\ \/ GoOn(m, IF file = "none" THEN "backup" ELSE "pages")
     \/ GoOn(m, "failed")
  /\ UNCHANGED <<file, bak, writer, published, closedBefore, crossed>>

LookupBackup(m) ==
  /\ migration[m] = "backup"
  /\ GoOn(m, IF bak = "receipt" THEN "restore" ELSE "pages")
  /\ UNCHANGED <<file, bak, writer, published, closedBefore, crossed>>

\* The backup is copied into the file's place, if it can be.
Restore(m) ==
  /\ migration[m] = "restore"
  /\ \/ bak = "receipt" /\ Files(m, "torn", bak) /\ GoOn(m, "restoring")
     \/ Files(m, file, bak) /\ GoOn(m, "pages")
  /\ UNCHANGED <<writer, closedBefore>>

Restored(m) ==
  /\ migration[m] = "restoring"
  /\ Files(m, "receipt", bak)
  /\ GoOn(m, "pages")
  /\ UNCHANGED <<writer, closedBefore>>

\* Every page is written and read back; one that differs fails the migration.
\* With nothing new to import there is nothing to publish.
WriteAndConfirm(m) ==
  /\ migration[m] = "pages"
  /\ \E step \in {"publish", "failed", "done"} : GoOn(m, step)
  /\ UNCHANGED <<file, bak, writer, published, closedBefore, crossed>>

\* writeReceipt: the rename replaces the file, or falls back.
Publish(m) ==
  /\ migration[m] = "publish"
  /\ \/ Files(m, "receipt", bak) /\ GoOn(m, "done")
     \/ Files(m, file, bak) /\ GoOn(m, "fallback")
  /\ UNCHANGED <<writer, closedBefore>>

MoveAside_Deletes(m) ==
  /\ migration[m] = "fallback"
  /\ Files(m, "none", bak)
  /\ GoOn(m, "replace")
  /\ UNCHANGED <<writer, closedBefore>>

\* The file becomes the backup.
MoveAside(m) ==
  /\ migration[m] = "fallback"
  /\ \/ file # "none" /\ Files(m, "none", file) /\ GoOn(m, "replace")
     \/ Files(m, file, bak) /\ GoOn(m, "failed")
  /\ UNCHANGED <<writer, closedBefore>>

\* The new receipt takes the file's place; a failure leaves the backup there.
Replace(m) ==
  /\ migration[m] = "replace"
  /\ \/ Files(m, "receipt", bak) /\ GoOn(m, "cleanup")
     \/ Files(m, file, bak) /\ GoOn(m, "failed")
  /\ UNCHANGED <<writer, closedBefore>>

\* The backup is removed, if it can be.
RemoveBackup(m) ==
  /\ migration[m] = "cleanup"
  /\ \E b \in {bak, "none"} : Files(m, file, b)
  /\ GoOn(m, "done")
  /\ UNCHANGED <<writer, closedBefore>>

-----------------------------------------------------------------------------
(* The check of a writer (readMigrationReceiptState), and its write. *)

To(w, step) ==
  /\ writer' = [writer EXCEPT ![w] = step]
  /\ UNCHANGED <<migration, overlapped>>

\* The first read of the file; one that fails, or finds it torn, closes.
Check(w) ==
  /\ writer[w] = "new"
  /\ closedBefore' = IF published THEN closedBefore \cup {w} ELSE closedBefore
  /\ \E fails \in BOOLEAN : To(w, IF fails \/ file # "none" THEN "closed" ELSE "again")
  /\ UNCHANGED <<file, bak, published, crossed>>

\* loadReceiptWithRecovery reads it again: what it finds torn counts as none.
CheckAgain(w) ==
  /\ writer[w] = "again"
  /\ \/ To(w, "closed")
     \/ file = "none" /\ To(w, "backup")
     \/ file = "torn" /\ To(w, "open")
  /\ UNCHANGED <<file, bak, published, closedBefore, crossed>>

CheckBackup(w) ==
  /\ writer[w] = "backup"
  /\ \/ To(w, "closed")
     \/ bak = "none" /\ To(w, "open")
     \/ bak = "receipt" /\ To(w, "copy")
  /\ UNCHANGED <<file, bak, published, closedBefore, crossed>>

\* The backup is copied into the file's place, if it can be.
Copy(w) ==
  /\ writer[w] = "copy"
  /\ \/ bak = "receipt" /\ Files(w, "torn", bak) /\ To(w, "copying")
     \/ Files(w, file, bak) /\ To(w, "closed")
  /\ UNCHANGED closedBefore

Copied(w) ==
  /\ writer[w] = "copying"
  /\ Files(w, "receipt", bak)
  /\ To(w, "closed")
  /\ UNCHANGED closedBefore

\* The old memory is written, after the writes that were queued before.
Write(w) ==
  /\ writer[w] = "open"
  /\ To(w, "wrote")
  /\ UNCHANGED <<file, bak, published, closedBefore, crossed>>

\* The process ends, and what it was doing with it; the files stay as they are.
Crash ==
  /\ Checking # {} \/ \E m \in Migrations : migration[m] \notin {"new", "done", "failed"}
  /\ migration' = [m \in Migrations |-> IF migration[m] = "new" THEN "new" ELSE "failed"]
  /\ writer' = [w \in LegacyWriters |-> IF writer[w] \in {"new", "wrote"} THEN writer[w] ELSE "closed"]
  /\ UNCHANGED <<file, bak, published, closedBefore, crossed, overlapped>>

MigrationStep(m) ==
  \/ Lookup(m) \/ LookupBackup(m) \/ Restore(m) \/ Restored(m) \/ WriteAndConfirm(m)
  \/ Publish(m) \/ MoveAside(m) \/ Replace(m) \/ RemoveBackup(m)

WriterStep(w) ==
  Check(w) \/ CheckAgain(w) \/ CheckBackup(w) \/ Copy(w) \/ Copied(w) \/ Write(w)

Next ==
  \/ Crash
  \/ \E m \in Migrations : MigrationStep(m)
  \/ \E w \in LegacyWriters : WriterStep(w)

Spec == Init /\ [][Next]_migrationVars

-----------------------------------------------------------------------------

\* Once published, a receipt or what closes the writers like one is there,
\* whatever step of its rewriting fails or is the last, unless two migrations
\* rewrote it at once.
ReceiptSurvives == published /\ ~overlapped => file # "none" \/ bak # "none"

\* A writer that began its check after that keeps out, unless somebody else
\* moved the files while it looked, or the receipt was lost.
LegacyStaysClosed ==
  \A w \in closedBefore \ crossed : ~overlapped => writer[w] \notin {"open", "wrote"}

\* What the code says of the check: only the absence of both files opens it.
OnlyAbsenceOpens == \A w \in closedBefore : writer[w] \notin {"open", "wrote"}
=============================================================================
