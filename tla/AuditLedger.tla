----------------------------- MODULE AuditLedger -----------------------------
(***************************************************************************)
(* audit-ledger.ts: entries appended, one at a time, to a file of lines,   *)
(* of which a prefix is cut when the file has grown too large.  A write    *)
(* that fails, and a crash, may leave part of a line, which takes the next *)
(* entry with it; the process starts again and goes on with the same file. *)
(*                                                                         *)
(* Sizes are counted in lines.  Each entry is appended once.               *)
(***************************************************************************)
EXTENDS Naturals, FiniteSets, SequencesExt

CONSTANTS
  Entries,       \* entries, in the order in which they are appended
  MaxLines,      \* above this the file is cut
  TailLines,     \* to less than this
  MaxTears       \* bound on torn writes and crashes

VARIABLES
  log,           \* the file: entries, or "torn" for a line nobody can read
  openLine,      \* the last line has no end yet
  tail,          \* the temporary file of a cut, or <<>>
  size,          \* ceilingSize, or Unknown
  step,          \* of the append in course
  next,          \* how many appends have begun
  acked,         \* entries whose append was acknowledged
  tears          \* how often a write was torn or the process died

ledgerVars == <<log, openLine, tail, size, step, next, acked, tears>>

Unknown == MaxLines + Len(Entries) + 1

Init ==
  /\ log = <<>> /\ openLine = FALSE /\ tail = <<>> /\ size = Unknown
  /\ step = "idle" /\ next = 0 /\ acked = {} /\ tears = 0

Current == Entries[next]

-----------------------------------------------------------------------------

\* append: the operation reaches the head of the queue.  The size is looked up
\* once per process, and not found while there is no file.
Begin ==
  /\ step = "idle"
  /\ next < Len(Entries)
  /\ next' = next + 1
  /\ size' = IF size = Unknown THEN Len(log) ELSE size
  /\ step' = IF size' > MaxLines THEN "cutting" ELSE "writing"
  /\ UNCHANGED <<log, openLine, tail, acked, tears>>

\* mkdir fails: the append is rejected, and the next one tries again.
NoDirectory ==
  /\ step = "idle"
  /\ next < Len(Entries)
  /\ next' = next + 1
  /\ UNCHANGED <<log, openLine, tail, size, step, acked, tears>>

Cut_KeepsTheHead ==
  /\ step = "cutting"
  /\ tail' = SubSeq(log, 1, TailLines - 1)
  /\ step' = "renaming"
  /\ UNCHANGED <<log, openLine, size, next, acked, tears>>

\* The tail goes to a temporary file, after the fragment it begins with; a
\* failure keeps the file and looks at its size again.
Cut ==
  /\ step = "cutting"
  /\ \/ /\ Len(log) > MaxLines
        /\ tail' = SubSeq(log, Len(log) - TailLines + 2, Len(log))
        /\ step' = "renaming"
        /\ UNCHANGED size
     \/ /\ tail' = <<>>
        /\ size' = Len(log)
        /\ step' = "writing"
  /\ UNCHANGED <<log, openLine, next, acked, tears>>

Rename ==
  /\ step = "renaming"
  /\ \/ log' = tail /\ size' = Len(tail)
     \/ UNCHANGED log /\ size' = Len(log)
  /\ tail' = <<>>
  /\ step' = "writing"
  /\ UNCHANGED <<openLine, next, acked, tears>>

\* What a line written to the file leaves: it joins a line without an end.
Joined(line) ==
  IF openLine THEN Append(Front(log), "torn") ELSE Append(log, line)

Write ==
  /\ step = "writing"
  /\ log' = Joined(Current)
  /\ openLine' = FALSE
  /\ size' = size + 1
  /\ acked' = acked \cup {Current}
  /\ step' = "idle"
  /\ UNCHANGED <<tail, next, tears>>

\* The write fails, before or after a part of it.
WriteFails ==
  /\ step = "writing"
  /\ step' = "idle"
  /\ \/ UNCHANGED <<log, openLine, tears>>
     \/ /\ tears < MaxTears
        /\ tears' = tears + 1
        /\ log' = Joined("torn")
        /\ openLine' = TRUE
  /\ UNCHANGED <<tail, size, next, acked>>

\* The process dies, perhaps within a write, and starts again.
CrashLedger ==
  /\ tears < MaxTears
  /\ tears' = tears + 1
  /\ \/ UNCHANGED <<log, openLine>>
     \/ step = "writing" /\ log' = Joined("torn") /\ openLine' = TRUE
  /\ step' = "idle"
  /\ size' = Unknown
  /\ UNCHANGED <<tail, next, acked>>

Next == Begin \/ NoDirectory \/ Cut \/ Rename \/ Write \/ WriteFails \/ CrashLedger

Progress == Cut \/ Rename \/ Write

Spec == Init /\ [][Next]_ledgerVars /\ WF_ledgerVars(Progress)

-----------------------------------------------------------------------------

Unfinished == step # "idle"

\* What read() gives.
Readable == ToSet(log) \ {"torn"}

\* Entries older than every one that can be read.
Old == {e \in ToSet(Entries) :
          \A r \in Readable : \E i, j \in DOMAIN Entries :
             i < j /\ Entries[i] = e /\ Entries[j] = r}

\* The entries of the last lines, which a cut keeps.
Recent == {Entries[i] : i \in {i \in DOMAIN Entries : i <= next /\ i > next - TailLines + 1}}

\* Entries are read in the order of their appends; and of the acknowledged ones
\* that are recent, or newer than one that can be read, a torn write or a crash
\* costs at most one.
LedgerKeepsEntries ==
  /\ \A i, j \in DOMAIN log : \A m, n \in DOMAIN Entries :
       i < j /\ log[i] = Entries[m] /\ log[j] = Entries[n] => m < n
  /\ Cardinality(acked \ (Readable \cup Old)) <= tears
  /\ Cardinality((acked \cap Recent) \ Readable) <= tears
=============================================================================
