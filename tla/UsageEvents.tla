----------------------------- MODULE UsageEvents -----------------------------
(***************************************************************************)
(* Token events of usage-store.ts: a refresh scans the agents' logs from    *)
(* the offset it knows, outside the store's queue, and in the queue appends *)
(* what is new to events.jsonl and then saves the offset.  Events are named *)
(* by their place in the log, which is their dedupeKey.  The file is cut to *)
(* its last MaxEvents lines when it is loaded, memory at any time.  Both    *)
(* files are replaced by writeFileAtomically, which moves the old one to    *)
(* its backup first; nothing here ever reads a backup.                      *)
(* An append that fails has written nothing; the end of the process may cut *)
(* one short.  The set of keys is large enough for what a scan finds again, *)
(* and files that are there can be read.                                    *)
(***************************************************************************)
EXTENDS Naturals, Sequences, SequencesExt, FiniteSets

CONSTANTS
  Refreshes,             \* calls of refreshNow
  MaxLines,              \* bound on the agents' log
  MaxEvents,             \* maxEvents
  MaxRestarts            \* bound on ends of the process

VARIABLES
  source,                \* lines the agents have logged
  file,                  \* events.jsonl: the lines of it that can be read
  tail,                  \* how it ends: in a "torn" line, in a "whole" one that lacks its
                         \* newline, or in "none" of these
  rewrite, aside,        \* its replacement by a load, and the lines moved to the backup
  savedOffset,           \* the offset in scan-state.json; 0 without that file
  events, dedupeKeys, offset, loaded,     \* the store's memory
  refresh,               \* refreshes: their place and what they found
  pruned,                \* lines that were cut off the file for its length
  joined,                \* lines that an append joined to one without its newline
  leftBehind,            \* lines whose only copy is a backup that nobody reads
  keyless, apart,        \* since the process started, memory has kept events without their
                         \* keys; an append has joined lines
  restarts

vars ==
  <<source, file, tail, rewrite, aside, savedOffset, events, dedupeKeys, offset, loaded, refresh,
    pruned, joined, leftBehind, keyless, apart, restarts>>

disk == <<file, tail, rewrite, aside, savedOffset>>
memory == <<events, dedupeKeys, offset, loaded>>
history == <<pruned, joined, leftBehind, keyless, apart>>

Init ==
  /\ source = 0
  /\ file = <<>> /\ tail = "none" /\ rewrite = "no" /\ aside = <<>> /\ savedOffset = 0
  /\ events = <<>> /\ dedupeKeys = {} /\ offset = 0 /\ loaded = FALSE
  /\ refresh = [c \in Refreshes |-> [at |-> "idle", found |-> <<>>, to |-> 0, had |-> 0]]
  /\ pruned = {} /\ joined = {} /\ leftBehind = {} /\ keyless = FALSE /\ apart = FALSE
  /\ restarts = 0

At(c, place) == refresh[c].at = place
Goto(c, place) == refresh' = [refresh EXCEPT ![c].at = place]

\* The newest of s.
Kept(s) == IF Len(s) > MaxEvents THEN SubSeq(s, Len(s) - MaxEvents + 1, Len(s)) ELSE s

-----------------------------------------------------------------------------

\* An agent logs what it used.
Log ==
  /\ source < MaxLines
  /\ source' = source + 1
  /\ UNCHANGED <<disk, memory, refresh, history, restarts>>

\* What the file has, or had when it was moved aside.
Content == IF rewrite = "moved" THEN aside ELSE file

\* The end of loadLocked: the events that were kept have their keys.
Remembered(kept) ==
  /\ loaded' = TRUE
  /\ dedupeKeys' = ToSet(kept)
  /\ offset' = savedOffset

\* loadLocked: a file that is too long is written anew first.  Without a file, memory
\* is left as it is, which is what a load that failed has put there.
Load ==
  /\ ~loaded /\ rewrite = "no"
  /\ events' = IF file = <<>> THEN events ELSE Kept(file)
  /\ IF Len(file) > MaxEvents
       THEN rewrite' = "begun" /\ UNCHANGED <<dedupeKeys, offset, loaded, keyless>>
       ELSE /\ Remembered(file)
            /\ keyless' = (file = <<>> /\ events # <<>>)
            /\ UNCHANGED rewrite
  /\ UNCHANGED <<source, file, tail, aside, savedOffset, refresh, pruned, joined, leftBehind,
                 apart, restarts>>

\* The file is moved to its backup, if that is permitted ...
MoveAside ==
  /\ rewrite = "begun"
  /\ rewrite' = "moved"
  /\ aside' = file /\ file' = <<>>
  /\ UNCHANGED <<source, tail, savedOffset, memory, refresh, history, restarts>>

\* ... and the new one takes its place.
Rewritten ==
  /\ rewrite # "no"
  /\ pruned' = pruned \cup (ToSet(Content) \ ToSet(events))
  /\ file' = events /\ tail' = "none" /\ aside' = <<>> /\ rewrite' = "no"
  /\ Remembered(events)
  /\ UNCHANGED <<source, savedOffset, events, refresh, joined, leftBehind, keyless, apart, restarts>>

\* The load fails with it.  The backup is moved back, or that fails as well.
RewriteFails ==
  /\ rewrite # "no"
  /\ \/ file' = Content /\ UNCHANGED <<tail, leftBehind>>
     \/ /\ rewrite = "moved"
        /\ file' = <<>> /\ tail' = "none"
        /\ leftBehind' = leftBehind \cup ToSet(aside)
  /\ rewrite' = "no" /\ aside' = <<>>
  /\ UNCHANGED <<source, savedOffset, memory, refresh, pruned, joined, keyless, apart, restarts>>

\* The scanner is given the offset, and takes its time.
Scan(c) ==
  /\ At(c, "idle") /\ loaded
  /\ refresh' = [refresh EXCEPT ![c] = [@ EXCEPT !.at = "scanning", !.to = offset]]
  /\ UNCHANGED <<source, disk, memory, history, restarts>>

\* It finds the lines behind the offset, or fails.
Scanned(c) ==
  /\ At(c, "scanning")
  /\ LET from == refresh[c].to IN
     refresh' = [refresh EXCEPT ![c] =
       [@ EXCEPT !.at = "queued", !.found = [i \in 1 .. source - from |-> from + i], !.to = source]]
  /\ UNCHANGED <<source, disk, memory, history, restarts>>

ScanFails(c) ==
  /\ At(c, "scanning")
  /\ Goto(c, "failed")
  /\ UNCHANGED <<source, disk, memory, history, restarts>>

\* What was found and is not among the keys, in its order.
Unseen(found, keys) ==
  LET new[i \in 0 .. Len(found)] ==
        IF i = 0 THEN <<>>
        ELSE IF found[i] \in keys THEN new[i - 1] ELSE Append(new[i - 1], found[i])
  IN new[Len(found)]

\* Operations of the store's queue run one after the other.
Busy == \E c \in Refreshes : refresh[c].at \in {"appending", "persisting", "replacing"}

\* appendEventsLocked: new events go to memory; with none of them, only the offset
\* is left to save.
Take(c, new) ==
  /\ At(c, "queued") /\ ~Busy
  /\ events' = Kept(events \o new)
  /\ dedupeKeys' = dedupeKeys \cup ToSet(new)
  /\ refresh' = [refresh EXCEPT ![c] =
       [@ EXCEPT !.at = IF new = <<>> THEN "persisting" ELSE "appending",
                 !.found = new, !.had = Len(events)]]
  /\ offset' = IF new = <<>> THEN refresh[c].to ELSE offset
  /\ UNCHANGED <<source, disk, loaded, history, restarts>>

TakeEvents_Again(c) == Take(c, refresh[c].found)

TakeEvents(c) == Take(c, Unseen(refresh[c].found, dedupeKeys))

\* The first n of the lines of c are written.  Behind a line without its newline, the
\* first of them is one line with it, that no load can read.
Written(c, n) ==
  LET ended == IF tail = "whole" THEN Front(file) ELSE file
      lost == IF tail # "none" /\ n > 0 THEN 1 ELSE 0
  IN file' = ended \o SubSeq(refresh[c].found, 1 + lost, n)

Spoilt == IF tail = "whole" THEN {Last(file)} ELSE {}

\* What a slower scan saw may be behind what the offset is by now.
AppendEvents(c) ==
  /\ At(c, "appending")
  /\ Written(c, Len(refresh[c].found))
  /\ joined' = joined \cup Spoilt \cup (IF tail = "none" THEN {} ELSE {refresh[c].found[1]})
  /\ apart' = (apart \/ tail # "none")
  /\ tail' = "none"
  /\ offset' = refresh[c].to
  /\ Goto(c, "persisting")
  /\ UNCHANGED <<source, rewrite, aside, savedOffset, events, dedupeKeys, loaded, pruned,
                 leftBehind, keyless, restarts>>

\* Memory is cut back to the length it had, which leaves new events in it, without
\* their keys, if older ones had to make place for them.
AppendFails(c) ==
  /\ At(c, "appending")
  /\ LET had == refresh[c].had IN
     /\ events' = IF Len(events) > had THEN SubSeq(events, 1, had) ELSE events
     /\ keyless' = (keyless \/ had + Len(refresh[c].found) > MaxEvents)
  /\ dedupeKeys' = dedupeKeys \ ToSet(refresh[c].found)
  /\ Goto(c, "failed")
  /\ UNCHANGED <<source, disk, offset, loaded, pruned, joined, leftBehind, apart, restarts>>

\* scan-state.json, if there is one, is moved to its backup ...
PersistMoves(c) ==
  /\ At(c, "persisting") /\ savedOffset > 0
  /\ savedOffset' = 0
  /\ refresh' = [refresh EXCEPT ![c] = [@ EXCEPT !.at = "replacing", !.had = savedOffset]]
  /\ UNCHANGED <<source, file, tail, rewrite, aside, memory, history, restarts>>

\* ... and the new one takes its place.
PersistState(c) ==
  /\ At(c, "persisting") \/ At(c, "replacing")
  /\ savedOffset' = refresh[c].to
  /\ Goto(c, "done")
  /\ UNCHANGED <<source, file, tail, rewrite, aside, memory, history, restarts>>

\* The backup is moved back, or that fails as well.
PersistFails(c) ==
  /\ \/ At(c, "persisting") /\ UNCHANGED savedOffset
     \/ At(c, "replacing") /\ savedOffset' \in {refresh[c].had, 0}
  /\ Goto(c, "failed")
  /\ UNCHANGED <<source, file, tail, rewrite, aside, memory, history, restarts>>

\* An append was under way, and has written n lines: the last of them to its end, or
\* to its newline, or a piece of one more.
CutShort(c, n, end) ==
  /\ At(c, "appending")
  /\ end = "none" => n > 0
  /\ end = "torn" => n < Len(refresh[c].found)
  /\ end = "whole" => n > (IF tail = "none" THEN 0 ELSE 1)
  /\ Written(c, n)
  /\ tail' = end
  /\ joined' = joined \cup Spoilt

\* The process ends, perhaps in the middle of an append or between the two moves of a
\* file, and starts again.
Restart ==
  /\ restarts < MaxRestarts
  /\ restarts' = restarts + 1
  /\ \/ /\ tail' = IF rewrite = "moved" THEN "none" ELSE tail
        /\ UNCHANGED <<file, joined>>
     \/ \E c \in Refreshes : \E n \in 0 .. Len(refresh[c].found), end \in {"none", "torn", "whole"} :
          CutShort(c, n, end)
  /\ leftBehind' = leftBehind \cup ToSet(aside)
  /\ rewrite' = "no" /\ aside' = <<>>
  /\ events' = <<>> /\ dedupeKeys' = {} /\ offset' = 0 /\ loaded' = FALSE
  /\ refresh' = [c \in Refreshes |->
       IF At(c, "idle") THEN refresh[c] ELSE [refresh[c] EXCEPT !.at = "failed"]]
  /\ keyless' = FALSE /\ apart' = FALSE
  /\ UNCHANGED <<source, savedOffset, pruned>>

Next ==
  \/ Log \/ Load \/ MoveAside \/ Rewritten \/ RewriteFails \/ Restart
  \/ \E c \in Refreshes :
       \/ Scan(c) \/ Scanned(c) \/ ScanFails(c) \/ TakeEvents(c) \/ AppendEvents(c)
       \/ AppendFails(c) \/ PersistMoves(c) \/ PersistState(c) \/ PersistFails(c)

\* Scans end, and writes do.
Progress(c) ==
  \/ Scanned(c) \/ ScanFails(c) \/ TakeEvents(c) \/ AppendEvents(c) \/ AppendFails(c)
  \/ PersistMoves(c) \/ PersistState(c) \/ PersistFails(c)

LoadProgress == MoveAside \/ Rewritten \/ RewriteFails

Unfinished(c) ==
  refresh[c].at \in {"scanning", "queued", "appending", "persisting", "replacing"}

LoadUnfinished == rewrite # "no"

-----------------------------------------------------------------------------
(* Properties *)

\* What an agent logged is counted once, though scans overlap and a scan after a
\* crash finds again what an append had written before the offset was saved.
\* Exempt is the memory of a store in which an append failed at the limit, or a load
\* came after one that had lost the file: it has events without their keys until
\* the process ends.
CountedOnce == IsInjective(file) /\ (~keyless => IsInjective(events))

\* The saved offset does not run ahead of the file: what lies before it is in the
\* file, is about to be put there again, or was dropped for its age.  Exempt are the
\* lines that an append joined to one without its newline, the end of a process having
\* cut short the append before it, and the lines of a file that was moved to its backup
\* when the process ended, or that could not be moved back (RewriteKeepsEvents is the
\* same without this exemption).
NothingSkipped ==
  1 .. savedOffset \subseteq ToSet(file) \cup ToSet(aside) \cup pruned \cup joined \cup leftBehind

\* Between operations, memory has what a load would find ("manter evento e arquivo
\* coerentes"), unless it has events without their keys or an append of this process
\* has joined lines.
MemoryIsFile == loaded /\ ~Busy /\ ~keyless /\ ~apart => events = Kept(file)

\* A load that prunes the file replaces it in one step ("regrava atomicamente"): no
\* line that the saved offset is past is lost with it, except for its age.
RewriteKeepsEvents ==
  1 .. savedOffset \subseteq ToSet(file) \cup ToSet(aside) \cup pruned \cup joined
=============================================================================
