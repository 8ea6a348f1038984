---------------------------- MODULE TerminalPipes ----------------------------
(***************************************************************************)
(* terminal-session.ts and pty-pipe.ts: terminals whose PTYs come and go,  *)
(* the buffer that joins the chunks of a burst, and the cables that carry  *)
(* the output of one terminal to the input of others, at a limited rate.   *)
(*                                                                         *)
(* A PTY is named by its generation, a chunk by its number in the PTY.  An *)
(* event of EventParts chunks or fewer is never cut by a cable.  heard is  *)
(* what a subscriber of the events has seen of a terminal, and misheard is *)
(* set when it sees output that does not follow what it saw before.        *)
(***************************************************************************)
EXTENDS Naturals, Sequences, FiniteSets

CONSTANTS
  Terminals,
  MaxStarts,     \* PTYs started, all terminals together
  MaxChunks,     \* chunks a PTY writes
  BufferParts,   \* chunks the buffer holds before it is flushed at once
  EventParts,    \* chunks of the largest event of a flush
  MaxForwards,   \* forwards of a cable in a second
  MaxClock

VARIABLES
  live,          \* PTYs that run, as <<terminal, generation>>
  current,       \* per terminal: the generation of its session, 0 for none
  wrote,         \* per terminal: chunks its current PTY has written
  buffer,        \* per terminal: <<>> or <<chunks that wait>>
  edges,         \* the cables, as <<from, to>>
  windows,       \* per cable that forwarded: the second, and how often in it
  clock,
  starts,
  heard,         \* per terminal: the last PTY seen to start, its chunks, its end
  misheard

pipeVars == <<live, current, wrote, buffer, edges, windows, clock, starts, heard, misheard>>

Init ==
  /\ live = {} /\ edges = {} /\ windows = <<>>
  /\ current = [t \in Terminals |-> 0]
  /\ wrote = [t \in Terminals |-> 0]
  /\ buffer = [t \in Terminals |-> <<>>]
  /\ heard = [t \in Terminals |-> [pty |-> 0, chunks |-> 0, ended |-> FALSE]]
  /\ clock = 0 /\ starts = 0 /\ misheard = FALSE

-----------------------------------------------------------------------------
(* pty-pipe.ts *)

Window(e, ws) ==
  LET w == IF e \in DOMAIN ws THEN ws[e] ELSE [second |-> clock, forwards |-> 0]
  IN IF clock > w.second THEN [second |-> clock, forwards |-> 0] ELSE w

\* n events of a terminal reach its cables; a cable to a terminal without a
\* session forwards nothing and keeps no count.
Forwarded(t, n, es, ws) ==
  LET cables == {e \in es : e[1] = t /\ current[e[2]] # 0}
      count(e) == LET w == Window(e, ws) IN
        [w EXCEPT !.forwards = IF @ + n > MaxForwards THEN MaxForwards ELSE @ + n]
  IN IF n = 0 THEN ws
     ELSE [e \in DOMAIN ws \cup cables |-> IF e \in cables THEN count(e) ELSE ws[e]]

\* The walk of the graph from a terminal, one cable at a time.
Steps(S, es) == {e[2] : e \in {x \in es : x[1] \in S}}
Reaches(start, target, es) ==
  LET walk[n \in 0..Cardinality(Terminals)] ==
        IF n = 0 THEN Steps({start}, es) ELSE walk[n - 1] \cup Steps(walk[n - 1], es)
  IN target \in walk[Cardinality(Terminals)]

SetPipe_WithoutWalk(a, b) ==
  /\ a # b
  /\ edges' = edges \cup {<<a, b>>}
  /\ UNCHANGED <<live, current, wrote, buffer, windows, clock, starts, heard, misheard>>

SetPipe(a, b) ==
  /\ a # b
  /\ ~Reaches(b, a, edges)
  /\ edges' = edges \cup {<<a, b>>}
  /\ UNCHANGED <<live, current, wrote, buffer, windows, clock, starts, heard, misheard>>

Kept_All(ws, es) == ws

Kept(ws, es) == [e \in DOMAIN ws \cap es |-> ws[e]]

CutCables(cut) ==
  /\ edges' = edges \ cut
  /\ windows' = [e \in DOMAIN windows \ cut |-> windows[e]]

ClearPipe(a) ==
  /\ CutCables({e \in edges : e[1] = a})
  /\ UNCHANGED <<live, current, wrote, buffer, clock, starts, heard, misheard>>

CablesOf(t) == {e \in edges : t \in {e[1], e[2]}}

-----------------------------------------------------------------------------
(* terminal-session.ts *)

\* Chunks of a PTY arrive at a subscriber after its start, in order, before its end.
Hear(h, pty, from, to) ==
  [ok |-> from > to \/ (h.pty = pty /\ ~h.ended /\ from = h.chunks + 1),
   view |-> IF from > to THEN h ELSE [h EXCEPT !.chunks = to]]

Pending(t) == IF buffer[t] = <<>> THEN <<>> ELSE buffer[t][1]

\* The events of a flush: the chunks that wait, joined and cut to EventParts.
FlushEvents(t) == (Len(Pending(t)) + EventParts - 1) \div EventParts

FlushHeard(t) ==
  IF Pending(t) = <<>> THEN [ok |-> TRUE, view |-> heard[t]]
  ELSE LET first == Head(Pending(t)) last == Pending(t)[Len(Pending(t))]
       IN Hear(heard[t], first[1], first[2], last[2])

\* What a flush of t does while the cables are es.
Flush(t, es, ws) ==
  /\ buffer' = [buffer EXCEPT ![t] = <<>>]
  /\ windows' = Forwarded(t, FlushEvents(t), es, ws)
  /\ misheard' = (misheard \/ ~FlushHeard(t).ok)

\* The timer of the buffer, or a resize, which flushes before it is announced.
FlushPendingData(t) ==
  /\ buffer[t] # <<>>
  /\ Flush(t, edges, windows)
  /\ heard' = [heard EXCEPT ![t] = FlushHeard(t).view]
  /\ UNCHANGED <<live, current, wrote, edges, clock, starts>>

\* The first chunk of a burst is emitted at once, and opens the buffer.
AppendTerminalData(t) ==
  /\ current[t] # 0 /\ wrote[t] < MaxChunks
  /\ wrote' = [wrote EXCEPT ![t] = @ + 1]
  /\ LET chunk == <<current[t], wrote[t] + 1>>
         now == Hear(heard[t], current[t], wrote[t] + 1, wrote[t] + 1)
         joined == Append(Pending(t), chunk)
         all == Hear(heard[t], joined[1][1], joined[1][2], chunk[2])
     IN IF buffer[t] = <<>>
        THEN /\ buffer' = [buffer EXCEPT ![t] = <<<<>>>>]
             /\ windows' = Forwarded(t, 1, edges, windows)
             /\ heard' = [heard EXCEPT ![t] = now.view]
             /\ misheard' = (misheard \/ ~now.ok)
        ELSE IF Len(joined) < BufferParts
        THEN buffer' = [buffer EXCEPT ![t] = <<joined>>] /\ UNCHANGED <<windows, heard, misheard>>
        ELSE /\ buffer' = [buffer EXCEPT ![t] = <<>>]
             /\ windows' = Forwarded(t, (Len(joined) + EventParts - 1) \div EventParts, edges, windows)
             /\ heard' = [heard EXCEPT ![t] = all.view]
             /\ misheard' = (misheard \/ ~all.ok)
  /\ UNCHANGED <<live, current, edges, clock, starts>>

StopTerminal_KeepsOutput(t, keepPipes) ==
  LET es == IF keepPipes THEN edges ELSE edges \ CablesOf(t) IN
  /\ edges' = es
  /\ windows' = Kept(windows, es)
  /\ UNCHANGED <<buffer, misheard>>

\* The session of the terminal ends; what its PTY wrote is flushed first.  The
\* PTY is killed and exits later.
StopTerminal(t, keepPipes) ==
  LET es == IF keepPipes THEN edges ELSE edges \ CablesOf(t) IN
  /\ edges' = es
  /\ IF current[t] = 0 THEN UNCHANGED <<buffer, misheard>> /\ windows' = Kept(windows, es)
     ELSE Flush(t, es, Kept(windows, es))

\* A stop takes the cables of the terminal away, a restart keeps them.
Stop(t) ==
  /\ StopTerminal(t, FALSE)
  /\ current' = [current EXCEPT ![t] = 0]
  /\ heard' = IF current[t] = 0 THEN heard ELSE [heard EXCEPT ![t] = FlushHeard(t).view]
  /\ UNCHANGED <<live, wrote, clock, starts>>

\* stopAllTerminals, when the application quits.
StopAll ==
  /\ \E t \in Terminals : current[t] # 0
  /\ LET seen(t) == IF current[t] = 0 THEN [ok |-> TRUE, view |-> heard[t]] ELSE FlushHeard(t) IN
     /\ heard' = [t \in Terminals |-> seen(t).view]
     /\ misheard' = (misheard \/ \E t \in Terminals : ~seen(t).ok)
  /\ buffer' = [t \in Terminals |-> IF current[t] = 0 THEN buffer[t] ELSE <<>>]
  /\ current' = [t \in Terminals |-> 0]
  /\ edges' = {} /\ windows' = <<>>
  /\ UNCHANGED <<live, wrote, clock, starts>>

\* The spawn of a PTY may throw, after the old session was stopped.
StartTerminal(t) ==
  /\ starts < MaxStarts
  /\ StopTerminal(t, TRUE)
  /\ LET seen == IF current[t] = 0 THEN heard[t] ELSE FlushHeard(t).view IN
     \/ /\ starts' = starts + 1
        /\ current' = [current EXCEPT ![t] = starts + 1]
        /\ live' = live \cup {<<t, starts + 1>>}
        /\ wrote' = [wrote EXCEPT ![t] = 0]
        /\ heard' = [heard EXCEPT ![t] = [pty |-> starts + 1, chunks |-> 0, ended |-> FALSE]]
     \/ /\ current' = [current EXCEPT ![t] = 0]
        /\ heard' = [heard EXCEPT ![t] = seen]
        /\ UNCHANGED <<live, wrote, starts>>
  /\ UNCHANGED clock

\* A PTY exits, of the current session or of one that was replaced.
OnExit(t, pty) ==
  /\ <<t, pty>> \in live
  /\ live' = live \ {<<t, pty>>}
  /\ IF pty # current[t] THEN UNCHANGED <<current, buffer, windows, heard, misheard>>
     ELSE /\ Flush(t, edges, windows)
          /\ current' = [current EXCEPT ![t] = 0]
          /\ heard' = [heard EXCEPT ![t] = [FlushHeard(t).view EXCEPT !.ended = TRUE]]
  /\ UNCHANGED <<wrote, edges, clock, starts>>

Tick ==
  /\ clock < MaxClock
  /\ clock' = clock + 1
  /\ UNCHANGED <<live, current, wrote, buffer, edges, windows, starts, heard, misheard>>

Next ==
  \/ StopAll \/ Tick
  \/ \E t \in Terminals :
       \/ ClearPipe(t) \/ FlushPendingData(t) \/ AppendTerminalData(t) \/ Stop(t) \/ StartTerminal(t)
       \/ \E u \in Terminals : SetPipe(t, u)
       \/ \E pty \in 1..MaxStarts : OnExit(t, pty)

Spec == Init /\ [][Next]_pipeVars

-----------------------------------------------------------------------------

\* No output goes round: whatever order cables were drawn, cut and redrawn in, no
\* set of terminals feeds itself.
PipesStayAcyclic ==
  \A S \in (SUBSET Terminals) \ {{}} : \E t \in S : \A u \in S : <<u, t>> \notin edges

\* A count is kept for cables that are drawn, and for no other.
WindowsFollowCables == DOMAIN windows \subseteq edges

\* Output that waits is of the PTY that writes now and follows what was
\* emitted; and a subscriber never sees output out of its place.
OutputInPlace ==
  /\ ~misheard
  /\ \A t \in Terminals : buffer[t] # <<>> => current[t] # 0 /\ heard[t].pty = current[t]
       /\ \A i \in 1..Len(Pending(t)) : Pending(t)[i] = <<current[t], heard[t].chunks + i>>
=============================================================================
