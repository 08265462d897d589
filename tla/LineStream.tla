----------------------------- MODULE LineStream -----------------------------
(* What the users of a stream connection rely on: the lines that the server   *)
(* sends arrive whole, once and in order, unless the network breaks, and then *)
(* the lines still under way are lost from the end; a line to the server is   *)
(* sent completely or its sender is told that it was not; and closing the     *)
(* connection ends.                                                           *)
EXTENDS Naturals, Sequences

CONSTANTS NoLine,      \* what is taken when there is no line
          LINE_SIZE    \* the size of a line to the server

VARIABLES coming,      \* the lines sent by the server that nobody took yet
          taken,       \* the line taken last
          sent,        \* how much of each line to the server was sent
          success,     \* what the sender of the last one was told
          phase        \* "open", "closing", "closed"

vars == <<coming, taken, sent, success, phase>>

Init == coming = <<>> /\ taken = NoLine /\ sent = <<>> /\ success = TRUE /\ phase = "open"

\* The server finishes one more line, whichever it is.
Arrive ==
  /\ Len(coming') = Len(coming) + 1
  /\ SubSeq(coming', 1, Len(coming)) = coming
  /\ UNCHANGED <<taken, sent, success, phase>>

\* The network breaks: the newest lines may be lost, the others still arrive.
Break ==
  /\ \E n \in 0 .. Len(coming) : coming' = SubSeq(coming, 1, n)
  /\ UNCHANGED <<taken, sent, success, phase>>

Take ==
  /\ phase = "open" /\ coming # <<>>
  /\ coming' = Tail(coming) /\ taken' = Head(coming)
  /\ UNCHANGED <<sent, success, phase>>

TakeNone ==
  /\ phase = "open" /\ taken' = NoLine
  /\ UNCHANGED <<coming, sent, success, phase>>

Send ==
  /\ phase = "open"
  /\ \E n \in 0 .. LINE_SIZE : sent' = Append(sent, n) /\ success' = (n = LINE_SIZE)
  /\ UNCHANGED <<coming, taken, phase>>

Close == phase = "open" /\ phase' = "closing" /\ UNCHANGED <<coming, taken, sent, success>>
Closed == phase = "closing" /\ phase' = "closed" /\ UNCHANGED <<coming, taken, sent, success>>

Next == Arrive \/ Break \/ Take \/ TakeNone \/ Send \/ Close \/ Closed

Spec == Init /\ [][Next]_vars /\ WF_vars(Take) /\ WF_vars(Closed)
=============================================================================
