----------------------------- MODULE Connection -----------------------------
(* core/connection.cpp: a connection of type CT_STREAM. The receive thread    *)
(* appends what the socket has to its leftover text, splits it at newlines    *)
(* and pushes the lines to a queue under a lock; the main thread pops them,   *)
(* sends lines of its own and finally destroys the connection. Bytes other    *)
(* than ':', CR and LF are all "x"; the lines to the server are counted only. *)
(* The HTTP and websocket callbacks, which run in the caller's thread, are    *)
(* not modelled.                                                              *)
EXTENDS Naturals, Sequences, SequencesExt

CONSTANTS
  RECEIVE_BUFSIZE,   \* the most that one call of recv returns
  MAX_SEND_RETRIES,  \* failed attempts after which send gives up
  LINE_SIZE,         \* the size of a line to the server
  MAX_BYTES,         \* bound: bytes that the server sends
  MAX_SENDS,         \* bound: lines that the main thread sends
  NoLine             \* the null pointer of popRecv

ASSUME SizesAssumption ==
  /\ RECEIVE_BUFSIZE \in Nat \ {0} /\ LINE_SIZE \in Nat \ {0}
  /\ MAX_SEND_RETRIES \in Nat \ {0} /\ MAX_BYTES \in Nat /\ MAX_SENDS \in Nat

VARIABLES
  wire,         \* bytes of the server that recv did not return yet
  count,        \* bytes that the server sent so far
  up,           \* the network works
  m_connected,
  thread,       \* the receive thread: "read", "scan" (within the inner loop), "stopped"
  data,         \* its leftover text
  offset,       \* its position in the inner loop, counted from 0
  m_recv_queue,
  main,         \* the main thread: "idle", "sending", "closing" (in the destructor), "closed"
  sent_total,   \* within send: what is sent of the line
  retries,      \* within send: failed attempts for this line
  popped,       \* what popRecv returned last
  sent,         \* for every line to the server: how much of it was sent
  success       \* what send returned last

network == <<wire, count, up>>
receiver == <<thread, data, offset>>
sender == <<sent_total, retries, sent, success>>
vars == <<network, m_connected, receiver, m_recv_queue, main, sender, popped>>

Byte == {":", "CR", "LF", "x"}

Init ==
  /\ wire = <<>> /\ count = 0 /\ up = TRUE
  /\ m_connected = TRUE /\ thread = "read" /\ data = <<>> /\ offset = 0
  /\ m_recv_queue = <<>> /\ main = "idle"
  /\ sent_total = 0 /\ retries = 0 /\ sent = <<>> /\ success = TRUE /\ popped = NoLine

-----------------------------------------------------------------------------
(* The server and the network. *)

ServerSends(b) ==
  /\ up /\ count < MAX_BYTES
  /\ wire' = Append(wire, b) /\ count' = count + 1
  /\ UNCHANGED <<up, m_connected, receiver, m_recv_queue, main, sender, popped>>

\* The connection breaks: what recv did not return yet is lost from some point
\* on. Nothing in the code notices: recv returns 0 from then on.
Break ==
  /\ up /\ up' = FALSE
  /\ \E n \in 0 .. Len(wire) : wire' = SubSeq(wire, 1, n)
  /\ UNCHANGED <<count, m_connected, receiver, m_recv_queue, main, sender, popped>>

-----------------------------------------------------------------------------
(* The receive thread. *)

\* recv returns a first part of what is there; the inner loop starts at 0. When
\* it returns 0, the thread sleeps and looks at m_connected again.
Receive ==
  /\ thread = "read" /\ m_connected
  /\ \E n \in 1 .. RECEIVE_BUFSIZE :
       /\ n <= Len(wire)
       /\ data' = data \o SubSeq(wire, 1, n)
       /\ wire' = SubSeq(wire, n + 1, Len(wire))
  /\ thread' = "scan" /\ offset' = 0
  /\ UNCHANGED <<count, up, m_connected, m_recv_queue, main, sender, popped>>

\* The positions, from 0, of the newlines that find looks for.
NewLines == {i \in offset .. Len(data) - 1 : data[i + 1] = "LF"}
FirstNewLine == CHOOSE i \in NewLines : \A j \in NewLines : i <= j

SkipEmpty ==
  /\ thread = "scan" /\ NewLines # {} /\ FirstNewLine = offset
  /\ offset' = offset + 1
  /\ UNCHANGED <<network, m_connected, thread, data, m_recv_queue, main, sender, popped>>

\* A leading ':' and the CR before the newline are not part of the line.
PushLine ==
  /\ thread = "scan" /\ NewLines # {} /\ FirstNewLine # offset
  /\ LET index  == FirstNewLine
         start  == IF data[offset + 1] = ":" THEN offset + 1 ELSE offset
         has_cr == IF data[index] = "CR" THEN 1 ELSE 0
     IN /\ m_recv_queue' = Append(m_recv_queue, SubSeq(data, start + 1, index - has_cr))
        /\ offset' = index + 1
  /\ UNCHANGED <<network, m_connected, thread, data, main, sender, popped>>

\* Mutant: the text after the last newline is dropped.
DropLeftover ==
  /\ thread = "scan" /\ NewLines = {}
  /\ data' = IF offset > 0 THEN <<>> ELSE data
  /\ offset' = 0 /\ thread' = "read"
  /\ UNCHANGED <<network, m_connected, m_recv_queue, main, sender, popped>>

KeepLeftover ==
  /\ thread = "scan" /\ NewLines = {}
  /\ data' = SubSeq(data, offset + 1, Len(data)) /\ offset' = 0 /\ thread' = "read"
  /\ UNCHANGED <<network, m_connected, m_recv_queue, main, sender, popped>>

Stop ==
  /\ thread = "read" /\ ~m_connected
  /\ thread' = "stopped"
  /\ UNCHANGED <<network, m_connected, data, offset, m_recv_queue, main, sender, popped>>

Thread == Receive \/ SkipEmpty \/ PushLine \/ KeepLeftover \/ Stop

-----------------------------------------------------------------------------
(* The main thread. *)

PopRecv ==
  /\ main = "idle"
  /\ IF m_recv_queue = <<>>
     THEN popped' = NoLine /\ UNCHANGED m_recv_queue
     ELSE popped' = Head(m_recv_queue) /\ m_recv_queue' = Tail(m_recv_queue)
  /\ UNCHANGED <<network, m_connected, receiver, main, sender>>

StartSend ==
  /\ main = "idle" /\ Len(sent) < MAX_SENDS
  /\ main' = "sending"
  /\ UNCHANGED <<network, m_connected, receiver, m_recv_queue, sender, popped>>

\* One round of the loop: curl takes a part, or fails and takes nothing.
SendPart ==
  /\ main = "sending" /\ sent_total < LINE_SIZE /\ retries # MAX_SEND_RETRIES
  /\ \/ up /\ \E n \in 1 .. LINE_SIZE - sent_total :
          sent_total' = sent_total + n /\ UNCHANGED retries
     \/ retries' = retries + 1 /\ UNCHANGED sent_total
  /\ UNCHANGED <<network, m_connected, receiver, m_recv_queue, main, sent, success, popped>>

\* The loop ends: all is sent, or the retries are used up.
EndSend ==
  /\ main = "sending"
  /\ \/ sent_total >= LINE_SIZE /\ success' = TRUE
     \/ sent_total < LINE_SIZE /\ retries = MAX_SEND_RETRIES /\ success' = FALSE
  /\ sent' = Append(sent, sent_total) /\ main' = "idle"
  /\ sent_total' = 0 /\ retries' = 0
  /\ UNCHANGED <<network, m_connected, receiver, m_recv_queue, popped>>

\* The destructor tells the thread to stop and waits for it.
Close ==
  /\ main = "idle"
  /\ m_connected' = FALSE /\ main' = "closing"
  /\ UNCHANGED <<network, receiver, m_recv_queue, sender, popped>>

Joined ==
  /\ main = "closing" /\ thread = "stopped"
  /\ main' = "closed"
  /\ UNCHANGED <<network, m_connected, receiver, m_recv_queue, sender, popped>>

Next ==
  \/ \E b \in Byte : ServerSends(b)
  \/ Break
  \/ Thread
  \/ PopRecv \/ StartSend \/ SendPart \/ EndSend \/ Close \/ Joined

(* Fairness: both threads run. The main loop comes back to popRecv in every   *)
(* round, a call of send goes on until it returns, the destructor waits until *)
(* the thread has stopped. Nothing is assumed of the server, of the network,  *)
(* or of anybody who wants to send or to close.                               *)
Spec ==
  /\ Init /\ [][Next]_vars
  /\ WF_vars(Thread) /\ WF_vars(PopRecv) /\ WF_vars(SendPart \/ EndSend) /\ WF_vars(Joined)

-----------------------------------------------------------------------------
(* The reference for the splitter, byte by byte: the text before each newline *)
(* is a line unless it is empty, without one leading ':' and one final CR.    *)

Stripped(text) ==
  LET body == IF Head(text) = ":" THEN Tail(text) ELSE text
  IN IF body # <<>> /\ Last(body) = "CR" THEN Front(body) ELSE body

LinesOf(bytes) ==
  LET Read(acc, b) ==
        IF b # "LF" THEN [acc EXCEPT !.text = Append(@, b)]
        ELSE IF acc.text = <<>> THEN acc
        ELSE [lines |-> Append(acc.lines, Stripped(acc.text)), text |-> <<>>]
      upTo[i \in 0 .. Len(bytes)] ==
        IF i = 0 THEN [lines |-> <<>>, text |-> <<>>] ELSE Read(upTo[i - 1], bytes[i])
  IN upTo[Len(bytes)].lines

\* What the thread has not split yet.
Unsplit == SubSeq(data, offset + 1, Len(data)) \o wire

Abstract == INSTANCE LineStream WITH
  coming <- m_recv_queue \o LinesOf(Unsplit),
  taken  <- popped,
  phase  <- CASE main = "closing" -> "closing" [] main = "closed" -> "closed" [] OTHER -> "open"

\* However the bytes arrive in pieces and the two threads interleave, every
\* complete line of the server is popped, whole, once and in order, as long as
\* the connection is neither broken nor closed; a line to the server is sent
\* completely or send returns false; and the destructor ends.
ImplementsLineStream == Abstract!Spec
=============================================================================
