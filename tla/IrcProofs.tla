----------------------------- MODULE IrcProofs -----------------------------
(***************************************************************************)
(* The IRC client for any nicknames, addresses, queue and timers: its      *)
(* types, what it sees of the channel, that a pending account is asked for *)
(* and that whoever waits for one has one.                                 *)
(***************************************************************************)
EXTENDS Irc, WellFoundedInduction, TLAPS

\* The lines that the bot sends.
Line == {Text, Command("JOIN"), Command("NICK")} \cup {Acc(n) : n \in Name}

JoinLine == [type |-> "JOIN", nick |-> Bot]
NamesLine == [type |-> "353", names |-> chan]

\* The types of the bot's state but for its queue; an account that was asked
\* for is a user's.
StateOK ==
  /\ pc \in {"top", "line", "ended"}
  /\ m_auth_type \in AuthTypes /\ m_auth_status \in {"SEND_NICK", "AUTHENTICATE", "DONE"}
  /\ m_user_modes \subseteq {"i", "r"}
  /\ nick \in [Inst -> Name \cup {NoNick}]
  /\ account \in [Inst -> {"UNKNOWN", "PENDING", "KNOWN"}]
  /\ joined \in BOOLEAN /\ members \subseteq Users /\ (~joined => members = {})
  /\ waiting \subseteq Users /\ timeout \in [Inst -> 0 .. TIMEOUT]
  /\ \A i \in Inst : account[i] # "UNKNOWN" => i \in Users
  /\ \A i \in waiting : account[i] = "PENDING"

BotOK ==
  /\ StateOK
  /\ m_send_queue \in Seq(Line) /\ Len(m_send_queue) <= SEND_QUEUE_MAX
  /\ lost \subseteq Users

\* The server's answer to a JOIN is on its way, in whole or in part.
ServerOK ==
  /\ chan \subseteq Name /\ registered \in BOOLEAN /\ asked \subseteq Name
  /\ rare \in 0 .. MAX_RARE /\ misled \in BOOLEAN
  /\ lines \in {<<>>, <<JoinLine, NamesLine>>, <<NamesLine>>}
  /\ Bot \notin chan => chan = {} /\ lines = <<>>

\* No two users of the same nickname.
Unique == \A i, j \in Users : nick[i] = nick[j] => i = j

\* The bot sees the channel, also while the answer to its JOIN comes in.
Sight ==
  pc # "ended" =>
    /\ lines = <<>> /\ Bot \in chan => joined /\ \A n \in chan : Found(Users, n) # {}
    /\ ~misled =>
         /\ Unique
         /\ lines = <<>> => joined = (Bot \in chan) /\ {nick[i] : i \in members} = chan
         /\ lines = <<JoinLine, NamesLine>> => ~joined
         /\ lines = <<NamesLine>> => joined /\ {nick[i] : i \in members} = {Bot}

Inv == BotOK /\ ServerOK /\ Sight /\ PendingIsAsked

-----------------------------------------------------------------------------
(* The send queue. The lines of a handler are sent one by one (a fold), so    *)
(* what is in the queue in the end is shown by induction over their number,   *)
(* in terms of the set of the numbers for which it holds.                     *)

LEMMA UpTo ==
  ASSUME NEW n \in Nat, NEW G, 0 \in G, \A k \in 0 .. n-1 : k \in G => k+1 \in G
  PROVE  \A k \in 0 .. n : k \in G
<1> DEFINE R == {ss \in Nat \X Nat : ss[1] < ss[2]}
           S == {k \in 0 .. n : k \notin G}
<1>1. IsWellFoundedOn(R, Nat)
  BY NatLessThanWellFounded DEF OpToRel
<1> SUFFICES ASSUME S # {} PROVE FALSE
  OBVIOUS
<1>2. S \subseteq Nat
  OBVIOUS
<1> HIDE DEF R
<1>3. \E x \in S : \A y \in S : <<y, x>> \notin R
  BY <1>1, <1>2, WFMin
<1>4. PICK m \in S : \A y \in S : <<y, m>> \notin R
  BY <1>3
<1>5. m \in 0 .. n /\ m \notin G /\ m # 0
  OBVIOUS
<1>6. m-1 \in 0 .. n-1 /\ m-1 < m /\ (m-1)+1 = m
  BY <1>5
<1>7. m-1 \notin S
  BY <1>2, <1>4, <1>6 DEF R
<1>8. m-1 \in G
  BY <1>6, <1>7
<1>9. QED
  BY <1>5, <1>6, <1>8

\* The greatest of some numbers up to n.
LEMMA MaxIs ==
  ASSUME NEW n \in Nat, NEW S, S \subseteq 1 .. n, n \in S
  PROVE  Max(S) = n
<1>1. \A y \in S : n >= y
  OBVIOUS
<1>2. \A x \in S : (\A y \in S : x >= y) => x = n
  OBVIOUS
<1>3. QED
  BY <1>1, <1>2 DEF Max

\* The queue after some of the lines, as the fold computes it.
IsQueue(queue, texts, n, h) ==
  h = [s \in SUBSET (1 .. n) |->
        IF s = {} THEN queue ELSE SendRaw(h[s \ {Max(s)}], texts[Max(s)])]

LEMMA QueueExists ==
  ASSUME NEW queue, NEW texts, NEW n \in Nat
  PROVE  \E h : IsQueue(queue, texts, n, h)
<1> DEFINE G == {k \in 0 .. n : \E h : IsQueue(queue, texts, k, h)}
<1>1. 0 \in G
  <2> DEFINE h == [s \in SUBSET (1 .. 0) |-> queue]
  <2>1. 1 .. 0 = {}
    OBVIOUS
  <2>2. IsQueue(queue, texts, 0, h)
    BY <2>1 DEF IsQueue
  <2>3. QED
    BY <2>2
<1>2. ASSUME NEW k \in 0 .. n-1, k \in G PROVE k+1 \in G
  <2>1. PICK old : IsQueue(queue, texts, k, old)
    BY <1>2
  <2> DEFINE m == k + 1
             h == [s \in SUBSET (1 .. m) |->
                    IF m \in s THEN SendRaw(old[s \ {m}], texts[m]) ELSE old[s]]
  <2>2. m \in Nat /\ m \in 1 .. n /\ 1 .. m = (1 .. k) \cup {m} /\ m \notin 1 .. k
    OBVIOUS
  <2> HIDE DEF m
  <2>3. ASSUME NEW s \in SUBSET (1 .. m)
        PROVE  h[s] = IF s = {} THEN queue ELSE SendRaw(h[s \ {Max(s)}], texts[Max(s)])
    <3>1. CASE m \in s
      <4>1. Max(s) = m
        BY <2>2, <3>1, MaxIs
      <4>2. s \ {m} \in SUBSET (1 .. m) /\ m \notin s \ {m}
        OBVIOUS
      <4>3. h[s \ {m}] = old[s \ {m}] /\ h[s] = SendRaw(old[s \ {m}], texts[m])
        BY <3>1, <4>2
      <4> HIDE DEF h
      <4>4. QED
        BY <3>1, <4>1, <4>3
    <3>2. CASE m \notin s
      <4>1. s \in SUBSET (1 .. k) /\ s \ {Max(s)} \in SUBSET (1 .. k)
        BY <2>2, <3>2
      <4>2. h[s] = old[s] /\ h[s \ {Max(s)}] = old[s \ {Max(s)}]
        BY <2>2, <3>2, <4>1
      <4> HIDE DEF h
      <4>3. old[s] = IF s = {} THEN queue ELSE SendRaw(old[s \ {Max(s)}], texts[Max(s)])
        BY <2>1, <4>1 DEF IsQueue
      <4>4. QED
        BY <4>2, <4>3
    <3>3. QED
      BY <3>1, <3>2
  <2>4. IsQueue(queue, texts, m, h)
    <3>1. h = [s \in SUBSET (1 .. m) |-> h[s]]
      OBVIOUS
    <3> HIDE DEF h
    <3>2. QED
      BY <2>3, <3>1 DEF IsQueue
  <2>5. QED
    BY <2>2, <2>4 DEF m
<1> HIDE DEF G
<1>3. \A k \in 0 .. n : k \in G
  BY <1>1, <1>2, UpTo
<1>4. QED
  BY <1>3 DEF G

\* What the queue becomes, and that it does so line by line.
Sent(queue, texts) == FoldLeft(SendRaw, queue, texts)

LEMMA SendsOneByOne ==
  ASSUME NEW queue, NEW texts, Len(texts) \in Nat, DOMAIN texts = 1 .. Len(texts)
  PROVE  \E q : /\ q[0] = queue
                /\ \A k \in 1 .. Len(texts) : q[k] = SendRaw(q[k-1], texts[k])
                /\ Sent(queue, texts) = q[Len(texts)]
<1> DEFINE n == Len(texts)
           h == CHOOSE g : IsQueue(queue, texts, n, g)
           q == [k \in 0 .. n |-> h[1 .. k]]
<1>1. n \in Nat /\ DOMAIN texts = 1 .. n
  OBVIOUS
<1>2. IsQueue(queue, texts, n, h)
  BY <1>1, QueueExists
<1>3. Sent(queue, texts) = h[1 .. n]
  <2>1. FoldLeft(SendRaw, queue, texts) =
          (CHOOSE g : g = [s \in SUBSET (1 .. n) |->
             IF s = {} THEN queue ELSE SendRaw(g[s \ {Max(s)}], texts[Max(s)])])[1 .. n]
    BY <1>1 DEF FoldLeft, MapThenFoldSet
  <2>2. QED
    BY <2>1 DEF IsQueue, Sent
<1> HIDE DEF n, h
<1>4. q[0] = queue
  <2>1. 1 .. 0 = {} /\ {} \in SUBSET (1 .. n)
    OBVIOUS
  <2>2. h[{}] = queue
    BY <1>2, <2>1 DEF IsQueue
  <2>3. QED
    BY <1>1, <2>1, <2>2
<1>5. ASSUME NEW k \in 1 .. n PROVE q[k] = SendRaw(q[k-1], texts[k])
  <2>1. /\ k \in 1 .. k /\ 1 .. k \in SUBSET (1 .. n) /\ (1 .. k) \ {k} = 1 .. (k-1)
        /\ k \in Nat
    BY <1>1
  <2>2. Max(1 .. k) = k
    BY <2>1, MaxIs
  <2>3. h[1 .. k] = SendRaw(h[1 .. (k-1)], texts[k])
    BY <1>2, <2>1, <2>2 DEF IsQueue
  <2>4. k \in 0 .. n /\ k-1 \in 0 .. n
    BY <1>1
  <2>5. QED
    BY <2>3, <2>4
<1>6. q[n] = h[1 .. n]
  BY <1>1
<1>7. QED
  BY <1>3, <1>4, <1>5, <1>6 DEF n

\* One line more: the queue holds lines, and forgets none unless it is full.
LEMMA SendRawIs ==
  ASSUME NEW L, NEW queue \in Seq(L), NEW text \in L, Len(queue) <= SEND_QUEUE_MAX,
         NEW new, new = SendRaw(queue, text)
  PROVE  /\ new \in Seq(L) /\ Len(new) <= SEND_QUEUE_MAX
         /\ Len(queue) < SEND_QUEUE_MAX =>
              Len(new) = Len(queue) + 1 /\ ToSet(queue) \cup {text} \subseteq ToSet(new)
<1>1. Len(queue) \in Nat /\ SEND_QUEUE_MAX \in Nat \ {0}
  BY BoundAssumption
<1>2. CASE Len(queue) >= SEND_QUEUE_MAX
  BY <1>1, <1>2 DEF SendRaw
<1>3. CASE Len(queue) < SEND_QUEUE_MAX
  <2>1. new = Append(queue, text)
    BY <1>1, <1>3 DEF SendRaw
  <2>2. new \in Seq(L) /\ Len(new) = Len(queue) + 1 /\ DOMAIN new = 1 .. Len(queue) + 1
    BY <2>1
  <2>3. \A k \in 1 .. Len(queue) : new[k] = queue[k]
    BY <2>1
  <2>4. new[Len(queue) + 1] = text
    BY <2>1
  <2>5. DOMAIN queue = 1 .. Len(queue) /\ Len(queue) + 1 \in DOMAIN new
    BY <1>1, <2>2
  <2>6. ToSet(queue) \subseteq ToSet(new)
    BY <1>1, <2>2, <2>3, <2>5 DEF ToSet
  <2>7. text \in ToSet(new)
    BY <2>4, <2>5 DEF ToSet
  <2>8. QED
    BY <1>1, <1>3, <2>2, <2>6, <2>7
<1>4. QED
  BY <1>1, <1>2, <1>3

\* All the lines of a handler: what was in the queue and what is sent is in it,
\* unless it was emptied on the way.
LEMMA AllAreSent ==
  ASSUME NEW L, NEW queue \in Seq(L), NEW texts \in Seq(L), Len(queue) <= SEND_QUEUE_MAX,
         NEW new, new = Sent(queue, texts)
  PROVE  /\ new \in Seq(L) /\ Len(new) <= SEND_QUEUE_MAX
         /\ Len(queue) + Len(texts) <= SEND_QUEUE_MAX =>
              ToSet(queue) \cup ToSet(texts) \subseteq ToSet(new)
<1>0. Len(texts) \in Nat /\ DOMAIN texts = 1 .. Len(texts)
  OBVIOUS
<1>1. PICK q : /\ q[0] = queue
               /\ \A k \in 1 .. Len(texts) : q[k] = SendRaw(q[k-1], texts[k])
               /\ Sent(queue, texts) = q[Len(texts)]
  BY <1>0, SendsOneByOne
<1> DEFINE n == Len(texts)
           Fits(k) == Len(queue) + k <= SEND_QUEUE_MAX
           G == {k \in 0 .. n :
                  /\ q[k] \in Seq(L) /\ Len(q[k]) <= SEND_QUEUE_MAX
                  /\ Fits(k) => /\ Len(q[k]) = Len(queue) + k
                                /\ ToSet(queue) \cup {texts[j] : j \in 1 .. k} \subseteq ToSet(q[k])}
<1>2. n \in Nat /\ Len(queue) \in Nat /\ SEND_QUEUE_MAX \in Nat /\ DOMAIN texts = 1 .. n
  BY BoundAssumption
<1>3. 0 \in G
  <2>1. {texts[j] : j \in 1 .. 0} = {}
    OBVIOUS
  <2>2. QED
    BY <1>1, <1>2, <2>1
<1>4. ASSUME NEW k \in 0 .. n-1, k \in G PROVE k+1 \in G
  <2>1. k \in Nat /\ k+1 \in 1 .. n /\ (k+1) - 1 = k
    BY <1>2
  <2>2. q[k+1] = SendRaw(q[k], texts[k+1]) /\ texts[k+1] \in L
    BY <1>1, <2>1
  <2>3. /\ q[k] \in Seq(L) /\ Len(q[k]) <= SEND_QUEUE_MAX
        /\ Fits(k) => /\ Len(q[k]) = Len(queue) + k
                      /\ ToSet(queue) \cup {texts[j] : j \in 1 .. k} \subseteq ToSet(q[k])
    BY <1>4
  <2>4. /\ q[k+1] \in Seq(L) /\ Len(q[k+1]) <= SEND_QUEUE_MAX
        /\ Len(q[k]) < SEND_QUEUE_MAX =>
             Len(q[k+1]) = Len(q[k]) + 1 /\ ToSet(q[k]) \cup {texts[k+1]} \subseteq ToSet(q[k+1])
    <3> DEFINE old == q[k]
               now == q[k+1]
               text == texts[k+1]
    <3>1. old \in Seq(L) /\ text \in L /\ Len(old) <= SEND_QUEUE_MAX /\ now = SendRaw(old, text)
      BY <2>2, <2>3
    <3> HIDE DEF old, now, text
    <3>2. /\ now \in Seq(L) /\ Len(now) <= SEND_QUEUE_MAX
          /\ Len(old) < SEND_QUEUE_MAX =>
               Len(now) = Len(old) + 1 /\ ToSet(old) \cup {text} \subseteq ToSet(now)
      BY <3>1, SendRawIs
    <3>3. QED
      BY <3>2 DEF old, now, text
  <2>5. ASSUME Fits(k+1) PROVE Fits(k) /\ Len(queue) + k < SEND_QUEUE_MAX
    BY <1>2, <2>1, <2>5
  <2>6. {texts[j] : j \in 1 .. (k+1)} = {texts[j] : j \in 1 .. k} \cup {texts[k+1]}
    BY <2>1
  <2> HIDE DEF Fits
  <2>7. ASSUME Fits(k+1)
        PROVE  /\ Len(q[k+1]) = Len(queue) + (k+1)
               /\ ToSet(queue) \cup {texts[j] : j \in 1 .. (k+1)} \subseteq ToSet(q[k+1])
    <3>1. /\ Len(q[k]) = Len(queue) + k
          /\ ToSet(queue) \cup {texts[j] : j \in 1 .. k} \subseteq ToSet(q[k])
      BY <2>3, <2>5, <2>7
    <3>2. Len(q[k+1]) = Len(q[k]) + 1 /\ ToSet(q[k]) \cup {texts[k+1]} \subseteq ToSet(q[k+1])
      BY <2>4, <2>5, <2>7, <3>1
    <3>3. Len(q[k+1]) = Len(queue) + (k+1)
      BY <1>2, <2>1, <3>1, <3>2
    <3>4. QED
      BY <2>6, <3>1, <3>2, <3>3
  <2>8. k+1 \in 0 .. n
    BY <1>2, <2>1
  <2>9. QED
    BY <2>4, <2>7, <2>8
<1> HIDE DEF G
<1>5. \A k \in 0 .. n : k \in G
  BY <1>2, <1>3, <1>4, UpTo
<1>6. n \in G
  BY <1>2, <1>5
<1>7. ToSet(texts) = {texts[j] : j \in 1 .. n}
  BY <1>2 DEF ToSet
<1>8. QED
  BY <1>1, <1>6, <1>7 DEF G

-----------------------------------------------------------------------------
(* What a handler sends, and who waits for it. *)

\* Who is pending after a handler was pending before and has the same
\* nickname, or is asked for now; and the queue was not emptied.
AskedNow ==
  \A i \in Inst : account'[i] = "PENDING" /\ i \notin lost' =>
    /\ i \notin lost /\ ToSet(m_send_queue) \subseteq ToSet(m_send_queue')
    /\ \/ account[i] = "PENDING" /\ nick'[i] = nick[i]
       \/ Acc(nick'[i]) \in ToSet(m_send_queue')

Handled == BotOK' /\ AskedNow /\ m_auth_type' = m_auth_type

LEMMA SendIs ==
  ASSUME NEW q, NEW texts, NEW losing,
         q \in Seq(Line), Len(q) <= SEND_QUEUE_MAX, texts \in Seq(Line), Send(q, texts, losing)
  PROVE  /\ m_send_queue' \in Seq(Line) /\ Len(m_send_queue') <= SEND_QUEUE_MAX
         /\ \A i \in lost' : i \in Inst /\ account'[i] = "PENDING"
         /\ \A i \in Inst : account'[i] = "PENDING" /\ i \notin lost' =>
              i \notin lost /\ i \notin losing /\ ToSet(q) \cup ToSet(texts) \subseteq ToSet(m_send_queue')
<1>1. m_send_queue' = Sent(q, texts)
  BY DEF Send, Sent
<1>2. /\ m_send_queue' \in Seq(Line) /\ Len(m_send_queue') <= SEND_QUEUE_MAX
      /\ Len(q) + Len(texts) <= SEND_QUEUE_MAX => ToSet(q) \cup ToSet(texts) \subseteq ToSet(m_send_queue')
  BY <1>1, AllAreSent
<1>3. \A i : i \in lost' <=> /\ i \in Inst /\ account'[i] = "PENDING"
                            /\ \/ i \in lost \cup losing
                               \/ Len(q) + Len(texts) > SEND_QUEUE_MAX
  BY DEF Send
<1>4. Len(q) \in Nat /\ Len(texts) \in Nat /\ SEND_QUEUE_MAX \in Nat
  BY BoundAssumption
<1>5. QED
  BY <1>2, <1>3, <1>4

LEMMA Sends ==
  ASSUME BotOK, StateOK', m_auth_type' = m_auth_type,
         NEW texts, texts \in Seq(Line), NEW losing, Send(m_send_queue, texts, losing),
         \A i \in Inst \ losing : account'[i] = "PENDING" =>
           \/ account[i] = "PENDING" /\ nick'[i] = nick[i]
           \/ Acc(nick'[i]) \in ToSet(texts)
  PROVE  Handled
<1>1. m_send_queue \in Seq(Line) /\ Len(m_send_queue) <= SEND_QUEUE_MAX
  BY DEF BotOK
<1>2. /\ m_send_queue' \in Seq(Line) /\ Len(m_send_queue') <= SEND_QUEUE_MAX
      /\ \A i \in lost' : i \in Inst /\ account'[i] = "PENDING"
      /\ \A i \in Inst : account'[i] = "PENDING" /\ i \notin lost' =>
           i \notin lost /\ i \notin losing /\ ToSet(m_send_queue) \cup ToSet(texts) \subseteq ToSet(m_send_queue')
  BY <1>1, SendIs
<1>3. \A i \in Inst : account'[i] # "UNKNOWN" => i \in Users'
  BY DEF StateOK
<1>4. lost' \subseteq Users'
  BY <1>2, <1>3
<1>5. BotOK'
  BY <1>2, <1>4 DEF BotOK
<1>6. AskedNow
  BY <1>2 DEF AskedNow
<1>7. QED
  BY <1>5, <1>6 DEF Handled

LEMMA SaysNothing ==
  ASSUME BotOK, StateOK', m_auth_type' = m_auth_type, Users \subseteq Users',
         m_send_queue' = m_send_queue, account' = account, lost' = lost,
         \A i \in Users : nick'[i] = nick[i]
  PROVE  Handled
<1>1. \A i \in Inst : account[i] # "UNKNOWN" => i \in Users
  BY DEF BotOK, StateOK
<1>2. BotOK'
  BY DEF BotOK
<1>3. AskedNow
  BY <1>1 DEF AskedNow
<1>4. QED
  BY <1>2, <1>3 DEF Handled

\* The lines that handlers say are lines.
LEMMA Lines ==
  /\ <<>> \in Seq(Line) /\ <<Text>> \in Seq(Line) /\ <<Command("JOIN")>> \in Seq(Line)
  /\ <<Text, Command("NICK")>> \in Seq(Line)
  /\ \A texts \in Seq(Line) : Append(texts, Command("JOIN")) \in Seq(Line)
  /\ Texts \subseteq Seq(Line)
<1>1. Text \in Line /\ Command("JOIN") \in Line /\ Command("NICK") \in Line
  BY DEF Line
<1> HIDE DEF Line
<1>2. ASSUME NEW n \in Chatter PROVE [k \in 1 .. n |-> Text] \in Seq(Line)
  BY <1>1, BoundAssumption
<1>3. QED
  BY <1>1, <1>2 DEF Texts

\* A handler that asks for one user and then talks.
LEMMA Asks ==
  ASSUME BotOK, StateOK', m_auth_type' = m_auth_type,
         NEW i, i \in Users', Pending(i), NEW texts, texts \in Seq(Line), NEW losing,
         Send(m_send_queue, Question(i) \o texts, losing),
         \A j \in Users \ losing : nick'[j] = nick[j]
  PROVE  Handled
<1> DEFINE all == Question(i) \o texts
<1>1. i \in Inst /\ nick'[i] \in Name
  BY DEF StateOK, Users
<1>2. Acc(nick'[i]) \in Line
  BY <1>1 DEF Line
<1>3. /\ account[i] = "PENDING" => Question(i) = <<>>
      /\ account[i] # "PENDING" => Question(i) = <<Acc(nick'[i])>>
  BY DEF Question
<1>4. all \in Seq(Line)
  <2> DEFINE x == Acc(nick'[i])
             q == Question(i)
  <2>1. x \in Line /\ (q = <<>> \/ q = <<x>>)
    BY <1>2, <1>3
  <2> HIDE DEF x, q
  <2>2. q \in Seq(Line)
    <3>1. <<>> \in Seq(Line) /\ <<x>> \in Seq(Line)
      BY <2>1
    <3>2. QED
      BY <2>1, <3>1
  <2>3. q \o texts \in Seq(Line)
    BY <2>2
  <2>4. QED
    BY <2>3 DEF q
<1>5. ASSUME account[i] # "PENDING" PROVE Acc(nick'[i]) \in ToSet(all)
  <2>1. Question(i) = <<Acc(nick'[i])>>
    BY <1>3, <1>5
  <2> DEFINE x == Acc(nick'[i])
  <2> HIDE DEF x
  <2>2. all = <<x>> \o texts /\ x \in Line
    BY <1>2, <2>1 DEF x
  <2>3. 1 \in DOMAIN all /\ all[1] = x
    BY <2>2
  <2>4. QED
    BY <2>3 DEF ToSet, x
<1>6. \A j \in Inst : j # i => account'[j] = account[j]
  BY DEF Pending, BotOK, StateOK
<1>7. \A j \in Inst : account[j] = "PENDING" => j \in Users
  BY DEF BotOK, StateOK
<1>8. \A j \in Inst \ losing : account'[j] = "PENDING" =>
        \/ account[j] = "PENDING" /\ nick'[j] = nick[j]
        \/ Acc(nick'[j]) \in ToSet(all)
  BY <1>5, <1>6, <1>7
<1>9. Send(m_send_queue, all, losing)
  OBVIOUS
<1> HIDE DEF all
<1>10. QED
  BY <1>4, <1>8, <1>9, Sends

\* The same without talk.
LEMMA AsksOnly ==
  ASSUME BotOK, StateOK', m_auth_type' = m_auth_type,
         NEW i, i \in Users', Pending(i), NEW losing, Send(m_send_queue, Question(i), losing),
         \A j \in Users \ losing : nick'[j] = nick[j]
  PROVE  Handled
<1>1. Question(i) \o <<>> = Question(i)
  BY DEF Question
<1>2. Send(m_send_queue, Question(i) \o <<>>, losing)
  BY <1>1
<1>3. QED
  BY <1>2, Lines, Asks

-----------------------------------------------------------------------------
(* The users of the network and of the channel. *)

\* Everybody who has a nickname keeps it, those of these nicknames who have no
\* user get one, and the others stay as they are.
LEMMA AddUsersIs ==
  ASSUME StateOK, NEW names, names \subseteq Name, AddUsers(names)
  PROVE  /\ nick' \in [Inst -> Name \cup {NoNick}]
         /\ \A i \in Users : nick'[i] = nick[i]
         /\ Users \subseteq Users'
         /\ \A n \in names : \E i \in Users' : nick'[i] = n
         /\ Unique => Unique'
<1> DEFINE new == {n \in names : Found(Users, n) = {}}
           free == Inst \ Users
<1>1. PICK users \in SUBSET free : \E name \in Bijection(users, new) :
         nick' = [i \in Inst |-> IF i \in users THEN name[i] ELSE nick[i]]
  BY DEF AddUsers
<1>2. PICK name \in Bijection(users, new) :
         nick' = [i \in Inst |-> IF i \in users THEN name[i] ELSE nick[i]]
  BY <1>1
<1>3. /\ \A i \in users : name[i] \in new
      /\ \A i, j \in users : name[i] = name[j] => i = j
      /\ \A n \in new : \E i \in users : name[i] = n
  BY <1>2 DEF Bijection, Injection, Surjection, IsInjective
<1>4. nick \in [Inst -> Name \cup {NoNick}] /\ NoNick \notin Name
  BY NameAssumption DEF StateOK, Name
<1>5. /\ \A i \in users : i \in Inst /\ i \notin Users /\ nick'[i] = name[i] /\ nick'[i] # NoNick
      /\ \A i \in Inst \ users : nick'[i] = nick[i]
  BY <1>2, <1>3, <1>4
<1>6. nick' \in [Inst -> Name \cup {NoNick}]
  BY <1>2, <1>3, <1>4
<1>7. Users' = Users \cup users
  BY <1>5 DEF Users
<1>8. \A i \in Users : nick'[i] = nick[i]
  BY <1>5 DEF Users
<1>9. ASSUME NEW n \in names PROVE \E i \in Users' : nick'[i] = n
  <2>1. CASE n \in new
    BY <1>3, <1>5, <1>7, <2>1
  <2>2. CASE n \notin new
    <3>1. PICK i \in Users : nick[i] = n
      BY <2>2 DEF Found
    <3>2. QED
      BY <1>7, <1>8, <3>1
  <2>3. QED
    BY <2>1, <2>2
<1>10. ASSUME Unique PROVE Unique'
  <2>1. ASSUME NEW i \in Users', NEW j \in Users', nick'[i] = nick'[j] PROVE i = j
    <3>1. \A k \in users, m \in Users : nick'[k] # nick[m]
      BY <1>3, <1>5 DEF Found
    <3>2. CASE i \in users /\ j \in users
      BY <1>3, <1>5, <2>1, <3>2
    <3>3. CASE i \in Users /\ j \in Users
      BY <1>8, <1>10, <2>1, <3>3 DEF Unique
    <3>4. QED
      BY <1>7, <1>8, <2>1, <3>1, <3>2, <3>3
  <2>2. QED
    BY <2>1 DEF Unique
<1>11. QED
  BY <1>6, <1>7, <1>8, <1>9, <1>10

\* The nicknames in the channel, as the bot sees it.
Seen == {nick[i] : i \in members}

LEMMA AddMembersIs ==
  ASSUME StateOK, NEW names, names \subseteq Name, AddMembers(names),
         nick' \in [Inst -> Name \cup {NoNick}], \A i \in Users : nick'[i] = nick[i]
  PROVE  members' \subseteq Users' /\ members \subseteq members' /\ Seen' = Seen \cup names
<1> DEFINE new == {n \in names : Found(members, n) = {}}
<1>1. PICK users \in SUBSET Inst : {nick'[i] : i \in users} = new /\ members' = members \cup users
  BY DEF AddMembers
<1>2. members \subseteq Users /\ members \subseteq Inst
  BY DEF StateOK, Users
<1>3. \A i \in users : nick'[i] \in Name /\ nick'[i] # NoNick
  BY <1>1, NameAssumption DEF Name
<1>4. \A i \in members : nick'[i] = nick[i] /\ nick'[i] # NoNick
  BY <1>2 DEF Users
<1>5. members' \subseteq Users'
  BY <1>1, <1>2, <1>3, <1>4 DEF Users
<1>6. {nick'[i] : i \in members} = Seen
  BY <1>4 DEF Seen
<1>7. Seen' = Seen \cup new
  BY <1>1, <1>6 DEF Seen
<1>8. \A n \in names : n \notin new => n \in Seen
  BY DEF Found, Seen
<1>9. QED
  BY <1>1, <1>5, <1>7, <1>8

-----------------------------------------------------------------------------
(* The handlers, for lines whose nicknames are those of users or the bot. *)

GoodLine(l) ==
  /\ l.type \in {"JOIN", "NICK"} => l.nick \in Name
  /\ l.type = "NICK" => l.new \in Nick
  /\ l.type = "353" => l.names \subseteq Name

\* Everybody keeps the nickname; these get a user if they have none.
Known(names) ==
  /\ \A i \in Users : nick'[i] = nick[i]
  /\ \A n \in names : \E i \in Users' : nick'[i] = n
  /\ Unique => Unique'

\* What the bot sees is the same, but for the user that it is.
SameView == Known({}) /\ joined' = joined /\ Seen' = Seen

\* The channel is there, and these users are in it.
Adds(names) == Known(names) /\ joined' = TRUE /\ Seen' = Seen \cup names

LEMMA Same ==
  ASSUME nick' = nick, members' = members, joined' = joined
  PROVE  SameView /\ Users' = Users
BY DEF SameView, Known, Unique, Users, Seen

\* A line that changes nothing.
LEMMA IgnoreIs ==
  ASSUME BotOK, NEW l, NEW type, Ignore(l, type)
  PROVE  Handled /\ SameView /\ nick' = nick /\ pc = "line" /\ (type # "ERROR" => pc' = "top")
<1>1. /\ pc = "line" /\ pc' \in {"top", "ended"} /\ (type # "ERROR" => pc' = "top")
      /\ UNCHANGED <<auth, m_send_queue, people, status, lost>>
  BY DEF Ignore, Handle
<1>2. UNCHANGED <<m_auth_type, m_auth_status, m_user_modes, m_send_queue, nick, account,
                  joined, members, waiting, timeout, lost>>
  BY <1>1 DEF auth, people, status
<1>3. SameView /\ Users' = Users
  BY <1>2, Same
<1>4. StateOK'
  BY <1>1, <1>2, <1>3 DEF StateOK, BotOK
<1>5. Handled
  BY <1>2, <1>3, <1>4, SaysNothing
<1>6. QED
  BY <1>1, <1>2, <1>3, <1>5

LEMMA HandleJoinIs ==
  ASSUME BotOK, NEW l, GoodLine(l), HandleJoin(l)
  PROVE  Handled /\ Adds(IF joined THEN {l.nick} ELSE {l.nick, Bot})
<1> DEFINE names == IF joined THEN {l.nick} ELSE {l.nick, Bot}
<1>1. StateOK /\ l.type = "JOIN" /\ pc' = "top"
  BY DEF BotOK, HandleJoin, Handle
<1>2. names \subseteq Name
  BY <1>1 DEF GoodLine, Name
<1>3. /\ joined' = TRUE /\ AddUsers(names) /\ AddMembers(names)
      /\ UNCHANGED <<m_auth_type, m_auth_status, m_user_modes, waiting, timeout>>
  BY DEF HandleJoin, auth, status
<1>4. PICK i \in FoundNow(members', l.nick), texts \in IF l.nick = Bot THEN {<<>>} ELSE Texts :
         Pending(i) /\ Send(m_send_queue, Question(i) \o texts, {})
  BY DEF HandleJoin
<1> HIDE DEF names
<1>5. /\ nick' \in [Inst -> Name \cup {NoNick}]
      /\ Known(names) /\ Users \subseteq Users'
  BY <1>1, <1>2, <1>3, AddUsersIs DEF Known
<1>6. members' \subseteq Users' /\ Seen' = Seen \cup names
  BY <1>1, <1>2, <1>3, <1>5, AddMembersIs DEF Known
<1>7. Adds(names)
  BY <1>3, <1>5, <1>6 DEF Adds
<1>8. i \in Users' /\ i \in Inst /\ texts \in Seq(Line)
  BY <1>4, <1>6, Lines DEF FoundNow, Users
<1>9. /\ account' \in [Inst -> {"UNKNOWN", "PENDING", "KNOWN"}]
      /\ \A j \in Inst : account'[j] # "UNKNOWN" => j \in Users'
  BY <1>1, <1>4, <1>5, <1>8 DEF Pending, StateOK
<1>10. StateOK'
  <2>1. \A j \in waiting' : account'[j] = "PENDING"
    BY <1>1, <1>3, <1>4, <1>8 DEF Pending, StateOK, Users
  <2>2. QED
    BY <1>1, <1>3, <1>5, <1>6, <1>9, <2>1 DEF StateOK
<1>11. Handled
  BY <1>3, <1>4, <1>5, <1>8, <1>10, Asks DEF Known
<1>12. QED
  BY <1>7, <1>11 DEF names

LEMMA HandleNamesIs ==
  ASSUME BotOK, NEW l, GoodLine(l), HandleNames(l)
  PROVE  Handled /\ Adds(l.names)
<1>1. StateOK /\ l.type = "353" /\ pc' = "top"
  BY DEF BotOK, HandleNames, Handle
<1>2. l.names \subseteq Name
  BY <1>1 DEF GoodLine
<1>3. /\ joined' = TRUE /\ AddUsers(l.names) /\ AddMembers(l.names)
      /\ UNCHANGED <<m_auth_type, m_auth_status, m_user_modes, waiting, timeout,
                     m_send_queue, account, lost>>
  BY DEF HandleNames, auth, status
<1>4. /\ nick' \in [Inst -> Name \cup {NoNick}]
      /\ Known(l.names) /\ Users \subseteq Users'
  BY <1>1, <1>2, <1>3, AddUsersIs DEF Known
<1>5. members' \subseteq Users' /\ Seen' = Seen \cup l.names
  BY <1>1, <1>2, <1>3, <1>4, AddMembersIs DEF Known
<1>6. StateOK'
  BY <1>1, <1>3, <1>4, <1>5 DEF StateOK
<1>7. Handled
  BY <1>3, <1>4, <1>6, SaysNothing DEF Known
<1>8. QED
  BY <1>3, <1>4, <1>5, <1>7 DEF Adds

LEMMA HandleNickIs ==
  ASSUME BotOK, NEW l, GoodLine(l), HandleNick(l)
  PROVE  /\ Handled /\ joined' = joined /\ members' = members
         /\ \E i \in Found(Users, l.nick) : nick' = [nick EXCEPT ![i] = l.new]
<1>1. StateOK /\ l.type = "NICK" /\ pc' = "top"
  BY DEF BotOK, HandleNick, Handle
<1>2. l.new \in Name /\ l.new # NoNick
  BY <1>1, NameAssumption DEF GoodLine, Name
<1>3. UNCHANGED <<m_auth_type, m_auth_status, m_user_modes, joined, members, waiting, timeout>>
  BY DEF HandleNick, auth, status
<1>4. PICK i \in Found(Users, l.nick) :
         /\ nick' = [nick EXCEPT ![i] = l.new] /\ Pending(i)
         /\ Send(m_send_queue, Question(i), IF account[i] = "PENDING" THEN {i} ELSE {})
  BY DEF HandleNick
<1>5. i \in Users /\ i \in Inst
  BY DEF Found, Users
<1>6. /\ nick' \in [Inst -> Name \cup {NoNick}] /\ nick'[i] = l.new
      /\ \A j \in Inst : j # i => nick'[j] = nick[j]
  BY <1>1, <1>2, <1>4, <1>5 DEF StateOK
<1>7. Users' = Users
  BY <1>2, <1>5, <1>6 DEF Users
<1>8. /\ account' \in [Inst -> {"UNKNOWN", "PENDING", "KNOWN"}]
      /\ account'[i] = "PENDING"
      /\ \A j \in Inst : j # i => account'[j] = account[j]
  BY <1>1, <1>4, <1>5 DEF Pending, StateOK
<1>9. StateOK'
  <2>1. \A j \in waiting' : account'[j] = "PENDING"
    BY <1>1, <1>3, <1>8 DEF StateOK, Users
  <2>2. QED
    BY <1>1, <1>3, <1>5, <1>6, <1>7, <1>8, <2>1 DEF StateOK
<1>10. Handled
  <2>1. CASE account[i] = "PENDING"
    <3>1. Send(m_send_queue, <<>>, {i})
      BY <1>4, <2>1 DEF Question
    <3>2. \A j \in Inst \ {i} : account'[j] = "PENDING" =>
            account[j] = "PENDING" /\ nick'[j] = nick[j]
      BY <1>6, <1>8
    <3>3. QED
      BY <1>3, <1>9, <3>1, <3>2, Lines, Sends
  <2>2. CASE account[i] # "PENDING"
    <3>1. Question(i) = <<Acc(nick'[i])>> /\ Send(m_send_queue, Question(i), {})
      BY <1>4, <2>2 DEF Question
    <3>2. Acc(nick'[i]) \in Line
      BY <1>2, <1>6 DEF Line
    <3> DEFINE x == Acc(nick'[i])
               q == <<x>>
    <3>3. x \in Line /\ Send(m_send_queue, q, {})
      BY <3>1, <3>2
    <3>4. \A j \in Inst \ {} : account'[j] = "PENDING" =>
            \/ account[j] = "PENDING" /\ nick'[j] = nick[j]
            \/ j = i
      BY <1>6, <1>8
    <3> HIDE DEF x
    <3>5. q \in Seq(Line) /\ x \in ToSet(q)
      BY <3>3 DEF ToSet
    <3>6. \A j \in Inst \ {} : account'[j] = "PENDING" =>
            \/ account[j] = "PENDING" /\ nick'[j] = nick[j]
            \/ Acc(nick'[j]) \in ToSet(q)
      BY <3>4, <3>5 DEF x
    <3> HIDE DEF q
    <3>7. QED
      BY <1>3, <1>9, <3>3, <3>5, <3>6, Sends
  <2>3. QED
    BY <2>1, <2>2
<1>11. QED
  BY <1>3, <1>4, <1>10

LEMMA BotPartsIs ==
  ASSUME BotOK, NEW l, BotParts(l)
  PROVE  /\ Handled /\ joined' = FALSE /\ members' = {}
         /\ \A i \in Users' : i \in Users /\ nick'[i] = nick[i]
<1>1. StateOK /\ pc' = "top"
  BY DEF BotOK, BotParts, Handle
<1>2. /\ UNCHANGED <<m_auth_type, m_auth_status, m_user_modes, timeout>>
      /\ joined' = FALSE /\ members' = {} /\ waiting' = waiting \ members
      /\ Send(m_send_queue, <<>>, {})
  BY DEF BotParts, auth
<1>3. /\ nick' \in [Inst -> Name \cup {NoNick}]
      /\ \A i \in Inst : nick'[i] = IF i \in members THEN NoNick ELSE nick[i]
  BY <1>1 DEF BotParts, StateOK
<1>4. /\ account' \in [Inst -> {"UNKNOWN", "PENDING", "KNOWN"}]
      /\ \A i \in Inst : account'[i] = IF i \in members THEN "UNKNOWN" ELSE account[i]
  BY <1>1 DEF BotParts, StateOK
<1>5. Users' = Users \ members
  BY <1>3 DEF Users
<1>6. \A i \in Users' : i \in Users /\ nick'[i] = nick[i]
  BY <1>3, <1>5 DEF Users
<1>7. StateOK'
  <2>1. \A j \in waiting' : account'[j] = "PENDING"
    BY <1>1, <1>2, <1>4 DEF StateOK, Users
  <2>2. QED
    BY <1>1, <1>2, <1>3, <1>4, <1>5, <2>1 DEF StateOK
<1>8. \A i \in Inst \ {} : account'[i] = "PENDING" => account[i] = "PENDING" /\ nick'[i] = nick[i]
  BY <1>3, <1>4
<1>9. Handled
  BY <1>2, <1>7, <1>8, Lines, Sends
<1>10. QED
  BY <1>2, <1>6, <1>9

LEMMA HandlePartIs ==
  ASSUME BotOK, NEW l, NEW type, type \in {"PART", "KICK"}, HandlePart(l, type)
  PROVE  /\ Handled /\ joined' = joined /\ nick' = nick
         /\ \E i \in Found(members, l.nick) : members' = members \ {i}
<1>1. StateOK /\ pc' = "top"
  BY DEF BotOK, HandlePart, Handle
<1>2. UNCHANGED <<m_auth_type, m_auth_status, m_user_modes, nick, joined, waiting, timeout>>
  BY DEF HandlePart, auth, status
<1>3. PICK i \in Found(members, l.nick), texts \in Texts :
         members' = members \ {i} /\ UNCHANGED account /\ Send(m_send_queue, texts, {})
  BY DEF HandlePart
<1>4. Users' = Users
  BY <1>2 DEF Users
<1>5. StateOK'
  BY <1>1, <1>2, <1>3, <1>4 DEF StateOK
<1>6. texts \in Seq(Line)
  BY Lines
<1>7. Handled
  BY <1>2, <1>3, <1>5, <1>6, Sends
<1>8. QED
  BY <1>2, <1>3, <1>7

\* The answer of NickServ: nobody found by the nickname is pending after it, or
\* all of them are lost.
LEMMA HandleNoticeIs ==
  ASSUME BotOK, NEW l, HandleNotice(l)
  PROVE  /\ Handled /\ SameView
         /\ \A i \in Found(Users, l.nick) : account'[i] = "PENDING" => i \in lost'
<1>1. StateOK /\ pc' = "top"
  BY DEF BotOK, HandleNotice, Handle
<1>2. UNCHANGED <<m_auth_type, m_auth_status, m_user_modes, nick, joined, members>>
  BY DEF HandleNotice, auth
<1>3. PICK i \in Found(Users, l.nick), texts \in Texts :
         /\ account' = [account EXCEPT ![i] = "KNOWN"]
         /\ waiting' = waiting \ {i} /\ timeout' = [timeout EXCEPT ![i] = 0]
         /\ Send(m_send_queue, texts, Found(Users, l.nick))
  BY DEF HandleNotice, WaitingAfter
<1>4. SameView /\ Users' = Users
  BY <1>2, Same
<1>5. i \in Users /\ i \in Inst
  BY DEF Found, Users
<1>6. /\ account' \in [Inst -> {"UNKNOWN", "PENDING", "KNOWN"}]
      /\ account'[i] = "KNOWN"
      /\ \A j \in Inst : j # i => account'[j] = account[j]
  BY <1>1, <1>3, <1>5 DEF StateOK
<1>7. timeout' \in [Inst -> 0 .. TIMEOUT]
  <2>1. 0 \in 0 .. TIMEOUT /\ TIMEOUT \in 0 .. TIMEOUT
    BY BoundAssumption
  <2>2. QED
    BY <1>1, <1>3, <2>1 DEF StateOK
<1>8. StateOK'
  <2>1. \A j \in waiting' : account'[j] = "PENDING"
    BY <1>1, <1>3, <1>6 DEF StateOK, Users
  <2>2. QED
    BY <1>1, <1>2, <1>3, <1>4, <1>5, <1>6, <1>7, <2>1 DEF StateOK
<1>9. texts \in Seq(Line)
  BY Lines
<1>10. \A j \in Inst \ Found(Users, l.nick) : account'[j] = "PENDING" =>
         account[j] = "PENDING" /\ nick'[j] = nick[j]
  BY <1>2, <1>6
<1>11. Handled
  BY <1>2, <1>3, <1>8, <1>9, <1>10, Sends
<1>12. \A j \in Found(Users, l.nick) : j \in Inst
  BY DEF Found, Users
<1>13. m_send_queue \in Seq(Line) /\ Len(m_send_queue) <= SEND_QUEUE_MAX
  BY DEF BotOK
<1>14. \A j \in Inst : account'[j] = "PENDING" /\ j \notin lost' => j \notin Found(Users, l.nick)
  BY <1>3, <1>9, <1>13, SendIs
<1>15. QED
  BY <1>4, <1>11, <1>12, <1>14

\* $uno join and $updateauth of a user.
LEMMA StatusRequestIs ==
  ASSUME BotOK, pc' = "top", NEW i, i \in Users, StatusRequest(i), waiting' \subseteq waiting \cup {i}
  PROVE  Handled /\ SameView
<1>1. StateOK
  BY DEF BotOK
<1>2. /\ UNCHANGED <<m_auth_type, m_auth_status, m_user_modes, nick, joined, members>>
      /\ timeout' = [timeout EXCEPT ![i] = TIMEOUT]
      /\ Pending(i) /\ Send(m_send_queue, Question(i), {})
  BY DEF StatusRequest, auth
<1>3. SameView /\ Users' = Users
  BY <1>2, Same
<1>4. i \in Inst
  BY DEF Users
<1>5. account' \in [Inst -> {"UNKNOWN", "PENDING", "KNOWN"}]
  BY <1>1, <1>2 DEF Pending, StateOK
<1>6. \A j \in Inst : j # i => account'[j] = account[j]
  BY <1>1, <1>2 DEF Pending, StateOK
<1>7. timeout' \in [Inst -> 0 .. TIMEOUT]
  <2>1. 0 \in 0 .. TIMEOUT /\ TIMEOUT \in 0 .. TIMEOUT
    BY BoundAssumption
  <2>2. QED
    BY <1>1, <1>2, <2>1 DEF StateOK
<1>8. StateOK'
  <2>1. \A j \in waiting' : j \in Inst /\ (j \in waiting \/ j = i)
    BY <1>1, <1>4 DEF StateOK, Users
  <2>2. \A j \in waiting' : account'[j] = "PENDING"
    BY <1>1, <1>2, <1>4, <1>6, <2>1 DEF Pending, StateOK
  <2>3. waiting' \subseteq Users'
    BY <1>1, <1>3, <2>1 DEF StateOK
  <2>4. QED
    BY <1>1, <1>2, <1>3, <1>4, <1>5, <1>6, <1>7, <2>2, <2>3 DEF StateOK
<1>9. Handled
  BY <1>2, <1>3, <1>8, AsksOnly
<1>10. QED
  BY <1>3, <1>9

\* All the others: the bot's modes, messages, and lines that change nothing.
LEMMA OthersAre ==
  ASSUME BotOK, NEW l, HandleLine(l), l.type \notin {"JOIN", "353", "NICK", "PART", "KICK", "NOTICE", "ERROR"}
  PROVE  Handled /\ SameView /\ pc = "line" /\ pc' = "top"
<1>1. StateOK
  BY DEF BotOK
<1>2. ASSUME NEW t \in {"welcome", "396"}, Authenticate(l, t)
      PROVE  Handled /\ SameView /\ pc = "line" /\ pc' = "top"
  <2>1. pc = "line" /\ pc' = "top"
    BY <1>2 DEF Authenticate, Handle
  <2>2. /\ UNCHANGED <<m_auth_type, m_user_modes, account, joined, members, waiting, timeout>>
        /\ AddUsers({Bot}) /\ Send(m_send_queue, <<Text, Command("NICK")>>, {})
        /\ m_auth_status' \in {m_auth_status, "AUTHENTICATE"}
    BY <1>2 DEF Authenticate, status
  <2>3. {Bot} \subseteq Name
    BY DEF Name
  <2>4. /\ nick' \in [Inst -> Name \cup {NoNick}]
        /\ \A i \in Users : nick'[i] = nick[i]
        /\ Users \subseteq Users'
        /\ Unique => Unique'
    BY <1>1, <2>2, <2>3, AddUsersIs
  <2>5. StateOK'
    BY <1>1, <2>1, <2>2, <2>4 DEF StateOK
  <2>6. \A i \in Inst \ {} : account'[i] = "PENDING" => account[i] = "PENDING" /\ nick'[i] = nick[i]
    BY <1>1, <2>2, <2>4 DEF StateOK
  <2>7. Handled
    BY <2>2, <2>5, <2>6, Lines, Sends
  <2>8. Seen' = Seen
    <3>1. members \subseteq Users
      BY <1>1 DEF StateOK
    <3>2. QED
      BY <2>2, <2>4, <3>1 DEF Seen
  <2>9. QED
    BY <2>1, <2>2, <2>4, <2>7, <2>8 DEF SameView, Known
<1>3. ASSUME NEW t, Ignore(l, t) PROVE Handled /\ SameView /\ pc = "line" /\ pc' = "top"
  BY <1>3, IgnoreIs DEF Ignore, Handle
\* The bot authenticates or joins, or something is said.
<1>4. ASSUME NEW texts, texts \in Seq(Line), Send(m_send_queue, texts, {}), pc = "line", pc' = "top",
             UNCHANGED <<m_auth_type, people, status>>,
             m_auth_status' \in {m_auth_status, "DONE"}, m_user_modes' \subseteq {"i", "r"}
      PROVE  Handled /\ SameView /\ pc = "line" /\ pc' = "top"
  <2>1. UNCHANGED <<m_auth_type, nick, account, joined, members, waiting, timeout>>
    BY <1>4 DEF people, status
  <2>2. SameView /\ Users' = Users
    BY <2>1, Same
  <2>3. StateOK'
    BY <1>1, <1>4, <2>1, <2>2 DEF StateOK
  <2>4. \A i \in Inst \ {} : account'[i] = "PENDING" => account[i] = "PENDING" /\ nick'[i] = nick[i]
    BY <2>1
  <2>5. Handled
    BY <1>4, <2>1, <2>3, <2>4, Sends
  <2>6. QED
    BY <1>4, <2>2, <2>5
<1>5. ASSUME HostChanged(l) PROVE Handled /\ SameView /\ pc = "line" /\ pc' = "top"
  <2>1. /\ pc = "line" /\ pc' = "top" /\ UNCHANGED <<m_auth_type, m_user_modes, people, status>>
        /\ m_auth_status' = "DONE" /\ Send(m_send_queue, Append(<<>>, Command("JOIN")), {})
    BY <1>5 DEF HostChanged, Handle, JoinChannels
  <2>2. Append(<<>>, Command("JOIN")) \in Seq(Line)
    BY Lines
  <2>3. m_user_modes' \subseteq {"i", "r"}
    BY <1>1, <2>1 DEF StateOK
  <2>4. QED
    BY <1>4, <2>1, <2>2, <2>3
<1>6. ASSUME NEW m \in {"i", "r"}, Mode(l, m) PROVE Handled /\ SameView /\ pc = "line" /\ pc' = "top"
  <2> DEFINE identify == IF m_auth_status = "AUTHENTICATE" /\ m_auth_type > 0 THEN <<Text>> ELSE <<>>
  <2>1. /\ pc = "line" /\ pc' = "top" /\ UNCHANGED <<m_auth_type, people, status>>
        /\ m_user_modes' = m_user_modes \cup {m}
        /\ \/ m_auth_status' = "DONE" /\ Send(m_send_queue, Append(identify, Command("JOIN")), {})
           \/ m_auth_status' = m_auth_status /\ Send(m_send_queue, identify, {})
    BY <1>6 DEF Mode, Handle, JoinChannels
  <2>2. identify \in Seq(Line)
    BY Lines
  <2> HIDE DEF identify
  <2>3. Append(identify, Command("JOIN")) \in Seq(Line)
    BY <2>2, Lines
  <2>4. m_user_modes' \subseteq {"i", "r"}
    BY <1>1, <2>1 DEF StateOK
  <2>5. QED
    BY <1>4, <2>1, <2>2, <2>3, <2>4
<1>7. ASSUME NEW t \in {"PING", "INVITE"}, NEW text \in {Text, Command("JOIN")}, Answer(l, t, text)
      PROVE  Handled /\ SameView /\ pc = "line" /\ pc' = "top"
  <2>1. /\ pc = "line" /\ pc' = "top" /\ UNCHANGED <<auth, people, status>>
        /\ Send(m_send_queue, <<text>>, {})
    BY <1>7 DEF Answer, Handle
  <2>2. m_auth_type' = m_auth_type /\ m_auth_status' = m_auth_status /\ m_user_modes' \subseteq {"i", "r"}
    BY <1>1, <2>1 DEF auth, StateOK
  <2>3. <<text>> \in Seq(Line)
    BY Lines
  <2>4. QED
    BY <1>4, <2>1, <2>2, <2>3
<1>8. ASSUME NEW t \in {"talk", "join"}, Talk(l, t) PROVE Handled /\ SameView /\ pc = "line" /\ pc' = "top"
  <2>1. PICK texts \in Texts : UNCHANGED account /\ Send(m_send_queue, texts, {})
    BY <1>8 DEF Talk
  <2>2. pc = "line" /\ pc' = "top" /\ UNCHANGED <<auth, people, status>>
    BY <1>8, <2>1 DEF Talk, Handle, people, status
  <2>3. m_auth_type' = m_auth_type /\ m_auth_status' = m_auth_status /\ m_user_modes' \subseteq {"i", "r"}
    BY <1>1, <2>2 DEF auth, StateOK
  <2>4. texts \in Seq(Line)
    BY Lines
  <2>5. QED
    BY <1>4, <2>1, <2>2, <2>3, <2>4
<1>9. ASSUME JoinRanked(l) \/ UpdateAuth(l) PROVE Handled /\ SameView /\ pc = "line" /\ pc' = "top"
  <2>1. pc = "line" /\ pc' = "top"
    BY <1>9 DEF JoinRanked, UpdateAuth, Handle
  <2>2. PICK i \in Found(Users, l.nick) :
           StatusRequest(i) /\ (waiting' = waiting \/ waiting' = waiting \cup {i})
    BY <1>9 DEF JoinRanked, UpdateAuth
  <2>3. i \in Users /\ waiting' \subseteq Users
    BY <1>1, <2>2 DEF Found, StateOK
  <2>4. QED
    BY <2>1, <2>2, <2>3, StatusRequestIs
<1>10. ASSUME NEW t, NEW m, Ignore(l, t) \/ WelcomeAgain(l) \/ ModeUnknown(l, m) \/ PartUnknown(l, t) \/ NoticeUnknown(l)
       PROVE  Handled /\ SameView /\ pc = "line" /\ pc' = "top"
  <2>1. PICK type : Ignore(l, type)
    BY <1>10 DEF WelcomeAgain, ModeUnknown, PartUnknown, NoticeUnknown
  <2>2. QED
    BY <1>3, <2>1
<1>11. ~ (HandleJoin(l) \/ HandleNames(l) \/ HandleNick(l) \/ BotParts(l) \/ Error(l) \/ HandleNotice(l))
  BY DEF HandleJoin, HandleNames, HandleNick, BotParts, Error, HandleNotice, Handle
<1>12. \A t \in {"PART", "KICK"} : ~HandlePart(l, t)
  BY DEF HandlePart, Handle
<1>13. QED
  BY <1>2, <1>5, <1>6, <1>7, <1>8, <1>9, <1>10, <1>11, <1>12 DEF HandleLine

\* The process is about to end, and nobody waits any more.
LEMMA ErrorIs ==
  ASSUME BotOK, NEW l, Error(l)
  PROVE  BotOK' /\ pc' = "ended" /\ \A i \in Inst : account'[i] = "UNKNOWN"
<1>1. StateOK
  BY DEF BotOK
<1>2. /\ pc' = "ended" /\ m_auth_type' = m_auth_type
      /\ m_auth_status' = "SEND_NICK" /\ m_user_modes' = {}
      /\ nick' = [i \in Inst |-> NoNick] /\ account' = [i \in Inst |-> "UNKNOWN"]
      /\ joined' = FALSE /\ members' = {} /\ waiting' = {} /\ timeout' = [i \in Inst |-> 0]
      /\ Send(<<>>, <<>>, {})
  BY DEF Error, Handle
<1>3. 0 \in 0 .. TIMEOUT
  BY BoundAssumption
<1>4. StateOK'
  BY <1>1, <1>2, <1>3 DEF StateOK
<1>5. <<>> \in Seq(Line) /\ Len(<<>>) <= SEND_QUEUE_MAX
  BY BoundAssumption
<1>6. /\ m_send_queue' \in Seq(Line) /\ Len(m_send_queue') <= SEND_QUEUE_MAX
      /\ \A i \in lost' : i \in Inst /\ account'[i] = "PENDING"
  BY <1>2, <1>5, SendIs
<1>7. lost' = {}
  BY <1>2, <1>6
<1>8. QED
  BY <1>2, <1>4, <1>6, <1>7 DEF BotOK

\* The handler of a line is found by its type.
LEMMA HandlerOf ==
  ASSUME NEW l, HandleLine(l)
  PROVE  /\ l.type = "JOIN" => HandleJoin(l)
         /\ l.type = "353" => HandleNames(l)
         /\ l.type = "NICK" => HandleNick(l)
         /\ l.type = "PART" => BotParts(l) \/ HandlePart(l, "PART") \/ PartUnknown(l, "PART")
         /\ l.type = "KICK" => HandlePart(l, "KICK") \/ PartUnknown(l, "KICK")
         /\ l.type = "NOTICE" => HandleNotice(l) \/ NoticeUnknown(l)
         /\ l.type = "ERROR" => Error(l)
<1>1. ASSUME NEW t, Authenticate(l, t) \/ Talk(l, t) \/ Mode(l, t) \/ ModeUnknown(l, t)
                    \/ HandlePart(l, t) \/ PartUnknown(l, t) \/ Ignore(l, t)
      PROVE  l.type = t
  BY <1>1 DEF Authenticate, Talk, Mode, ModeUnknown, HandlePart, PartUnknown, Ignore, Handle
<1>2. ASSUME NEW t, NEW text, Answer(l, t, text) PROVE l.type = t
  BY <1>2 DEF Answer, Handle
<1>3. /\ WelcomeAgain(l) => l.type = "welcome"
      /\ HostChanged(l) => l.type = "396"
      /\ Error(l) => l.type = "ERROR"
      /\ HandleJoin(l) => l.type = "JOIN"
      /\ HandleNames(l) => l.type = "353"
      /\ HandleNick(l) => l.type = "NICK"
      /\ BotParts(l) => l.type = "PART"
      /\ HandleNotice(l) => l.type = "NOTICE"
      /\ NoticeUnknown(l) => l.type = "NOTICE"
      /\ JoinRanked(l) => l.type = "join"
      /\ UpdateAuth(l) => l.type = "updateauth"
  BY DEF WelcomeAgain, HostChanged, Error, HandleJoin, HandleNames, HandleNick, BotParts,
         HandleNotice, NoticeUnknown, JoinRanked, UpdateAuth, Ignore, Handle
<1>4. QED
  BY <1>1, <1>2, <1>3 DEF HandleLine

\* Who was asked for is still asked for, if the answers still can come.
LEMMA StillAsked ==
  ASSUME BotOK, PendingIsAsked, Handled, asked \subseteq asked'
  PROVE  PendingIsAsked'
<1>1. SUFFICES ASSUME m_auth_type' > 0, NEW i \in Users' \ lost', account'[i] = "PENDING"
               PROVE  UnderWay(nick[i])'
  BY DEF PendingIsAsked
<1>2. i \in Inst
  BY DEF Users
<1>3. /\ i \notin lost /\ ToSet(m_send_queue) \subseteq ToSet(m_send_queue')
      /\ \/ account[i] = "PENDING" /\ nick'[i] = nick[i]
         \/ Acc(nick'[i]) \in ToSet(m_send_queue')
  BY <1>1, <1>2 DEF Handled, AskedNow
<1>4. CASE account[i] = "PENDING" /\ nick'[i] = nick[i]
  <2>1. i \in Users
    BY <1>2, <1>4 DEF BotOK, StateOK
  <2>2. UnderWay(nick[i])
    BY <1>1, <1>3, <1>4, <2>1 DEF PendingIsAsked, Handled
  <2>3. QED
    BY <1>3, <1>4, <2>2 DEF UnderWay
<1>5. CASE Acc(nick'[i]) \in ToSet(m_send_queue')
  BY <1>5 DEF UnderWay
<1>6. QED
  BY <1>3, <1>4, <1>5

-----------------------------------------------------------------------------
(* The steps of the server and of the main loop. *)

\* A line that does not change what the bot sees, when nothing of the channel
\* changes.
LEMMA SameSight ==
  ASSUME Inv, Handled, SameView, pc = "line", UNCHANGED <<chan, misled, lines>>
  PROVE  Sight'
<1>1. /\ lines = <<>> /\ Bot \in chan => joined /\ \A n \in chan : Found(Users, n) # {}
      /\ ~misled =>
           /\ Unique
           /\ lines = <<>> => joined = (Bot \in chan) /\ Seen = chan
           /\ lines = <<JoinLine, NamesLine>> => ~joined
           /\ lines = <<NamesLine>> => joined /\ Seen = {Bot}
  BY DEF Inv, Sight, Seen
<1>2. ASSUME NEW n, n # NoNick, Found(Users, n) # {} PROVE Found(Users, n)' # {}
  <2>1. PICK i \in Users : nick[i] = n
    BY <1>2 DEF Found
  <2>2. nick'[i] = n /\ i \in Users'
    BY <1>2, <2>1 DEF SameView, Known, Users
  <2>3. QED
    BY <2>2 DEF Found
<1>3. \A n \in chan : n # NoNick
  BY NameAssumption DEF Inv, ServerOK, Name
<1>4. /\ lines' = <<>> /\ Bot \in chan' => joined' /\ \A n \in chan' : Found(Users, n)' # {}
      /\ ~misled' =>
           /\ Unique'
           /\ lines' = <<>> => joined' = (Bot \in chan') /\ Seen' = chan'
           /\ lines' = <<JoinLine, NamesLine>>' => ~joined'
           /\ lines' = <<NamesLine>>' => joined' /\ Seen' = {Bot}
  BY <1>1, <1>2, <1>3 DEF SameView, Known, JoinLine, NamesLine
<1>5. QED
  BY <1>4 DEF Sight, Seen

Quiet == {"welcome", "396", "i", "r", "PING", "INVITE", "talk", "join", "updateauth"}

LEMMA QuietLine ==
  ASSUME Inv, NEW l, l.type \in Quiet, ServerSends(l), UNCHANGED server
  PROVE  Inv'
<1>1. HandleLine(l) /\ lines' = lines /\ UNCHANGED <<chan, registered, asked, rare, misled>>
  BY DEF ServerSends, server
<1>2. Handled /\ SameView /\ pc = "line"
  BY <1>1, OthersAre DEF Inv, Quiet
<1>3. Sight'
  BY <1>1, <1>2, SameSight
<1>4. PendingIsAsked'
  BY <1>1, <1>2, StillAsked DEF Inv
<1>5. ServerOK'
  BY <1>1 DEF Inv, ServerOK, JoinLine, NamesLine
<1>6. QED
  BY <1>2, <1>3, <1>4, <1>5 DEF Inv, Handled

LEMMA AnswerKeeps ==
  ASSUME Inv, NEW n \in Name, Answers(n)
  PROVE  Inv'
<1> DEFINE l == [type |-> "NOTICE", nick |-> n]
<1>1. /\ HandleLine(l) /\ lines' = lines /\ UNCHANGED <<chan, registered, rare, misled>>
      /\ asked' = asked \ {n}
  BY DEF Answers, ServerSends
<1>2. l.type = "NOTICE" /\ l.nick = n
  OBVIOUS
<1> HIDE DEF l
<1>3. HandleNotice(l) \/ NoticeUnknown(l)
  BY <1>1, <1>2, HandlerOf
<1>4. BotOK
  BY DEF Inv
<1>5. ASSUME HandleNotice(l)
      PROVE  Handled /\ SameView /\ pc = "line"
             /\ \A i \in Found(Users, n) : account'[i] = "PENDING" => i \in lost'
  BY <1>2, <1>4, <1>5, HandleNoticeIs DEF HandleNotice, Handle
<1>6. ASSUME NoticeUnknown(l)
      PROVE  Handled /\ SameView /\ pc = "line"
             /\ (m_auth_type = 0 \/ Found(Users, n) = {})
  <2>1. Ignore(l, "NOTICE") /\ (m_auth_type = 0 \/ Found(Users, n) = {})
    BY <1>2, <1>6 DEF NoticeUnknown
  <2>2. QED
    BY <1>4, <2>1, IgnoreIs
<1>7. /\ Handled /\ SameView /\ pc = "line"
      /\ m_auth_type > 0 => \A i \in Found(Users, n) : account'[i] = "PENDING" => i \in lost'
  BY <1>3, <1>5, <1>6
<1>8. PendingIsAsked'
  <2>1. SUFFICES ASSUME m_auth_type' > 0, NEW i \in Users' \ lost', account'[i] = "PENDING"
                 PROVE  UnderWay(nick[i])'
    BY DEF PendingIsAsked
  <2>2. i \in Inst /\ m_auth_type > 0
    BY <1>7, <2>1 DEF Users, Handled
  <2>3. /\ i \notin lost /\ ToSet(m_send_queue) \subseteq ToSet(m_send_queue')
        /\ \/ account[i] = "PENDING" /\ nick'[i] = nick[i]
           \/ Acc(nick'[i]) \in ToSet(m_send_queue')
    BY <1>7, <2>1, <2>2 DEF Handled, AskedNow
  <2>4. CASE account[i] = "PENDING" /\ nick'[i] = nick[i]
    <3>1. i \in Users
      BY <1>4, <2>2, <2>4 DEF BotOK, StateOK
    <3>2. UnderWay(nick[i])
      BY <2>2, <2>3, <2>4, <3>1 DEF PendingIsAsked, Inv
    <3>3. nick[i] # n
      BY <1>7, <2>1, <2>2, <3>1 DEF Found
    <3>4. QED
      BY <1>1, <2>3, <2>4, <3>2, <3>3 DEF UnderWay
  <2>5. CASE Acc(nick'[i]) \in ToSet(m_send_queue')
    BY <2>5 DEF UnderWay
  <2>6. QED
    BY <2>3, <2>4, <2>5
<1>9. Sight'
  BY <1>1, <1>7, SameSight
<1>10. ServerOK'
  BY <1>1 DEF Inv, ServerOK, JoinLine, NamesLine
<1>11. QED
  BY <1>7, <1>8, <1>9, <1>10 DEF Inv, Handled

LEMMA CloseKeeps ==
  ASSUME Inv, Closes
  PROVE  Inv'
<1> DEFINE l == [type |-> "ERROR"]
<1>1. /\ HandleLine(l) /\ lines = <<>> /\ lines' = lines /\ UNCHANGED <<rare, misled>>
      /\ chan' = {} /\ registered' = FALSE /\ asked' = {}
  BY DEF Closes, ServerSends
<1>2. l.type = "ERROR"
  OBVIOUS
<1> HIDE DEF l
<1>3. Error(l)
  BY <1>1, <1>2, HandlerOf
<1>4. BotOK' /\ pc' = "ended" /\ \A i \in Inst : account'[i] = "UNKNOWN"
  BY <1>3, ErrorIs DEF Inv
<1>5. PendingIsAsked'
  BY <1>4 DEF PendingIsAsked, Users
<1>6. Sight'
  BY <1>4 DEF Sight
<1>7. ServerOK'
  BY <1>1 DEF Inv, ServerOK
<1>8. QED
  BY <1>4, <1>5, <1>6, <1>7 DEF Inv

\* The bot has seen a channel whose lines are all handled.
LEMMA SightIs ==
  ASSUME Inv, pc = "line", lines = <<>>
  PROVE  /\ chan \subseteq Name /\ NoNick \notin chan
         /\ Bot \in chan => joined /\ \A n \in chan : \E i \in Users : nick[i] = n
         /\ ~misled => Unique /\ joined = (Bot \in chan) /\ Seen = chan
<1>1. chan \subseteq Name /\ NoNick \notin chan
  BY NameAssumption DEF Inv, ServerOK, Name
<1>2. /\ Bot \in chan => joined /\ \A n \in chan : Found(Users, n) # {}
      /\ ~misled => Unique /\ joined = (Bot \in chan) /\ Seen = chan
  BY DEF Inv, Sight, Seen
<1>3. QED
  BY <1>1, <1>2 DEF Found

LEMMA SightFrom ==
  ASSUME lines' = <<>>,
         Bot \in chan' => joined' /\ \A n \in chan' : \E i \in Users' : nick'[i] = n,
         ~misled' => Unique' /\ joined' = (Bot \in chan') /\ Seen' = chan'
  PROVE  Sight'
<1>1. \A n : (\E i \in Users' : nick'[i] = n) => Found(Users, n)' # {}
  BY DEF Found
<1>2. lines' # <<JoinLine, NamesLine>>' /\ lines' # <<NamesLine>>'
  BY DEF JoinLine, NamesLine
<1>3. QED
  BY <1>1, <1>2 DEF Sight, Seen

LEMMA JoinKeeps ==
  ASSUME Inv, NEW n \in Nick, UserJoins(n)
  PROVE  Inv'
<1> DEFINE l == [type |-> "JOIN", nick |-> n]
<1>1. /\ HandleLine(l) /\ lines = <<>> /\ lines' = <<>> /\ UNCHANGED <<registered, asked, rare, misled>>
      /\ Bot \in chan /\ chan' = chan \cup {n}
  BY DEF UserJoins, ServerSends
<1>2. l.type = "JOIN" /\ l.nick = n /\ GoodLine(l)
  BY DEF GoodLine, Name
<1> HIDE DEF l
<1>3. HandleJoin(l) /\ pc = "line"
  BY <1>1, <1>2, HandlerOf DEF HandleJoin, Handle
<1>4. /\ joined /\ \A k \in chan : k # NoNick /\ \E i \in Users : nick[i] = k
      /\ ~misled => Unique /\ Seen = chan
  BY <1>1, <1>3, SightIs
<1>5. Handled /\ Adds({n})
  BY <1>2, <1>3, <1>4, HandleJoinIs DEF Inv
<1>6. /\ \A i \in Users : nick'[i] = nick[i]
      /\ \E i \in Users' : nick'[i] = n
      /\ Unique => Unique'
      /\ joined' = TRUE /\ Seen' = Seen \cup {n}
  BY <1>5 DEF Adds, Known
<1>7. \A k \in chan' : \E i \in Users' : nick'[i] = k
  <2>1. \A k \in chan : \E i \in Users' : nick'[i] = k
    BY <1>4, <1>6 DEF Users
  <2>2. QED
    BY <1>1, <1>6, <2>1
<1>8. Sight'
  BY <1>1, <1>4, <1>6, <1>7, SightFrom
<1>9. PendingIsAsked'
  BY <1>1, <1>5, StillAsked DEF Inv
<1>10. ServerOK'
  BY <1>1 DEF Inv, ServerOK, Name
<1>11. QED
  BY <1>5, <1>8, <1>9, <1>10 DEF Inv, Handled

\* A line of somebody who parts or kicks, which is taken as parting.
LEMMA PartedIs ==
  ASSUME BotOK, NEW l, NEW type, type \in {"PART", "KICK"},
         HandlePart(l, type) \/ PartUnknown(l, type)
  PROVE  /\ Handled /\ joined' = joined /\ pc = "line" /\ nick' = nick
         /\ Unique => Seen' = Seen \ {l.nick}
<1>1. CASE HandlePart(l, type)
  <2>1. /\ Handled /\ joined' = joined /\ nick' = nick /\ pc = "line"
    BY <1>1, HandlePartIs DEF HandlePart, Handle
  <2>2. PICK i \in Found(members, l.nick) : members' = members \ {i}
    BY <1>1, HandlePartIs
  <2>3. ASSUME Unique PROVE Seen' = Seen \ {l.nick}
    <3>1. members \subseteq Users
      BY DEF BotOK, StateOK
    <3>2. \A j \in members : nick[j] = l.nick <=> j = i
      BY <2>2, <2>3, <3>1 DEF Found, Unique
    <3>3. \A x : x \in Seen' <=> \E j \in members : j # i /\ nick[j] = x
      BY <2>1, <2>2 DEF Seen
    <3>4. \A x : x \in Seen <=> \E j \in members : nick[j] = x
      BY DEF Seen
    <3>5. QED
      BY <3>2, <3>3, <3>4
  <2>4. QED
    BY <2>1, <2>3
<1>2. CASE PartUnknown(l, type)
  <2>1. Ignore(l, type) /\ Found(members, l.nick) = {}
    BY <1>2 DEF PartUnknown
  <2>2. Handled /\ SameView /\ nick' = nick /\ pc = "line"
    BY <2>1, IgnoreIs
  <2>3. l.nick \notin Seen
    BY <2>1 DEF Seen, Found
  <2>4. QED
    BY <2>2, <2>3 DEF SameView
<1>3. QED
  BY <1>1, <1>2

\* After a rare event nothing is left to say but that everybody in the channel
\* is a user.
LEMMA MisledSight ==
  ASSUME Inv, pc = "line", lines = <<>>, lines' = <<>>, misled' = TRUE,
         chan' \subseteq chan, Bot \in chan' => Bot \in chan, joined' = joined,
         \A i \in Users : nick'[i] = nick[i]
  PROVE  Sight'
<1>1. /\ chan \subseteq Name /\ NoNick \notin chan
      /\ Bot \in chan => joined /\ \A n \in chan : \E i \in Users : nick[i] = n
  BY SightIs
<1>2. \A n \in chan : (\E i \in Users : nick[i] = n) => \E i \in Users' : nick'[i] = n
  BY <1>1 DEF Users
<1>3. Bot \in chan' => joined' /\ \A n \in chan' : \E i \in Users' : nick'[i] = n
  BY <1>1, <1>2
<1>4. QED
  BY <1>3, SightFrom

LEMMA RareIs ==
  ASSUME Inv, Rare
  PROVE  rare' \in 0 .. MAX_RARE
BY BoundAssumption DEF Inv, ServerOK, Rare

LEMMA PartKeeps ==
  ASSUME Inv, NEW n \in Name, Parts(n)
  PROVE  Inv'
<1> DEFINE l == [type |-> "PART", nick |-> n]
<1>1. /\ HandleLine(l) /\ lines = <<>> /\ lines' = <<>> /\ UNCHANGED <<registered, asked, misled>>
      /\ n \in chan /\ chan' = Without(n) /\ (Rare \/ rare' = rare)
  BY DEF Parts, ServerSends
<1>2. l.type = "PART" /\ l.nick = n
  OBVIOUS
<1> HIDE DEF l
<1>3. BotParts(l) \/ HandlePart(l, "PART") \/ PartUnknown(l, "PART")
  BY <1>1, <1>2, HandlerOf
<1>4. BotOK
  BY DEF Inv
<1>5. pc = "line"
  BY <1>3 DEF BotParts, HandlePart, PartUnknown, Ignore, Handle
<1>6. /\ NoNick \notin chan
      /\ Bot \in chan => joined /\ \A k \in chan : \E i \in Users : nick[i] = k
      /\ ~misled => Unique /\ joined = (Bot \in chan) /\ Seen = chan
  BY <1>1, <1>5, SightIs
<1>7. ASSUME BotParts(l) PROVE Handled /\ Sight'
  <2>1. n = Bot /\ chan' = {}
    BY <1>1, <1>2, <1>7 DEF BotParts, Without
  <2>2. /\ Handled /\ joined' = FALSE /\ members' = {}
        /\ \A i \in Users' : i \in Users /\ nick'[i] = nick[i]
    BY <1>4, <1>7, BotPartsIs
  <2>3. Unique => Unique'
    BY <2>2 DEF Unique
  <2>4. Seen' = {}
    BY <2>2 DEF Seen
  <2>5. Bot \notin chan' /\ joined' = (Bot \in chan') /\ Seen' = chan'
    <3>1. Bot \notin chan' /\ Seen' = chan'
      BY <2>1, <2>4
    <3>2. (Bot \in chan') = FALSE
      BY <3>1
    <3>3. QED
      BY <2>2, <3>1, <3>2
  <2>6. ~misled' => Unique' /\ joined' = (Bot \in chan') /\ Seen' = chan'
    BY <1>1, <1>6, <2>3, <2>5
  <2>7. Sight'
    BY <1>1, <2>5, <2>6, SightFrom
  <2>8. QED
    BY <2>2, <2>7
<1>8. ASSUME HandlePart(l, "PART") \/ PartUnknown(l, "PART") PROVE Handled /\ Sight'
  <2>1. n # Bot /\ chan' = chan \ {n}
    BY <1>1, <1>2, <1>8 DEF HandlePart, PartUnknown, Without
  <2>2. /\ Handled /\ joined' = joined /\ nick' = nick
        /\ Unique => Seen' = Seen \ {n}
    BY <1>2, <1>4, <1>8, PartedIs
  <2>3. Users' = Users /\ (Unique => Unique')
    BY <2>2 DEF Unique, Users
  <2>4. Bot \in chan' => joined' /\ \A k \in chan' : \E i \in Users' : nick'[i] = k
    BY <1>6, <2>1, <2>2, <2>3
  <2>5. ~misled' => Unique' /\ joined' = (Bot \in chan') /\ Seen' = chan'
    BY <1>1, <1>6, <2>1, <2>2, <2>3
  <2>6. Sight'
    BY <1>1, <2>4, <2>5, SightFrom
  <2>7. QED
    BY <2>2, <2>6
<1>9. Handled /\ Sight'
  BY <1>3, <1>7, <1>8
<1>10. PendingIsAsked'
  BY <1>1, <1>9, StillAsked DEF Inv
<1>11. ServerOK'
  <2>1. rare' \in 0 .. MAX_RARE
    BY <1>1, RareIs DEF Inv, ServerOK
  <2>2. chan' \subseteq chan /\ (Bot \notin chan' => chan' = {})
    BY <1>1 DEF Without, Inv, ServerOK
  <2>3. QED
    BY <1>1, <2>1, <2>2 DEF Inv, ServerOK
<1>12. QED
  BY <1>9, <1>10, <1>11 DEF Inv, Handled

LEMMA QuitKeeps ==
  ASSUME Inv, NEW n \in Nick, Quits(n)
  PROVE  Inv'
<1> DEFINE l == [type |-> "QUIT", nick |-> n]
<1>1. /\ HandleLine(l) /\ lines = <<>> /\ lines' = <<>> /\ UNCHANGED <<registered, asked>>
      /\ n \in chan \ {Bot} /\ chan' = chan \ {n} /\ Rare /\ misled' = TRUE
  BY DEF Quits, ServerSends, Without, Misleads
<1>2. l.type = "QUIT"
  OBVIOUS
<1> HIDE DEF l
<1>3. Handled /\ SameView /\ pc = "line"
  BY <1>1, <1>2, OthersAre DEF Inv
<1>4. Sight'
  BY <1>1, <1>3, MisledSight DEF SameView, Known
<1>5. PendingIsAsked'
  BY <1>1, <1>3, StillAsked DEF Inv
<1>6. ServerOK'
  <2>1. rare' \in 0 .. MAX_RARE
    BY <1>1, RareIs
  <2>2. QED
    BY <1>1, <2>1 DEF Inv, ServerOK
<1>7. QED
  BY <1>3, <1>4, <1>5, <1>6 DEF Inv, Handled

LEMMA KickKeeps ==
  ASSUME Inv, NEW n \in Nick, NEW who \in Name, Kicks(n, who)
  PROVE  Inv'
<1> DEFINE l == [type |-> "KICK", nick |-> n]
<1>1. /\ HandleLine(l) /\ lines = <<>> /\ lines' = <<>> /\ UNCHANGED <<registered, asked>>
      /\ n \in chan \ {Bot, who} /\ who \in chan /\ chan' = Without(who) /\ Rare /\ misled' = TRUE
  BY DEF Kicks, ServerSends, Misleads
<1>2. l.type = "KICK"
  OBVIOUS
<1> HIDE DEF l
<1>3. Handled /\ joined' = joined /\ pc = "line" /\ nick' = nick
  BY <1>1, <1>2, HandlerOf, PartedIs DEF Inv
<1>4. chan' \subseteq chan /\ (Bot \notin chan' => chan' = {})
  BY <1>1 DEF Without, Inv, ServerOK
<1>5. Sight'
  BY <1>1, <1>3, <1>4, MisledSight
<1>6. PendingIsAsked'
  BY <1>1, <1>3, StillAsked DEF Inv
<1>7. ServerOK'
  <2>1. rare' \in 0 .. MAX_RARE
    BY <1>1, RareIs
  <2>2. QED
    BY <1>1, <1>4, <2>1 DEF Inv, ServerOK
<1>8. QED
  BY <1>3, <1>5, <1>6, <1>7 DEF Inv, Handled

LEMMA RenameKeeps ==
  ASSUME Inv, NEW n \in Nick, NEW new \in Nick, Renames(n, new)
  PROVE  Inv'
<1> DEFINE l == [type |-> "NICK", nick |-> n, new |-> new]
<1>1. /\ HandleLine(l) /\ lines = <<>> /\ lines' = <<>> /\ UNCHANGED <<registered, asked>>
      /\ n \in chan \ {Bot} /\ new \notin chan /\ chan' = (chan \ {n}) \cup {new}
      /\ \/ Found(Users, new) # {} /\ Rare /\ misled' = TRUE
         \/ Found(Users, new) = {} /\ rare' = rare /\ misled' = misled
  BY DEF Renames, ServerSends, Misleads
<1>2. l.type = "NICK" /\ l.nick = n /\ l.new = new /\ GoodLine(l)
  BY DEF GoodLine, Name
<1> HIDE DEF l
<1>3. HandleNick(l)
  BY <1>1, <1>2, HandlerOf
<1>4. pc = "line" /\ StateOK /\ BotOK
  BY <1>3 DEF HandleNick, Handle, Inv, BotOK
<1>5. /\ NoNick \notin chan
      /\ Bot \in chan => joined /\ \A k \in chan : \E i \in Users : nick[i] = k
      /\ ~misled => Unique /\ joined = (Bot \in chan) /\ Seen = chan
  BY <1>1, <1>4, SightIs
<1>6. Handled /\ joined' = joined /\ members' = members
  BY <1>2, <1>3, <1>4, HandleNickIs
<1>7. PICK i \in Found(Users, n) : nick' = [nick EXCEPT ![i] = new]
  BY <1>2, <1>3, <1>4, HandleNickIs
<1>8. i \in Inst /\ i \in Users /\ nick[i] = n
  BY DEF Found, Users
<1>9. new # NoNick /\ Bot \notin {n, new}
  BY NameAssumption
<1>10. nick'[i] = new /\ \A j \in Inst : j # i => nick'[j] = nick[j]
  BY <1>4, <1>7, <1>8 DEF StateOK
<1>11. Users' = Users
  BY <1>8, <1>9, <1>10 DEF Users
<1>12. Bot \in chan' => Bot \in chan
  BY <1>1, <1>9
<1>13. ASSUME Bot \in chan' PROVE joined' /\ \A k \in chan' : \E j \in Users' : nick'[j] = k
  <2>1. ASSUME NEW k \in chan', k # new PROVE \E j \in Users' : nick'[j] = k
    <3>1. k \in chan /\ k # n
      BY <1>1, <2>1
    <3>2. PICK j \in Users : nick[j] = k
      BY <1>5, <1>12, <1>13, <3>1
    <3>3. j # i /\ j \in Inst
      BY <1>8, <3>1, <3>2 DEF Users
    <3>4. QED
      BY <1>10, <1>11, <3>2, <3>3
  <2>2. QED
    BY <1>5, <1>6, <1>8, <1>10, <1>11, <1>12, <1>13, <2>1
<1>14. ASSUME ~misled' PROVE Unique' /\ joined' = (Bot \in chan') /\ Seen' = chan'
  <2>1. Found(Users, new) = {} /\ Unique /\ joined = (Bot \in chan) /\ Seen = chan
    BY <1>1, <1>5, <1>14
  <2>2. \A j \in Users : nick[j] # new /\ (nick[j] = n => j = i)
    BY <1>8, <2>1 DEF Found, Unique
  <2>3. Unique'
    BY <1>8, <1>10, <1>11, <2>1, <2>2 DEF Unique, Users
  <2>4. i \in members /\ members \subseteq Users /\ members \subseteq Inst
    <3>1. members \subseteq Users /\ members \subseteq Inst
      BY <1>4 DEF StateOK, Users
    <3>2. PICK j \in members : nick[j] = n
      BY <1>1, <2>1 DEF Seen
    <3>3. QED
      BY <2>2, <3>1, <3>2
  <2>5. \A x : x \in Seen' <=> x = new \/ \E j \in members : j # i /\ nick[j] = x
    BY <1>6, <1>10, <2>4 DEF Seen
  <2>6. \A x : x \in Seen <=> \E j \in members : nick[j] = x
    BY DEF Seen
  <2>7. \A x : x \in Seen' <=> x = new \/ (x \in Seen /\ x # n)
    BY <1>8, <2>2, <2>4, <2>5, <2>6
  <2>8. Seen' = chan'
    BY <1>1, <2>1, <2>7
  <2>9. joined' = (Bot \in chan')
    BY <1>1, <1>6, <1>9, <2>1
  <2>10. QED
    BY <2>3, <2>8, <2>9
<1>15. Sight'
  BY <1>1, <1>13, <1>14, SightFrom
<1>16. PendingIsAsked'
  BY <1>1, <1>6, StillAsked DEF Inv
<1>17. ServerOK'
  <2>1. rare' \in 0 .. MAX_RARE /\ misled' \in BOOLEAN
    BY <1>1, RareIs DEF Inv, ServerOK
  <2>2. chan' \subseteq Name /\ (Bot \notin chan' => chan' = {})
    BY <1>1, <1>9 DEF Inv, ServerOK, Name
  <2>3. QED
    BY <1>1, <2>1, <2>2 DEF Inv, ServerOK
<1>18. QED
  BY <1>6, <1>15, <1>16, <1>17 DEF Inv, Handled

\* The server's answer to a JOIN: first the bot alone is in the channel that it
\* sees, then everybody.
LEMMA AnswerGoesOnKeeps ==
  ASSUME Inv, AnswerGoesOn
  PROVE  Inv'
<1>1. /\ lines # <<>> /\ lines' = Tail(lines) /\ HandleLine(Head(lines))
      /\ UNCHANGED <<chan, registered, asked, rare, misled>>
  BY DEF AnswerGoesOn, server
<1>2. BotOK /\ StateOK /\ ServerOK /\ PendingIsAsked /\ Bot \in chan
  BY <1>1 DEF Inv, BotOK, ServerOK
<1>3. chan \subseteq Name /\ lines \in {<<JoinLine, NamesLine>>, <<NamesLine>>}
  BY <1>1, <1>2 DEF ServerOK
<1>4. ASSUME lines = <<JoinLine, NamesLine>> PROVE Handled /\ Sight' /\ lines' = <<NamesLine>>'
  <2>1. Head(lines) = JoinLine /\ lines' = <<NamesLine>>
    BY <1>1, <1>4
  <2>2. <<NamesLine>>' = <<NamesLine>>
    BY <1>1 DEF NamesLine
  <2>3. JoinLine.type = "JOIN" /\ JoinLine.nick = Bot /\ GoodLine(JoinLine)
    BY DEF JoinLine, GoodLine, Name
  <2>4. HandleJoin(JoinLine)
    BY <1>1, <2>1, <2>3, HandlerOf
  <2>5. pc = "line"
    BY <2>4 DEF HandleJoin, Handle
  <2>6. Handled /\ Adds({Bot})
    BY <1>2, <2>3, <2>4, HandleJoinIs
  <2>7. ~misled => Unique /\ ~joined
    BY <1>4, <2>5 DEF Inv, Sight
  <2>8. ~joined => Seen = {}
    BY <1>2 DEF StateOK, Seen
  <2>9. ~misled' => Unique' /\ joined' /\ Seen' = {Bot}
    BY <1>1, <2>6, <2>7, <2>8 DEF Adds, Known
  <2>10. lines' # <<>> /\ lines' # <<JoinLine, NamesLine>>'
    BY <2>1, <2>2
  <2>11. Sight'
    BY <2>9, <2>10 DEF Sight, Seen
  <2>12. QED
    BY <2>1, <2>2, <2>6, <2>11
<1>5. ASSUME lines = <<NamesLine>> PROVE Handled /\ Sight' /\ lines' = <<>>
  <2>1. Head(lines) = NamesLine /\ lines' = <<>>
    BY <1>1, <1>5
  <2>2. NamesLine.type = "353" /\ NamesLine.names = chan /\ GoodLine(NamesLine)
    BY <1>3 DEF NamesLine, GoodLine
  <2>3. HandleNames(NamesLine)
    BY <1>1, <2>1, <2>2, HandlerOf
  <2>4. pc = "line"
    BY <2>3 DEF HandleNames, Handle
  <2>5. Handled /\ Adds(chan)
    BY <1>2, <2>2, <2>3, HandleNamesIs
  <2>6. <<NamesLine>> # <<>> /\ <<NamesLine>> # <<JoinLine, NamesLine>>
    OBVIOUS
  <2>7. ~misled => Unique /\ Seen = {Bot}
    BY <1>5, <2>4 DEF Inv, Sight, Seen
  <2>8. /\ \A k \in chan' : \E i \in Users' : nick'[i] = k
        /\ joined' /\ (Unique => Unique') /\ Seen' = Seen \cup chan
    BY <1>1, <2>5 DEF Adds, Known
  <2>9. ~misled' => Unique' /\ joined' = (Bot \in chan') /\ Seen' = chan'
    BY <1>1, <1>2, <2>5, <2>7, <2>8 DEF Adds
  <2>10. Sight'
    BY <2>1, <2>8, <2>9, SightFrom
  <2>11. QED
    BY <2>1, <2>5, <2>10
<1>6. Handled /\ Sight' /\ lines' \in {<<>>, <<NamesLine>>'}
  BY <1>3, <1>4, <1>5
<1>7. PendingIsAsked'
  BY <1>1, <1>2, <1>6, StillAsked
<1>8. ServerOK'
  <2>1. Bot \in chan'
    BY <1>1, <1>2
  <2>2. lines' \in {<<>>, <<JoinLine, NamesLine>>, <<NamesLine>>}'
    BY <1>6
  <2>3. QED
    BY <1>1, <1>2, <2>1, <2>2 DEF ServerOK
<1>9. QED
  BY <1>6, <1>7, <1>8 DEF Inv, Handled

\* A line is sent, and the timers are looked at.
LEMMA TopKeeps ==
  ASSUME Inv, NEW tick \in BOOLEAN, Top(tick)
  PROVE  Inv'
<1> DEFINE queue == IF m_send_queue = <<>> THEN <<>> ELSE Tail(m_send_queue)
<1>1. /\ pc = "top" /\ pc' = "line"
      /\ \/ m_send_queue = <<>> /\ UNCHANGED <<chan, registered, asked, lines>>
         \/ m_send_queue # <<>> /\ Received(Head(m_send_queue))
      /\ timeout' = [i \in Inst |-> IF tick /\ timeout[i] > 0 THEN timeout[i] - 1 ELSE timeout[i]]
      /\ waiting' \subseteq waiting
      /\ UNCHANGED <<rare, misled, m_auth_type, m_auth_status, m_user_modes, nick, account, joined, members>>
  BY DEF Top, auth, people
<1>2. PICK texts \in Texts \cup {<<>>} : Send(queue, texts, {})
  BY DEF Top
<1>3. /\ BotOK /\ StateOK /\ ServerOK /\ PendingIsAsked
      /\ m_send_queue \in Seq(Line) /\ Len(m_send_queue) <= SEND_QUEUE_MAX
  BY DEF Inv, BotOK
<1>4. /\ queue \in Seq(Line) /\ Len(queue) <= SEND_QUEUE_MAX
      /\ m_send_queue # <<>> =>
           /\ Head(m_send_queue) \in Line
           /\ ToSet(m_send_queue) = {Head(m_send_queue)} \cup ToSet(queue)
  <2>1. CASE m_send_queue = <<>>
    BY <2>1, BoundAssumption
  <2>2. CASE m_send_queue # <<>>
    <3>1. queue = Tail(m_send_queue) /\ Len(m_send_queue) \in Nat \ {0}
      BY <1>3, <2>2
    <3>2. /\ queue \in Seq(Line) /\ Len(queue) = Len(m_send_queue) - 1
          /\ Head(m_send_queue) = m_send_queue[1] /\ Head(m_send_queue) \in Line
      BY <1>3, <2>2, <3>1
    <3>3. /\ DOMAIN m_send_queue = 1 .. Len(m_send_queue) /\ DOMAIN queue = 1 .. Len(queue)
          /\ \A k \in 1 .. Len(queue) : queue[k] = m_send_queue[k+1]
      BY <1>3, <3>1, <3>2
    <3> DEFINE n == Len(m_send_queue)
    <3> HIDE DEF n, queue
    <3>4. \A k \in 1 .. n : k = 1 \/ (k-1 \in 1 .. Len(queue) /\ (k-1)+1 = k)
      BY <3>1, <3>2 DEF n
    <3>5. 1 \in 1 .. n /\ \A k \in 1 .. Len(queue) : k+1 \in 1 .. n
      BY <3>1, <3>2 DEF n
    <3>6. \A k \in DOMAIN m_send_queue : m_send_queue[k] \in {Head(m_send_queue)} \cup ToSet(queue)
      <4>1. TAKE k \in DOMAIN m_send_queue
      <4>2. CASE k = 1
        BY <3>2, <4>2
      <4>3. CASE k # 1
        <5> DEFINE j == k-1
        <5>1. j \in DOMAIN queue /\ j+1 = k
          BY <3>3, <3>4, <4>3 DEF n
        <5> HIDE DEF j
        <5>2. m_send_queue[k] = queue[j]
          BY <3>3, <5>1
        <5>3. QED
          BY <5>1, <5>2 DEF ToSet
      <4>4. QED
        BY <4>2, <4>3
    <3>7. {Head(m_send_queue)} \cup ToSet(queue) \subseteq ToSet(m_send_queue)
      BY <3>2, <3>3, <3>5 DEF ToSet, n
    <3>8. ToSet(m_send_queue) = {Head(m_send_queue)} \cup ToSet(queue)
      <4>1. \A x \in ToSet(m_send_queue) : x \in {Head(m_send_queue)} \cup ToSet(queue)
        BY <3>6 DEF ToSet
      <4>2. QED
        BY <3>7, <4>1
    <3>9. Len(queue) <= SEND_QUEUE_MAX
      BY <1>3, <3>1, <3>2, BoundAssumption
    <3>10. QED
      BY <3>2, <3>8, <3>9
  <2>3. QED
    BY <2>1, <2>2
<1> HIDE DEF queue
<1>5. texts \in Seq(Line)
  BY Lines
<1>6. /\ m_send_queue' \in Seq(Line) /\ Len(m_send_queue') <= SEND_QUEUE_MAX
      /\ \A i \in lost' : i \in Inst /\ account'[i] = "PENDING"
      /\ \A i \in Inst : account'[i] = "PENDING" /\ i \notin lost' =>
           i \notin lost /\ ToSet(queue) \subseteq ToSet(m_send_queue')
  BY <1>2, <1>4, <1>5, SendIs
<1>7. Users' = Users
  BY <1>1 DEF Users
<1>8. timeout' \in [Inst -> 0 .. TIMEOUT]
  <2>1. \A i \in Inst : timeout[i] \in 0 .. TIMEOUT
    BY <1>3 DEF StateOK
  <2>2. \A i \in Inst : (IF tick /\ timeout[i] > 0 THEN timeout[i] - 1 ELSE timeout[i]) \in 0 .. TIMEOUT
    BY <2>1, BoundAssumption
  <2>3. QED
    BY <1>1, <2>2
<1>9. StateOK'
  BY <1>1, <1>3, <1>7, <1>8 DEF StateOK
<1>10. BotOK'
  <2>1. lost' \subseteq Users'
    BY <1>6, <1>9 DEF StateOK
  <2>2. QED
    BY <1>6, <1>9, <2>1 DEF BotOK
\* What the server does with the line.
<1> DEFINE t == Head(m_send_queue)
<1>11. ASSUME m_send_queue # <<>>
       PROVE  /\ registered' \in BOOLEAN
              /\ asked' = IF t.type = "ACC" /\ m_auth_type > 0 THEN asked \cup {t.nick} ELSE asked
              /\ \/ chan' = chan /\ lines' = lines
                 \/ /\ Bot \notin chan /\ Bot \in chan' /\ chan' \subseteq Name
                    /\ lines' = lines \o <<JoinLine, [type |-> "353", names |-> chan']>>
  <2>1. Received(t)
    BY <1>1, <1>11
  <2> HIDE DEF t
  <2>2. registered' \in BOOLEAN
    BY <1>3, <2>1 DEF Received, ServerOK
  <2>3. asked' = IF t.type = "ACC" /\ m_auth_type > 0 THEN asked \cup {t.nick} ELSE asked
    BY <2>1 DEF Received
  <2>4. \/ chan' = chan /\ lines' = lines
        \/ /\ Bot \notin chan /\ Bot \in chan' /\ chan' \subseteq Name
           /\ lines' = lines \o <<JoinLine, [type |-> "353", names |-> chan']>>
    BY <2>1 DEF Received, Name, JoinLine
  <2>5. QED
    BY <2>2, <2>3, <2>4
<1>12. /\ registered' \in BOOLEAN
       /\ \/ chan' = chan /\ lines' = lines
          \/ /\ Bot \notin chan /\ Bot \in chan' /\ chan' \subseteq Name
             /\ lines = <<>> /\ lines' = <<JoinLine, NamesLine>>'
  <2>1. CASE m_send_queue = <<>>
    BY <1>1, <1>3, <2>1 DEF ServerOK
  <2>2. ASSUME Bot \notin chan, Bot \in chan', chan' \subseteq Name,
               lines' = lines \o <<JoinLine, [type |-> "353", names |-> chan']>>
        PROVE  lines = <<>> /\ lines' = <<JoinLine, NamesLine>>'
    <3>1. lines = <<>>
      BY <1>3, <2>2 DEF ServerOK
    <3> DEFINE names == [type |-> "353", names |-> chan']
    <3>2. <<JoinLine, NamesLine>>' = <<JoinLine, names>>
      BY DEF JoinLine, NamesLine
    <3> HIDE DEF names
    <3>3. <<>> \o <<JoinLine, names>> = <<JoinLine, names>>
      OBVIOUS
    <3>4. QED
      BY <2>2, <3>1, <3>2, <3>3 DEF names
  <2>3. CASE m_send_queue # <<>>
    BY <1>11, <2>2, <2>3
  <2>4. QED
    BY <2>1, <2>3
<1>13. asked \subseteq asked' /\ asked' \subseteq Name
  <2>1. ASSUME m_send_queue # <<>>, t.type = "ACC" PROVE t.nick \in Name
    <3>1. t \in Line
      BY <1>4, <2>1
    <3>2. PICK n \in Name : t = Acc(n)
      BY <2>1, <3>1 DEF Line, Text, Command
    <3>3. QED
      BY <3>2 DEF Acc
  <2> HIDE DEF t
  <2>2. QED
    BY <1>1, <1>3, <1>11, <2>1 DEF ServerOK
<1>14. PendingIsAsked'
  <2>1. SUFFICES ASSUME m_auth_type' > 0, NEW i \in Users' \ lost', account'[i] = "PENDING"
                 PROVE  UnderWay(nick[i])'
    BY DEF PendingIsAsked
  <2>2. i \in Inst /\ i \in Users /\ m_auth_type > 0 /\ account[i] = "PENDING" /\ nick'[i] = nick[i]
    BY <1>1, <1>7, <2>1 DEF Users
  <2>3. i \notin lost /\ ToSet(queue) \subseteq ToSet(m_send_queue')
    BY <1>6, <2>1, <2>2
  <2>4. UnderWay(nick[i])
    BY <1>3, <2>2, <2>3 DEF PendingIsAsked
  <2> DEFINE a == Acc(nick[i])
  <2>5. a.type = "ACC" /\ a.nick = nick[i]
    BY DEF Acc
  <2>6. CASE nick[i] \in asked
    BY <1>13, <2>2, <2>6 DEF UnderWay
  <2>7. CASE a \in ToSet(m_send_queue)
    <3>1. m_send_queue # <<>>
      BY <2>7 DEF ToSet
    <3>2. a = t \/ a \in ToSet(queue)
      BY <1>4, <2>7, <3>1
    <3>3. CASE a = t
      <4> HIDE DEF t
      <4>1. nick[i] \in asked'
        BY <1>11, <2>2, <2>5, <3>1, <3>3
      <4>2. QED
        BY <2>2, <4>1 DEF UnderWay
    <3>4. CASE a \in ToSet(queue)
      BY <2>2, <2>3, <3>4 DEF UnderWay
    <3>5. QED
      BY <3>2, <3>3, <3>4
  <2>8. QED
    BY <2>4, <2>6, <2>7 DEF UnderWay
<1>15. ServerOK'
  <2>1. lines' \in {<<>>, <<JoinLine, NamesLine>>, <<NamesLine>>}'
    <3>1. CASE chan' = chan /\ lines' = lines
      BY <1>3, <3>1 DEF ServerOK, JoinLine, NamesLine
    <3>2. QED
      BY <1>12, <3>1
  <2>2. chan' \subseteq Name /\ (Bot \notin chan' => chan' = {} /\ lines' = <<>>)
    BY <1>3, <1>12 DEF ServerOK
  <2>3. QED
    BY <1>1, <1>3, <1>12, <1>13, <2>1, <2>2 DEF ServerOK
<1>16. Sight'
  <2>1. /\ lines = <<>> /\ Bot \in chan => joined /\ \A n \in chan : Found(Users, n) # {}
        /\ ~misled =>
             /\ Unique
             /\ lines = <<>> => joined = (Bot \in chan) /\ Seen = chan
             /\ lines = <<JoinLine, NamesLine>> => ~joined
             /\ lines = <<NamesLine>> => joined /\ Seen = {Bot}
    BY <1>1 DEF Inv, Sight, Seen
  <2>2. (Unique <=> Unique') /\ Seen' = Seen /\ \A n : Found(Users, n)' = Found(Users, n)
    BY <1>1, <1>7 DEF Unique, Seen, Found
  <2>3. CASE chan' = chan /\ lines' = lines
    <3>1. /\ lines' = <<>> /\ Bot \in chan' => joined' /\ \A n \in chan' : Found(Users, n)' # {}
          /\ ~misled' =>
               /\ Unique'
               /\ lines' = <<>> => joined' = (Bot \in chan') /\ Seen' = chan'
               /\ lines' = <<JoinLine, NamesLine>>' => ~joined'
               /\ lines' = <<NamesLine>>' => joined' /\ Seen' = {Bot}
      BY <1>1, <2>1, <2>2, <2>3 DEF JoinLine, NamesLine
    <3>2. QED
      BY <3>1 DEF Sight, Seen
  <2>4. CASE Bot \notin chan /\ lines = <<>> /\ lines' = <<JoinLine, NamesLine>>'
    <3>1. ~misled' => Unique' /\ ~joined'
      BY <1>1, <2>1, <2>2, <2>4
    <3>2. lines' # <<>> /\ lines' # <<NamesLine>>'
      BY <2>4
    <3>3. QED
      BY <3>1, <3>2 DEF Sight
  <2>5. QED
    BY <1>12, <2>3, <2>4
<1>17. QED
  BY <1>10, <1>14, <1>15, <1>16 DEF Inv

-----------------------------------------------------------------------------
(* The invariant, and what follows from it. *)

LEMMA InitInv ==
  ASSUME Init
  PROVE  Inv
<1>1. Users = {}
  BY DEF Init, Users
<1>2. StateOK
  <2>1. 0 \in 0 .. TIMEOUT
    BY BoundAssumption
  <2>2. QED
    BY <1>1, <2>1 DEF Init, StateOK
<1>3. m_send_queue = <<Text>> /\ <<Text>> \in Seq(Line) /\ Len(<<Text>>) = 1
  BY Lines DEF Init
<1>4. BotOK
  BY <1>2, <1>3, BoundAssumption DEF Init, BotOK
<1>5. ServerOK
  <2>1. 0 \in 0 .. MAX_RARE
    BY BoundAssumption
  <2>2. QED
    BY <2>1 DEF Init, ServerOK
<1>6. PendingIsAsked
  BY <1>1 DEF PendingIsAsked
<1>7. Sight
  <2>1. chan = {} /\ members = {} /\ joined = FALSE /\ lines = <<>>
    BY DEF Init
  <2>2. (Bot \in chan) = FALSE /\ {nick[i] : i \in members} = {}
    BY <2>1
  <2>3. lines # <<JoinLine, NamesLine>> /\ lines # <<NamesLine>>
    BY <2>1
  <2>4. QED
    BY <1>1, <2>1, <2>2, <2>3 DEF Sight, Unique
<1>8. QED
  BY <1>4, <1>5, <1>6, <1>7 DEF Inv

LEMMA ServerKeeps ==
  ASSUME Inv, Server
  PROVE  Inv'
<1>1. CASE Welcomes
  BY <1>1, QuietLine DEF Welcomes, Quiet
<1>2. ASSUME NEW t \in {"i", "r", "396"}, Authenticates(t) PROVE Inv'
  BY <1>2, QuietLine DEF Authenticates, Quiet
<1>3. CASE Pings
  BY <1>3, QuietLine DEF Pings, Quiet
<1>4. CASE Invites
  BY <1>4, QuietLine DEF Invites, Quiet
<1>5. ASSUME NEW n \in Nick, NEW what \in {"join", "updateauth", "talk"}, Says(n, what) PROVE Inv'
  BY <1>5, QuietLine DEF Says, Quiet
<1>6. QED
  BY <1>1, <1>2, <1>3, <1>4, <1>5, CloseKeeps, JoinKeeps, QuitKeeps, RenameKeeps, KickKeeps,
     PartKeeps, AnswerKeeps DEF Server

LEMMA UnchangedKeeps ==
  ASSUME Inv, UNCHANGED <<server, lines, auth, m_send_queue, people, status, lost>>,
         pc' = pc \/ (pc = "line" /\ pc' = "top")
  PROVE  Inv'
<1>1. UNCHANGED <<chan, registered, asked, rare, misled, lines, m_auth_type, m_auth_status, m_user_modes,
                  m_send_queue, nick, account, joined, members, waiting, timeout, lost>>
  BY DEF server, auth, people, status
<1>2. Users' = Users
  BY <1>1 DEF Users
<1>3. BotOK'
  BY <1>1, <1>2 DEF Inv, BotOK, StateOK
<1>4. ServerOK'
  BY <1>1 DEF Inv, ServerOK, JoinLine, NamesLine
<1>5. Sight'
  <2>1. (Unique <=> Unique') /\ \A n : Found(Users, n)' = Found(Users, n)
    BY <1>1, <1>2 DEF Unique, Found
  <2>2. QED
    BY <1>1, <2>1 DEF Inv, Sight, JoinLine, NamesLine
<1>6. PendingIsAsked'
  BY <1>1, <1>2 DEF Inv, PendingIsAsked, UnderWay
<1>7. QED
  BY <1>3, <1>4, <1>5, <1>6 DEF Inv

LEMMA NextInv ==
  ASSUME Inv, [Next]_vars
  PROVE  Inv'
<1>1. CASE NoLine
  BY <1>1, UnchangedKeeps DEF NoLine
<1>2. CASE UNCHANGED vars
  BY <1>2, UnchangedKeeps DEF vars
<1>3. QED
  BY <1>1, <1>2, ServerKeeps, TopKeeps, AnswerGoesOnKeeps DEF Next, Loop

\* The invariant holds in every state of the client with its server, users and
\* NickServ.
THEOREM Invariance == Spec => []Inv
BY InitInv, NextInv, PTL DEF Spec

\* The client's state has its types: the queue is never longer than its limit,
\* the members of a channel and those who wait are users, and the timers are
\* within their time (client_irc.cpp, core/module.cpp).
THEOREM TypeCorrect == Spec => []TypeOK
<1>1. ASSUME Inv PROVE TypeOK
  <2>1. Len(lines) <= 2
    <3>1. Len(<<JoinLine, NamesLine>>) = 2 /\ Len(<<NamesLine>>) = 1 /\ Len(<<>>) = 0
      OBVIOUS
    <3>2. lines \in {<<>>, <<JoinLine, NamesLine>>, <<NamesLine>>}
      BY <1>1 DEF Inv, ServerOK
    <3> DEFINE n == Len(lines)
    <3>3. n = 0 \/ n = 1 \/ n = 2
      BY <3>1, <3>2
    <3> HIDE DEF n
    <3>4. n <= 2
      BY <3>3
    <3>5. QED
      BY <3>4 DEF n
  <2>2. QED
    BY <1>1, <2>1 DEF Inv, ServerOK, BotOK, StateOK, TypeOK
<1>2. QED
  BY <1>1, Invariance, PTL

\* Once all lines are handled, everybody in the bot's channel is a user of the
\* network, and the channel's users are those in it as long as nothing happens
\* that the bot misunderstands (client_irc.cpp, the handlers of JOIN, 353,
\* NICK, PART, KICK and QUIT).
THEOREM ViewTrue == Spec => []ViewIsTruth
<1>1. ASSUME Inv PROVE ViewIsTruth
  BY <1>1 DEF Inv, Sight, ViewIsTruth
<1>2. QED
  BY <1>1, Invariance, PTL

\* A pending account has its question in the queue or at NickServ, unless it was
\* lost with a full queue, a rename or an answer to another user
\* (client_irc.cpp, requestAccStatus).
THEOREM PendingAsked == Spec => []PendingIsAsked
<1>1. ASSUME Inv PROVE PendingIsAsked
  BY <1>1 DEF Inv
<1>2. QED
  BY <1>1, Invariance, PTL

\* Who waits for an account has a pending one, so a ranked join, which looks for
\* an unknown one, finds no data of an earlier join that it would replace
\* (nbm_superior_uno.cpp, cmd_join and onUserStatusUpdate).
THEOREM WaitingPending == Spec => []WaitingIsPending
<1>1. ASSUME Inv PROVE WaitingIsPending
  BY <1>1 DEF Inv, BotOK, StateOK, WaitingIsPending
<1>2. QED
  BY <1>1, Invariance, PTL
=============================================================================
