--------------------------------- MODULE Irc ---------------------------------
(* client/client_irc.cpp with one channel: the bot registers, joins, keeps    *)
(* the users it hears of, and asks NickServ about their accounts. A ranked    *)
(* $uno join (modules/nbm_superior_uno.cpp) and $updateauth                   *)
(* (modules/nbm_builtin.cpp) wait for the answer, at most as long as the      *)
(* timer of core/module.cpp runs. NickServ takes any time to answer.          *)
(*                                                                            *)
(* The main loop alternates between "top" (send one queued line, look at the  *)
(* timers) and "line" (handle one line of the server, then the request that   *)
(* it queued: a handler queues at most one and every round processes one).    *)
(* The lines come in order (see Connection). All but the two that answer a    *)
(* JOIN are handled in the round in which the server sends them, since the    *)
(* server looks at the bot's lines only, and not at what the bot has handled. *)
EXTENDS Naturals, Sequences, FiniteSets, Functions, SequencesExt

CONSTANTS
  Nick, Bot,        \* the nicknames of users and that of the bot
  NoNick,           \* marks an address without a user
  NInst,            \* bound: the addresses of UserInstances are 1 .. NInst
  AuthTypes,        \* values of the setting irc.authtype
  SEND_QUEUE_MAX,
  Chatter,          \* how many lines the modules may say at once
  TIMEOUT,          \* the steps after which a status request times out
  MAX_USERS,        \* bound: users in the channel at once
  MAX_RARE          \* bound: rare events: quits, kicks, leaves of the bot,
                    \* and nicknames that the bot has twice

ASSUME NameAssumption == Bot \notin Nick /\ NoNick \notin Nick \cup {Bot}
ASSUME BoundAssumption ==
  /\ NInst \in Nat /\ MAX_USERS \in Nat /\ MAX_RARE \in Nat /\ TIMEOUT \in Nat
  /\ SEND_QUEUE_MAX \in Nat \ {0} /\ Chatter \subseteq Nat /\ AuthTypes \subseteq Nat

Inst == 1 .. NInst
Name == Nick \cup {Bot}

VARIABLES
  chan,             \* the server: who is in the channel, as long as the bot is
  registered,       \* the server knows the bot's nickname
  asked,            \* NickServ: the nicknames it was asked for
  rare,             \* how many rare events there were
  misled,           \* history: there was an event that the bot misunderstands
  lines,            \* what is left of the server's answer to a JOIN
  pc,               \* the main loop: "top", "line", "ended"
  m_auth_type, m_auth_status,
  m_user_modes,     \* those of "i" and "r" that are set
  m_send_queue,
  nick, account,    \* the users of the network
  joined, members,  \* there is a Channel, and its users
  waiting,          \* the users with data of STATUSUPDATE
  timeout,          \* m_status_update_timeout; 0 is no entry
  lost              \* history: users whose question is not answered any more

server == <<chan, registered, asked, rare, misled>>
auth == <<m_auth_type, m_auth_status, m_user_modes>>
people == <<nick, account, joined, members>>
status == <<waiting, timeout>>
vars == <<server, lines, pc, auth, m_send_queue, people, status, lost>>

Users == {i \in Inst : nick[i] # NoNick}
Found(S, n) == {i \in S : nick[i] = n}

(* Of the lines that the server has no answer to, only their number matters.  *)
Text == [type |-> "text"]
Command(t) == [type |-> t]
Acc(n) == [type |-> "ACC", nick |-> n]
Texts == {[k \in 1 .. n |-> Text] : n \in Chatter}

Init ==
  /\ chan = {} /\ registered = FALSE /\ asked = {} /\ rare = 0 /\ misled = FALSE
  /\ lines = <<>> /\ pc = "top"
  /\ m_auth_type \in AuthTypes /\ m_auth_status = "SEND_NICK" /\ m_user_modes = {}
  /\ m_send_queue = <<Text>>    \* initialize sends a PING
  /\ nick = [i \in Inst |-> NoNick] /\ account = [i \in Inst |-> "UNKNOWN"]
  /\ joined = FALSE /\ members = {}
  /\ waiting = {} /\ timeout = [i \in Inst |-> 0] /\ lost = {}

-----------------------------------------------------------------------------
(* The send queue. *)

\* Mutant: one line too many fits.
SendRawLate(queue, text) == IF Len(queue) > SEND_QUEUE_MAX THEN <<>> ELSE Append(queue, text)

\* sendRaw: a full queue is emptied, and the new line is dropped too.
SendRaw(queue, text) == IF Len(queue) >= SEND_QUEUE_MAX THEN <<>> ELSE Append(queue, text)

\* A handler sends lines. Who waits for an answer is lost if the handler makes
\* it so, or if the queue is emptied.
Send(queue, texts, losing) ==
  /\ m_send_queue' = FoldLeft(SendRaw, queue, texts)
  /\ lost' = {i \in Inst : /\ account'[i] = "PENDING"
                          /\ \/ i \in lost \cup losing
                             \/ Len(queue) + Len(texts) > SEND_QUEUE_MAX}

(* run(), its first part: one line is sent, then the timers are looked at if  *)
(* enough time has passed since the last time.                                *)

Received(t) ==
  /\ registered' = (registered \/ t.type = "NICK")
  /\ asked' = IF t.type = "ACC" /\ m_auth_type > 0 THEN asked \cup {t.nick} ELSE asked
  /\ IF t.type = "JOIN" /\ registered /\ Bot \notin chan
     THEN \E others \in {S \in SUBSET Nick : Cardinality(S) <= MAX_USERS} :
            /\ chan' = others \cup {Bot}
            /\ lines' = lines \o <<[type |-> "JOIN", nick |-> Bot], [type |-> "353", names |-> chan']>>
     ELSE UNCHANGED <<chan, lines>>

\* Mutant: only those of users who are still in the channel.
ExpiredMembers == {i \in members : timeout[i] = 1}

\* Timers that run out; those of addresses without a user are only erased.
Expired == {i \in Inst : timeout[i] = 1}

Top(tick) ==
  /\ pc = "top" /\ pc' = "line"
  /\ IF m_send_queue = <<>> THEN UNCHANGED <<chan, registered, asked, lines>>
     ELSE Received(Head(m_send_queue))
  /\ timeout' = [i \in Inst |-> IF tick /\ timeout[i] > 0 THEN timeout[i] - 1 ELSE timeout[i]]
  /\ waiting' = IF tick THEN waiting \ (Expired \cap Users) ELSE waiting
  /\ UNCHANGED <<rare, misled, auth, people>>
  /\ \E texts \in IF tick /\ Expired \cap Users # {} THEN Texts ELSE {<<>>} :
       Send(IF m_send_queue = <<>> THEN <<>> ELSE Tail(m_send_queue), texts, {})

-----------------------------------------------------------------------------
(* run(), its second part: a line is handled. For what is sent and who is     *)
(* asked for, account and nick have their new values.                         *)

Handle(l, type) ==
  /\ pc = "line" /\ l.type = type
  /\ pc' = IF type = "ERROR" THEN "ended" ELSE "top"

NoLine ==
  /\ pc = "line" /\ lines = <<>> /\ pc' = "top"
  /\ UNCHANGED <<server, lines, auth, m_send_queue, people, status, lost>>

Ignore(l, type) == Handle(l, type) /\ UNCHANGED <<auth, m_send_queue, people, status, lost>>

\* addUser of the network: nicknames that it does not know get new users, at
\* the first free addresses (which they are makes no difference).
AddUsers(names) ==
  LET new  == {n \in names : Found(Users, n) = {}}
      free == Inst \ Users
  IN \E users \in SUBSET free : \E name \in Bijection(users, new) :
       /\ \A i \in users, j \in free \ users : i < j
       /\ nick' = [i \in Inst |-> IF i \in users THEN name[i] ELSE nick[i]]
FoundNow(S, n) == {i \in S : nick'[i] = n}

\* addUser of the channel for several nicknames: of those that it does not
\* have, the users of the network.
AddMembers(names) ==
  LET new == {n \in names : Found(members, n) = {}}
  IN \E users \in SUBSET Inst :
       /\ Cardinality(users) = Cardinality(new) /\ {nick'[i] : i \in users} = new
       /\ members' = members \cup users

\* Mutant: the question is made of the nickname before the event.
QuestionBefore(i) == IF account[i] = "PENDING" THEN <<>> ELSE <<Acc(nick[i])>>

\* requestAccStatus asks nothing while an answer is awaited.
Question(i) == IF account[i] = "PENDING" THEN <<>> ELSE <<Acc(nick'[i])>>
Pending(i) == account' = [account EXCEPT ![i] = "PENDING"]

\* joinChannels runs after a handler that set AS_JOIN_CHANNELS.
JoinChannels(texts) == m_auth_status' = "DONE" /\ Send(m_send_queue, Append(texts, Command("JOIN")), {})

Authenticate(l, type) ==
  /\ Handle(l, type) /\ m_auth_status = "SEND_NICK"
  /\ m_auth_status' = IF m_auth_type > 0 THEN "AUTHENTICATE" ELSE m_auth_status
  /\ AddUsers({Bot})
  /\ UNCHANGED <<m_auth_type, m_user_modes, account, joined, members, status>>
  /\ Send(m_send_queue, <<Text, Command("NICK")>>, {})

WelcomeAgain(l) == m_auth_status # "SEND_NICK" /\ Ignore(l, "welcome")

HostChanged(l) ==
  /\ Handle(l, "396") /\ m_auth_status # "SEND_NICK"
  /\ UNCHANGED <<m_auth_type, m_user_modes, people, status>>
  /\ JoinChannels(<<>>)

Mode(l, m) ==
  /\ Handle(l, m) /\ Found(Users, Bot) # {}
  /\ m_user_modes' = m_user_modes \cup {m}
  /\ UNCHANGED <<m_auth_type, people, status>>
  /\ LET identify == IF m_auth_status = "AUTHENTICATE" /\ m_auth_type > 0 THEN <<Text>> ELSE <<>>
     IN IF "r" \in m_user_modes' \/ (m_auth_type = 0 /\ "i" \in m_user_modes')
        THEN JoinChannels(identify)
        ELSE UNCHANGED m_auth_status /\ Send(m_send_queue, identify, {})

ModeUnknown(l, m) == Found(Users, Bot) = {} /\ Ignore(l, m)

Answer(l, type, text) ==
  /\ Handle(l, type) /\ UNCHANGED <<auth, people, status>>
  /\ Send(m_send_queue, <<text>>, {})

\* handleError deletes the connection; the process ends, and deletes the rest.
Error(l) ==
  /\ Handle(l, "ERROR")
  /\ m_auth_status' = "SEND_NICK" /\ m_user_modes' = {} /\ UNCHANGED m_auth_type
  /\ nick' = [i \in Inst |-> NoNick] /\ account' = [i \in Inst |-> "UNKNOWN"]
  /\ joined' = FALSE /\ members' = {}
  /\ waiting' = {} /\ timeout' = [i \in Inst |-> 0]
  /\ Send(<<>>, <<>>, {})

HandleJoin(l) ==
  /\ Handle(l, "JOIN")
  /\ joined' = TRUE
  /\ LET names == IF joined THEN {l.nick} ELSE {l.nick, Bot}
     IN AddUsers(names) /\ AddMembers(names)
  /\ UNCHANGED <<auth, status>>
  /\ \E i \in FoundNow(members', l.nick), texts \in IF l.nick = Bot THEN {<<>>} ELSE Texts :
       Pending(i) /\ Send(m_send_queue, Question(i) \o texts, {})

\* Mutant: only the list of a channel that the bot has not joined is read.
HandleNamesOnce(l) ==
  /\ Handle(l, "353")
  /\ LET names == IF joined THEN {} ELSE l.names
     IN joined' = TRUE /\ AddUsers(names) /\ AddMembers(names)
  /\ UNCHANGED <<auth, m_send_queue, account, status, lost>>

\* The list of users that follows the bot's own JOIN.
HandleNames(l) ==
  /\ Handle(l, "353")
  /\ joined' = TRUE /\ AddUsers(l.names) /\ AddMembers(l.names)
  /\ UNCHANGED <<auth, m_send_queue, account, status, lost>>

\* Somebody with this nickname is renamed. A question under way asks for the
\* old nickname, and no other one is asked.
HandleNick(l) ==
  /\ Handle(l, "NICK")
  /\ \E i \in Found(Users, l.nick) :
       /\ nick' = [nick EXCEPT ![i] = l.new] /\ Pending(i)
       /\ Send(m_send_queue, Question(i), IF account[i] = "PENDING" THEN {i} ELSE {})
  /\ UNCHANGED <<auth, joined, members, status>>

\* The bot itself leaves: the channel is removed, and with it the users who
\* are in no other.
BotParts(l) ==
  /\ Handle(l, "PART") /\ l.nick = Bot
  /\ joined' = FALSE /\ members' = {}
  /\ nick' = [i \in Inst |-> IF i \in members THEN NoNick ELSE nick[i]]
  /\ account' = [i \in Inst |-> IF i \in members THEN "UNKNOWN" ELSE account[i]]
  /\ waiting' = waiting \ members
  /\ UNCHANGED <<auth, timeout>>
  /\ Send(m_send_queue, <<>>, {})

\* KICK removes the one who kicked, as its line begins with that nickname.
HandlePart(l, type) ==
  /\ Handle(l, type) /\ l.nick # Bot
  /\ \E i \in Found(members, l.nick), texts \in Texts :
       members' = members \ {i} /\ UNCHANGED account /\ Send(m_send_queue, texts, {})
  /\ UNCHANGED <<auth, nick, joined, status>>

PartUnknown(l, type) == Ignore(l, type) /\ l.nick # Bot /\ Found(members, l.nick) = {}

\* Mutant: of users who have left the channel, onUserStatusUpdate returns early.
WaitingAway(i) == waiting \ ({i} \cap members)

\* onUserStatusUpdate ends the wait of a user, in the channel or not.
WaitingAfter(i) == waiting \ {i}

\* The answer of NickServ.
HandleNotice(l) ==
  /\ Handle(l, "NOTICE") /\ m_auth_type > 0
  /\ \E i \in Found(Users, l.nick), texts \in Texts :
       /\ account' = [account EXCEPT ![i] = "KNOWN"]
       /\ waiting' = WaitingAfter(i) /\ timeout' = [timeout EXCEPT ![i] = 0]
       /\ Send(m_send_queue, texts, Found(Users, l.nick))
  /\ UNCHANGED <<auth, nick, joined, members>>

NoticeUnknown(l) ==
  /\ Ignore(l, "NOTICE")
  /\ m_auth_type = 0 \/ Found(Users, l.nick) = {}

(* Messages of users. A command that needs the account waits for it with a    *)
(* request: the timer starts, and the question is asked.                      *)

Talk(l, type) ==
  /\ Handle(l, type)
  /\ \E texts \in Texts : UNCHANGED account /\ Send(m_send_queue, texts, {})
  /\ UNCHANGED <<auth, nick, joined, members, status>>

StatusRequest(i) ==
  /\ timeout' = [timeout EXCEPT ![i] = TIMEOUT]
  /\ Pending(i) /\ UNCHANGED <<nick, joined, members, auth>>
  /\ Send(m_send_queue, Question(i), {})

\* A ranked $uno join of a user whose account nobody asked for.
JoinRanked(l) ==
  /\ Handle(l, "join")
  /\ \E i \in Found(Users, l.nick) :
       /\ account[i] = "UNKNOWN" /\ waiting' = waiting \cup {i}
       /\ StatusRequest(i)

UpdateAuth(l) ==
  /\ Handle(l, "updateauth") /\ UNCHANGED waiting
  /\ \E i \in Found(Users, l.nick) : StatusRequest(i)

HandleLine(l) ==
  \/ \E t \in {"welcome", "396"} : Authenticate(l, t)
  \/ WelcomeAgain(l) \/ HostChanged(l)
  \/ \E m \in {"i", "r"} : Mode(l, m) \/ ModeUnknown(l, m)
  \/ Answer(l, "PING", Text) \/ Answer(l, "INVITE", Command("JOIN"))
  \/ Error(l)
  \/ HandleJoin(l) \/ HandleNames(l) \/ HandleNick(l) \/ BotParts(l)
  \/ \E t \in {"PART", "KICK"} : HandlePart(l, t) \/ PartUnknown(l, t)
  \/ Ignore(l, "QUIT")
  \/ HandleNotice(l) \/ NoticeUnknown(l)
  \/ \E t \in {"talk", "join"} : Talk(l, t)
  \/ JoinRanked(l) \/ UpdateAuth(l)

-----------------------------------------------------------------------------
(* The server sends a line whenever it likes, and the bot handles it; the     *)
(* server is external.                                                        *)

ServerSends(l) == lines = <<>> /\ HandleLine(l) /\ UNCHANGED lines

\* 451 before the bot is registered, 001 to 003 after it.
Welcomes == Bot \notin chan /\ ServerSends([type |-> "welcome"]) /\ UNCHANGED server

\* A mode of the bot is set, or its host name is changed. The server makes the
\* bot invisible before it can log in. (Later modes only make it join again.)
Authenticates(t) ==
  /\ registered /\ Bot \notin chan /\ t \notin m_user_modes /\ (t = "r" => "i" \in m_user_modes)
  /\ ServerSends([type |-> t]) /\ UNCHANGED server

Pings == ServerSends([type |-> "PING"]) /\ UNCHANGED server
Invites == Bot \notin chan /\ ServerSends([type |-> "INVITE"]) /\ UNCHANGED server

Closes ==
  /\ ServerSends([type |-> "ERROR"])
  /\ chan' = {} /\ registered' = FALSE /\ asked' = {} /\ UNCHANGED <<rare, misled>>

UserJoins(n) ==
  /\ Bot \in chan /\ n \notin chan /\ chan' = chan \cup {n} /\ Cardinality(chan) <= MAX_USERS
  /\ ServerSends([type |-> "JOIN", nick |-> n]) /\ UNCHANGED <<registered, asked, rare, misled>>

\* Without n, or without anybody if the bot does not see the channel any more.
Without(n) == IF n = Bot THEN {} ELSE chan \ {n}

Rare == rare < MAX_RARE /\ rare' = rare + 1
Misleads == Rare /\ misled' = TRUE

Parts(n) ==
  /\ n \in chan /\ chan' = Without(n)
  /\ IF n = Bot THEN Rare ELSE UNCHANGED rare
  /\ ServerSends([type |-> "PART", nick |-> n]) /\ UNCHANGED <<registered, asked, misled>>

Renames(n, new) ==
  /\ n \in chan \ {Bot} /\ new \notin chan /\ chan' = (chan \ {n}) \cup {new}
  /\ ServerSends([type |-> "NICK", nick |-> n, new |-> new])
  /\ IF Found(Users, new) # {} THEN Misleads ELSE UNCHANGED <<rare, misled>>
  /\ UNCHANGED <<registered, asked>>

Quits(n) ==
  /\ n \in chan \ {Bot} /\ chan' = Without(n) /\ Misleads
  /\ ServerSends([type |-> "QUIT", nick |-> n]) /\ UNCHANGED <<registered, asked>>

Kicks(n, who) ==
  /\ n \in chan \ {Bot, who} /\ who \in chan /\ chan' = Without(who) /\ Misleads
  /\ ServerSends([type |-> "KICK", nick |-> n]) /\ UNCHANGED <<registered, asked>>

Says(n, what) ==
  /\ n \in chan \ {Bot}
  /\ ServerSends([type |-> what, nick |-> n]) /\ UNCHANGED server

\* NickServ answers late or never. What the answer is matters to the game only.
Answers(n) ==
  /\ n \in asked /\ asked' = asked \ {n}
  /\ ServerSends([type |-> "NOTICE", nick |-> n])
  /\ UNCHANGED <<chan, registered, rare, misled>>

Server ==
  \/ Welcomes
  \/ \E t \in {"i", "r", "396"} : Authenticates(t)
  \/ Pings \/ Invites \/ Closes
  \/ \E n \in Nick : \/ UserJoins(n) \/ Quits(n)
                     \/ \E new \in Nick : Renames(n, new)
                     \/ \E who \in Name : Kicks(n, who)
                     \/ \E what \in {"join", "updateauth", "talk"} : Says(n, what)
  \/ \E n \in Name : Parts(n) \/ Answers(n)

-----------------------------------------------------------------------------
\* The second half of the server's answer to a JOIN, and then what it sends next.
AnswerGoesOn ==
  /\ lines # <<>> /\ lines' = Tail(lines)
  /\ HandleLine(Head(lines)) /\ UNCHANGED server

Loop == (\E tick \in BOOLEAN : Top(tick)) \/ NoLine \/ AnswerGoesOn
Next == Server \/ Loop

(* Fairness: the main loop goes on until the process ends, and the timers are *)
(* looked at again and again, because the time since the last time adds up.   *)
(* Nothing is assumed of the server, the users and NickServ.                  *)
Spec == Init /\ [][Next]_vars /\ WF_vars(Loop) /\ SF_vars(Top(TRUE))

-----------------------------------------------------------------------------
(* Properties. *)

TypeOK ==
  /\ chan \subseteq Name /\ registered \in BOOLEAN /\ asked \subseteq Name /\ rare \in 0 .. MAX_RARE /\ misled \in BOOLEAN
  /\ Len(lines) <= 2 /\ pc \in {"top", "line", "ended"}
  /\ m_auth_type \in AuthTypes /\ m_auth_status \in {"SEND_NICK", "AUTHENTICATE", "DONE"}
  /\ m_user_modes \subseteq {"i", "r"}
  /\ Len(m_send_queue) <= SEND_QUEUE_MAX
  /\ nick \in [Inst -> Name \cup {NoNick}]
  /\ account \in [Inst -> {"UNKNOWN", "PENDING", "KNOWN"}]
  /\ joined \in BOOLEAN /\ members \subseteq Users /\ (~joined => members = {})
  /\ waiting \subseteq Users /\ timeout \in [Inst -> 0 .. TIMEOUT]
  /\ lost \subseteq Users

\* When the bot has handled all lines, it knows the channel if it is in it, and
\* everybody there is a user of the network: the handlers of NICK, PART and
\* messages do not look. As long as nobody quits, kicks or takes a nickname that
\* the network still has, the channel has exactly the users that are in it.
ViewIsTruth ==
  lines = <<>> /\ pc # "ended" =>
    /\ Bot \in chan => joined /\ \A n \in chan : Found(Users, n) # {}
    /\ ~misled => joined = (Bot \in chan) /\ {nick[i] : i \in members} = chan

\* A question or its answer is under way.
UnderWay(n) ==
  n \in asked \/ Acc(n) \in ToSet(m_send_queue)

\* A pending account is asked for, and the answer will end it, except after the
\* send queue was emptied, a rename in between, or an answer that went to
\* another user with the nickname. (Then it is pending for ever.)
PendingIsAsked ==
  m_auth_type > 0 => \A i \in Users \ lost : account[i] = "PENDING" => UnderWay(nick[i])

\* Whoever waits for an account has one that is pending, over joins, renames,
\* answers, timeouts and leaves, until the wait ends: so a ranked join, which
\* replaces no data, never sets any where there is some already.
WaitingIsPending == \A i \in waiting : account[i] = "PENDING"

\* A ranked join does not wait for ever, whatever becomes of the question, the
\* user and the channel, and however silent the server and NickServ are: once no
\* timer is started again, nobody waits any more.
WaitingJoinEnds ==
  <>[][\A i \in Inst : timeout'[i] <= timeout[i]]_vars => <>[](waiting = {})
=============================================================================
