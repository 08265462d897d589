# Verification of NyisBotCPP

NyisBotCPP is a chat bot: clients (IRC, Telegram, a console) feed messages and
membership events to a module manager, which runs chat commands and passes the
events to modules loaded from shared libraries. The largest modules are card
games. This directory holds TLA+ modules translated from the C++ sources, TLC
configurations that check them, and TLAPS proofs.

## Inventory

| Component | State | Operations | Interacts with |
|---|---|---|---|
| Game framework (`core/framework_game.h`) | players, turn, direction, started | add, remove, start, turnNext | containers of the channel and its users, command scopes |
| Liar game (`modules/nbm_liar_game.cpp`) | hands, stack, last cards, main face | join, leave, start, add, check | framework |
| Shithead (`modules/nbm_shithead.cpp`) | hands, draw stack, play stack | join, leave, deal, p, d, t | framework |
| UNO (`modules/nbm_superior_uno.cpp`) | hands, top card, penalty, modes, Elo | join, leave, deal, p, d | framework, account status, settings |
| Channels and users (`core/channel.cpp`) | users and channels, members, references, nicknames | addUser, removeUser, addChannel, removeChannel | clients call it, modules read it |
| Containers (`core/container.cpp`) | data by owner, in each user and channel | set, get, remove, move | modules, module manager |
| Chat commands (`core/chatcommand.cpp`) | tree of commands and their modules, scopes of players | add, remove, move, setScope, resetScope, run | modules, channel containers |
| Module manager (`core/module.cpp`) | loaded modules, lock, status timeouts | load, reload, unload, onStep, callbacks | client requests, commands, containers |
| Client core (`core/client.cpp`, `main.cpp`) | request queue | addRequest, processRequests | module manager |
| Settings (`core/settings.cpp`) | values, modified keys, file | get, set, remove, sync | modules |
| IRC client (`client/client_irc.cpp`) | authentication, send queue, account states | events of the server, actions of modules | connection, network, module manager |
| Connection (`core/connection.cpp`) | receive queue, send queue, thread | send, recv, pop | clients |
| Console client (`client/client_tui.cpp`) | input thread, load lock | commands of the console | network and module manager, from its own thread |
| Telegram, Discord clients | update ID; a stub | polling | network |
| Time bomb, tell, quotes, feeds, built-ins, Lua | a timer; records in the settings; downloads; scripts | commands, onStep | settings, channels |

One thread runs `main.cpp`: it calls the client, which reads one message and
lets the module manager handle it to the end, and then processes one request.
So handlers of modules are atomic with respect to each other, which is why a
handler is one action here. The exceptions are the receive thread of a
connection and the input thread of the console client.

What is hard in this code: handlers that remove players while the turn moves
on; pointers to users, games and modules that are kept across events; removal
in two places (network and channels) by counted references; requests that are
answered late or not at all; the synchronisation of memory and file. The list
of hazards with their lines is in `PROJECT.json`. What makes each component
correct: a game's turn is always held by a player, cards are neither made up
nor lost, and a game that cannot go on ends; users live exactly as long as they
have owners; data and commands of a module end with the module; a setting that
was written is read back; a request is answered or times out.

## Modules

| Module | What it is | Code |
|---|---|---|
| `GameF` | the framework as operators on a game record | `framework_game.h`, and `processGameUpdate`, which the games repeat |
| `TurnGame` | what a turn-based game promises, whatever its rules | abstract |
| `LiarGame`, `MCLiarGame` | liar, its instances | `nbm_liar_game.cpp` |
| `Shithead`, `MCShithead` | shithead, its instances | `nbm_shithead.cpp` |
| `Uno`, `MCUno` | UNO, its instances | `nbm_superior_uno.cpp` |
| `Network`, `MCNetwork` | users, channels and user data, its instances | `channel.cpp`, `container.cpp` |
| `ModuleMgr`, `MCModuleMgr` | modules, their commands and scopes, and reloads, its instances | `module.cpp`, `chatcommand.cpp`, `client.cpp` |
| `LineStream` | what the users of a stream connection rely on | abstract |
| `Connection`, `MCConnection` | the receive thread, the main thread and the socket, its instance | `connection.cpp` |
| `Store` | what modules rely on when they keep records | abstract |
| `Settings` | the settings object and its file, as actions without a Next | `settings.cpp` |
| `Records`, `MCRecords` | quotes, tell and built-ins on top of it, with reloads, crashes and restarts, its instance | `nbm_quotes.cpp`, `nbm_tell.cpp`, `nbm_builtin.cpp`, `module.cpp` |
| `Irc`, `MCIrc` | the IRC client with its network, one channel, the account questions and their timers, its instance | `client_irc.cpp`, `channel.cpp`, `module.cpp`, `nbm_superior_uno.cpp`, `nbm_builtin.cpp` |
| `GameFProofs`, `LiarGameProofs`, `ShitheadProofs`, `UnoProofs`, `NetworkProofs`, `ModuleMgrProofs`, `RecordsProofs`, `IrcProofs` | proofs | |

A game module has one variable, `game`, the record of the channel's game;
`NoGame` is a channel without one. A handler calls several framework operations
in a row, so these are functions from game to game and the handler is their
composition, one action per command. Refused commands that leave the state as it
is are not actions. `Leave` stands for `cmd_leave` and for the callback when a user leaves the
channel; it is enabled for users who take no part, as the callback is. `Forget`
is the bot leaving the channel, or the end of the process.

`std::set<UserInstance *>` iterates by address, so users are numbers and
the order of play is their order: a symmetry of users would be unsound.

- **Liar.** A hand is a bag of faces, because indices only select cards. The
  stack is two bags, the cards of the last `cmd_add` and those below.
  `StartBroken` is the undefined behaviour of `cmd_start`, which erases from the set it
  iterates over: the process dies, or the loop visits any of the later players.
- **Shithead.** Hands and stacks are bags of ranks. The draw stack is shuffled
  and never shown, so its order is chosen when cards are drawn. `top` is the
  card that the code finds by walking the pile back over fours. `DealBroken`
  ends the process where `start` reads before the draw stack.
- **UNO.** Cards are random, so a hand is a number, and which card it is is
  chosen when it is played. `wins` and `losses` count what `UnoPlayer::win`
  adds since the last deal.
- **Network.** A `UserInstance` is an address with a reference count, free
  again at 0. The order of users in a set is the order of their addresses, so
  which of two users of the same nickname is found is left open, and symmetry
  of addresses is sound. `Testing` are the modules, who call `get` before
  `set`; `STATUSUPDATE` of UNO is an owner of data who does not.
- **ModuleMgr.** A module is called under `m_lock` by one of two threads:
  `Call` takes the lock for a callback, `Command` for a command found in the
  tree; `Enter` and `Leave` are a handler's begin and end, `Return` releases the
  lock. In between the running module changes its data. What it stores is kept
  under the address of its object, and an address is used again after a
  reload. `reloadModule` is `Reload` or `DelayReload`, by whether the lock is
  taken; `ProcessRequest` is the main loop's turn with the queue. Calling a
  deleted object (`CommandBroken`), and using data of another type
  (`Confused`), ends the process or does nothing; a handler that goes on with deleted
  memory is not followed. Neither are kept objects whose
  library moves to another place in memory when it is loaded again.

- **Connection.** The bytes that matter are `:`, CR, LF and any other. `wire` is
  what the server sent and `recv` has not returned, so the pieces in which it
  returns them are chosen freely. The inner loop of the receive thread takes a
  step per line, between which the main thread pops lines, sends its own (a
  step per call of `curl_easy_send`, which may take a part or fail) or destroys
  the connection. `ImplementsLineStream` maps the queue, the leftover text and
  the wire to the lines still coming, with a splitter written byte by byte as
  the reference. The two threads also share the curl handle without a lock
  (`connection.cpp:192` and `242`); what the library makes of that is not modelled.
- **Settings and Records.** `m_settings`, `m_modified` and the file are as in
  the code; keys are the absolute ones, and only those of the three modules
  occur. `accepted` is a history variable: the values as `set` and
  `remove` took them. A write ends with `std::remove` and `std::rename`, with a
  crash possible in between; `Reload` writes in the destructor and reads in
  the constructor. `Store` has one map, a copy of it and crashes back to the
  copy. Failing writes, which the code does not notice (`settings.cpp:371`),
  are not modelled.
- **Irc.** The main loop alternates between `Top` (one queued line, the timers)
  and one line of the server with the request it leads to. The server acts only on lines
  it receives, so a line it sends is handled at once, except for the two that
  answer a JOIN: other lines cannot come before them. NickServ's questions are
  a set, answered late or never. `lost` and `misled` are history
  variables for what cannot be right any more: a question that was dropped, and
  events the code gets wrong. At most one line and one request are handled in
  a round, so a request's user pointer is never stale.

`TurnGame` is implemented by all three games (`ImplementsTurnGame`): players
join only before the start, keep their order, the turn stays or passes on by
one (in UNO by one or two) in the direction of play, and a game that gets too
small ends in the same step.

## Runs

| Run | Instance | Shows |
|---|---|---|
| `liar_game` | users 1..4, a face and the queens (7 cards), at least 2 players | turn, stack, cards, quartets, winners and the end of the game, and the refinement |
| `liar_game_check` | at least 3 players | finding: the player whose checked cards were correct does not win |
| `shithead` | users 1..4, ranks 4, 7, 10 twice, hands of 2 | hands, pile, cards; three players use up the deck, four have too few cards |
| `uno` | users 1..4, two colours, "0" and all special faces but "W", 1 card dealt | penalties, skips, empty hands, results |
| `uno_reverse` | the same, all modes on | finding: "no u!" skips |
| `network` | 3 addresses, 2 nicknames, 2 channels, data of 2 modules and of `STATUSUPDATE` | references, dangling users, clean-up, data |
| `modules` | 2 modules, 1 may fail to load, 3 addresses, 2 users, 1 request | the lock, ownership of data, scopes, kept data |
| `modules_commands` | the same | finding: commands stay with the deleted object |
| `network_overwrite` | an owner who does not test | finding: `set` keeps the deleted data |
| `connection` | 4 bytes of 4 kinds read at most 2 at a time, a line of 2 bytes to the server, 2 retries | the line stream: whole lines, once, in order; sends complete or fail; all that must end ends |
| `records` | 2 nicknames, a message, 2 quotes under numbers 1 and 2, a text | no stale value, nothing accepted is missing from a write, crashes go back to it, old quotes stay |
| `irc` | 2 nicknames and the bot, 4 addresses, a queue of 2, timers of 1 step, with and without NickServ | the bot's view of the channel, pending accounts, no wait without one, the end of every wait |

Bounds. The liar game's minimum is 3 in the code; 2 gives games that go on
after two of four players are gone with fewer users. One face with
four cards and one with three suffice for quartets, lies and both colours of
the rules. In shithead 4, 7 and 10 are the cards with an effect
(2 equals the card an empty pile is compared with); two of each give plays of several cards. In UNO
`MAX_HAND` and `MAX_DRAW` bound the cards drawn; 6 allows
one "D2" under a "WD4", and a hand of 5 takes a penalty of 4. `W` differs from
a number only in matching every card. In the network three addresses let two
instances share a nickname while a third is reused; two channels let a user
be in one, both, or none; two modules let a reload move data, and a third owner sets its own without a look.

Of the modules, three addresses let one module move
to a new address while the other's old one is free or taken; two users
let a shortcut of one be reset by the other's game. A longer queue only rotates.
If a module does not load again its data stays behind ("too late to free the
containers"), so `DataIsOwned` and `KeptDataStays` speak of states in which all are loaded.

With four bytes a buffer can cut a line before or after its CR, colon or LF,
an empty line can be first, last or between others, and one read can hold two
lines. Two lengths of a read let a line need one, two or more of them. In
`records`, two quotes let a number be used again after a restart, two
nicknames let remembered texts move with a rename, and a single
message suffices because messages do not touch each other's keys. In `irc`, a
queue of two is filled by an authentication or by one question and a reply;
`MAX_USERS` allows one user in the channel besides the bot, who can leave and
be replaced by another while the network keeps both (so the one who is kicked is
the bot); `MAX_RARE` counts quits, kicks, leaves of the bot and
nicknames that the bot has twice; four addresses are one for the bot, each nickname, and a
second user of the same nickname. Modules that talk more (`Chatter`) would also empty a
queue that holds a question; that `PendingIsAsked` stands that is left to its proof. `CHECK_DEADLOCK FALSE` is set for
`connection`, where a closed connection stops, and for `irc`, where the process ends
when the server closes the connection.

## Fairness

The games, the network, the modules and the records assume no fairness: no
player and no user has to act, and these parts have no work of their own to finish.

`Connection` assumes that both threads run: weak fairness of the receive
thread, of `popRecv` (the main loop calls it in every round), of the rounds
of `send` once it was called, and of the join once the thread has stopped.
Nothing is assumed of the server and the network, or of anybody who sends.
`LineStream` then promises that lines that have come are taken unless the
connection is closed, and that closing ends; a `send` in between ends
because the retries are bounded.

`Irc` assumes that the main loop goes on (weak fairness of `Loop`) and that it
looks at the timers again and again (strong fairness of `Top(TRUE)`): the
time since the last look adds up over the rounds, so that some round reaches
0.2 s (`module.cpp:289`). The server, users and NickServ may stop
at any time. `WaitingJoinEnds` has a condition, because every status request
starts the user's timer again (`client.cpp:65`): a user who repeats `$updateauth` fast enough waits
as long as they like. The condition is on the timers: from some time on none
is started again. What the server, NickServ and the users do or fail to do besides is left open.

## Proofs

The theorems hold for every value of the constants that the named assumptions
allow; the runs show the same properties on small instances. Each of the seven
components with states of its own has an inductive invariant, which TLC checked
before it was proved.

`GameFProofs` is about the operators of the framework.

- *Order of play.* The neighbour of a player among finitely many is a player,
  and another one if there are others: the least exists because the order of
  addresses is well-founded, the greatest because addresses are bounded.
  `NextWithout`, `NeighbourWithout`: the next player (the one before, for a
  game played backwards: `PrevIsPrev`) stays next when somebody else is removed. `NextButOne`: when that
  player is removed, the one after is next. `NeighbourTwice`: who is the
  neighbour of the own neighbour has at most one opponent, whichever the
  direction.
- *Sums.* Hand sizes and totals of cards are sums over finite sets, which the
  library defines by a fold. `SumsExist` shows that the function behind the
  fold exists, by a smallest counterexample (the induction theorems of the
  library take an operator as a parameter, which the provers cannot
  instantiate); `SumStep` takes an element out, and the others follow from it:
  sums of equal, added and changed functions, monotonicity, and sums of zeros.

`LiarGameProofs` proves every property the run `liar_game` checks, for all users,
finite sets of faces and minimal numbers of players.
The invariant `Inv` is `TypeOK /\ CurrentIsPlayer`. Within a handler it does
not hold: after the removal of the last players nobody has the turn. `Playable`
is what the parts of a handler preserve: a game that is empty, or
whose turn is held by one of its players; `ProcessGameUpdate` turns it into the
invariant again. Each part (discarding, taking the stack, passing the turn on)
has a lemma, and each handler composes them. `GamesEnd` is a consequence of the
refinement. For the refinement, a handler that removes up to two players and passes the
turn on must not move the turn by more than one of the players left. `Ahead`
says that of a game in the middle of a handler, relative to the player who had
the turn first; a removal preserves it by the facts about the
order of play. The properties of cards have an invariant of their own,
`CardInv`: at most four cards of a face over hands and stack (`Counted`), last
cards that are on the stack and compared with a face (`Claimed`), and no stack without a running
game (`Undealt`). `KeepsFaces` and `Discards` relate the cards before and
after a helper and compose, so that an action loses a face whole or not at
all (`CardsStay`) and leaves nobody with four cards of one (`QuartetsGo`).

`ShitheadProofs` proves every property the run `shithead` checks, for any users, ranks and sizes
of the deck and of a hand, if a game needs two players
(`PlayersAssumption`, as in `nbm_shithead.cpp`). That a hand never has more
cards of a rank than the deck, which is all `TypeOK` says of it, cannot be seen from a
hand: the invariant counts the cards over all hands, the draw stack and the
pile (`Counted`), and every handler moves them (`TotalMoves`) or takes
them out of play. `Fed` is the part that is broken and mended in a
handler: full hands while there is a draw stack, and nobody without cards.
`Running` is what holds in between. `SomethingToDo` follows, since a player who
has no card to play and none to draw has a pile to take.

`UnoProofs` proves every property the run `uno` checks, for any users, colours, faces, modes and
bounds, if a game needs two players and a deal fits into the bound of a hand
(`UnoAssumption`). The properties relate the score to the round: `Rounds` says that nobody joins a
running game, `Counted` that a win is counted of somebody who is gone and that
a loss ends the game; with both, `OneWinOneLoss` is inductive. The automatic draw at the end
of `cmd_play` never draws (`NeverAutoDrawn`): either the turn has passed on, or the
card is an R or an S, which leaves no penalty to draw. In the refinement a skip moves the turn by
two, a reversal turns the direction, and with two players both may lead back to
the player who had it; `NeighbourTwice` and `NeighbourWithout` cover these
together with a winner's removal.

`NetworkProofs` proves every property the run `network` checks, for any sets of
addresses, nicknames and owners and any finite set of channels. A count can only be
right if no owner is forgotten, and an owner is only found if the counts are
right: an instance without references is in no channel because its
references count the channels. So the invariant is the conjunction of the types,
`RefsAreOwners`, `NetworkHasAll` and that a channel that does not exist has no
members. `EntriesAreLive` is no theorem: the run `network_overwrite` shows it to fail.

`ModuleMgrProofs` proves every property the run `modules` checks. That data is
found by its owner after an address is used again needs three more facts: loaded
modules have addresses of their own (`Distinct`), only loaded modules are about to be
called, and the running one is the one loaded. `Inv` is their conjunction with
the properties. `ReloadKeeps` does the work: `Containers::move` refuses to
replace data, and it never has to, because data under the new address
could only belong to the same module.

`RecordsProofs` proves every property the run `records` checks, for any
nicknames, messages, texts and numbers of quotes. The assumptions are that the
keys of different modules differ, by the prefixes of their forks, and
that texts, nicknames and markers are different values. `NoStaleValue` says what memory shows,
but memory is made from the file and the file from memory: `Agreement` adds that what is not modified is in
the file, what is modified is in memory, and that a new file holds what was accepted.
`Quiet` adds that nothing is unsaved when a module reads its settings; otherwise
`SR_READ` would drop the marks. `SyncKeeps` is the lemma about
`syncFileContents`, which all operations use; `Numbered` (the next number is
not below the last one) gives `OldQuotesKept`. `Refinement` maps a write's
beginning to `StartSave`, its renaming to `EndSave`, and the reading to a stutter.

`IrcProofs` proves the invariants the run `irc` checks, for any nicknames,
addresses, chatter, timeouts and limits of the queue; the bot's nickname and the
marker of a free address are no users'. Two parts of the invariant were needed:

- `Sight` strengthens `ViewIsTruth` to the middle of the server's answer to a
  JOIN: between its two lines the bot sees itself alone. As long as nothing misled the bot, no two
  users have the same nickname (`Unique`); without that a rename or a leave could hit
  another user than the one in the channel.
- `PendingIsAsked` needs that addresses without a user have no account (`StateOK`): a new
  user must not find one that is pending. A handler's lines are sent by a fold; `AllAreSent` shows, by
  induction over their number, that the queue keeps its limit and that nothing in it is lost
  unless it was full. `AskedNow` is what every handler establishes of the pending accounts;
  only an answer of NickServ takes a question away, and then nobody with the nickname
  waits for it or is lost.

`WaitingPending` is about the one place where data is set without a look
(`nbm_superior_uno.cpp:481`): it is reached with an unknown account only, and whoever has
that data has a pending one, whichever of answer, rename, timeout and leave comes first.
On Telegram, whose accounts stay unknown, it does not hold.

What stays with TLC: `WaitingJoinEnds` and the rest of liveness, which is out
of the prover's reach, and `ImplementsLineStream`, which has liveness and a
recursive reference.

## Findings

1. `nbm_liar_game.cpp:485`: after a correct check the wrong player is looked at for a win (run `liar_game_check`).
2. `nbm_superior_uno.cpp:636`: the overwritten top card is compared, so "no u!" never happens (run `uno_reverse`).
3. `container.cpp:23`: `set` does not replace (run `network_overwrite`).
4. `module.cpp:250`: after a reload the module's commands belong to the deleted object (run `modules_commands`).

## Observations

The models follow the code where it is not what one expects and no text of the
repository says otherwise:

- A key that was just appended to the file is not in memory until the next
  reading (`settings.cpp:355`): a message or quote may be missing for a while,
  and removing such a key is refused, which `$setting set` does not tell (`nbm_builtin.cpp:165`).
- The saved number of quotes is that of the last one, so after a reload or
  restart the last quote is overwritten by the next (`nbm_quotes.cpp:46`); `OldQuotesStay` is about the others.
- Texts to remember are not saved at shutdown or by a reload without kept data,
  because the users' data is removed first.
- A crash between removal and renaming (`settings.cpp:375`) makes the next
  start go on with an empty file.
- A connection that has broken is not noticed: `recv` returns nothing for ever (`connection.cpp:264`).
- QUIT is looked up in the wrong argument, so its handler never runs (`client_irc.cpp:586`); KICK removes
  the one who kicked (`client_irc.cpp:364`); users who part stay in the network.
- An account whose question was dropped with a full queue, or which was renamed
  meanwhile, is pending for ever, and every ranked join of the user is refused
  (`client_irc.cpp:547`). A wait that has begun still ends (`WaitingJoinEnds`).

## Plan

1. *(done)* framework, liar, shithead, UNO, network and containers.
2. *(done)* Module manager, chat commands and reload requests: reload with and
   without kept data, delayed reloads, failing reloads.
3. *(done)* Settings, with quotes, tell and built-ins on top, crashes and restarts.
4. *(done)* Connection; IRC client with the account check of UNO, its answers and timeouts.
5. *(done)* Theorems: everything that the runs of the games, the network, the
   modules, the records and the IRC client check, but for liveness.
6. The safety part of `ImplementsLineStream`: it needs the reference as a recursive
   function, and the received lines as an invariant of the two threads.

## Not modelled

- Formatting, parsing of arguments, messages and settings lines, logging: no
  property here is about them.
- The Lua binding: what scripts do is not bounded by this code.
- Telegram and Discord: a poll loop over a web service whose only state is the
  last update ID, and a stub.
- Feeds: downloads; their synchronisations of the settings appear in `Records` as `OtherSync`.
- The time bomb: one timer and one pointer per channel.
- The console client's changes of users and channels without a lock: a data race
  whose outcome is anything; its reloads, which take the lock, are in `ModuleMgr`.
- HTTP connections, which are done within one call, and the unfinished websocket.
- UNO's Elo figures.
