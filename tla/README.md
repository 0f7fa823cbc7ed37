# Crossover in TLA+

Crossover is a multiplayer mod for *Fable: The Lost Chapters*. One player's game hosts, or
all games join a dedicated server that is reached over UDP or, where only TCP is forwarded,
through a tunnel. This directory holds TLA+ modules of that system, TLC configurations that
check them on small instances, and proofs of the properties that matter most for instances of
every size. Everything is read from the source; paths below are relative to `src/`.

```
 game (EgoMP.dll) --UDP--> crossover-tunnel --TCP--> TunnelServer --UDP--> RelayServer
   NetMainGameComponent      (FramedPipe,              (TunnelServer,        (RelayServer)
   Network, NetPlayerManager  TunnelBridge)             FramedPipe)
        \________________________ RelaySession _______________________________/
 game hosting <--UDP--> games: HostServer      sessions of one game: GameSession
 the server process, with TunnelServer and the status page: ServerProcess, ServerConfig
 what either server promises: Presence
```

## The system

| Component | State | Operations | Modules |
|---|---|---|---|
| RelayServer (`Server/src/RelayServer.cpp`) | player table (address, id, spawned, position, packet count of the window), SLikeNet peer, state file | `Tick`: notification, spawn, movement, rotation, drop, flood guard, periodic save; `Start`, `Stop`; `Snapshot` (read-only) | RelayServer, Presence, RelayPresence; saves and stop also in ServerProcess |
| Client session (`Core/Multiplayer/Network`, `.../NetPlayerManager` in a client) | connection, own id and local player, list of avatars, region-load callback | connect, the handlers of the server's messages, announce when the region has loaded, send movement, disconnect | RelaySession |
| Listen server (the same classes in a host) | connections with ids, host's player (id 0), avatars on the engine's players and creatures, motion callbacks | host, notification, announcement with roster, movement, drop, disconnect, shutdown | HostServer, Presence |
| NetMainGameComponent, with the mod's callbacks behind the engine's hooks | network and manager objects of the session, latched keys, prompts; static maps of region-load and motion callbacks | NUMPAD 1, 2, 3, update, prompts, `Host`, `Connect`, `Disconnect`, shutdown callback | GameSession |
| TunnelServer (`Server/src/Tunnel.cpp`) | listener, `running_`, `active_`, one detached worker per connection with two descriptors | accept loop, worker, `Stop` | TunnelServer, FramedPipe |
| crossover-tunnel (`Server/tunnel-client`) | TCP and UDP socket, receive array, latched game address | forward both ways, end | FramedPipe, DatagramQueue, TunnelBridge |
| Configuration (`Config.cpp`) | environment, `Config` | `FromEnvironment` | ServerConfig |
| Server process (`main.cpp`) | stop flag; the servers it starts; the state file on the volume | start relay, tunnel, status page; tick; stop status page, tunnel, relay; be killed, be deployed again | ServerProcess |
| Status server (`StatusServer.cpp`) | `running_`, listening socket, its thread | `Start`, `Stop`, `ServeLoop` | ServerProcess |
| Launcher, addresses and layouts behind the hooks, NUISystem, ModLoader, probes, tests | – | – | not modelled, see the end |

How they interact. Games and relay exchange SLikeNet messages: reliable-ordered ones and
sequenced movement on one channel, so they keep their common order and only movement may be
lost. The relay's tick handles one packet at a time; a game handles packets, keys and the
region-load callback in its update, also one at a time, so what interleaves is packets of
different peers, the two ends of a connection, and sessions of one game, which share the
engine's static callback maps. Threads exist in the server process only: main, the tunnel's
accept loop and one worker for each connection share `running_`, `active_` and the descriptors;
the status thread calls the relay and the tunnel whenever a request comes. What outlives a
process is the state file with the rendezvous point.

What is hard:

* ids are recycled while messages about their last holder are on the way;
* a client is a participant in steps – accepted, notified, given an id, teleported, loaded,
  announced – and others join, announce themselves and leave between any two of them;
* announcement and roster of two newcomers cross;
* the flood guard stands before *every* handler, the drop notification's too;
* `Stop` says farewell from a table it then clears, and the next deployment loads what was
  saved;
* a callback registered with the engine outlives the session that registered it, and motion
  callbacks are keyed by ids that are reused;
* a key pressed long ago acts in the next session; an attempt to connect may never be answered;
* the host's avatars rest on engine objects that may be missing;
* workers are detached and counted by themselves, `Stop` drains on the counter;
* TCP cuts frames anywhere, writes fail in the middle of one, the receive array is fixed;
* the tunnel client learns the game's address once;
* a start may fail half-way, a signal may come during any start, save, request or write, and a
  kill between the truncation of the state file and its write;
* a worker's descriptor blocks, so a player who does not read holds its worker;
* ports are computed in 16 bits; the rendezvous point goes through a text of six digits.

`PROJECT.json` lists each of these as a hazard at its line with the properties that cover it, or
why none does.

## Modules

**RelayServer** – one action for each case of `Tick`'s switch (`HandleConnectionNotification`,
`HandleCreateNetPlayer`, `HandlePlayerMovement`, `HandlePlayerRotation`, `HandleDrop`,
`Ignore`), `RateLimited` for the packet the flood guard drops, `TickPersist`, `Stop`, `Start`.
`players` is the table; `link` is the transport's side of each address, external, with a state
for "over, and its drop notification still queued". `sent` holds what the last step sent, per
address; `told` is a history variable, the ids each client has an avatar for after reading all
it was sent. A connected client may send any message at any time. The clock of the flood
guard is the Boolean "a second has elapsed"; the count saturates one above the limit, where
the guard's answer no longer changes. Positions are a small set; nothing depends on their
value but where a newcomer is sent. `FromText` is what the next deployment makes of a saved
point: any position, or none, for the text need not give it back as it was.

**Presence** is the abstract specification of either server: people arrive, enter the world
and leave, and everyone in it sees exactly the others. **RelayPresence** maps RelayServer to
it (sees = the holders of the ids a client has been told of), HostServer contains its own
mapping.

**RelaySession** composes RelayServer with two ordered queues per client and the client half of
the mod. A server step reads the head of a client's queue and appends its answers; a game reads
a message per step. `RegionLoaded` is the callback that `CreateLocalNetPlayer` leaves with the
engine. Games come and go, lose connections and return under recycled ids; the server stops
and starts. Avatars carry, for the properties only, the person they were made for.

**HostServer** is the listen server. The host's list of avatars, the engine's creatures and
the motion callbacks are separate state, because the code looks each up in turn and returns
early when one is missing. `MaxFaults` times the engine refuses a player or a creature or takes
a creature away (`EngineFalters`, `CreatureLost`); `MaySpectate` lets a session begin without a
creature. `fault` names what brings the host's game down: a null local player (`null`), a loop
that does not end (`spin`), or the shutdown callback without a session (`quit`). What a client
makes of a message is applied when it is sent (`told`): the queues between host and clients are
not modelled.

**GameSession** is NetMainGameComponent through several sessions of one game. A session is the
life of the Network object (`State`: at a prompt, attempting, ignored by a full server, joined,
given an id, hosting); keys stay latched until `GetAsyncKeyState` asks for them; `onLoad` and
`onResolve` are the engine's static maps, each entry with the session that registered it, so
that what is left behind can be told from what is in use. `place = "gone"` with a `fault` is a
game that broke: on a null network at shutdown, on a callback into objects that are gone, or on
the region-load callback that erases itself while it runs (undefined behaviour, so the game may
also go on).

**TunnelServer** has one action for each access of a thread to what it shares: poll, accept,
capacity check, launch; a worker's increment, its UDP socket and the binding of it, each with its
failure and what that closes, the beginning and end of a write, its look at `running_`, its
closes, its decrement and its last log line; `Stop` in its steps. A write ends when the player
reads or the connection is lost: `accept` gives a blocking descriptor without a timeout, so `send`
(`Tunnel.cpp:31`) waits and the branch for `EAGAIN` (`:34-38`) is never reached. **FramedPipe** is
the bytes: a sender that frames datagrams, a stream TCP cuts anywhere, and the receive loop of
either end with its buffer (growing in the server, a fixed array in the client), which may also
end for a reason of its own (`Stop`, a failed write of the other direction). **DatagramQueue** is what a pipe promises, a queue of datagrams.
**TunnelBridge** is the tunnel client among games that open a socket on a new port in every
session.

**ServerConfig** is `FromEnvironment`: names with a fallback, garbage and empty values, clamps,
and the bump of a tunnel port that equals the game's, in 16 bits. **ServerProcess** extends it
and TunnelServer with `main`: each start with its failure, the tick, the save as truncation and
write, the status thread (`poll`, `accept`, `read`, `ask`), and the stops in `main`'s order,
each step of a thread an action. A process may get a signal or be killed at any step and is
deployed again on the same volume. Of the relay it keeps what outlasts a process, the
rendezvous point; what players do to each other is RelayServer's subject. The file holds text:
`Printed` and `Scanned` are what `<<` writes of a position and `>>` makes of it
(`RelayServer.cpp:496`, `:509`), six digits of each coordinate, or words for a NaN or an infinity,
which are refused. `ConversionAssumption` says the one thing that is used of them, that a point
that has been through the text once does not change again; `Restored` is what is left of a point.

`MC*` modules give the constants values and, where clients are interchangeable, the symmetry; `*Proofs` modules hold the theorems. Definitions
introduced by "Mutant of" comments are broken variants of the definition they name: each
property is one that such a variant violates.

## What is checked

| Run | Instance | Distinct states | Shows |
|---|---|---|---|
| relay_server | 4 clients, 3 seats, limit 1, 2 positions, state file, symmetric | 118 445 | table, views, farewell, ids, messages and rendezvous are consistent; refines Presence |
| relay_ghost | 2 clients, limit 1 | violation | finding 1 |
| relay_session | 3 games, 2 seats, queue bound 1, symmetric | 535 952 | one avatar per other player, of the right person; nothing before the local player |
| relay_session_live | 2 games | 24 717 | a joiner enters the world |
| relay_session_stale | 2 games, reconnect during a load | violation | finding 2 |
| host_server | 3 clients, 4 slots, one fault of the engine, symmetric | 1 690 144 | connections and views; own id first; refines Presence; what breaks the host |
| game_session | ids 0–2, 3 sessions | 61 312 | callbacks follow players; what sessions leave behind; NUMPAD 3 ends them |
| game_session_motion | ids 0–2, 3 sessions | violation | finding 3, in a client of the relay |
| tunnel_server | 3 connections, 1 seat | 8 195 | counter, descriptors, answers, unwinding but for held writes |
| framed_pipe | bytes 0 and 1, datagrams of 1–2 bytes, streams to 6 bytes, either receiver, either peer | 1 330 220 | datagrams whole, once, in order; the fixed array always has room |
| tunnel_bridge | 2 games, 2 ports, queues of 1 | 7 914 | whoever is latched is answered; a restart heals |
| server_process | 1 connection, 2 deployments, 3 points, 4 environments | 153 540 | starts, stops, answers and saves of the process; a signal ends it |

The properties, by what could go wrong:

* *Identity*: `UniqueIdentity`, `IdentityKept`, `ConnectionsDistinct`, `OneAvatarEach`,
  `RightPerson` – recycled and claimed ids never make two players one.
* *Views*: `ViewExact`, `AvatarsAreTheWorld`, `HostView`, `AnnouncedOnce`,
  `NothingAboutStrangers`, `FarewellComplete`, and the refinements of Presence – everyone in
  the world knows exactly the others, for every crossing of announcement, roster and leave.
* *Order of entry*: `SilentUntilSpawned`, `OwnIdFirst`, `LocalPlayerFirst`,
  `SpawnedHasLocalPlayer`, `NewcomerMeetsSomebody`, `JoinerEntersWorld`.
* *Leftovers*: `GhostsAreRateLimited`, `CallbacksMatchPlayers`, `LeftBehind`, `KeyEndsSession`,
  `NeverBroken`, `SocketsClosed`, `ActiveExact`, `WorkersUnwind`.
* *Bytes and addresses*: `DeliversInOrder`, `NothingHeldBack`, `RoomForMore`,
  `ClosedForAReason`, `LatchedGameHears`, `EveryoneAnswered`.
* *The process*: `AnswersFromLiveServers` (the status thread never asks a relay that is being
  stopped), `TunnelServesLiveRelay` (nobody is let into a tunnel without a relay),
  `EverythingReleased` (listening sockets and joined threads, whichever way `main` returns),
  `KnownMeansSaved` and `RedeployKeepsSpot` (what the text keeps of the rendezvous point, across
  saves, kills and deployments),
  `SignalEndsProcess`, `TunnelPortDiffers`.

Why the bounds are enough. Every interaction in a server is between the peer that sends and one
other, and a third is needed only to hold an id while the first two change places: three
clients are checked for the tables and the views. For a full server the relay is checked with
one client, and the session with one game, more than there are seats. With a flood limit of 1 a
window has a packet at the limit and one beyond it, and since a second may elapse before any
packet every sequence of handlers still happens. One worker more than the capacity and one more
behind it reach every branch of the accept loop. Datagrams of one and two bytes give headers
cut in the middle, bodies cut in the middle and several frames in one read; the array holds
four datagrams, as in the code. `MaxQueue` limits only what is already waiting, never the kind
of message. Deadlock is not checked where the modelled thing ends (the tunnel stops, the game
or the pipe closes). One fault of the engine is enough to reach every early return of the
host's code, for it may strike any avatar or the host itself at any moment, and clients come
and go after it. In GameSession ids 0 to 2 are the host's, one's own as a client and one more, and
three sessions let a leftover of the first meet the third; in ServerProcess one connection is
enough because TunnelServer is checked with more on its own, the second deployment shows what
the first has left on the volume, the three points are one of six digits, one that is rounded to
it and one with a NaN, and the four environments are the defaults, the two edges of
the port bump with the clamps below and above, and a process without a tunnel.

Fairness is weak fairness of what the code does in loops that never wait for a player: the
server's tick and each game's update (`main.cpp:106-111`, `HandleMainGameComponentUpdate`), a
region load that has begun, the accept loop and `Stop` (`poll` and the drain have timeouts), the
loop of crossover-tunnel, and each worker but for the end of its writes, which is up to the
player. TunnelServer has strong fairness of `Accept`: an accept may fail, but an aborted
connection is gone, and the descriptors of 64 workers are far below a process's limit.
TunnelBridge has strong fairness for a game's sending: a UDP socket may be full, and RakNet repeats
what is not answered. GameSession has weak fairness of NUMPAD 3 alone, which every update of a
game in its world asks for first. ServerProcess has weak fairness of main, the status thread and
the accept loop, and neither of the workers, which its end does not depend on (`Stop` waits 40
times), nor of the end of the process, which would end every thread by force. Nobody has to
connect, move, quit, press a key, answer a prompt, read, hang up, send a signal, kill, deploy or
start anything.

## Findings

1. **A ghost after the flood guard** (`RelayServer.cpp:160`, run relay_ghost): the guard's
   `continue` skips the drop notification too. The player stays in the table and the world.
   `GhostsAreRateLimited`, which holds, says that this is the only way to become one.
2. **A region load of an earlier session** (`NetPlayerManagerLifecycle.cpp:169`, run
   relay_session_stale): the callback is never removed on disconnect. A player who reconnects
   while the load goes on is announced before its local player exists. `LeftBehind` says which
   ends of a session leave such callbacks.
3. **Motion is sent once per creature** (`NetPlayerManagerMotion.cpp:71` against
   `RelayServer.cpp:31-32`, run game_session_motion): the hook calls every entry of the callback
   map for every creature it resolves, avatars included. Where the server's flood limit assumes
   one movement and one rotation of a client per resolve, five players at 60 frames a second reach it.

More came up that has no run of its own:

* the anchor is the lowest id, and ids are recycled: it need not be the longest-standing player
  of `Config.h:28` (`RelayServer.cpp:451`);
* `Stop` of the tunnel may see zero while a launched worker has not counted itself yet, or has
  uncounted itself and still logs (`Tunnel.cpp:143` and `:136`);
* neither a second machine nor the next session of the same game, which has a new port, is
  answered in one run of the tunnel (`crossover-tunnel.c:176` against `:79-80`);
* `DestroyNetPlayers` loops until the list is empty and `DestroyNetPlayer` leaves an avatar
  without a creature in it (`NetPlayerManagerLifecycle.cpp:135`): a host whose engine has lost
  one hangs when it disconnects. `NeverBroken` says that this needs such a loss;
* the bump of a tunnel port 65535 gives port 0 with the tunnel still on (`Config.cpp:73`), and
  may give the port of the status page;
* a key pressed in the menu or at a prompt acts in the next session
  (`NetMainGameComponent.cpp:108`), and leaving the world without a session uses a null network
  (`:42`);
* a connect that is refused leaves an active peer that only NUMPAD 3 ends (`Network.cpp:93`);
* "Workers poll running_ on a 500 ms tick, so they unwind promptly" (`Tunnel.cpp:99`) is not so for
  a worker that is writing: `send` blocks while the player does not read, whatever `running_` is,
  and `Stop` then returns with a warning while the worker is still there. `WorkersUnwind` says
  that only such a worker may remain; without that exception TLC finds it violated, by a worker
  that has begun to write when `Stop` is called;
* "so a redeploy keeps the rendezvous point" (`Config.h:37`) holds up to the text in the file:
  2187.4337 comes back as 2187.43, and a position with a NaN or an infinity, which
  `RelayServer.cpp:326` takes from a client as it is, replaces a good point and restores nothing.
  `RedeployKeepsSpot` says what is kept; read to the letter, TLC finds the comment violated;
* a kill between truncation and write loses the rendezvous point (`RelayServer.cpp:494`), and a
  write that fails goes unnoticed (`:496`);
* the region-load callback erases itself from the map that is being walked and uses its
  captures afterwards (`NetPlayerManagerLifecycle.cpp:173`). RelaySession takes the outcome that
  works, GameSession either.

## What is proved

Every safety property that a passing run checks is the statement of a theorem here; what is left
to TLC is liveness. The theorems hold for every value of the constants that meets the modules'
assumptions (finite sets of clients or connections, natural limits, datagrams whose length fits in
two bytes). Those about a component follow from one inductive invariant, shown to hold initially
and to be kept by every action.

* **RelayServerProofs**: `TypeCorrect`, `IdentityUnique`, `ViewsExact`, `FarewellsComplete`.
  `IInv` adds three facts without which `ViewExact` is not inductive: *Capacity* (no more
  entries than seats, so that an unused id exists and the fresh id is at most `MaxPlayers`),
  *StrangersForgotten* (an address that is not in the table has been told of nobody, so a
  newcomer's view starts empty) and *StoppedEmpty* (no table while stopped). The heart is
  `SpawnStep`: announcement to the others and roster to the newcomer together extend every
  view by exactly one, also when the client was in the world already. `AllocateFresh` shows
  that the least unused id is unused, by minimum over a finite set.
* **RelayPromiseProofs**: every other property of the relay_server run, from the same `IInv`:
  `OnlyRateLimitedGhosts` (with an induction of its own), `IdentityStays`, `SilentBeforeSpawn`,
  `NoNewsOfStrangers`, `RendezvousWithSomebody`, and `RelayImplementsPresence`. The refinement
  rests on `SeesTheWorld`: what people see is a function of who is in the world, so that each
  packet need only be shown to add, move or remove one person.
* **HostServerProofs**: every property of the host_server run. `IInv` adds *Linked* (what a
  client was given is the id of its connection, and connections belong to links that have
  notified), *Numbered* (local ids tell avatars apart, the host's 0 included), *Closed* (between
  sessions nothing is left) and, while the engine keeps its side, *Inhabited* and *Outside*: the
  list has one entry, with a creature, for each client that announced itself, and each
  client's knowledge is the host and the other entries. `FreeNetworkId` and `FreeLocalId` are
  pigeonhole arguments: a client that notifies has an address without a connection, and a list
  with room leaves a local id. `HostKeepsPresence` then follows as for the relay; a falter is
  Presence's closing.
* **GameSessionProofs**: `TypeCorrect`, `CallbacksAgree`, `OnlyCarelessLeave`. `IInv` adds that
  a session that has not been given an id has no players (*EmptyBefore*), that no callback is of
  a session to come (*NoneAhead*) and that a prompt waits with an inactive peer (*AtPrompt*).
* **ServerProcessProofs**: `ProcessTypeCorrect`, `AnswersLive`, `TunnelHasRelay`, `AllReleased`,
  `KnownIsSaved`, `SpotKept`. The invariant is TunnelServer's, kept by main's steps as well, with
  one conjunct for each server that ties its state to where `main` is (*RelayPhase*,
  *TunnelPhase*, *StatusPhase*) and one for the save (*SavePhase*: among other things, only what
  `<<` writes gets into the file). `KnownIsSaved` and `SpotKept` hold for every conversion that
  meets `ConversionAssumption`; `RestoredOnce` is where it is used. `LimitsHold` and
  `PortsDiffer` are about ServerConfig, for environments of any integers; `ProcessConfigured`
  and `TunnelKeepsItsPromises` carry them and TunnelServer's invariants over to the process,
  through every deployment and kill.
* **TunnelServerProofs**: `TypeCorrect`, `CounterExact`, `DescriptorsClosed`. `IInv` adds
  *AcceptFinds* (the loop accepts only what is there) and *ClearedFirst* (`running_` is
  cleared before `Stop` closes anything). Counting is by three lemmas on the cardinality of
  the set of counted workers.
* **FramedPipeProofs**: every property of the framed_pipe run. For `AlwaysRoom` and
  `HoldsNothingBack`, `IInv` adds that a receiver that waits has less than one frame
  (*LessThanAFrame*) and never more than its array holds (*InsideTheArray*); so `recv` never
  gets length 0, which would read as a closed connection. `NeverGivesUp` and `PipeIsAQueue`
  need the content of the stream: *InPlace* says that the buffer and the bytes behind it are the
  frames of the datagrams owed and, once the sender has closed, perhaps the beginning of one more
  (*CutShort*). "Are the frames of" is `Framed`, the existence of the successive remainders of
  the stream, so that a send, a read and a delivery change it at one end without an induction
  over the stream. `TwoBytes` (a length below Base² survives its two bytes), `LengthRead` and
  `CutOff` then give that what is cut out is the datagram owed longest.
* **RelaySessionProofs**: every safety property of the relay_session run.
  `SessionImplementsRelay` shows that a session is a behaviour of RelayServer, so all that is
  proved of the relay holds in it, `SessionKeepsPresence` included. The rest is about what the
  games make of it: `SessionTypeCorrect`, `LocalPlayerIsFirst`, `TheSpawnedHaveLocalPlayers`,
  `AvatarsAreOneEach`, `AlwaysTheRightPerson`, `AvatarsAreExact`. The invariant says for each
  game in which order it has gone through its entry (*Arriving*, *Nameless*, *Named*,
  *OneAnnouncement*: region load, announcement on its way and place in the world exclude each
  other), and *OnRecord*, without which nothing about avatars is inductive: what is queued for a
  connected game `Carries` it, message by message, from the avatars it has to exactly the others
  in the world, each message being applicable when its turn comes (an announcement names nobody
  it has, a departure and a movement somebody it has). A server step appends one link to every
  such chain, a game's step takes the first one off; recycled ids are safe because a chain goes
  through the old holder's departure.

  These six theorems have the hypothesis `~StaleLoads`: nobody reconnects while a region load
  that an earlier session began goes on. The code does not prevent that; it is finding 2, and TLC
  finds each of the run's five properties violated without the hypothesis (`RightPerson` with three
  games, by way of a second announcement and an id that is recycled; the others with two). The
  two refinements do not need it.

Only model-checked: `JoinerEntersWorld`, `EveryoneAnswered`, `WorkersUnwind`,
`LatchedGameHears`, `KeyEndsSession` and `SignalEndsProcess`. They are liveness under fairness,
whose rules rest on ENABLED, out of this prover's reach. TunnelBridge, whose only property is one
of them, has no theorem; its type predicate documents its variables and is in no run.

## Not modelled, and the plan

Not modelled: the launcher (a straight line of system calls), addresses, layouts and calling
conventions of the closed-source engine (what it does appears as external actions: region
loaded, creature lost, motion resolved), the interface headers of NUISystem and ModLoader
(declarations without control flow), the reverse-engineering probes, the tests, and vendored
libraries. SLikeNet is external: ordering per channel, the limit on connections and the queued
drop notification are taken from how the code configures and uses it. Wire layout, the text of
the status page and floating-point motion are left out. Vendored SLikeNet headers, the SDK's
declarations and the probes are most of the repository's lines; the definitions here stand for
the networking, session and server code, which is a small part of them.

What is left:

1. *HostSession*: HostServer with queues and the client half of RelaySession, so that crossing
   announcements, and rosters with missing entries, meet the code that reads them.
2. Theorems about HostSession along the lines of RelaySessionProofs: `Carries` and its lemmas say
   nothing of the server and can be used as they are.
3. Should the code come to remove the region-load callback on disconnect, `Disconnect` of
   RelaySession resets `loading`, and the hypothesis `~StaleLoads` goes.
