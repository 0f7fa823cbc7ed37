----------------------------- MODULE ServerConfig -----------------------------
(***************************************************************************)
(* Config::FromEnvironment: what the dedicated server makes of its         *)
(* environment, port numbers in 16 bits.  The variables are read once,     *)
(* before any server starts; what the servers rely on is stated below.     *)
(***************************************************************************)
EXTENDS Integers

CONSTANTS
    Numbers,      \* numbers that a variable may hold
    Environments, \* environments the process may be started in
    Unset,        \* no such variable, or an empty one
    Garbage,      \* a text std::stoi refuses
    PortModulus   \* values of an unsigned short: 65536

ASSUME ConfigAssumption ==
    /\ Numbers \subseteq Int
    /\ Unset \notin Int
    /\ Garbage \notin Int
    /\ PortModulus \in Nat /\ PortModulus > 60001

VARIABLES
    env,      \* the environment
    config,   \* the Config
    read      \* FromEnvironment has returned

configVars == <<env, config, read>>

Setting == Numbers \cup {Unset, Garbage}

Environment ==
    [gamePort : Setting, tunnelPort : Setting, railwayPort : Setting,
     statusPort : Setting, maxPlayers : Setting, tickHz : Setting,
     tunnel : BOOLEAN \cup {Unset}]

ASSUME EnvironmentAssumption == Environments \subseteq Environment

\* FirstEnv of two names: a second one is not tried when the first is garbage.
FirstEnv(a, b) == IF a # Unset THEN a ELSE b

EnvInt(v, fallback) == IF v \in {Unset, Garbage} THEN fallback ELSE v

Port(n) == n % PortModulus

Clamp(n, low, high) == IF n < low THEN low ELSE IF n > high THEN high ELSE n

\* Mutant of TunnelPort: the same number is let through.
TunnelPortAsGiven(given, game, enabled) == given

\* The same number for game and tunnel is refused: the tunnel takes the next.
TunnelPort(given, game, enabled) ==
    IF enabled /\ given = game THEN Port(game + 1) ELSE given

FromEnvironment(e) ==
    LET game == Port(EnvInt(e.gamePort, 60000))
        given == Port(EnvInt(FirstEnv(e.tunnelPort, e.railwayPort), 60001))
        enabled == e.tunnel # FALSE /\ given # 0
    IN  [gamePort |-> game,
         tunnelPort |-> TunnelPort(given, game, enabled),
         tunnelEnabled |-> enabled,
         statusPort |-> Port(EnvInt(e.statusPort, 8080)),
         maxPlayers |-> Clamp(EnvInt(e.maxPlayers, 8), 1, 64),
         tickHz |-> Clamp(EnvInt(e.tickHz, 60), 10, 240)]

\* The members' initialisers in Config.h.
Defaults ==
    [gamePort |-> 60000, tunnelPort |-> 60001, tunnelEnabled |-> TRUE,
     statusPort |-> 8080, maxPlayers |-> 8, tickHz |-> 60]

ConfigInit ==
    /\ env \in Environments
    /\ config = Defaults
    /\ read = FALSE

Read ==
    /\ ~read
    /\ config' = FromEnvironment(env)
    /\ read' = TRUE
    /\ UNCHANGED env

ConfigSpec == ConfigInit /\ [][Read]_configVars

-----------------------------------------------------------------------------
(***************************************************************************)
(* Properties.                                                             *)
(***************************************************************************)

\* What the relay, the tunnel and the tick loop rely on, whatever was set:
\* between one player and 64, between 10 and 240 ticks a second, ports of 16
\* bits.
WithinLimits ==
    /\ config.maxPlayers \in 1 .. 64
    /\ config.tickHz \in 10 .. 240
    /\ {config.gamePort, config.tunnelPort, config.statusPort}
            \subseteq 0 .. (PortModulus - 1)

\* "Same number on two protocols is legal but confusing [...] Refuse."
\* (Config.cpp:71-72): a tunnel that is on never has the relay's number, the
\* bump wrapping around included.
TunnelPortDiffers == config.tunnelEnabled => config.tunnelPort # config.gamePort
=============================================================================
