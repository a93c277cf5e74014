---------------------------- MODULE ServiceProofs ----------------------------
(***************************************************************************)
(* Proofs about BrokerService, for any connections, agents, tokens, tables *)
(* and environments: what is served is secured as configured, what is      *)
(* answered as done is on record, and the exit status tells the truth.     *)
(***************************************************************************)
EXTENDS BrokerService, FiniteSetTheorems, TLAPS

-----------------------------------------------------------------------------
(* The inductive invariant.                                                *)

\* Where a connection is once it has been accepted.
Served == {"authenticate", "limit", "operate", "record", "reply", "reject",
           "record_rejection"}

Shapes ==
  /\ main \in Places /\ exit \in {"none", "0", "1", "killed"} /\ signalled \in BOOLEAN
  /\ exit = "none" <=> Running
  /\ config \in [env : Envs \cup {"development"}, files : SUBSET Files,
                 require_client_cert : BOOLEAN, auth : BOOLEAN,
                 agent_tokens : TokenTables \cup {EmptyTable}, audit_log : BOOLEAN]
  /\ context \in [made : BOOLEAN, verify : BOOLEAN]
  /\ socket \in {"none", "bound", "plain", "wrapped", "closed"}
  /\ shutdown \in BOOLEAN /\ sweep_stop \in BOOLEAN
  /\ serve \in {"none", "loop", "accept", "handshake", "ended"}
  /\ sweep \in {"none", "waiting", "sweeping", "ended"}
  /\ audit \in {"none", "stdout", "open", "closed"} /\ unflushed \in BOOLEAN

\* What was configured holds of the context, and the context of the socket.
Material ==
  /\ config.env # "development" => {"cert", "key"} \subseteq config.files /\ config.auth
  /\ context.made => {"cert", "key"} \subseteq config.files
  /\ main = "bind" \/ socket # "none" =>
       ({"cert", "key"} \subseteq config.files => context.made)
  /\ socket # "none" => (config.require_client_cert => context.made)
  /\ socket = "plain" => ~context.made
  /\ socket = "wrapped" => context.made /\ context.verify = config.require_client_cert

\* How far the main thread has come, and what is there by then.
Course ==
  /\ main \in {"configure", "build", "bind"} => socket = "none"
  /\ main = "configure" => ~context.made
  /\ main = "wrap" => socket = "bound"
  /\ main \in {"audit", "start", "install", "wait", "shutdown"}
       => socket \in {"plain", "wrapped"}
  /\ main \in Setup => serve = "none"
  /\ main \in Stopping \cup {"wait", "install"} => serve # "none"
  /\ serve = "none" <=> sweep = "none"
  /\ serve = "ended" => shutdown
  /\ sweep = "ended" => sweep_stop
  /\ socket = "closed" => serve = "ended"
  /\ main \in {"shutdown", "close_audit", "join"} => signalled
  /\ main \in {"close_audit", "join"} => socket = "closed" /\ serve = "ended"
  /\ main = "join" => audit # "open"

\* A connection, up to the point where its request is let through.
Connected(c) ==
  /\ socket = "none" => stage[c] = "unsent"
  /\ serve = "none" => stage[c] \in {"unsent", "pending", "broken"} /\ answer[c] = "none"
                       /\ c \notin secure \cup carried_out \cup recorded
  /\ stage[c] \in {"unsent", "pending", "handshake", "authenticate", "limit"}
       => answer[c] = "none" /\ c \notin carried_out
  /\ stage[c] = "handshake" => serve = "handshake"

\* What the places of a connection vouch for.
Vouched(c) ==
  /\ stage[c] \in Served =>
       /\ context.made => c \in secure
       /\ config.require_client_cert => request[c].certificate
  /\ stage[c] \in Served \ {"authenticate"} /\ config.auth
       => identity[c] \in OwnersOf(Presented(request[c]))
  /\ stage[c] \in {"operate", "record", "reply", "reject", "record_rejection"}
       => request[c].path = "operate"
  /\ stage[c] \in Served => socket # "none"

\* What is true of a connection whatever becomes of it.
Kept(c) ==
  /\ stage[c] = "reply" \/ answer[c] = "done" => c \in recorded
  /\ c \in Admitted =>
       /\ socket # "none"
       /\ context.made => c \in secure
       /\ config.require_client_cert => request[c].certificate
       /\ config.auth => identity[c] \in OwnersOf(Presented(request[c]))
       /\ c \in carried_out => request[c].path = "operate"

ConnectionsOK ==
  /\ stage \in [Connections -> Stages] /\ answer \in [Connections -> Answers]
  /\ identity \in [Connections -> Agents \cup {Nobody}]
  /\ DOMAIN request = Connections
  /\ secure \subseteq Connections /\ recorded \subseteq Connections
  /\ carried_out \subseteq Connections
  /\ \A c, d \in Connections : stage[c] = "handshake" /\ stage[d] = "handshake" => c = d

SInv ==
  /\ Shapes /\ Material /\ Course /\ ConnectionsOK /\ ExitHonest
  /\ \A c \in Connections : Connected(c) /\ Vouched(c) /\ Kept(c)

-----------------------------------------------------------------------------
(* Connections that a step leaves alone.                                   *)

\* What a step leaves of connection d.
Untouched(d) ==
  /\ stage'[d] = stage[d] /\ answer'[d] = answer[d]
  /\ identity'[d] = identity[d] /\ request'[d] = request[d]
  /\ d \in secure' <=> d \in secure
  /\ d \in carried_out' <=> d \in carried_out
  /\ d \in recorded' <=> d \in recorded

ConnectionOK(d) == Connected(d) /\ Vouched(d) /\ Kept(d)

\* A step of another connection, or of a thread that keeps the configuration,
\* the context and the socket.
LEMMA BystanderKept ==
  ASSUME SInv, NEW d \in Connections, Untouched(d),
         UNCHANGED <<config, context, socket>>,
         serve' = "none" <=> serve = "none",
         stage[d] = "handshake" => serve' = "handshake"
  PROVE  ConnectionOK(d)'
<1>1. Connected(d)'
  BY DEF SInv, Untouched, Connected
<1>2. Vouched(d)'
  BY DEF SInv, Untouched, Vouched, OwnersOf, Presented
<1>3. Kept(d)'
  BY DEF SInv, Untouched, Kept, Admitted, OwnersOf, Presented
<1> QED
  BY <1>1, <1>2, <1>3 DEF ConnectionOK

-----------------------------------------------------------------------------
(* The main thread.                                                        *)

\* The process ends: connections break off where they are, and what was done
\* is done.
LEMMA EndKeeps ==
  ASSUME SInv, NEW status, ProcessEnds(status),
         UNCHANGED <<config, context, socket, serve, dealings>>
  PROVE  /\ ConnectionsOK'
         /\ \A d \in Connections : ConnectionOK(d)'
<1>1. ConnectionsOK'
  BY DEF SInv, ConnectionsOK, ProcessEnds, dealings, Stages
<1>2. ASSUME NEW d \in Connections PROVE ConnectionOK(d)'
  <2>1. \/ stage'[d] = stage[d] /\ stage[d] \in {"unsent", "ended", "broken"}
        \/ stage'[d] = "broken" /\ stage[d] # "unsent"
    BY DEF ProcessEnds, Live, SInv, ConnectionsOK, Stages
  <2>2. Connected(d)'
    BY <2>1 DEF SInv, Connected, dealings
  <2>3. Vouched(d)'
    BY <2>1 DEF SInv, Vouched, OwnersOf, Presented, dealings, Served
  <2>4. Kept(d)'
    BY <2>1 DEF SInv, Kept, Admitted, OwnersOf, Presented, dealings
  <2> QED
    BY <2>2, <2>3, <2>4 DEF ConnectionOK
<1> QED
  BY <1>1, <1>2

\* A main step before the end, which leaves the connections alone.
LEMMA MainMoves ==
  ASSUME SInv, Running, UNCHANGED <<exit, stage, dealings>>
  PROVE  ExitHonest'
BY DEF SInv, Shapes, ExitHonest

\* A start that fails has served nobody.
LEMMA FailedStart ==
  ASSUME SInv, ProcessEnds("1"), serve = "none", Running,
         UNCHANGED <<context, socket, serve, sweep, signalled, shutdown, sweep_stop,
                     audit, config, dealings>>
  PROVE  SInv'
<1>1. ExitHonest'
  <2>1. exit' = "1" /\ secure' = {} /\ recorded' = {}
    BY DEF ProcessEnds, dealings, SInv, Connected, ConnectionsOK
  <2>2. \A c \in Connections : answer'[c] = "none"
    BY DEF dealings, SInv, Connected
  <2> QED
    BY <2>1, <2>2 DEF ExitHonest
<1>2. Shapes' /\ Material' /\ Course'
  BY DEF ProcessEnds, SInv, Shapes, Material, Course, Setup, Stopping, Places, Running,
      dealings
<1> QED
  BY <1>1, <1>2, EndKeeps DEF SInv, ConnectionOK

\* The configuration: whatever is set or left unset, production gets its
\* checks.
LEMMA FromEnvKeeps ==
  ASSUME SInv, FromEnv
  PROVE  SInv'
<1>1. CASE ProcessEnds("1") /\ UNCHANGED config
  BY <1>1, FailedStart DEF FromEnv, Running, SInv, Course, Setup, Stopping, daemons
<1>2. CASE ~(ProcessEnds("1") /\ UNCHANGED config)
  <2>1. PICK c \in Configs, readable \in SUBSET Files : Valid(c, readable) /\ config' = c
    BY <1>2 DEF FromEnv
  <2>2. /\ main = "configure" /\ main' = "build" /\ UNCHANGED <<exit, stage, signalled, context,
           socket, audit, daemons, dealings>>
    BY <1>2 DEF FromEnv, Goto
  <2>3. Shapes'
    BY <2>1, <2>2, ServiceAssumption
    DEF SInv, Shapes, Configs, Places, Running, daemons, Files, dealings
  <2>4. Material' /\ Course'
    BY <2>1, <2>2
    DEF SInv, Shapes, Material, Course, Setup, Stopping, Valid, IsProd, daemons, dealings
  <2>5. ExitHonest'
    BY <2>2, MainMoves DEF Running
  <2>6. ASSUME NEW d \in Connections PROVE ConnectionOK(d)'
    <3>1. stage'[d] = "unsent" /\ stage[d] = "unsent" /\ answer'[d] = "none" /\ answer[d] = "none"
      BY <2>2 DEF SInv, Course, Setup, Stopping, Connected, dealings
    <3>2. d \notin carried_out'
      BY <2>2, <3>1 DEF SInv, Connected, dealings
    <3> QED
      BY <2>2, <3>1, <3>2
      DEF ConnectionOK, SInv, Connected, Vouched, Kept, Served, Admitted, dealings, daemons
  <2>7. ConnectionsOK'
    BY <2>2 DEF SInv, ConnectionsOK, dealings
  <2> QED
    BY <2>3, <2>4, <2>5, <2>6, <2>7 DEF SInv, ConnectionOK
<1> QED
  BY <1>1, <1>2

\* A step of the main thread that keeps configuration, context and socket.
LEMMA QuietMainKeeps ==
  ASSUME SInv, Running, UNCHANGED <<exit, stage, dealings, config, context, socket>>,
         serve' = "none" <=> serve = "none",
         serve = "handshake" => serve' = "handshake",
         main' # "bind", Shapes', Course'
  PROVE  SInv'
<1>1. ExitHonest'
  BY MainMoves
<1>2. Material'
  BY DEF SInv, Material
<1>3. \A d \in Connections : ConnectionOK(d)'
  BY BystanderKept DEF Untouched, dealings, SInv, Connected
<1>4. ConnectionsOK'
  BY DEF SInv, ConnectionsOK, dealings
<1> QED
  BY <1>1, <1>2, <1>3, <1>4 DEF SInv, ConnectionOK

\* A step of the main thread that changes the context or the socket, before any
\* request is let in or without taking back what vouches for those that are.
LEMMA SetupKeeps ==
  ASSUME SInv, Running, UNCHANGED <<exit, stage, dealings, config, serve>>,
         socket' = "none" <=> socket = "none",
         socket' # "none" => context'.made = context.made,
         Shapes', Material', Course'
  PROVE  SInv'
<1>1. ExitHonest'
  BY MainMoves
<1>2. ConnectionsOK'
  BY DEF SInv, ConnectionsOK, dealings
<1>3. ASSUME NEW d \in Connections PROVE ConnectionOK(d)'
  <2>1. Connected(d)'
    BY DEF SInv, Connected, dealings
  <2>2. Vouched(d)'
    BY DEF SInv, Vouched, OwnersOf, Presented, dealings, Served
  <2>3. Kept(d)'
    BY DEF SInv, Kept, Admitted, OwnersOf, Presented, dealings
  <2> QED
    BY <2>1, <2>2, <2>3 DEF ConnectionOK
<1> QED
  BY <1>1, <1>2, <1>3 DEF SInv, ConnectionOK

LEMMA BuildKeeps ==
  ASSUME SInv, Build
  PROVE  SInv'
<1>1. main = "build" /\ Running /\ serve = "none" /\ socket = "none"
  BY DEF Build, SInv, Course, Setup, Stopping, Running
<1>2. CASE ProcessEnds("1") /\ UNCHANGED context
  BY <1>1, <1>2, FailedStart DEF Build, daemons
<1>3. CASE ~(ProcessEnds("1") /\ UNCHANGED context)
  <2>1. /\ main' = "bind" /\ context' \in {context, [context EXCEPT !.made = TRUE]}
        /\ {"cert", "key"} \subseteq config.files <=> context'.made
        /\ UNCHANGED <<exit, stage>>
    BY <1>3 DEF Build, Goto, SInv, Shapes, Material
  <2>2. UNCHANGED <<signalled, config, socket, audit, daemons, dealings>>
    BY DEF Build
  <2>3. Shapes'
    <3>1. context' \in [made : BOOLEAN, verify : BOOLEAN]
      BY <2>1 DEF SInv, Shapes
    <3> QED
      BY <1>1, <2>1, <2>2, <3>1 DEF SInv, Shapes, Places, Running, daemons, dealings
  <2>4. Material' /\ Course'
    BY <1>1, <2>1, <2>2 DEF SInv, Material, Course, Setup, Stopping, daemons
  <2> QED
    BY <1>1, <2>1, <2>2, <2>3, <2>4, SetupKeeps DEF daemons
<1> QED
  BY <1>2, <1>3

LEMMA BindKeeps ==
  ASSUME SInv, Bind
  PROVE  SInv'
<1>1. main = "bind" /\ Running /\ serve = "none" /\ socket = "none"
  BY DEF Bind, SInv, Course, Setup, Stopping, Running
<1>2. CASE ProcessEnds("1") /\ UNCHANGED socket
  BY <1>1, <1>2, FailedStart DEF Bind, daemons
<1>3. CASE ~(ProcessEnds("1") /\ UNCHANGED socket)
  <2>1. /\ config.require_client_cert => context.made
        /\ socket' = "bound" /\ main' = "wrap" /\ UNCHANGED <<exit, stage>>
    BY <1>3 DEF Bind, Goto
  <2>2. UNCHANGED <<signalled, config, context, audit, daemons, dealings>>
    BY DEF Bind
  <2>3. Shapes' /\ Material' /\ Course' /\ ExitHonest'
    BY <1>1, <2>1, <2>2, MainMoves
    DEF SInv, Shapes, Material, Course, Setup, Stopping, Places, Running, daemons, dealings
  <2>4. ConnectionsOK'
    BY <2>1, <2>2 DEF SInv, ConnectionsOK, dealings
  <2>5. ASSUME NEW d \in Connections PROVE ConnectionOK(d)'
    <3>1. stage[d] = "unsent" /\ answer[d] = "none" /\ d \notin carried_out
      BY <1>1 DEF SInv, Connected
    <3> QED
      BY <1>1, <2>1, <2>2, <3>1
      DEF ConnectionOK, SInv, Connected, Vouched, Kept, Served, Admitted, dealings, daemons
  <2> QED
    BY <2>3, <2>4, <2>5 DEF SInv, ConnectionOK
<1> QED
  BY <1>2, <1>3

LEMMA WrapKeeps ==
  ASSUME SInv, Wrap
  PROVE  SInv'
<1>1. /\ Running /\ serve = "none" /\ socket = "bound"
      /\ UNCHANGED <<exit, stage, signalled, config, audit, daemons, dealings>>
  BY DEF Wrap, Goto, SInv, Course, Setup, Stopping, Running
<1>2. Shapes'
  BY <1>1 DEF Wrap, Goto, SInv, Shapes, Places, Running, daemons, dealings
<1>3. Material' /\ Course'
  BY <1>1 DEF Wrap, Goto, SInv, Shapes, Material, Course, Setup, Stopping, daemons, dealings
<1>4. socket' # "none" /\ context'.made = context.made
  BY DEF Wrap, SInv, Shapes
<1> QED
  BY <1>1, <1>2, <1>3, <1>4, SetupKeeps DEF daemons

LEMMA OpenAuditKeeps ==
  ASSUME SInv, OpenAudit
  PROVE  SInv'
<1>1. main = "audit" /\ Running /\ serve = "none"
  BY DEF OpenAudit, SInv, Course, Setup, Stopping, Running
<1>2. CASE ProcessEnds("1") /\ UNCHANGED audit
  BY <1>1, <1>2, FailedStart DEF OpenAudit, daemons
<1>3. CASE audit' \in {"open", "stdout"} /\ Goto("start")
  <2>1. UNCHANGED <<exit, stage, signalled, config, context, socket, daemons, dealings>>
    BY <1>3 DEF OpenAudit, Goto
  <2>2. Shapes' /\ Course' /\ main' # "bind"
    BY <1>1, <1>3, <2>1
    DEF Goto, SInv, Shapes, Course, Setup, Stopping, Places, Running, daemons, dealings
  <2> QED
    BY <1>1, <2>1, <2>2, QuietMainKeeps DEF daemons
<1> QED
  BY <1>2, <1>3 DEF OpenAudit

LEMMA StartKeeps ==
  ASSUME SInv, Start
  PROVE  SInv'
<1>1. /\ main = "start" /\ main' = "install" /\ serve = "none" /\ serve' = "loop" /\ Running
      /\ sweep' = "waiting"
      /\ UNCHANGED <<exit, stage, signalled, config, context, socket, audit, shutdown,
                     sweep_stop, dealings>>
  BY DEF Start, Goto, SInv, Course, Setup, Stopping, Running
<1>2. Shapes' /\ Material' /\ Course' /\ ExitHonest'
  BY <1>1, MainMoves DEF SInv, Shapes, Material, Course, Setup, Stopping, Places,
                              Running, dealings
<1>3. ConnectionsOK'
  BY <1>1 DEF SInv, ConnectionsOK, dealings
<1>4. ASSUME NEW d \in Connections PROVE ConnectionOK(d)'
  BY <1>1 DEF ConnectionOK, SInv, Connected, Vouched, Kept, Served, Admitted, dealings,
              OwnersOf, Presented
<1> QED
  BY <1>2, <1>3, <1>4 DEF SInv, ConnectionOK

LEMMA InstallKeeps ==
  ASSUME SInv, Install
  PROVE  SInv'
<1>1. /\ main = "install" /\ main' = "wait" /\ Running
      /\ UNCHANGED <<exit, stage, signalled, config, context, socket, audit, daemons, dealings>>
  BY DEF Install, Goto, Running
<1>2. Shapes' /\ Course'
  BY <1>1 DEF SInv, Shapes, Course, Setup, Stopping, Places, Running, daemons, dealings
<1> QED
  BY <1>1, <1>2, QuietMainKeeps DEF daemons

\* A signal kills the process or sets the event.
LEMMA SignalKeeps ==
  ASSUME SInv, Signal
  PROVE  SInv'
<1>1. UNCHANGED <<config, context, socket, audit, daemons, dealings>> /\ Running /\ ~signalled
  BY DEF Signal
<1>2. CASE ProcessEnds("killed") /\ UNCHANGED signalled
  <2>1. Shapes' /\ Material' /\ Course' /\ ExitHonest'
    BY <1>1, <1>2
    DEF ProcessEnds, SInv, Shapes, Material, Course, Setup, Stopping, ExitHonest, Places,
        Running, daemons, dealings
  <2> QED
    BY <1>1, <1>2, <2>1, EndKeeps DEF SInv, ConnectionOK, daemons
<1>3. CASE signalled' = TRUE /\ UNCHANGED <<main, exit, stage>>
  <2>1. Shapes' /\ Material' /\ Course' /\ ExitHonest'
    BY <1>1, <1>3, MainMoves
    DEF SInv, Shapes, Material, Course, Setup, Stopping, Running, daemons, dealings
  <2>2. ConnectionsOK'
    BY <1>1, <1>3 DEF SInv, ConnectionsOK, dealings
  <2>3. \A d \in Connections : ConnectionOK(d)'
    BY <1>1, <1>3, BystanderKept DEF Untouched, dealings, daemons, SInv, Connected
  <2> QED
    BY <2>1, <2>2, <2>3 DEF SInv, ConnectionOK
<1> QED
  BY <1>2, <1>3 DEF Signal

LEMMA BeginStopKeeps ==
  ASSUME SInv, BeginStop
  PROVE  SInv'
<1>1. /\ main = "wait" /\ signalled /\ main' = "shutdown" /\ Running
      /\ sweep_stop' = TRUE /\ shutdown' = TRUE
      /\ UNCHANGED <<exit, stage, signalled, config, context, socket, audit, serve, sweep,
                     dealings>>
  BY DEF BeginStop, Goto, Running
<1>2. Shapes' /\ Course'
  BY <1>1 DEF SInv, Shapes, Course, Setup, Stopping, Places, Running, dealings
<1> QED
  BY <1>1, <1>2, QuietMainKeeps

LEMMA CloseSocketKeeps ==
  ASSUME SInv, CloseSocket
  PROVE  SInv'
<1>1. /\ main = "shutdown" /\ serve = "ended" /\ main' = "close_audit" /\ Running
      /\ socket \in {"plain", "wrapped"} /\ socket' = "closed" /\ signalled
      /\ UNCHANGED <<exit, stage, signalled, config, context, audit, daemons, dealings>>
  BY DEF CloseSocket, Goto, Running, SInv, Course, Setup, Stopping
<1>2. Shapes' /\ Material' /\ Course'
  BY <1>1
  DEF SInv, Shapes, Material, Course, Setup, Stopping, Places, Running, daemons, dealings
<1> QED
  BY <1>1, <1>2, SetupKeeps DEF daemons

LEMMA CloseAuditKeeps ==
  ASSUME SInv, CloseAudit
  PROVE  SInv'
<1>1. /\ main = "close_audit" /\ Running
      /\ audit' = IF audit = "open" THEN "closed" ELSE audit
      /\ UNCHANGED <<signalled, config, context, socket, daemons, dealings>>
  BY DEF CloseAudit, Running
<1>2. CASE Goto("join")
  <2>1. main' = "join" /\ UNCHANGED <<exit, stage>>
    BY <1>2 DEF Goto
  <2>2. Shapes' /\ Course'
    BY <1>1, <2>1
    DEF SInv, Shapes, Course, Setup, Stopping, Places, Running, daemons, dealings
  <2> QED
    BY <1>1, <2>1, <2>2, QuietMainKeeps DEF daemons
<1>3. CASE audit = "open" /\ unflushed /\ ProcessEnds("1")
  <2>1. signalled /\ socket = "closed" /\ serve = "ended"
    BY <1>1 DEF SInv, Course, Setup, Stopping
  <2>2. ExitHonest'
    BY <1>1, <1>3, <2>1 DEF ProcessEnds, ExitHonest, daemons, dealings
  <2>3. Shapes' /\ Material' /\ Course'
    BY <1>1, <1>3, <2>1
    DEF ProcessEnds, SInv, Shapes, Material, Course, Setup, Stopping, Places, Running,
        daemons,
        dealings
  <2> QED
    BY <1>1, <1>3, <2>2, <2>3, EndKeeps DEF SInv, ConnectionOK, daemons
<1> QED
  BY <1>2, <1>3 DEF CloseAudit

\* The end that was asked for: by now all has been closed.
LEMMA JoinKeeps ==
  ASSUME SInv, Join
  PROVE  SInv'
<1>1. /\ main = "join" /\ serve = "ended" /\ sweep = "ended" /\ ProcessEnds("0")
      /\ signalled /\ socket = "closed" /\ audit # "open"
      /\ UNCHANGED <<signalled, config, context, socket, audit, daemons, dealings>>
  BY DEF Join, SInv, Course, Setup, Stopping
<1>2. Shapes' /\ Material' /\ Course' /\ ExitHonest'
  BY <1>1
  DEF ProcessEnds, SInv, Shapes, Material, Course, Setup, Stopping, ExitHonest, Places,
      Running, daemons, dealings
<1> QED
  BY <1>1, <1>2, EndKeeps DEF SInv, ConnectionOK, daemons

-----------------------------------------------------------------------------
(* The loops, the clients and the handlers.                                *)

\* What a step of the other threads leaves of the process.
LEMMA ProcessKept ==
  ASSUME SInv, Running, UNCHANGED <<process, shutdown, sweep_stop>>,
         serve' \in {"none", "loop", "accept", "handshake", "ended"},
         sweep' \in {"none", "waiting", "sweeping", "ended"},
         serve' = "none" <=> serve = "none", serve = "ended" => serve' = "ended",
         serve' = "ended" => shutdown, sweep' = "none" <=> sweep = "none",
         sweep' = "ended" => sweep_stop, unflushed' \in BOOLEAN
  PROVE  Shapes' /\ Material' /\ Course' /\ ExitHonest'
BY DEF SInv, Shapes, Material, Course, Setup, Stopping, ExitHonest, Running, process

LEMMA SweepTurnKeeps ==
  ASSUME SInv, SweepTurn
  PROVE  SInv'
<1>1. Shapes' /\ Material' /\ Course' /\ ExitHonest'
  BY ProcessKept DEF SweepTurn, SInv, Shapes, Course, dealings
<1>2. ConnectionsOK'
  BY DEF SweepTurn, SInv, ConnectionsOK, dealings
<1>3. \A d \in Connections : ConnectionOK(d)'
  BY BystanderKept DEF SweepTurn, Untouched, dealings, process, SInv, Connected
<1> QED
  BY <1>1, <1>2, <1>3 DEF SInv, ConnectionOK

LEMMA ServeTurnKeeps ==
  ASSUME SInv, ServeTurn
  PROVE  SInv'
<1>1. Shapes' /\ Material' /\ Course' /\ ExitHonest'
  BY ProcessKept DEF ServeTurn, SInv, Shapes, Course, dealings
<1>2. ConnectionsOK'
  BY DEF ServeTurn, SInv, ConnectionsOK, dealings
<1>3. \A d \in Connections : ConnectionOK(d)'
  <2>1. \A d \in Connections : stage[d] # "handshake"
    BY DEF ServeTurn, SInv, Connected
  <2>2. serve # "none" /\ serve' # "none"
    BY DEF ServeTurn
  <2> QED
    BY <2>1, <2>2, BystanderKept DEF ServeTurn, Untouched, dealings, process
<1> QED
  BY <1>1, <1>2, <1>3 DEF SInv, ConnectionOK

\* A step of one connection.
LEMMA OneConnection ==
  ASSUME SInv, Running, NEW c \in Connections, UNCHANGED <<process, shutdown, sweep_stop, sweep>>,
         serve' \in {"none", "loop", "accept", "handshake", "ended"},
         serve' = "none" <=> serve = "none", serve = "ended" <=> serve' = "ended",
         unflushed' \in BOOLEAN,
         \A d \in Connections : stage[d] = "handshake" /\ d # c => serve' = "handshake",
         \A d \in Connections \ {c} : Untouched(d),
         ConnectionsOK', ConnectionOK(c)'
  PROVE  SInv'
<1>1. Shapes' /\ Material' /\ Course' /\ ExitHonest'
  BY ProcessKept DEF SInv, Shapes, Course
<1>2. \A d \in Connections \ {c} : ConnectionOK(d)'
  BY BystanderKept DEF process
<1> QED
  BY <1>1, <1>2 DEF SInv, ConnectionOK

LEMMA ConnectKeeps ==
  ASSUME SInv, NEW c \in Connections, Connect(c)
  PROVE  SInv'
<1>1. /\ stage[c] = "unsent" /\ stage' = [stage EXCEPT ![c] = "pending"] /\ Running
      /\ socket \in {"bound", "plain", "wrapped"}
      /\ UNCHANGED <<process, daemons, identity, secure, answer, carried_out, recorded>>
      /\ unflushed' \in BOOLEAN
  BY DEF Connect, Advance, SInv, Shapes
<1>2. \A d \in Connections \ {c} : Untouched(d)
  BY <1>1 DEF Connect, Untouched, SInv, ConnectionsOK
<1>3. ConnectionsOK'
  BY <1>1 DEF Connect, SInv, ConnectionsOK, Stages
<1>4. stage'[c] = "pending" /\ answer'[c] = "none" /\ c \notin carried_out'
  BY <1>1 DEF SInv, ConnectionsOK, Connected
<1>5. ConnectionOK(c)'
  BY <1>1, <1>4
  DEF ConnectionOK, SInv, Connected, Vouched, Kept, Served, Admitted, process, daemons
<1> QED
  BY <1>1, <1>2, <1>3, <1>5, OneConnection DEF daemons, SInv, Shapes, Connected

\* A plain socket is one without a context, so that nothing more is asked of
\* the connection.
LEMMA AcceptKeeps ==
  ASSUME SInv, NEW c \in Connections, Accept(c)
  PROVE  SInv'
<1>1. /\ Running /\ serve = "accept" /\ stage[c] = "pending"
      /\ UNCHANGED <<process, shutdown, sweep_stop, sweep, dealings>>
      /\ unflushed' \in BOOLEAN
  BY DEF Accept, SInv, Shapes, dealings
<1>2. socket \in {"plain", "wrapped"}
  BY <1>1 DEF SInv, Shapes, Course, Setup, Stopping, Running, Places
<1>3. \A d \in Connections : stage[d] # "handshake"
  BY <1>1 DEF SInv, Connected
<1>4. \A d \in Connections \ {c} : Untouched(d)
  BY <1>1 DEF Accept, Advance, Untouched, dealings, SInv, ConnectionsOK
<1>5. ConnectionsOK'
  BY <1>1, <1>3 DEF Accept, Advance, SInv, ConnectionsOK, Stages, dealings
<1>6. answer[c] = "none" /\ c \notin carried_out /\ c \notin Admitted
  BY <1>1 DEF SInv, Connected, Admitted
<1>7. CASE socket = "wrapped"
  <2>1. serve' = "handshake" /\ stage'[c] = "handshake"
    BY <1>7 DEF Accept, Advance, SInv, ConnectionsOK
  <2>2. ConnectionOK(c)'
    BY <1>1, <1>2, <1>6, <2>1
    DEF ConnectionOK, SInv, Connected, Vouched, Kept, Served, Admitted, process, dealings
  <2> QED
    BY <1>1, <1>3, <1>4, <1>5, <2>1, <2>2, OneConnection
<1>8. CASE socket = "plain"
  <2>1. serve' = "loop" /\ stage'[c] = "authenticate"
    BY <1>8 DEF Accept, Advance, SInv, ConnectionsOK
  <2>2. ~context.made /\ ~config.require_client_cert
    BY <1>8 DEF SInv, Material
  <2>3. ConnectionOK(c)'
    BY <1>1, <1>2, <1>6, <2>1, <2>2
    DEF ConnectionOK, SInv, Connected, Vouched, Kept, Served, Admitted, process, dealings
  <2> QED
    BY <1>1, <1>3, <1>4, <1>5, <2>1, <2>3, OneConnection
<1> QED
  BY <1>2, <1>7, <1>8

\* A handshake that succeeds has seen the certificate that is required.
LEMMA HandshakeKeeps ==
  ASSUME SInv, NEW c \in Connections, Handshake(c)
  PROVE  SInv'
<1>1. /\ Running /\ stage[c] = "handshake" /\ serve' = "loop" /\ serve = "handshake"
      /\ UNCHANGED <<process, shutdown, sweep_stop, sweep, request, identity, answer,
                     carried_out, recorded>>
      /\ unflushed' \in BOOLEAN
  BY DEF Handshake, SInv, Connected, Shapes
<1>2. \A d \in Connections : stage[d] = "handshake" => d = c
  BY <1>1 DEF SInv, ConnectionsOK
<1>3. \A d \in Connections \ {c} : Untouched(d)
  BY <1>1 DEF Handshake, Advance, Untouched, SInv, ConnectionsOK
<1>4. ConnectionsOK'
  BY <1>1, <1>2 DEF Handshake, Advance, SInv, ConnectionsOK, Stages
<1>5. answer[c] = "none" /\ c \notin carried_out /\ c \notin Admitted /\ socket # "none"
  BY <1>1 DEF SInv, Connected, Admitted
<1>6. CASE stage'[c] = "broken"
  <2>1. ConnectionOK(c)'
    BY <1>1, <1>5, <1>6
    DEF ConnectionOK, SInv, Connected, Vouched, Kept, Served, Admitted, process
  <2> QED
    BY <1>1, <1>2, <1>3, <1>4, <2>1, OneConnection
<1>7. CASE /\ context.verify => request[c].certificate
           /\ c \in secure' /\ stage'[c] = "authenticate"
  <2>1. config.require_client_cert => request[c].certificate
    <3>1. socket \in {"plain", "wrapped"}
      BY <1>1 DEF SInv, Connected, Course, Setup, Stopping, Shapes, Running, Places
    <3> QED
      BY <1>7, <3>1 DEF SInv, Material
  <2>2. ConnectionOK(c)'
    BY <1>1, <1>5, <1>7, <2>1
    DEF ConnectionOK, SInv, Connected, Vouched, Kept, Served, Admitted, process
  <2> QED
    BY <1>1, <1>2, <1>3, <1>4, <2>2, OneConnection
<1> QED
  BY <1>6, <1>7 DEF Handshake, Advance, SInv, ConnectionsOK

\* What a step of a handler leaves of the others.
LEMMA HandlerKeeps ==
  ASSUME SInv, Running, NEW c \in Connections, stage[c] \in Served,
         UNCHANGED <<process, daemons, request, secure>>,
         NEW place \in Stages \ {"handshake"}, stage' = [stage EXCEPT ![c] = place],
         NEW a \in Answers, answer' \in {answer, [answer EXCEPT ![c] = a]},
         NEW i \in Agents \cup {Nobody}, identity' \in {identity, [identity EXCEPT ![c] = i]},
         carried_out' \in {carried_out, carried_out \cup {c}},
         recorded' \in {recorded, recorded \cup {c}}, unflushed' \in BOOLEAN,
         Vouched(c)', Kept(c)', place \notin {"unsent", "pending", "authenticate"},
         place = "limit" => answer'[c] = "none" /\ c \notin carried_out'
  PROVE  SInv'
<1>1. \A d \in Connections \ {c} : Untouched(d)
  BY DEF Untouched, SInv, ConnectionsOK
<1>2. ConnectionsOK'
  BY DEF SInv, ConnectionsOK
<1>3. serve # "none" /\ socket # "none"
  BY DEF SInv, Connected, Vouched, Served
<1>4. Connected(c)'
  BY <1>3 DEF Connected, SInv, ConnectionsOK, process, daemons
<1>5. stage[c] # "handshake"
  BY DEF Served
<1> QED
  BY <1>1, <1>2, <1>4, <1>5, OneConnection
  DEF ConnectionOK, daemons, SInv, Shapes, Connected, dealings

-----------------------------------------------------------------------------
(* The steps of a request.                                                 *)

\* The identity is one that the token that was presented belongs to.
LEMMA AuthenticateKeeps ==
  ASSUME SInv, NEW c \in Connections, Authenticate(c)
  PROVE  SInv'
<1>1. /\ Running /\ stage[c] = "authenticate" /\ c \notin Admitted /\ answer[c] = "none"
      /\ c \notin carried_out
      /\ UNCHANGED <<process, daemons, request, secure, carried_out, recorded>>
      /\ unflushed' \in BOOLEAN
  BY DEF Authenticate, Handling, SInv, Connected, Admitted, Shapes
<1>2. /\ stage \in [Connections -> Stages] /\ answer \in [Connections -> Answers]
      /\ identity \in [Connections -> Agents \cup {Nobody}]
  BY DEF SInv, ConnectionsOK
<1>3. /\ context.made => c \in secure
      /\ config.require_client_cert => request[c].certificate
      /\ socket # "none"
  BY <1>1 DEF SInv, Vouched, Served
<1>4. CASE request[c].path = "health" /\ Respond(c, "shown") /\ UNCHANGED identity
  <2>1. stage'[c] = "ended" /\ answer'[c] = "shown" /\ request'[c].path = "health"
    BY <1>1, <1>2, <1>4 DEF Respond, Advance
  <2>2. Vouched(c)' /\ Kept(c)'
    BY <1>1, <2>1 DEF Vouched, Kept, Admitted, Served
  <2> QED
    BY <1>1, <1>4, <2>1, <2>2, HandlerKeeps
    DEF Respond, Advance, Served, Stages, Answers, SInv, ConnectionsOK
<1>5. CASE Respond(c, "refused") /\ UNCHANGED identity
  <2>1. stage'[c] = "ended" /\ answer'[c] = "refused"
    BY <1>1, <1>2, <1>5 DEF Respond, Advance
  <2>2. Vouched(c)' /\ Kept(c)'
    BY <1>1, <2>1 DEF Vouched, Kept, Admitted, Served
  <2> QED
    BY <1>1, <1>5, <2>1, <2>2, HandlerKeeps DEF Respond, Advance, Served, Stages, Answers
<1>6. CASE ~config.auth /\ Advance(c, "limit") /\ UNCHANGED <<identity, answer>>
  <2>1. stage'[c] = "limit" /\ answer'[c] = "none" /\ c \notin carried_out'
    BY <1>1, <1>2, <1>6 DEF Advance
  <2>2. Vouched(c)' /\ Kept(c)'
    BY <1>1, <1>3, <1>6, <2>1 DEF Vouched, Kept, Admitted, Served, process
  <2> QED
    BY <1>1, <1>6, <2>1, <2>2, HandlerKeeps DEF Advance, Served, Stages, Answers
<1>7. CASE /\ config.auth /\ OwnersOf(Presented(request[c])) # {}
           /\ identity' = [identity EXCEPT ![c] = CHOOSE a \in OwnersOf(Presented(request[c])) : TRUE]
           /\ Advance(c, "limit") /\ UNCHANGED answer
  <2> DEFINE i == CHOOSE a \in OwnersOf(Presented(request[c])) : TRUE
  <2>1. stage'[c] = "limit" /\ answer'[c] = "none" /\ c \notin carried_out'
    BY <1>1, <1>2, <1>7 DEF Advance
  <2>2. i \in OwnersOf(Presented(request[c])) /\ identity'[c] = i
    BY <1>2, <1>7
  <2>3. i \in Agents
    BY <2>2, ServiceAssumption DEF OwnersOf, SInv, Shapes, EmptyTable
  <2>4. Vouched(c)' /\ Kept(c)'
    BY <1>1, <1>3, <1>7, <2>1, <2>2
    DEF Vouched, Kept, Admitted, Served, process, OwnersOf, Presented
  <2>5. identity' = [identity EXCEPT ![c] = i]
    BY <1>7
  <2> HIDE DEF i
  <2> QED
    BY <1>1, <1>7, <2>1, <2>3, <2>4, <2>5, HandlerKeeps DEF Advance, Served, Stages, Answers
<1> QED
  BY <1>4, <1>5, <1>6, <1>7 DEF Authenticate

LEMMA LimitKeeps ==
  ASSUME SInv, NEW c \in Connections, Limit(c)
  PROVE  SInv'
<1>1. /\ Running /\ stage[c] = "limit" /\ c \notin Admitted /\ answer[c] = "none"
      /\ c \notin carried_out
      /\ UNCHANGED <<process, daemons, request, identity, secure, carried_out, recorded>>
      /\ unflushed' \in BOOLEAN
  BY DEF Limit, Handling, SInv, Connected, Admitted, Shapes
<1>2. stage \in [Connections -> Stages] /\ answer \in [Connections -> Answers]
  BY DEF SInv, ConnectionsOK
<1>3. Vouched(c)
  BY DEF SInv
<1>4. CASE Respond(c, "refused") \/ (request[c].path = "read" /\ Respond(c, "shown"))
  <2>1. PICK a \in {"refused", "shown"} : Respond(c, a)
    BY <1>4
  <2>2. stage'[c] = "ended" /\ answer'[c] = a
    BY <1>2, <2>1 DEF Respond, Advance
  <2>3. Vouched(c)' /\ Kept(c)'
    BY <1>1, <1>3, <2>2 DEF Vouched, Kept, Admitted, Served, process, OwnersOf, Presented
  <2> QED
    BY <1>1, <2>1, <2>2, <2>3, HandlerKeeps DEF Respond, Advance, Served, Stages, Answers
<1>5. CASE request[c].path = "operate" /\ Advance(c, "operate") /\ UNCHANGED answer
  <2>1. stage'[c] = "operate" /\ answer'[c] = "none"
    BY <1>1, <1>2, <1>5 DEF Advance
  <2>2. Vouched(c)' /\ Kept(c)'
    BY <1>1, <1>3, <1>5, <2>1
    DEF Vouched, Kept, Admitted, Served, process, OwnersOf, Presented
  <2> QED
    BY <1>1, <1>5, <2>1, <2>2, HandlerKeeps DEF Advance, Served, Stages, Answers
<1> QED
  BY <1>4, <1>5 DEF Limit

LEMMA OperateKeeps ==
  ASSUME SInv, NEW c \in Connections, Operate(c)
  PROVE  SInv'
<1>1. /\ Running /\ stage[c] = "operate"
      /\ UNCHANGED <<process, daemons, request, identity, secure, recorded>>
      /\ unflushed' \in BOOLEAN
  BY DEF Operate, Handling, SInv, Shapes
<1>2. stage \in [Connections -> Stages] /\ answer \in [Connections -> Answers]
  BY DEF SInv, ConnectionsOK
<1>3. Vouched(c) /\ Kept(c) /\ request[c].path = "operate"
  BY <1>1 DEF SInv, Vouched
<1>4. CASE \E a \in {"refused", "shown"} : Respond(c, a) /\ UNCHANGED carried_out
  <2>1. PICK a \in {"refused", "shown"} : Respond(c, a)
    BY <1>4
  <2>2. stage'[c] = "ended" /\ answer'[c] = a
    BY <1>2, <2>1 DEF Respond, Advance
  <2>3. Vouched(c)' /\ Kept(c)'
    BY <1>1, <1>3, <1>4, <2>2
    DEF Vouched, Kept, Admitted, Served, process, OwnersOf, Presented
  <2> QED
    BY <1>1, <1>4, <2>1, <2>2, <2>3, HandlerKeeps
    DEF Respond, Advance, Served, Stages, Answers
<1>5. CASE Advance(c, "reject") /\ UNCHANGED <<answer, carried_out>>
  <2>1. stage'[c] = "reject"
    BY <1>2, <1>5 DEF Advance
  <2>2. Vouched(c)' /\ Kept(c)'
    BY <1>1, <1>3, <1>5, <2>1
    DEF Vouched, Kept, Admitted, Served, process, OwnersOf, Presented
  <2> QED
    BY <1>1, <1>5, <2>1, <2>2, HandlerKeeps DEF Advance, Served, Stages, Answers
<1>6. CASE carried_out' = carried_out \cup {c} /\ Advance(c, "record") /\ UNCHANGED answer
  <2>1. stage'[c] = "record"
    BY <1>2, <1>6 DEF Advance
  <2>2. Vouched(c)' /\ Kept(c)'
    BY <1>1, <1>3, <1>6, <2>1
    DEF Vouched, Kept, Admitted, Served, process, OwnersOf, Presented
  <2> QED
    BY <1>1, <1>6, <2>1, <2>2, HandlerKeeps DEF Advance, Served, Stages, Answers
<1> QED
  BY <1>4, <1>5, <1>6 DEF Operate, Respond, Advance

\* The steps after the request took effect or was rejected: none admits anything
\* and only what is on record is answered.
LEMMA ConcludeKeeps ==
  ASSUME SInv, NEW c \in Connections,
         Record(c) \/ Reply(c) \/ Reject(c) \/ RecordRejection(c)
  PROVE  SInv'
<1>1. /\ Running /\ stage[c] \in {"record", "reply", "reject", "record_rejection"}
      /\ UNCHANGED <<process, daemons, request, identity, secure, carried_out>>
      /\ recorded' \in {recorded, recorded \cup {c}}
      /\ unflushed' \in BOOLEAN
  BY DEF Record, Reply, Reject, RecordRejection, Handling, Logged, LogRaises, SInv, Shapes
<1>2. stage \in [Connections -> Stages] /\ answer \in [Connections -> Answers]
  BY DEF SInv, ConnectionsOK
<1>3. Vouched(c) /\ Kept(c) /\ request[c].path = "operate"
  BY <1>1 DEF SInv, Vouched
<1>4. PICK place \in {"reply", "record_rejection", "ended", "broken"} :
        stage' = [stage EXCEPT ![c] = place]
  BY DEF Record, Reply, Reject, RecordRejection, Respond, Advance
<1>5. PICK a \in {"done", "refused"} : answer' \in {answer, [answer EXCEPT ![c] = a]}
  BY DEF Record, Reply, Reject, RecordRejection, Respond
<1>6. place = "reply" \/ answer'[c] = "done" => c \in recorded'
  <2>1. CASE Record(c)
    BY <1>1, <1>2, <1>3, <1>4, <2>1 DEF Record, Logged, LogRaises, Advance, Kept
  <2>2. CASE Reply(c)
    BY <1>1, <1>2, <1>3, <1>4, <2>2 DEF Reply, Respond, Advance, Kept, Handling
  <2>3. CASE Reject(c)
    BY <1>1, <1>2, <1>3, <1>4, <2>3 DEF Reject, Advance, Kept
  <2>4. CASE RecordRejection(c)
    BY <1>1, <1>2, <1>3, <1>4, <2>4 DEF RecordRejection, Advance, Kept
  <2> QED
    BY <2>1, <2>2, <2>3, <2>4
<1>7. stage'[c] = place
  BY <1>2, <1>4
<1>8. Vouched(c)'
  BY <1>1, <1>3, <1>7 DEF Vouched, Served, process, OwnersOf, Presented
<1>9. Kept(c)'
  BY <1>1, <1>3, <1>6, <1>7 DEF Kept, Admitted, process, OwnersOf, Presented
<1> QED
  BY <1>1, <1>4, <1>5, <1>8, <1>9, HandlerKeeps
  DEF Served, Stages, Answers, SInv, ConnectionsOK

-----------------------------------------------------------------------------
(* The invariant of the specification, and what follows from it.           *)

LEMMA InvariantInitially == Init => SInv
<1> SUFFICES ASSUME Init PROVE SInv
  OBVIOUS
<1>1. Shapes
  <2>1. EmptyTable \in TokenTables \cup {EmptyTable} /\ {} \in SUBSET Files
    OBVIOUS
  <2> QED
    BY <2>1 DEF Init, Shapes, Places, Running
<1>2. Material /\ Course /\ ExitHonest
  BY DEF Init, Material, Course, Setup, Stopping, ExitHonest
<1>3. ConnectionsOK
  BY DEF Init, ConnectionsOK, Stages, Answers
<1>4. \A c \in Connections : Connected(c) /\ Vouched(c) /\ Kept(c)
  BY DEF Init, Connected, Vouched, Kept, Served, Admitted
<1> QED
  BY <1>1, <1>2, <1>3, <1>4 DEF SInv

LEMMA InvariantKept == SInv /\ [Next]_vars => SInv'
<1> SUFFICES ASSUME SInv, [Next]_vars PROVE SInv'
  OBVIOUS
<1>1. CASE UNCHANGED vars
  BY <1>1
  DEF vars, process, daemons, dealings, SInv, Shapes, Material, Course, Setup, Stopping,
      ConnectionsOK, ExitHonest, Connected, Vouched, Kept, Running, Admitted, OwnersOf,
      Presented
<1>2. CASE MainStep
  BY <1>2, FromEnvKeeps, BuildKeeps, BindKeeps, WrapKeeps, OpenAuditKeeps, StartKeeps,
     InstallKeeps, BeginStopKeeps, CloseSocketKeeps, CloseAuditKeeps, JoinKeeps DEF MainStep
<1>3. CASE ServeStep \/ SweepTurn \/ Signal
  BY <1>3, ServeTurnKeeps, AcceptKeeps, SweepTurnKeeps, SignalKeeps DEF ServeStep
<1>4. CASE \E c \in Connections : Connect(c) \/ Handshake(c) \/ HandlerStep(c)
  BY <1>4, ConnectKeeps, HandshakeKeeps, AuthenticateKeeps, LimitKeeps, OperateKeeps,
     ConcludeKeeps DEF HandlerStep
<1> QED
  BY <1>1, <1>2, <1>3, <1>4 DEF Next

THEOREM Invariance == Spec => []SInv
BY InvariantInitially, InvariantKept, PTL DEF Spec

LEMMA InvariantTypes == SInv => TypeOK
<1> SUFFICES ASSUME SInv PROVE TypeOK
  OBVIOUS
<1>1. Cardinality({c \in Connections : stage[c] = "handshake"})
        <= IF serve = "handshake" THEN 1 ELSE 0
  <2> DEFINE H == {c \in Connections : stage[c] = "handshake"}
  <2>1. CASE H = {}
    BY <2>1, FS_EmptySet
  <2>2. CASE H # {}
    <3>1. PICK c \in Connections : stage[c] = "handshake"
      BY <2>2
    <3>2. H = {c} /\ serve = "handshake"
      BY <3>1 DEF SInv, ConnectionsOK, Connected
    <3>3. Cardinality(H) = 1
      BY <3>2, FS_Singleton
    <3> QED
      BY <3>2, <3>3
  <2> QED
    BY <2>1, <2>2
<1>2. config.env \in Envs \cup {"development"} /\ config.files \subseteq Files
  BY DEF SInv, Shapes
<1> QED
  BY <1>1, <1>2 DEF SInv, Shapes, Material, Course, ConnectionsOK, TypeOK

LEMMA InvariantSecures == SInv => Secured
<1> SUFFICES ASSUME SInv, NEW c \in Admitted
             PROVE  /\ config.env # "development" => c \in secure /\ config.auth
                    /\ config.auth =>
                         /\ identity[c] \in DOMAIN config.agent_tokens
                         /\ config.agent_tokens[identity[c]] \in
                              {request[c].header} \cup
                                (IF c \in carried_out THEN {} ELSE {request[c].query})
                    /\ config.require_client_cert => c \in secure /\ request[c].certificate
  BY DEF Secured
<1>1. c \in Connections /\ Kept(c)
  BY DEF SInv, ConnectionsOK, Admitted
<1>2. /\ socket # "none"
      /\ context.made => c \in secure
      /\ config.require_client_cert => request[c].certificate
      /\ config.auth => identity[c] \in OwnersOf(Presented(request[c]))
      /\ c \in carried_out => request[c].path = "operate"
  BY <1>1 DEF Kept
<1>3. config.env # "development" \/ config.require_client_cert => context.made
  BY <1>2 DEF SInv, Material
<1>4. ASSUME config.auth
      PROVE  /\ identity[c] \in DOMAIN config.agent_tokens
             /\ config.agent_tokens[identity[c]] \in
                  {request[c].header} \cup
                    (IF c \in carried_out THEN {} ELSE {request[c].query})
  <2>1. /\ identity[c] \in DOMAIN config.agent_tokens
        /\ config.agent_tokens[identity[c]] = Presented(request[c])
    BY <1>2, <1>4 DEF OwnersOf
  <2>2. config.agent_tokens[identity[c]] \in Tokens
    BY <2>1, ServiceAssumption DEF SInv, Shapes, EmptyTable
  <2>3. Presented(request[c]) # NoToken
    BY <2>1, <2>2, ServiceAssumption
  <2> QED
    BY <1>2, <2>1, <2>3 DEF Presented
<1>5. config.env # "development" => config.auth
  BY DEF SInv, Material
<1> QED
  BY <1>2, <1>3, <1>4, <1>5

\* TypeOK, for any connections and configurations: a process has a status exactly
\* when it has ended; the serve and the sweep thread run once main() has started
\* them, and end only when stop() has told them to; stop() closes the socket after
\* the serve loop; at most one connection is in a handshake, and then the serve
\* thread is in it (accept() in serve_forever); a TLS context stands for a
\* certificate and a key that were configured.
THEOREM ServiceTypes == Spec => []TypeOK
BY Invariance, InvariantTypes, PTL

\* Secured: no request is admitted that the configuration excludes.  In any
\* environment but development (config.py, validate and from_env), with any files
\* that change between the check and the load, a request that saw or changed
\* something was made over TLS with a token of the agent it counts for, and with
\* a certificate where one is required.
THEOREM NothingUnsecured == Spec => []Secured
BY Invariance, InvariantSecures, PTL

\* AnsweredIsRecorded: whatever stop() closes meanwhile, an operation that was
\* answered as done has its line in the audit log.
THEOREM AuditComplete == Spec => []AnsweredIsRecorded
<1>1. SInv => AnsweredIsRecorded
  BY DEF SInv, Kept, AnsweredIsRecorded
<1> QED
  BY <1>1, Invariance, PTL

\* ExitHonest: status 0 is a complete stop that was asked for; status 1 is a start
\* that failed before anybody was served (main() in broker/service.py), or a stop
\* that was asked for and that close() of an audit log with an unwritten line broke
\* off (_audit.py, called by stop()), after the socket and the serve loop had ended.
THEOREM StatusTellsTruth == Spec => []ExitHonest
<1>1. SInv => ExitHonest
  BY DEF SInv
<1> QED
  BY <1>1, Invariance, PTL

=============================================================================
