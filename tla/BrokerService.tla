---------------------------- MODULE BrokerService ----------------------------
(***************************************************************************)
(* The broker as a process (broker/service.py, broker/config.py, the       *)
(* constructor, start and stop of BrokerServer): main() reads the          *)
(* environment, validates it, builds the server, starts its threads and    *)
(* stops them when a signal comes; meanwhile the serve thread accepts      *)
(* connections and a handler thread per connection authenticates, limits,  *)
(* carries out, records in the audit log and answers a request.  What the  *)
(* requests do to the tables is the subject of Broker; here they are       *)
(* carried out, refused or cut off.                                        *)
(*                                                                         *)
(* A file is what the file system holds at the instant it is read: whether *)
(* a check or a load of a file succeeds is left open each time, so that    *)
(* files may change between the validation and the use.                    *)
(***************************************************************************)
EXTENDS Naturals, FiniteSets

CONSTANTS
  Connections,   \* connections made to the broker in a behaviour
  Agents, Nobody,
  Tokens,        \* bearer tokens
  NoToken,       \* no token, or no Authorization header that can be read
  TokenTables,   \* what agent_tokens may hold: agent -> token
  Envs,          \* values of ROBOTSIX_BROKER_ENV
  FileSets,      \* bound: which of the TLS files are named
  RequestKinds   \* bound: connection -> the requests that may be made on it

ASSUME ServiceAssumption ==
  /\ Nobody \notin Agents /\ NoToken \notin Tokens
  /\ \A T \in TokenTables : DOMAIN T \subseteq Agents /\ T \in [DOMAIN T -> Tokens]
  /\ \A c \in Connections :
       RequestKinds[c] \subseteq [path : {"health", "read", "operate"},
                                 header : Tokens \cup {NoToken},
                                 query : Tokens \cup {NoToken}, certificate : BOOLEAN]
  /\ FileSets \subseteq SUBSET {"cert", "key", "ca"}

VARIABLES
  main,            \* where the main thread is
  exit,            \* status the process ended with
  signalled,       \* shutdown_event
  config,          \* BrokerConfig
  context,         \* the ssl_context: whether there is one, and its verify_mode
  socket,          \* the listening socket
  shutdown,        \* __shutdown_request of serve_forever
  sweep_stop,      \* _sweep_stop_event
  serve,           \* where the serve thread is
  sweep,           \* where the sweep thread is
  audit,           \* the audit log: none, stdout, or a file open or closed
  stage,           \* connection -> where it is
  request,         \* connection -> what its client asks
  identity,        \* connection -> agent it is authenticated as
  secure,          \* connections that were accepted over TLS
  answer,          \* connection -> what its client was told
  carried_out,     \* history: connections whose request took effect
  unflushed,       \* no line was flushed to the file since one could not be
  recorded         \* history: connections with a line in the audit log

daemons  == <<shutdown, sweep_stop, serve, sweep>>
dealings == <<request, identity, secure, answer, carried_out, recorded, unflushed>>
process  == <<main, exit, signalled, config, context, socket, audit>>
vars     == <<process, daemons, stage, dealings>>

-----------------------------------------------------------------------------
(* Configuration.                                                          *)

Files == {"cert", "key", "ca"}
NoRequest == [path |-> "health", header |-> NoToken, query |-> NoToken,
              certificate |-> FALSE]
EmptyTable == [a \in {} |-> NoToken]

Configs == [env : Envs, files : FileSets, require_client_cert : BOOLEAN,
            auth : BOOLEAN, agent_tokens : TokenTables \cup {EmptyTable},
            audit_log : BOOLEAN]

\* Fault: only the word production asks for the checks of production.
IsProdByName(c) == c.env = "production"

\* Whatever is not development is production.
IsProd(c) == c.env # "development"

\* BrokerConfig.validate, where readable are the files found readable.
Valid(c, readable) ==
  /\ IsProd(c) => {"cert", "key"} \subseteq c.files \cap readable
  /\ c.require_client_cert => "ca" \in c.files \cap readable
  /\ IsProd(c) => c.auth /\ DOMAIN c.agent_tokens # {}

Running == main # "ended"
Live == {c \in Connections : stage[c] \notin {"unsent", "ended", "broken"}}

\* The process ends: its daemon threads and connections end with it.
ProcessEnds(status) ==
  /\ main' = "ended" /\ exit' = status
  /\ stage' = [c \in Connections |-> IF c \in Live THEN "broken" ELSE stage[c]]

Goto(place) == main' = place /\ UNCHANGED <<exit, stage>>

Init ==
  /\ main = "configure" /\ exit = "none" /\ signalled = FALSE
  /\ config = [env |-> "development", files |-> {}, require_client_cert |-> FALSE,
               auth |-> FALSE, agent_tokens |-> EmptyTable, audit_log |-> FALSE]
  /\ context = [made |-> FALSE, verify |-> FALSE]
  /\ socket = "none" /\ shutdown = FALSE /\ sweep_stop = FALSE
  /\ audit = "none" /\ unflushed = FALSE /\ serve = "none" /\ sweep = "none"
  /\ stage = [c \in Connections |-> "unsent"]
  /\ request = [c \in Connections |-> NoRequest]
  /\ identity = [c \in Connections |-> Nobody]
  /\ secure = {} /\ carried_out = {} /\ recorded = {}
  /\ answer = [c \in Connections |-> "none"]

\* The tokens: a file that is named wins over the inline list, and one that
\* cannot be used is an error rather than a reason to look elsewhere.
TokensUsable(file, fileUsable, inline) == IF file THEN fileUsable ELSE inline # "malformed"
TokensGiven(file, inline) == file \/ inline # "unset"

\* BrokerConfig.from_env.  Malformed numbers, tokens and whatever validate finds
\* are a ValueError, which main() turns into status 1.
FromEnv ==
  /\ main = "configure"
  /\ \E c \in Configs, readable \in SUBSET Files, numbersParse, file, fileUsable \in BOOLEAN,
        inline \in {"unset", "malformed", "given"} :
       /\ c.auth = TokensGiven(file, inline)
       /\ c.auth \/ c.agent_tokens = EmptyTable
       /\ \/ /\ TokensUsable(file, fileUsable, inline) /\ numbersParse /\ Valid(c, readable)
             /\ config' = c /\ Goto("build")
          \/ /\ ~(TokensUsable(file, fileUsable, inline) /\ numbersParse /\ Valid(c, readable))
             /\ ProcessEnds("1") /\ UNCHANGED config
  /\ UNCHANGED <<signalled, context, socket, audit, daemons, dealings>>

-----------------------------------------------------------------------------
(* build_broker and BrokerServer.__init__, on the main thread.             *)

\* Fault: a certificate is enough for a context.
BuildWithoutKey ==
  /\ main = "build"
  /\ IF "cert" \in config.files
     THEN context' = [context EXCEPT !.made = TRUE]
     ELSE UNCHANGED context
  /\ Goto("bind")
  /\ UNCHANGED <<signalled, config, socket, audit, daemons, dealings>>

\* A context is made when both files are set; a file that cannot be loaded by
\* now raises, which ends the process.
Build ==
  /\ main = "build"
  /\ IF {"cert", "key"} \subseteq config.files
     THEN \E loaded \in SUBSET config.files :
            IF loaded = config.files
            THEN context' = [context EXCEPT !.made = TRUE] /\ Goto("bind")
            ELSE ProcessEnds("1") /\ UNCHANGED context
     ELSE Goto("bind") /\ UNCHANGED context
  /\ UNCHANGED <<signalled, config, socket, audit, daemons, dealings>>

\* A client certificate cannot be required without a context, which is found
\* before the socket is bound; binding fails when the port is taken.
Bind ==
  /\ main = "bind"
  /\ \/ /\ config.require_client_cert => context.made
        /\ socket' = "bound" /\ Goto("wrap")
     \/ ProcessEnds("1") /\ UNCHANGED socket
  /\ UNCHANGED <<signalled, config, context, audit, daemons, dealings>>

Wrap ==
  /\ main = "wrap"
  /\ context' = [context EXCEPT !.verify = context.made /\ config.require_client_cert]
  /\ socket' = IF context.made THEN "wrapped" ELSE "plain"
  /\ Goto("audit")
  /\ UNCHANGED <<signalled, config, audit, daemons, dealings>>

OpenAudit ==
  /\ main = "audit"
  /\ \/ audit' = (IF config.audit_log THEN "open" ELSE "stdout") /\ Goto("start")
     \/ config.audit_log /\ ProcessEnds("1") /\ UNCHANGED audit
  /\ UNCHANGED <<signalled, config, context, socket, daemons, dealings>>

Start ==
  /\ main = "start"
  /\ serve' = "loop" /\ sweep' = "waiting"
  /\ Goto("install")
  /\ UNCHANGED <<signalled, config, context, socket, audit, shutdown, sweep_stop, dealings>>

-----------------------------------------------------------------------------
(* _run_until_signalled and BrokerServer.stop, on the main thread.         *)

Install ==
  /\ main = "install"
  /\ Goto("wait")
  /\ UNCHANGED <<signalled, config, context, socket, audit, daemons, dealings>>

\* Before the handlers are installed a signal kills the process; afterwards it
\* sets the event, a second time to no further effect.
Signal ==
  /\ Running /\ ~signalled
  /\ IF main \in {"configure", "build", "bind", "wrap", "audit", "start", "install"}
     THEN ProcessEnds("killed") /\ UNCHANGED signalled
     ELSE signalled' = TRUE /\ UNCHANGED <<main, exit, stage>>
  /\ UNCHANGED <<config, context, socket, audit, daemons, dealings>>

\* Fault: the sweep thread is not told to stop.
BeginStopUntold ==
  /\ main = "wait" /\ signalled
  /\ shutdown' = TRUE
  /\ Goto("shutdown")
  /\ UNCHANGED <<signalled, config, context, socket, audit, sweep_stop, serve, sweep, dealings>>

\* stop() begins: both loops are told, and shutdown() waits for the serve thread.
BeginStop ==
  /\ main = "wait" /\ signalled
  /\ sweep_stop' = TRUE /\ shutdown' = TRUE
  /\ Goto("shutdown")
  /\ UNCHANGED <<signalled, config, context, socket, audit, serve, sweep, dealings>>

CloseSocket ==
  /\ main = "shutdown" /\ serve = "ended"
  /\ socket' = "closed"
  /\ Goto("close_audit")
  /\ UNCHANGED <<signalled, config, context, audit, daemons, dealings>>

\* Closing the file flushes it once more, which can fail where a flush has failed
\* before: stop() breaks off there and main() with it, the loops unjoined.
CloseAudit ==
  /\ main = "close_audit"
  /\ audit' = IF audit = "open" THEN "closed" ELSE audit
  /\ \/ Goto("join")
     \/ audit = "open" /\ unflushed /\ ProcessEnds("1")
  /\ UNCHANGED <<signalled, config, context, socket, daemons, dealings>>

\* Fault: the sweep thread is not waited for.
JoinServeOnly ==
  /\ main = "join" /\ serve = "ended"
  /\ ProcessEnds("0")
  /\ UNCHANGED <<signalled, config, context, socket, audit, daemons, dealings>>

\* Handler threads are daemons and waited for by nobody.
Join ==
  /\ main = "join" /\ serve = "ended" /\ sweep = "ended"
  /\ ProcessEnds("0")
  /\ UNCHANGED <<signalled, config, context, socket, audit, daemons, dealings>>

-----------------------------------------------------------------------------
(* The sweep thread and the serve thread.                                  *)

\* The event is waited for between sweeps, and a sweep in progress is ended.
SweepTurn ==
  /\ Running
  /\ \/ sweep = "waiting" /\ sweep' = (IF sweep_stop THEN "ended" ELSE "sweeping")
     \/ sweep = "sweeping" /\ sweep' = "waiting"
  /\ UNCHANGED <<process, shutdown, sweep_stop, serve, stage, dealings>>

Pending == {c \in Connections : stage[c] = "pending"}
Advance(c, place) == stage' = [stage EXCEPT ![c] = place]

\* serve_forever looks at the shutdown request before it takes a connection,
\* which leaves time for the request to come in between.
ServeTurn ==
  /\ Running /\ serve = "loop"
  /\ \/ shutdown /\ serve' = "ended"
     \/ ~shutdown /\ Pending # {} /\ serve' = "accept"
  /\ UNCHANGED <<process, shutdown, sweep_stop, sweep, stage, dealings>>

\* accept() on a wrapped socket does the handshake, on the serve thread.
Accept(c) ==
  /\ Running /\ serve = "accept" /\ stage[c] = "pending"
  /\ IF socket = "wrapped"
     THEN serve' = "handshake" /\ Advance(c, "handshake")
     ELSE serve' = "loop" /\ Advance(c, "authenticate")
  /\ UNCHANGED <<process, shutdown, sweep_stop, sweep, dealings>>

\* Fault: a handshake that fails ends the serve thread.
HandshakeLoud(c) ==
  /\ Running /\ stage[c] = "handshake"
  /\ \/ /\ context.verify => request[c].certificate
        /\ secure' = secure \cup {c} /\ Advance(c, "authenticate") /\ serve' = "loop"
     \/ /\ Advance(c, "broken") /\ UNCHANGED secure /\ serve' = "ended"
  /\ UNCHANGED <<process, shutdown, sweep_stop, sweep, request, identity, answer,
                 carried_out, recorded, unflushed>>

\* It takes as long as the client takes.  One without the certificate that is
\* required fails, and any may: serve_forever goes on with the next.
Handshake(c) ==
  /\ Running /\ stage[c] = "handshake"
  /\ \/ /\ context.verify => request[c].certificate
        /\ secure' = secure \cup {c} /\ Advance(c, "authenticate")
     \/ /\ Advance(c, "broken") /\ UNCHANGED secure
  /\ serve' = "loop"
  /\ UNCHANGED <<process, shutdown, sweep_stop, sweep, request, identity, answer,
                 carried_out, recorded, unflushed>>

-----------------------------------------------------------------------------
(* Clients, and a handler thread per connection.                           *)

\* The kernel takes connections from the moment the socket is bound.
Connect(c) ==
  /\ Running /\ socket \in {"bound", "plain", "wrapped"}
  /\ stage[c] = "unsent"
  /\ \E r \in RequestKinds[c] : request' = [request EXCEPT ![c] = r]
  /\ Advance(c, "pending")
  /\ UNCHANGED <<process, daemons, identity, secure, answer, carried_out, recorded, unflushed>>

Handling(c, place) == Running /\ stage[c] = place
Respond(c, status) == Advance(c, "ended") /\ answer' = [answer EXCEPT ![c] = status]

\* A header settles it, also one that is no bearer token or an unknown one; the
\* query counts for the pages a browser reads.
Presented(r) == IF r.header # NoToken THEN r.header
                ELSE IF r.path = "read" THEN r.query ELSE NoToken
OwnersOf(token) == {a \in DOMAIN config.agent_tokens : config.agent_tokens[a] = token}

\* The health probe is open to all.  _token_to_agent keeps one of the agents
\* that share a token.
Authenticate(c) ==
  /\ Handling(c, "authenticate")
  /\ LET r == request[c]
         owners == OwnersOf(Presented(r))
     IN \/ r.path = "health" /\ Respond(c, "shown") /\ UNCHANGED identity
        \/ /\ r.path # "health" /\ ~config.auth
           /\ Advance(c, "limit") /\ UNCHANGED <<identity, answer>>
        \/ /\ r.path # "health" /\ config.auth /\ owners # {}
           /\ identity' = [identity EXCEPT ![c] = CHOOSE a \in owners : TRUE]
           /\ Advance(c, "limit") /\ UNCHANGED answer
        \/ /\ r.path # "health" /\ config.auth /\ owners = {}
           /\ Respond(c, "refused") /\ UNCHANGED identity
  /\ UNCHANGED <<process, daemons, request, secure, carried_out, recorded, unflushed>>

\* Whether the bucket of the identity has a token left is open (RetryingSend has
\* the bucket).  What only reads is answered here.
Limit(c) ==
  /\ Handling(c, "limit")
  /\ \/ Respond(c, "refused")
     \/ request[c].path = "read" /\ Respond(c, "shown")
     \/ request[c].path = "operate" /\ Advance(c, "operate") /\ UNCHANGED answer
  /\ UNCHANGED <<process, daemons, request, identity, secure, carried_out, recorded, unflushed>>

\* A body beyond the maximum is refused unread, an invalid request or one of a
\* forbidden agent is rejected, a poll may find nothing; the rest takes effect.
Operate(c) ==
  /\ Handling(c, "operate")
  /\ \/ Respond(c, "refused") /\ UNCHANGED carried_out
     \/ Respond(c, "shown") /\ UNCHANGED carried_out
     \/ Advance(c, "reject") /\ UNCHANGED <<answer, carried_out>>
     \/ /\ carried_out' = carried_out \cup {c}
        /\ Advance(c, "record") /\ UNCHANGED answer
  /\ UNCHANGED <<process, daemons, request, identity, secure, recorded, unflushed>>

\* _AuditLogger.log.  A file that stop() has closed, or that cannot be written,
\* raises; what could not be flushed stays in the buffer until a later flush
\* succeeds (it does not count as recorded).
Logged(c) ==
  /\ audit # "closed"
  /\ recorded' = recorded \cup {c} /\ unflushed' = FALSE
LogRaises ==
  /\ unflushed' \in {unflushed, unflushed \/ audit = "open"}
  /\ UNCHANGED recorded

\* Fault: a record that cannot be written is no reason not to answer.
RecordLeniently(c) ==
  /\ Handling(c, "record")
  /\ Logged(c) \/ LogRaises
  /\ Advance(c, "reply")
  /\ UNCHANGED <<process, daemons, request, identity, secure, answer, carried_out>>

\* The record comes before the answer: one that raises ends the handler
\* unanswered.
Record(c) ==
  /\ Handling(c, "record")
  /\ \/ Logged(c) /\ Advance(c, "reply")
     \/ LogRaises /\ Advance(c, "broken")
  /\ UNCHANGED <<process, daemons, request, identity, secure, answer, carried_out>>

Reply(c) ==
  /\ Handling(c, "reply")
  /\ \/ Respond(c, "done")
     \/ Advance(c, "broken") /\ UNCHANGED answer
  /\ UNCHANGED <<process, daemons, request, identity, secure, carried_out, recorded, unflushed>>

\* A rejection is answered first and recorded afterwards, if the client is still
\* there to be answered.
Reject(c) ==
  /\ Handling(c, "reject")
  /\ \/ /\ answer' = [answer EXCEPT ![c] = "refused"]
        /\ Advance(c, "record_rejection")
     \/ Advance(c, "broken") /\ UNCHANGED answer
  /\ UNCHANGED <<process, daemons, request, identity, secure, carried_out, recorded, unflushed>>

RecordRejection(c) ==
  /\ Handling(c, "record_rejection")
  /\ Advance(c, "ended")
  /\ Logged(c) \/ LogRaises
  /\ UNCHANGED <<process, daemons, request, identity, secure, answer, carried_out>>

-----------------------------------------------------------------------------
(* The service.                                                            *)

MainStep ==
  \/ FromEnv \/ Build \/ Bind \/ Wrap \/ OpenAudit \/ Start \/ Install
  \/ BeginStop \/ CloseSocket \/ CloseAudit \/ Join

ServeStep == ServeTurn \/ \E c \in Connections : Accept(c)

HandlerStep(c) ==
  \/ Authenticate(c) \/ Limit(c) \/ Operate(c) \/ Record(c) \/ Reply(c)
  \/ Reject(c) \/ RecordRejection(c)

Next ==
  \/ MainStep \/ ServeStep \/ SweepTurn \/ Signal
  \/ \E c \in Connections : Connect(c) \/ Handshake(c) \/ HandlerStep(c)

Spec == Init /\ [][Next]_vars

\* The threads of the process run.  Nothing is assumed of clients: a handshake
\* may never end, nor a handler that waits for its client or for a message.
FairSpec ==
  /\ Spec
  /\ WF_vars(MainStep) /\ WF_vars(ServeStep)
  /\ WF_vars(SweepTurn)

-----------------------------------------------------------------------------
(* Safety.                                                                 *)

Places == {"configure", "build", "bind", "wrap", "audit", "start", "install", "wait",
           "shutdown", "close_audit", "join", "ended"}
Setup == {"configure", "build", "bind", "wrap", "audit", "start"}
Stopping == {"shutdown", "close_audit", "join"}
Stages == {"unsent", "pending", "handshake", "authenticate", "limit", "operate", "record",
           "reply", "reject", "record_rejection", "ended", "broken"}
Answers == {"none", "shown", "done", "refused"}

\* Types, and the places that go together: the process has a status when it has
\* ended; the serve and the sweep thread run once the main thread has started
\* them and end only when told to; the socket is closed after the serve loop has
\* ended; the serve thread does at most the one handshake; a TLS context stands
\* for a certificate and a key that were both configured.
TypeOK ==
  /\ main \in Places /\ exit \in {"none", "0", "1", "killed"} /\ signalled \in BOOLEAN
  /\ exit = "none" <=> Running
  /\ config.env \in Envs \cup {"development"} /\ config.files \subseteq Files
  /\ context.made => {"cert", "key"} \subseteq config.files
  /\ socket \in {"none", "bound", "plain", "wrapped", "closed"}
  /\ shutdown \in BOOLEAN /\ sweep_stop \in BOOLEAN
  /\ serve \in {"none", "loop", "accept", "handshake", "ended"}
  /\ sweep \in {"none", "waiting", "sweeping", "ended"}
  /\ audit \in {"none", "stdout", "open", "closed"} /\ unflushed \in BOOLEAN
  /\ main \in Setup => serve = "none"
  /\ main \in Stopping \cup {"wait", "install"} => serve # "none"
  /\ serve = "none" <=> sweep = "none"
  /\ serve = "ended" => shutdown
  /\ sweep = "ended" => sweep_stop
  /\ main \in {"close_audit", "join"} => socket = "closed"
  /\ socket = "closed" => serve = "ended"
  /\ stage \in [Connections -> Stages] /\ answer \in [Connections -> Answers]
  /\ Cardinality({c \in Connections : stage[c] = "handshake"})
       <= IF serve = "handshake" THEN 1 ELSE 0
  /\ identity \in [Connections -> Agents \cup {Nobody}]
  /\ secure \subseteq Connections /\ recorded \subseteq Connections

\* The requests that saw or changed something behind the authentication.
Admitted == carried_out \cup {c \in Connections : /\ request[c].path = "read"
                                                  /\ answer[c] = "shown"}

\* deployment.md: in production "no plaintext or anonymous-auth code path is
\* reachable", whatever was set or left unset, and whatever happened to the files
\* since they were checked.  In every mode, tokens that were configured and
\* client certificates that were required are what a request had to have.
Secured ==
  \A c \in Admitted :
    /\ config.env # "development" => c \in secure /\ config.auth
    /\ config.auth =>
         /\ identity[c] \in DOMAIN config.agent_tokens
         /\ config.agent_tokens[identity[c]]
              \in {request[c].header} \cup (IF c \in carried_out THEN {} ELSE {request[c].query})
    /\ config.require_client_cert => c \in secure /\ request[c].certificate

\* A client that is told its operation was done can rely on the audit log to say
\* so, also when the service was stopping.
AnsweredIsRecorded == \A c \in Connections : answer[c] = "done" => c \in recorded

\* The status tells how the process went.  0 is a stop that was asked for and is
\* complete.  1 is a start that failed before any connection was accepted, or a
\* stop that was asked for and broke off at an audit log some line of which could
\* not be written, when nothing was served any more: a broker that served and
\* whose log is whole never ends with 1.
ExitHonest ==
  /\ exit = "0" => /\ signalled /\ socket = "closed" /\ audit # "open"
                   /\ serve = "ended" /\ sweep = "ended"
  /\ exit = "1" =>
       \/ /\ serve = "none" /\ \A c \in Connections : answer[c] = "none"
          /\ secure = {} /\ recorded = {}
       \/ /\ signalled /\ socket = "closed" /\ serve = "ended"
          /\ audit = "closed" /\ unflushed

-----------------------------------------------------------------------------
(* Liveness.                                                               *)

\* A signalled service ends, however many handlers wait for their clients, unless
\* a client keeps the serve thread in a handshake for ever: stop() waits for it.
SignalEndsService == [](signalled => <>(~Running \/ [](serve = "handshake")))

\* A running service accepts whatever connects, however the handshakes before it
\* ended, with the same exception.
ConnectionsAccepted ==
  \A c \in Connections :
    [](stage[c] = "pending" /\ Running
         => <>(stage[c] # "pending" \/ signalled \/ [](serve = "handshake")))

=============================================================================
