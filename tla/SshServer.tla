----------------------------- MODULE SshServer ------------------------------
(***************************************************************************)
(* The SSH server (net/SshServer.cpp): a page or the boot starts and stops   *)
(* it, one accept task owns the listening socket, every connection gets a    *)
(* session task of its own.                                                  *)
(*                                                                         *)
(* running is shared by all three.  The accept task notices a stop by        *)
(* itself and frees the listener it works with; stop() waits for that three  *)
(* seconds, and for the sessions three more, and never frees anything.  A    *)
(* task may stay inside libssh (the accept, the key exchange) or inside a    *)
(* command for as long as it likes, so either wait may run out.              *)
(*                                                                         *)
(* Calls of start() and stop() follow one another here: what overlapping     *)
(* calls do to a server is the subject of Services.                          *)
(***************************************************************************)
EXTENDS Naturals, FiniteSets

CONSTANTS
    MaxSessions,        \* kMaxSessions
    AttemptsMax,        \* kAuthAttemptsMax
    Connection          \* the connections there may be at once: 1..n

ASSUME SshAssumption ==
    /\ MaxSessions \in Nat \ {0}
    /\ AttemptsMax \in Nat \ {0}
    /\ IsFiniteSet(Connection) /\ Connection = 1..Cardinality(Connection)

Listener == {1, 2}      \* an ssh_bind; a freed one may be allocated again
NoListener == 0

VARIABLES
    running,            \* running_
    bind,               \* bind_
    listening,          \* the listeners that are allocated: each holds the port
    acceptTask,         \* acceptTask_: the listener of the task whose handle it is
    loop,               \* what the accept task made for a listener is doing
    control,            \* where a call of start() or stop() stands
    session,            \* the sessions
    active              \* activeSessions_

sshVars == <<running, bind, listening, acceptTask, loop, control, session, active>>

NoSession == [step |-> "none", wrong |-> 0, passed |-> FALSE, asked |-> "nothing"]

Sessions ==
    [step : {"none", "exchange", "login", "shell", "command", "browser", "closing"},
     wrong : 0..AttemptsMax, passed : BOOLEAN, asked : {"nothing", "channel", "shell"}]

Alive == {c \in Connection : session[c].step # "none"}

SshTypeOK ==
    /\ running \in BOOLEAN
    /\ bind \in Listener \cup {NoListener}
    /\ listening \subseteq Listener
    /\ acceptTask \in Listener \cup {NoListener}
    /\ loop \in [Listener -> {"none", "poll", "accept", "judged", "leaving", "freed"}]
    /\ control \in {"idle", "listen", "create", "handle", "stopping", "sessions"}
    /\ session \in [Connection -> Sessions]
    /\ active \in 0..Cardinality(Connection)

SshInit ==
    /\ running = FALSE
    /\ bind = NoListener
    /\ listening = {}
    /\ acceptTask = NoListener
    /\ loop = [b \in Listener |-> "none"]
    /\ control = "idle"
    /\ session = [c \in Connection |-> NoSession]
    /\ active = 0

-----------------------------------------------------------------------------
\* start() on a server that is off; refused while the last accept task is
\* there.  The host key and the library may fail: then nothing has changed.
start ==
    /\ control = "idle" /\ ~running
    /\ acceptTask = NoListener
    /\ control' = "listen"
    /\ UNCHANGED <<running, bind, listening, acceptTask, loop, session, active>>

\* No key, no memory, or the port is taken.
start_Fails ==
    /\ control = "listen"
    /\ control' = "idle"
    /\ UNCHANGED <<running, bind, listening, acceptTask, loop, session, active>>

\* ssh_bind_listen: the port is free, and the server is on.
start_Listen ==
    /\ control = "listen" /\ listening = {}
    /\ \E b \in Listener :
        /\ loop[b] = "none"
        /\ bind' = b
        /\ listening' = {b}
    /\ running' = TRUE
    /\ control' = "create"
    /\ UNCHANGED <<acceptTask, loop, session, active>>

\* The accept task; without memory for one everything is taken back.
start_Create ==
    /\ control = "create"
    /\ \/ /\ loop' = [loop EXCEPT ![bind] = "poll"]
          /\ control' = "handle"
          /\ UNCHANGED <<running, bind, listening>>
       \/ /\ running' = FALSE
          /\ bind' = NoListener
          /\ listening' = listening \ {bind}
          /\ control' = "idle"
          /\ UNCHANGED loop
    /\ UNCHANGED <<acceptTask, session, active>>

start_Handle ==
    /\ control = "handle"
    /\ acceptTask' = bind
    /\ control' = "idle"
    /\ UNCHANGED <<running, bind, listening, loop, session, active>>

stop ==
    /\ control = "idle" /\ running
    /\ running' = FALSE
    /\ control' = "stopping"
    /\ UNCHANGED <<bind, listening, acceptTask, loop, session, active>>

\* As if: a task that is stuck lost its listener when the wait is over.
stop_AcceptWaited_Frees ==
    /\ control = "stopping"
    /\ \/ acceptTask = NoListener /\ control' = "sessions" /\ UNCHANGED <<bind, listening>>
       \/ /\ acceptTask # NoListener
          /\ control' = "idle"
          /\ listening' = listening \ {bind}
          /\ bind' = NoListener
    /\ UNCHANGED <<running, acceptTask, loop, session, active>>

\* The wait for the accept task is over when it has left or after three
\* seconds: then it keeps its listener and stop() ends.
stop_AcceptWaited ==
    /\ control = "stopping"
    /\ control' = IF acceptTask = NoListener THEN "sessions" ELSE "idle"
    /\ UNCHANGED <<running, bind, listening, acceptTask, loop, session, active>>

\* As if: stop() waited for the last session, however long its command takes.
stop_SessionsWaited_All ==
    /\ control = "sessions" /\ Alive = {}
    /\ control' = "idle"
    /\ UNCHANGED <<running, bind, listening, acceptTask, loop, session, active>>

\* The wait for the sessions: over when the last has gone or after three
\* seconds, whatever they are busy with.
stop_SessionsWaited ==
    /\ control = "sessions"
    /\ control' = "idle"
    /\ UNCHANGED <<running, bind, listening, acceptTask, loop, session, active>>

-----------------------------------------------------------------------------
\* The top of the accept loop: off, no listener, or a client at the door.
acceptLoop(b) ==
    /\ loop[b] = "poll"
    /\ \/ (~running \/ bind = NoListener) /\ loop' = [loop EXCEPT ![b] = "leaving"]
       \/ running /\ bind # NoListener /\ loop' = [loop EXCEPT ![b] = "accept"]
    /\ UNCHANGED <<running, bind, listening, acceptTask, control, session, active>>

\* The connection: none after all, one that came too late, one from outside
\* the own subnet, or one to serve.
acceptLoop_Accepted(b) ==
    /\ loop[b] = "accept"
    /\ \/ loop' = [loop EXCEPT ![b] = IF running THEN "poll" ELSE "leaving"]
       \/ running /\ loop' = [loop EXCEPT ![b] = "judged"]
    /\ UNCHANGED <<running, bind, listening, acceptTask, control, session, active>>

\* The limit and the session task; without memory for either the connection is
\* dropped.  The session task sits one priority below and cannot have run yet.
acceptLoop_Serve(b) ==
    /\ loop[b] = "judged"
    /\ loop' = [loop EXCEPT ![b] = "poll"]
    /\ \/ UNCHANGED <<session, active>>
       \/ /\ active < MaxSessions
          /\ \E c \in Connection :
              /\ session[c].step = "none"
              /\ \A d \in Connection : d < c => session[d].step # "none"
              /\ session' = [session EXCEPT ![c] = [NoSession EXCEPT !.step = "exchange"]]
          /\ active' = active + 1
    /\ UNCHANGED <<running, bind, listening, acceptTask, control>>

\* The loop is over: ssh_bind_free of whatever bind_ holds.
acceptLoop_Free(b) ==
    /\ loop[b] = "leaving"
    /\ listening' = listening \ {bind}
    /\ loop' = [loop EXCEPT ![b] = "freed"]
    /\ UNCHANGED <<running, bind, acceptTask, control, session, active>>

acceptLoop_Gone(b) ==
    /\ loop[b] = "freed"
    /\ bind' = NoListener
    /\ acceptTask' = NoListener
    /\ loop' = [loop EXCEPT ![b] = "none"]
    /\ UNCHANGED <<running, listening, control, session, active>>

-----------------------------------------------------------------------------
moves(c, to) == session' = [session EXCEPT ![c].step = to]
otherVars == <<running, bind, listening, acceptTask, loop, control>>

\* The key exchange; it may fail, and so may what prepares the login.
runSession(c) ==
    /\ session[c].step = "exchange"
    /\ \E to \in {"login", "closing"} : moves(c, to)
    /\ UNCHANGED <<otherVars, active>>

\* As if: the tries were counted and never compared.
onAuthPassword_Endless(c, right) ==
    /\ session[c].step = "login"
    /\ session' = [session EXCEPT ![c].passed = @ \/ right,
                       ![c].wrong = IF right \/ @ = AttemptsMax THEN @ ELSE @ + 1]
    /\ UNCHANGED <<otherVars, active>>

\* A password: none is looked at once the session has given up.
onAuthPassword(c, right) ==
    /\ session[c].step = "login"
    /\ session[c].wrong < AttemptsMax
    /\ session' = [session EXCEPT ![c].passed = @ \/ right,
                       ![c].wrong = IF right THEN @ ELSE @ + 1]
    /\ UNCHANGED <<otherVars, active>>

\* One channel per session, and a shell on it.
onChannelOpen(c) ==
    /\ session[c].step = "login" /\ session[c].asked = "nothing"
    /\ session' = [session EXCEPT ![c].asked = "channel"]
    /\ UNCHANGED <<otherVars, active>>

onShellRequest(c) ==
    /\ session[c].step = "login" /\ session[c].asked = "channel"
    /\ session' = [session EXCEPT ![c].asked = "shell"]
    /\ UNCHANGED <<otherVars, active>>

\* The poll of the login ends: the shell is asked for, the session gave up, the
\* server is off, or the connection broke.  Only a password opens the console.
runSession_Login(c) ==
    /\ session[c].step = "login"
    /\ LET s == session[c] IN
        \/ s.asked = "shell" /\ s.passed /\ moves(c, "shell")
        \/ ~(s.asked = "shell" /\ s.passed) /\ moves(c, "closing")
    /\ UNCHANGED <<otherVars, active>>

\* The console: it looks at running_ between two lines, and inside the browser.
runSession_Shell(c) ==
    /\ session[c].step \in {"shell", "browser"}
    /\ \/ running /\ session[c].step = "shell" /\ \E to \in {"command", "browser"} : moves(c, to)
       \/ session[c].step = "browser" /\ moves(c, "shell")
       \/ session[c].step = "shell" /\ moves(c, "closing")
    /\ UNCHANGED <<otherVars, active>>

\* A line is carried out; `exit` ends the session.
runConsoleLine(c) ==
    /\ session[c].step = "command"
    /\ \E to \in {"shell", "closing"} : moves(c, to)
    /\ UNCHANGED <<otherVars, active>>

runSession_Close(c) ==
    /\ session[c].step = "closing"
    /\ session' = [session EXCEPT ![c] = NoSession]
    /\ active' = active - 1
    /\ UNCHANGED otherVars

controlStep ==
    \/ start_Fails \/ start_Listen \/ start_Create \/ start_Handle
    \/ stop_AcceptWaited \/ stop_SessionsWaited

acceptStep == \E b \in Listener :
    acceptLoop(b) \/ acceptLoop_Serve(b) \/ acceptLoop_Free(b) \/ acceptLoop_Gone(b)

\* What a session does without waiting for its client or the library.
sessionStep == \E c \in Connection :
    \/ ~running /\ (runSession_Login(c) \/ runSession_Shell(c))
    \/ runSession_Close(c)

SshNext ==
    \/ start \/ stop \/ controlStep \/ acceptStep
    \/ \E b \in Listener : acceptLoop_Accepted(b)
    \/ \E c \in Connection :
        \/ runSession(c) \/ onChannelOpen(c) \/ onShellRequest(c)
        \/ \E right \in BOOLEAN : onAuthPassword(c, right)
        \/ runSession_Login(c) \/ runSession_Shell(c) \/ runConsoleLine(c)
        \/ runSession_Close(c)

-----------------------------------------------------------------------------
\* An accept task works with the listener that was made for it, and nobody has
\* freed that one under it (the panic the comment of stop() is about); a server
\* that is on and not being started has such a task.
LoopHasListener ==
    /\ \A b \in Listener : loop[b] \in {"poll", "accept", "judged", "leaving"}
                            => bind = b /\ b \in listening
    /\ running /\ control = "idle" => \E b \in Listener : acceptTask = b /\ loop[b] # "none"

\* Never more sessions than kMaxSessions, those of an earlier start included: a
\* session in a command may outlive the stop and the next start.
SessionsBounded == Cardinality(Alive) <= MaxSessions

\* A session that used up its wrong passwords never gets a console any more,
\* whatever its client asks for and in whatever order, right password included.
ShellIsEarned ==
    [][\A c \in Connection :
        session[c].wrong = AttemptsMax /\ ~session[c].passed
            => ~session'[c].passed /\ session'[c].step # "shell"]_sshVars

\* Switched off, and a task of it still goes on by itself, the library and a
\* command aside.
SshBusy ==
    /\ ~running
    /\ \/ control # "idle"
       \/ \E b \in Listener : loop[b] \in {"poll", "judged", "leaving", "freed"}
       \/ \E c \in Connection : session[c].step \in {"login", "shell", "browser", "closing"}
=============================================================================
