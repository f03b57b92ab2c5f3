-------------------------------- MODULE WebShell --------------------------------
(***************************************************************************)
(* The shell in the administrator's browser: one connection, one shell, and *)
(* the four goroutines of the handler, which end through one WaitGroup.     *)
(***************************************************************************)
EXTENDS Naturals

CONSTANT ErrorLimit  \* ConnectionErrorLimit

ASSUME ShellAssumption == ErrorLimit \in Nat

VARIABLES
    waiter,      \* the counter of the WaitGroup, plus 1
    handler,     \* "wait", "close", "ended"
    keepalive,   \* "ping", "write", "sleep", "timeout" or "failed"
    unanswered,  \* sleeps of the keep-alive loop since the last pong
    output,      \* from the tty to the browser: "read", "write", "bye" or "ended"
    errors,      \* errorCounter
    input,       \* from the browser to the tty: "read" or "ended"
    connection,  \* "open", "silent" (the browser is gone), "closed"
    shell,       \* "runs", "ended"
    alive        \* the process runs

shellVars == <<waiter, handler, keepalive, unanswered, output, errors, input, connection, shell, alive>>

ShellInit ==
    /\ waiter = 2 /\ handler = "wait"
    /\ keepalive = "ping" /\ unanswered = 1
    /\ output = "read" /\ errors = 0
    /\ input = "read"
    /\ connection = "open" /\ shell = "runs" /\ alive = TRUE

--------------------------------------------------------------------------------
(* The connection and the WaitGroup *)

\* Two goroutines that write at once: the library notices it, or not.
MayPanic == keepalive = "write" /\ output \in {"write", "bye"}

\* A browser that is gone without a word lets what is written to it go for a while.
MaySucceed == connection # "closed"
MayFail == connection # "open"

\* A counter below zero is a panic, and nothing recovers from it in a goroutine.
Done ==
    /\ waiter' = waiter - 1
    /\ alive' = (waiter > 1)

NotDone == UNCHANGED <<waiter, alive>>

\* The library's panic, too, ends the process.
Panic ==
    /\ alive /\ MayPanic
    /\ alive' = FALSE
    /\ UNCHANGED <<waiter, handler, keepalive, unanswered, output, errors, input, connection, shell>>

--------------------------------------------------------------------------------
(* The keep-alive loop *)

KeepaliveIs(at) == alive /\ keepalive = at

Ping ==
    /\ KeepaliveIs("ping")
    /\ keepalive' = "write"
    /\ NotDone
    /\ UNCHANGED <<handler, unanswered, output, errors, input, connection, shell>>

\* Broken: a ping that fails ends the handler, too.
PingedDone ==
    /\ KeepaliveIs("write")
    /\ \/ MaySucceed /\ keepalive' = "sleep" /\ NotDone
       \/ MayFail /\ keepalive' = "failed" /\ Done
    /\ UNCHANGED <<handler, unanswered, output, errors, input, connection, shell>>

Pinged ==
    /\ KeepaliveIs("write")
    /\ \/ MaySucceed /\ keepalive' = "sleep"
       \/ MayFail /\ keepalive' = "failed"
    /\ NotDone
    /\ UNCHANGED <<handler, unanswered, output, errors, input, connection, shell>>

\* Half the timeout later: the last pong is older than the timeout when two sleeps
\* have passed since, and the one in which it came.
Wake ==
    /\ KeepaliveIs("sleep")
    /\ IF unanswered = 2
       THEN keepalive' = "timeout" /\ Done /\ UNCHANGED unanswered
       ELSE keepalive' = "ping" /\ NotDone /\ unanswered' = unanswered + 1
    /\ UNCHANGED <<handler, output, errors, input, connection, shell>>

--------------------------------------------------------------------------------
(* From the tty to the browser *)

OutputIs(at) == alive /\ output = at

\* A tty whose shell has ended gives an error; a shell that runs need say nothing.
ReadTty ==
    /\ OutputIs("read")
    /\ IF errors > ErrorLimit
       THEN output' = "ended" /\ Done
       ELSE output' = (IF shell = "runs" THEN "write" ELSE "bye") /\ NotDone
    /\ UNCHANGED <<handler, keepalive, unanswered, errors, input, connection, shell>>

WriteBrowser ==
    /\ OutputIs("write")
    /\ output' = "read"
    /\ \/ MaySucceed /\ errors' = 0
       \/ MayFail /\ errors' = errors + 1
    /\ NotDone
    /\ UNCHANGED <<handler, keepalive, unanswered, input, connection, shell>>

\* Broken: the goroutine ends without Done.
SayByeOnly ==
    /\ OutputIs("bye")
    /\ output' = "ended"
    /\ NotDone
    /\ UNCHANGED <<handler, keepalive, unanswered, errors, input, connection, shell>>

SayBye ==
    /\ OutputIs("bye")
    /\ output' = "ended"
    /\ Done
    /\ UNCHANGED <<handler, keepalive, unanswered, errors, input, connection, shell>>

--------------------------------------------------------------------------------
(* From the browser to the tty *)

\* The pong handler runs in this goroutine. What is typed may end the shell.
ReadBrowser ==
    /\ alive /\ input = "read"
    /\ \/ connection = "open" /\ unanswered' = 0 /\ UNCHANGED <<input, shell>>
       \/ connection = "open" /\ shell' = "ended" /\ UNCHANGED <<input, unanswered>>
       \/ MayFail /\ input' = "ended" /\ UNCHANGED <<unanswered, shell>>
    /\ NotDone
    /\ UNCHANGED <<handler, keepalive, output, errors, connection>>

--------------------------------------------------------------------------------
(* The handler *)

Wait ==
    /\ alive /\ handler = "wait" /\ waiter = 1
    /\ handler' = "close"
    /\ NotDone
    /\ UNCHANGED <<keepalive, unanswered, output, errors, input, connection, shell>>

\* The deferred function kills the shell and closes the tty and the connection.
Close ==
    /\ alive /\ handler = "close"
    /\ handler' = "ended" /\ shell' = "ended" /\ connection' = "closed"
    /\ NotDone
    /\ UNCHANGED <<keepalive, unanswered, output, errors, input>>

\* The browser goes away, with a close message or without.
Leave ==
    /\ alive
    /\ \/ connection = "open" /\ connection' \in {"silent", "closed"}
       \/ connection = "silent" /\ connection' = "closed"
    /\ NotDone
    /\ UNCHANGED <<handler, keepalive, unanswered, output, errors, input, shell>>

\* The page is opened again: after the goroutines have ended, or by another process.
OpenShell ==
    /\ \/ ~ alive
       \/ /\ handler = "ended" /\ output = "ended" /\ input = "ended"
          /\ keepalive \in {"timeout", "failed"}
    /\ waiter' = 2 /\ handler' = "wait"
    /\ keepalive' = "ping" /\ unanswered' = 1
    /\ output' = "read" /\ errors' = 0
    /\ input' = "read"
    /\ connection' = "open" /\ shell' = "runs" /\ alive' = TRUE

ShellNext ==
    \/ Panic \/ Ping \/ Pinged \/ Wake
    \/ ReadTty \/ WriteBrowser \/ SayBye \/ ReadBrowser
    \/ Wait \/ Close \/ Leave \/ OpenShell

\* The goroutines run; a tty gives its error at once when the shell has ended.
ShellFairness ==
    WF_shellVars(Wait \/ Close \/ (shell = "ended" /\ ReadTty) \/ WriteBrowser \/ SayBye)

ShellSpec == ShellInit /\ [][ShellNext]_shellVars /\ ShellFairness

--------------------------------------------------------------------------------
\* When the shell ends, so does the handler, unless the process ended before
\* (handler_websocket.go:143-151, 218).
EndOfShellEndsHandler == shell = "ended" ~> handler = "ended" \/ ~ alive

\* The counter goes below zero only after a pong was missed: the browser's leaving
\* and the shell's ending alone count once (handler_websocket.go:115-128, 137-151).
OneDoneWithoutTimeout == waiter = 0 => keepalive = "timeout"

\* "failed to get response from ping, triggering disconnect now...": the handler is
\* told to disconnect, and the process goes on (handler_websocket.go:123-127).
MissedPongDisconnects == keepalive = "timeout" /\ handler = "ended" => waiter > 0

=============================================================================
