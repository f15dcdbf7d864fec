--------------------------- MODULE WebSocketClient ---------------------------
(***************************************************************************)
(* WebSocketClient (src/src/okx_ws_client.cpp): the thread of the          *)
(* application that calls subscribe() and run() and destroys the client,   *)
(* and the thread that run() spawns for the io_context.                    *)
(*                                                                         *)
(* The session (WebSocketSession) is here only alive or not: while it is,  *)
(* the context has outstanding work.  A step of a thread is one access to  *)
(* what the two share: isRunning, the context and the thread handle.       *)
(***************************************************************************)
VARIABLES
  isRunning,
  joinable,   \* ioThread holds a thread
  stopped,    \* ioContext.stopped()
  session,    \* the session is alive
  io,         \* where ioThread is
  user,       \* where the application's thread is
  thrown      \* an exception has escaped from a completion handler

vars == <<isRunning, joinable, stopped, session, io, user, thrown>>

TypeOK ==
  /\ isRunning \in BOOLEAN
  /\ joinable \in BOOLEAN
  /\ stopped \in BOOLEAN
  /\ session \in BOOLEAN
  /\ io \in {"none", "top", "check", "restart", "run", "returned", "exit", "ended"}
  /\ thrown \in BOOLEAN
  /\ user \in {"idle", "run", "set", "join", "spawn", "dtorJoin", "destroyed"}

Init ==
  /\ isRunning = FALSE
  /\ joinable = FALSE
  /\ stopped = FALSE
  /\ session = FALSE
  /\ io = "none"
  /\ user = "idle"
  /\ thrown = FALSE

-----------------------------------------------------------------------------
(* The application's thread.                                               *)

\* A live session takes the request, otherwise there is a new one.  As in
\* WSStreamManager, subscribe() is followed by run().
Subscribe ==
  /\ user = "idle"
  /\ session' = TRUE
  /\ user' = "run"
  /\ UNCHANGED <<isRunning, joinable, stopped, io, thrown>>

CallRun ==
  /\ user = "idle"
  /\ user' = "run"
  /\ UNCHANGED <<isRunning, joinable, stopped, session, io, thrown>>

\* Mutant: the test is inverted.
MutRunInverted ==
  /\ user = "run"
  /\ user' = IF isRunning THEN "set" ELSE "idle"
  /\ UNCHANGED <<isRunning, joinable, stopped, session, io, thrown>>

RunCheck ==
  /\ user = "run"
  /\ user' = IF isRunning THEN "idle" ELSE "set"
  /\ UNCHANGED <<isRunning, joinable, stopped, session, io, thrown>>

\* Mutant: the old thread is not joined.
MutSetNoJoin ==
  /\ user = "set"
  /\ isRunning' = TRUE
  /\ user' = "spawn"
  /\ UNCHANGED <<joinable, stopped, session, io, thrown>>

RunSet ==
  /\ user = "set"
  /\ isRunning' = TRUE
  /\ user' = IF joinable THEN "join" ELSE "spawn"
  /\ UNCHANGED <<joinable, stopped, session, io, thrown>>

RunJoin ==
  /\ user = "join"
  /\ io = "ended"
  /\ joinable' = FALSE
  /\ user' = "spawn"
  /\ UNCHANGED <<isRunning, stopped, session, io, thrown>>

RunSpawn ==
  /\ user = "spawn"
  /\ joinable' = TRUE
  /\ io' = "top"
  /\ user' = "idle"
  /\ UNCHANGED <<isRunning, stopped, session, thrown>>

Destroy ==
  /\ user = "idle"
  /\ stopped' = TRUE
  /\ user' = IF joinable THEN "dtorJoin" ELSE "destroyed"
  /\ UNCHANGED <<isRunning, joinable, session, io, thrown>>

DestroyJoin ==
  /\ user = "dtorJoin"
  /\ io = "ended"
  /\ joinable' = FALSE
  /\ user' = "destroyed"
  /\ UNCHANGED <<isRunning, stopped, session, io, thrown>>

-----------------------------------------------------------------------------
(* The thread of the context.                                              *)

\* Mutant: the flag is left to run().
MutTopUnset ==
  /\ io = "top"
  /\ io' = "check"
  /\ UNCHANGED <<isRunning, joinable, stopped, session, user, thrown>>

IoTop ==
  /\ io = "top"
  /\ isRunning' = TRUE
  /\ io' = "check"
  /\ UNCHANGED <<joinable, stopped, session, user, thrown>>

IoCheck ==
  /\ io = "check"
  /\ io' = IF stopped THEN "restart" ELSE "run"
  /\ UNCHANGED <<isRunning, joinable, stopped, session, user, thrown>>

IoRestart ==
  /\ io = "restart"
  /\ stopped' = FALSE
  /\ io' = "run"
  /\ UNCHANGED <<isRunning, joinable, session, user, thrown>>

\* The last handler that holds the session is gone.
IoSessionEnds ==
  /\ io = "run"
  /\ session
  /\ session' = FALSE
  /\ UNCHANGED <<isRunning, joinable, stopped, io, user, thrown>>

\* A context without work stops itself.
IoOutOfWork ==
  /\ io = "run"
  /\ ~session /\ ~stopped
  /\ stopped' = TRUE
  /\ UNCHANGED <<isRunning, joinable, session, io, user, thrown>>

\* The exception is logged and the loop starts again.
IoThrow ==
  /\ io = "run"
  /\ session
  /\ session' \in BOOLEAN
  /\ io' = "top"
  /\ thrown' = TRUE
  /\ UNCHANGED <<isRunning, joinable, stopped, user>>

\* Mutant: the loop is not left.
MutRunAgain ==
  /\ io = "run"
  /\ stopped
  /\ io' = "top"
  /\ UNCHANGED <<isRunning, joinable, stopped, session, user, thrown>>

IoRunReturns ==
  /\ io = "run"
  /\ stopped
  /\ io' = "returned"
  /\ UNCHANGED <<isRunning, joinable, stopped, session, user, thrown>>

\* isRunning is cleared twice, after the context and at the end of the thread.
IoClear ==
  /\ io = "returned"
  /\ isRunning' = FALSE
  /\ io' = "exit"
  /\ UNCHANGED <<joinable, stopped, session, user, thrown>>

IoClearAgain ==
  /\ io = "exit"
  /\ isRunning' = FALSE
  /\ io' = "ended"
  /\ UNCHANGED <<joinable, stopped, session, user, thrown>>

-----------------------------------------------------------------------------
User == Subscribe \/ CallRun \/ RunCheck \/ RunSet \/ RunJoin \/ RunSpawn
        \/ Destroy \/ DestroyJoin

\* What the thread does by itself, whatever becomes of the session.
IoStep == IoTop \/ IoCheck \/ IoRestart \/ IoOutOfWork \/ IoRunReturns
          \/ IoClear \/ IoClearAgain

Next == User \/ IoStep \/ IoSessionEnds \/ IoThrow

Spec == Init /\ [][Next]_vars

\* Both threads are scheduled: a call that has begun goes on, and so does the
\* thread of the context.  A session need not end, nor the application call.
FairSpec ==
  /\ Spec
  /\ WF_vars(RunCheck \/ RunSet \/ RunJoin \/ RunSpawn \/ DestroyJoin)
  /\ WF_vars(IoStep)

-----------------------------------------------------------------------------
(* Safety.                                                                 *)

\* While its thread is at or inside ioContext.run() the client knows: run()
\* then starts no second thread.
RunningIsFlagged == io \in {"check", "restart", "run", "returned"} => isRunning

\* A thread is spawned only after the one before it has ended and was joined:
\* assigning to a joinable std::thread ends the process.
SpawnOnlyWhenJoined == user = "spawn" => ~joinable /\ io \in {"none", "ended"}

(* Liveness.                                                               *)

\* A run() that begins with the flag down brings the context to run.
FlagDownStartsContext == user = "run" /\ ~isRunning ~> io = "run"

\* A stop() that reaches the context in run() ends the thread, and with it the
\* destructor, although the session is alive; unless a handler throws, and the
\* loop restarts the context.
StopIsHonoured ==
  user = "dtorJoin" /\ stopped /\ io = "run" ~> user = "destroyed" \/ thrown

(* What the documentation says, and the code does not do.                  *)

\* "Run the WebSocket IO Context asynchronously" (okx_ws_client.h): after run()
\* the context runs, unless the session ends or the client is destroyed.
RunStartsContext ==
  user = "run" /\ session
    ~> io = "run" \/ ~session \/ user \in {"dtorJoin", "destroyed"}
=============================================================================
