-------------------------- MODULE ServerLifecycle --------------------------
(***************************************************************************)
(* The life of the process, from main to its exit code.                    *)
(*   main.go, internal/wiring/application.go (Run, Teardown)               *)
(*   internal/web/server.go (Run), internal/web/primary.go                 *)
(*                                                                         *)
(* Three kinds of threads interleave: the main goroutine, the goroutine    *)
(* that waits for a signal and shuts the server down (the stopper), and    *)
(* the goroutines of net/http that serve requests.  The process ends when  *)
(* one of the first two exits, whatever the others are doing.              *)
(***************************************************************************)
EXTENDS Integers

CONSTANTS
    Request,  \* requests that clients send, each over its own connection
    Grace     \* shutdownGracePeriod (30 seconds, in units of the clock)

ASSUME GraceAssumption == Grace \in Nat \ {0}

VARIABLES
    main,      \* how far the main goroutine has come
    exit,      \* what Run returns, or the process has exited with
    sig,       \* whether a signal waits in the channel sig (it holds one)
    stopper,   \* how far the stopper has come
    timer,     \* what is left of the grace period
    listener,  \* the socket of the HTTP server
    request    \* how far each request has come

vars == <<main, exit, sig, stopper, timer, listener, request>>

\* Exit codes; 1 is that of log.Fatalf, 2 stands for a process that is ended by
\* the signal itself.
Success == 0
Fatal == 1
Killed == 2
DirtyShutdown == 10
CreateFailed == 20
RunFailed == 30

Undecided == 99  \* Run has not returned yet

TypeOK ==
    /\ main \in {"creating", "created", "starting", "serving",
                 "teardown", "cancelled", "exited"}
    /\ exit \in {Undecided, Success, Fatal, Killed, DirtyShutdown,
                 CreateFailed, RunFailed}
    /\ sig \in BOOLEAN
    /\ stopper \in {"none", "waiting", "draining", "done"}
    /\ timer \in 0..Grace
    /\ listener \in {"none", "open", "closed"}
    /\ request \in [Request -> {"unsent", "running", "answered",
                                "aborted", "dropped"}]

Init ==
    /\ main = "creating"
    /\ exit = Undecided
    /\ sig = FALSE
    /\ stopper = "none"
    /\ timer = Grace
    /\ listener = "none"
    /\ request = [q \in Request |-> "unsent"]

Running == {q \in Request : request[q] = "running"}

\* The process is gone, and with it every request it was working on.
Exit(code) ==
    /\ main' = "exited"
    /\ exit' = code
    /\ listener' = "closed"
    /\ request' = [q \in Request |->
                      IF q \in Running THEN "dropped" ELSE request[q]]

\* Run returns to main, by way of the deferred Teardown.
Return(code) ==
    /\ main' = "teardown"
    /\ exit' = code

-----------------------------------------------------------------------------
\* The file .env is there and cannot be parsed.
RejectEnvironment ==
    /\ main = "creating"
    /\ Exit(Fatal)
    /\ UNCHANGED <<sig, stopper, timer>>

Create ==
    /\ main = "creating"
    /\ \/ main' = "created" /\ UNCHANGED exit
       \/ Return(CreateFailed)
    /\ UNCHANGED <<sig, stopper, timer, listener, request>>

\* signal.Notify and the start of the stopper.
Notify ==
    /\ main = "created"
    /\ main' = "starting"
    /\ stopper' = "waiting"
    /\ UNCHANGED <<exit, sig, timer, listener, request>>

\* Mutant: ListenAndServe does not know that Shutdown has been called.
ListenAnyway ==
    /\ main = "starting"
    /\ \/ /\ main' = "serving"
          /\ listener' = "open"
          /\ UNCHANGED exit
       \/ /\ Return(RunFailed)
          /\ UNCHANGED listener
    /\ UNCHANGED <<sig, stopper, timer, request>>

\* ListenAndServe does not open a socket once Shutdown has been called.
Listen ==
    /\ main = "starting"
    /\ \/ /\ stopper = "waiting"
          /\ main' = "serving"
          /\ listener' = "open"
          /\ UNCHANGED exit
       \/ /\ stopper # "waiting"
          /\ Return(Success)
          /\ UNCHANGED listener
       \/ /\ Return(RunFailed)  \* the address is in use
          /\ UNCHANGED listener
    /\ UNCHANGED <<sig, stopper, timer, request>>

\* ListenAndServe returns ErrServerClosed, which is not an error, as soon as
\* Shutdown has closed the socket.
ServerClosed ==
    /\ main = "serving" /\ listener = "closed"
    /\ Return(Success)
    /\ UNCHANGED <<sig, stopper, timer, listener, request>>

\* Or it gives up because no connection can be accepted any more.
AcceptFails ==
    /\ main = "serving" /\ listener = "open"
    /\ Return(RunFailed)
    /\ listener' = "closed"
    /\ UNCHANGED <<sig, stopper, timer, request>>

\* Teardown flushes telemetry, which takes its time, and cancels the context
\* that every request is served with.
Teardown ==
    /\ main = "teardown"
    /\ main' = "cancelled"
    /\ UNCHANGED <<exit, sig, stopper, timer, listener, request>>

ExitMain ==
    /\ main = "cancelled"
    /\ Exit(exit)
    /\ UNCHANGED <<sig, stopper, timer>>

-----------------------------------------------------------------------------
\* SIGINT or SIGTERM: fatal before Notify; afterwards it is put into sig
\* unless there is one already.
Signal ==
    /\ main # "exited"
    /\ IF stopper = "none"
       THEN Exit(Killed) /\ UNCHANGED sig
       ELSE sig' = TRUE /\ UNCHANGED <<main, exit, listener, request>>
    /\ UNCHANGED <<stopper, timer>>

\* The stopper receives the signal; Shutdown closes the socket first.
Stop ==
    /\ main # "exited"
    /\ stopper = "waiting" /\ sig
    /\ sig' = FALSE
    /\ stopper' = "draining"
    /\ listener' = IF listener = "open" THEN "closed" ELSE listener
    /\ UNCHANGED <<main, exit, timer, request>>

\* Shutdown finds that no request is running.
Drained ==
    /\ main # "exited"
    /\ stopper = "draining" /\ Running = {}
    /\ stopper' = "done"
    /\ UNCHANGED <<main, exit, sig, timer, listener, request>>

\* Mutant: the grace period is not waited for.
ExpireAtOnce ==
    /\ main # "exited"
    /\ stopper = "draining" /\ Running # {}
    /\ Exit(DirtyShutdown)
    /\ UNCHANGED <<sig, stopper, timer>>

\* Shutdown has waited for the whole grace period.
Expire ==
    /\ main # "exited"
    /\ stopper = "draining" /\ timer = 0
    /\ Exit(DirtyShutdown)
    /\ UNCHANGED <<sig, stopper, timer>>

\* Mutant: the timer is not stopped at its end.
TickOn ==
    /\ main # "exited"
    /\ stopper = "draining" /\ Running # {}
    /\ timer' = timer - 1
    /\ UNCHANGED <<main, exit, sig, stopper, listener, request>>

\* The grace period runs.  Shutdown looks far more often than the clock ticks
\* whether requests are running, so time does not pass it by.
Tick ==
    /\ main # "exited"
    /\ stopper = "draining" /\ timer > 0 /\ Running # {}
    /\ timer' = timer - 1
    /\ UNCHANGED <<main, exit, sig, stopper, listener, request>>

-----------------------------------------------------------------------------
Accept(q) ==
    /\ main # "exited"
    /\ listener = "open"
    /\ request[q] = "unsent"
    /\ request' = [request EXCEPT ![q] = "running"]
    /\ UNCHANGED <<main, exit, sig, stopper, timer, listener>>

Answer(q) ==
    /\ main # "exited"
    /\ request[q] = "running"
    /\ request' = [request EXCEPT ![q] = "answered"]
    /\ UNCHANGED <<main, exit, sig, stopper, timer, listener>>

\* The request notices that its context has been cancelled.
Abort(q) ==
    /\ main # "exited"
    /\ main = "cancelled" \/ stopper = "done"
    /\ request[q] = "running"
    /\ request' = [request EXCEPT ![q] = "aborted"]
    /\ UNCHANGED <<main, exit, sig, stopper, timer, listener>>

MainStep ==
    \/ RejectEnvironment
    \/ Create
    \/ Notify
    \/ Listen
    \/ ServerClosed
    \/ Teardown
    \/ ExitMain

StopperStep == Stop \/ Drained \/ Expire

Next ==
    \/ MainStep
    \/ AcceptFails
    \/ Signal
    \/ StopperStep
    \/ Tick
    \/ \E q \in Request : Accept(q) \/ Answer(q) \/ Abort(q)

Spec == Init /\ [][Next]_vars

-----------------------------------------------------------------------------
\* The exit code tells the truth: 0 only after a signal, never because the
\* server stopped by itself; 10 only when a request outlasted the whole grace
\* period; 1, 2 and 20 only when nothing was ever served.
HonestExitCode ==
    main = "exited" =>
        /\ exit = Success => stopper \in {"draining", "done"}
        /\ exit = DirtyShutdown =>
               timer = 0 /\ \E q \in Request : request[q] # "unsent"
        /\ exit \in {Fatal, CreateFailed, Killed} =>
               \A q \in Request : request[q] = "unsent"
        /\ exit # Undecided

\* Once Shutdown has returned, nothing that was accepted is left behind: not
\* running, so that the cancel that follows it reaches nobody, and not lost.
\* That holds although the signal may come before ListenAndServe is called.
ShutdownLeavesNothing ==
    stopper = "done" =>
        \A q \in Request :
            /\ request[q] \notin {"running", "dropped"}
            /\ request[q] = "aborted" => main \in {"cancelled", "exited"}

\* A signal that has been received ends the process.
SignalStops == sig /\ stopper = "waiting" ~> main = "exited"

\* A process that exits with 0 has answered whatever it accepted: server.go:152
\* calls the web layer torn down successfully then.
GracefulExit ==
    main = "exited" /\ exit = Success =>
        \A q \in Request : request[q] \in {"unsent", "answered"}
=============================================================================
