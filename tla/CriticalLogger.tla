---------------------------- MODULE CriticalLogger ----------------------------
(***************************************************************************)
(* mtypes.CriticalLogger (src/mtypes/critical_logger.go): a watchdog       *)
(* goroutine, deadlockMonitor, wakes on a ticker of period                 *)
(* deadlockTimeout/2 and exits the process when no UpdateActivity has      *)
(* happened for more than deadlockTimeout.  Worker goroutines call          *)
(* UpdateActivity, LogFatal and RecoverPanic; anyone may call Stop.  All   *)
(* of them serialize on cl.mu.  Time is a tick counter; time.Now() reads   *)
(* it.                                                                     *)
(***************************************************************************)
EXTENDS Integers

CONSTANTS
  Workers,   \* goroutines that use the logger
  Timeout,   \* deadlockTimeout, in ticks (even, so that Timeout/2 is exact)
  MaxTime,   \* bound: the last tick explored
  MaxLag,    \* bound: ticks the runnable monitor may wait for a CPU
  None

VARIABLES
  now,        \* the clock
  last,       \* cl.lastActivity
  tick,       \* ticker.C holds a tick (its buffer has room for one)
  mu,         \* holder of cl.mu: None or a worker in RecoverPanic
  mon,        \* deadlockMonitor: "select", "lock", "sleep", "returned"
  wk,         \* wk[w]: "run", or the 3 s sleep before os.Exit ("fatal", "panic")
  stopped,    \* cl.stopped
  cancelled,  \* cl.ctx is done
  exited,     \* None, or what called os.Exit(1): "deadlock", "fatal", "panic"
  lag         \* ticks that passed, since its last check, with the monitor runnable

vars == <<now, last, tick, mu, mon, wk, stopped, cancelled, exited, lag>>

\* time.NewTicker(cl.deadlockTimeout / 2).
Period == Timeout \div 2

Alive == exited = None

\* deadlockMonitor can move: a tick is waiting in its select, or cl.mu is
\* free for the Lock after a tick.
MonReady == (mon = "select" /\ tick) \/ (mon = "lock" /\ mu = None)

-----------------------------------------------------------------------------

\* NewCriticalLogger: lastActivity = time.Now(), then go deadlockMonitor().
Init ==
  /\ now = 0 /\ last = 0 /\ tick = FALSE
  /\ mu = None /\ mon = "select"
  /\ wk = [w \in Workers |-> "run"]
  /\ stopped = FALSE /\ cancelled = FALSE /\ exited = None
  /\ lag = 0

\* Tick with time.NewTicker(cl.deadlockTimeout): the period mistaken for
\* the timeout itself.
TickPeriodFull ==
  /\ Alive /\ now < MaxTime
  /\ MonReady => lag < MaxLag
  /\ now' = now + 1
  /\ tick' = (tick \/ (now + 1) % Timeout = 0)
  /\ lag' = IF MonReady THEN lag + 1 ELSE lag
  /\ UNCHANGED <<last, mu, mon, wk, stopped, cancelled, exited>>

\* The clock advances; the ticker fills ticker.C at every period and drops
\* the tick when the buffer is still full.  Time passes whatever the
\* goroutines do, but the Go scheduler gives no latency bound: a runnable
\* monitor (a tick ready in select, cl.mu free for its Lock) is assumed to
\* run within MaxLag ticks, and lag counts how long it has waited.
Tick ==
  /\ Alive /\ now < MaxTime
  /\ MonReady => lag < MaxLag
  /\ now' = now + 1
  /\ tick' = (tick \/ (now + 1) % Period = 0)
  /\ lag' = IF MonReady THEN lag + 1 ELSE lag
  /\ UNCHANGED <<last, mu, mon, wk, stopped, cancelled, exited>>

\* UpdateActivity: under cl.mu, lastActivity = time.Now().
UpdateActivity(w) ==
  /\ Alive /\ wk[w] = "run" /\ mu = None
  /\ last' = now
  /\ UNCHANGED <<now, tick, mu, mon, wk, stopped, cancelled, exited, lag>>

\* LogFatal: LogCritical (under cl.mu, released on return), then the 3 s
\* sleep before os.Exit(1).
LogFatal(w) ==
  /\ Alive /\ wk[w] = "run" /\ mu = None
  /\ wk' = [wk EXCEPT ![w] = "fatal"]
  /\ UNCHANGED <<now, last, tick, mu, mon, stopped, cancelled, exited, lag>>

\* RecoverPanic with a panic to recover: takes cl.mu and keeps it through
\* the 3 s sleep (the Unlock is deferred past os.Exit).
RecoverPanic(w) ==
  /\ Alive /\ wk[w] = "run" /\ mu = None
  /\ mu' = w
  /\ wk' = [wk EXCEPT ![w] = "panic"]
  /\ UNCHANGED <<now, last, tick, mon, stopped, cancelled, exited, lag>>

\* os.Exit(1) at the end of LogFatal's or RecoverPanic's sleep.
WorkerExit(w) ==
  /\ Alive /\ wk[w] \in {"fatal", "panic"}
  /\ exited' = wk[w]
  /\ UNCHANGED <<now, last, tick, mu, mon, wk, stopped, cancelled, lag>>

\* Stop setting cl.stopped but never calling cl.cancel().
StopNoCancel ==
  /\ Alive /\ mu = None /\ ~stopped
  /\ stopped' = TRUE
  /\ UNCHANGED <<now, last, tick, mu, mon, wk, cancelled, exited, lag>>

\* Stop: under cl.mu, the first call sets stopped and cancels the context.
Stop ==
  /\ Alive /\ mu = None /\ ~stopped
  /\ stopped' = TRUE /\ cancelled' = TRUE
  /\ UNCHANGED <<now, last, tick, mu, mon, wk, exited, lag>>

\* deadlockMonitor's select on ctx.Done(): return.  When a tick is ready
\* too, Go picks either case at random.
MonDone ==
  /\ Alive /\ mon = "select" /\ cancelled
  /\ mon' = "returned"
  /\ UNCHANGED <<now, last, tick, mu, wk, stopped, cancelled, exited, lag>>

\* The select takes the tick from ticker.C.
MonTick ==
  /\ Alive /\ mon = "select" /\ tick
  /\ tick' = FALSE /\ mon' = "lock"
  /\ UNCHANGED <<now, last, mu, wk, stopped, cancelled, exited, lag>>

\* Under cl.mu: more than deadlockTimeout since lastActivity unlocks and
\* goes to the 3 s sleep before os.Exit(1); otherwise unlocks and loops.
MonCheck ==
  /\ Alive /\ mon = "lock" /\ mu = None
  /\ mon' = IF now - last > Timeout THEN "sleep" ELSE "select"
  /\ lag' = 0
  /\ UNCHANGED <<now, last, tick, mu, wk, stopped, cancelled, exited>>

\* os.Exit(1) at the end of the monitor's sleep, whatever Stop did since.
MonExit ==
  /\ Alive /\ mon = "sleep"
  /\ exited' = "deadlock"
  /\ UNCHANGED <<now, last, tick, mu, mon, wk, stopped, cancelled, lag>>

Next ==
  \/ Tick \/ Stop \/ MonDone \/ MonTick \/ MonCheck \/ MonExit
  \/ \E w \in Workers :
       UpdateActivity(w) \/ LogFatal(w) \/ RecoverPanic(w) \/ WorkerExit(w)

Spec == Init /\ [][Next]_vars

-----------------------------------------------------------------------------

TypeOK ==
  /\ now \in 0..MaxTime /\ last \in 0..now /\ tick \in BOOLEAN
  /\ mu \in Workers \cup {None}
  /\ mon \in {"select", "lock", "sleep", "returned"}
  /\ wk \in [Workers -> {"run", "fatal", "panic"}]
  /\ stopped \in BOOLEAN /\ cancelled = stopped
  /\ exited \in {None, "deadlock", "fatal", "panic"}
  /\ lag \in 0..MaxLag

\* Detection latency of deadlockMonitor: while the logger runs (not
\* stopped, no goroutine on its way to os.Exit), the time since the last
\* UpdateActivity never exceeds deadlockTimeout plus one ticker period plus
\* the monitor's scheduling lag: by then a tick has found the gap too long.
\* This rests on the ticker period being deadlockTimeout/2, on the strict
\* comparison of the check, and on ticks dropped while ticker.C is full.
DetectionBound ==
  (Alive /\ ~stopped /\ mon \in {"select", "lock"} /\ mu = None)
    => now - last <= Timeout + Period + MaxLag

=============================================================================
