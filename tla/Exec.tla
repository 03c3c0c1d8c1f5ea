-------------------------------- MODULE Exec --------------------------------
(***************************************************************************)
(* The pre-exec and post-exec commands of the containers (utils/cmd.go):   *)
(* main runs them one after the other and waits for each; beside main, a   *)
(* goroutine per command waits for the stop signal, passes it on, and      *)
(* force-kills the command ten seconds later.  Time is not modelled: the   *)
(* ten seconds may be longer or shorter than whatever else goes on.        *)
(***************************************************************************)
EXTENDS Integers

CONSTANTS
  Containers,
  Count          \* the number of commands configured for each of them

ASSUME ExecAssumption == Count \in [Containers -> Nat]

VARIABLES
  proc,          \* per container: its main process
  stop,          \* the containers whose process has received the stop signal
  turn,          \* the command main is at; more than Count: at its own work
  cmd,           \* per command: its process
  watch          \* per command: its goroutine

execVars == <<proc, stop, turn, cmd, watch>>

Commands == UNION {{c} \X (1 .. Count[c]) : c \in Containers}

ExecTypeOK ==
  /\ proc \in [Containers -> {"up", "exited", "panicked"}]
  /\ stop \subseteq Containers
  /\ turn \in [Containers -> Nat]
  /\ \A c \in Containers : turn[c] \in 1 .. Count[c] + 1
  /\ cmd \in [Commands -> {"absent", "running", "asked", "ended", "failed", "waited"}]
  /\ watch \in [Commands -> {"none", "waiting", "asked", "fired"}]

ExecInit ==
  /\ proc = [c \in Containers |-> "up"]
  /\ stop = {}
  /\ turn = [c \in Containers |-> 1]
  /\ cmd = [k \in Commands |-> "absent"]
  /\ watch = [k \in Commands |-> "none"]

Alive(k) == cmd[k] \in {"running", "asked"}

\* No further command: main goes on with its own work.
AtWork(c) == proc[c] = "up" /\ turn[c] > Count[c]

\* The main process ends, and with it the container and all it has started.
End(c, how) ==
  /\ proc[c] = "up"
  /\ proc' = [proc EXCEPT ![c] = how]
  /\ cmd' = [k \in Commands |-> IF k[1] = c THEN "absent" ELSE cmd[k]]
  /\ watch' = [k \in Commands |-> IF k[1] = c THEN "none" ELSE watch[k]]
  /\ UNCHANGED <<stop, turn>>

RestartOffByOne(c) ==
  /\ proc[c] # "up"
  /\ proc' = [proc EXCEPT ![c] = "up"]
  /\ stop' = stop \ {c}
  /\ turn' = [turn EXCEPT ![c] = 0]
  /\ UNCHANGED <<cmd, watch>>

Restart(c) ==
  /\ proc[c] # "up"
  /\ proc' = [proc EXCEPT ![c] = "up"]
  /\ stop' = stop \ {c}
  /\ turn' = [turn EXCEPT ![c] = 1]
  /\ UNCHANGED <<cmd, watch>>

\* SIGINT.  A SIGTERM ends the process like a SIGKILL: it is not caught.
Interrupt(c) ==
  /\ proc[c] = "up" /\ c \notin stop
  /\ stop' = stop \cup {c}
  /\ UNCHANGED <<proc, turn, cmd, watch>>

\* cmd.Start, and the goroutine.  A stop signal received before is no reason not to.
StartCommand(c) ==
  LET k == <<c, turn[c]>> IN
    /\ proc[c] = "up"
    /\ k \in Commands /\ cmd[k] = "absent"
    /\ cmd' = [cmd EXCEPT ![k] = "running"]
    /\ watch' = [watch EXCEPT ![k] = "waiting"]
    /\ UNCHANGED <<proc, stop, turn>>

\* The command's process ends, by itself or because it was asked to.
CommandEnds(k, how) ==
  /\ Alive(k)
  /\ cmd' = [cmd EXCEPT ![k] = how]
  /\ UNCHANGED <<proc, stop, turn, watch>>

\* cmd.Wait returns nil and main goes on.
Wait(c) ==
  LET k == <<c, turn[c]>> IN
    /\ k \in Commands /\ cmd[k] = "ended"
    /\ cmd' = [cmd EXCEPT ![k] = "waited"]
    /\ turn' = [turn EXCEPT ![c] = @ + 1]
    /\ UNCHANGED <<proc, stop, watch>>

\* cmd.Wait returns an error, and so does main.
WaitFails(c) ==
  /\ <<c, turn[c]>> \in Commands /\ cmd[<<c, turn[c]>>] = "failed"
  /\ End(c, "exited")

\* The goroutine passes the signal on; that the command has ended is logged.
PassOn(k) ==
  /\ watch[k] = "waiting" /\ k[1] \in stop
  /\ watch' = [watch EXCEPT ![k] = "asked"]
  /\ cmd' = [cmd EXCEPT ![k] = IF @ = "running" THEN "asked" ELSE @]
  /\ UNCHANGED <<proc, stop, turn>>

ForceKillSkipped(k) ==
  /\ watch[k] = "asked"
  /\ watch' = [watch EXCEPT ![k] = "fired"]
  /\ UNCHANGED <<proc, stop, turn, cmd>>

\* Ten seconds later.  To signal a process that was waited for is an error.
ForceKill(k) ==
  /\ watch[k] = "asked" /\ cmd[k] # "waited"
  /\ watch' = [watch EXCEPT ![k] = "fired"]
  /\ cmd' = [cmd EXCEPT ![k] = IF Alive(k) THEN "failed" ELSE @]
  /\ UNCHANGED <<proc, stop, turn>>

Panic(k) ==
  /\ watch[k] = "asked" /\ cmd[k] = "waited"
  /\ End(k[1], "panicked")
=============================================================================
