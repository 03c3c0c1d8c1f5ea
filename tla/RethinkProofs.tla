---------------------------- MODULE RethinkProofs ----------------------------
(***************************************************************************)
(* Proofs about Rethink, for any number of requests, of commands and of    *)
(* faults.                                                                 *)
(***************************************************************************)
EXTENDS Rethink, TLAPS

Calm == \A r \in Recoveries : pc[r] \notin Busy

\* Where servers may be, whatever goes wrong.
Servers ==
  /\ \A r \in Recoveries :
       /\ pc[r] \in {"idle", "ok", "remove"} => private[r] = "down"
       /\ pc[r] = "failed" => private[r] # "up"
  /\ phase = "check" => pc[Main] = "idle"
  /\ done => phase = "serve"
  /\ server.by = Real => Alive(RealCommand)
  /\ Alive(RealCommand) => waited

\* One recovery on its own: its server is the only one and is on the directory.
Alone(r) ==
  /\ server.by \in {r, "none"}
  /\ server.by = r => server.linked
  /\ pc[r] \in {"import", "term", "leave"} => private[r] # "new"
  /\ pc[r] = "import" => target[r] = r
  /\ pc[r] \in {"term", "leave"} => dir = "rows"

\* As long as there was no harm, recoveries, the check and the database do not
\* meet, and none of them finds what another has left unfinished.
Unharmed ==
  /\ Calm => dir \in {"empty", "rows"}
  /\ waited \/ done => Calm /\ dir = "rows"
  /\ phase = "check" => Calm
  /\ phase = "recover" =>
       /\ \A r \in Recoveries : pc[r] \in Busy => r = Main
       /\ pc[Main] = "ok" => dir = "rows"
  /\ \A r, s \in Recoveries : pc[r] \in Busy /\ pc[s] \in Busy => r = s
  /\ \A r \in Recoveries : pc[r] \in Busy => Alone(r)
  /\ server.by = Real => server.linked /\ server.holds = "rows"

RethinkInv == TypeOK /\ Servers /\ (harm = {} => Unharmed)

-----------------------------------------------------------------------------
(* Commands.                                                               *)

LEMMA Constants ==
  /\ Containers = {"sidecar", "database"}
  /\ Count \in [Containers -> Nat]
  /\ Real \notin Recoveries /\ Main \notin Requests
  /\ Main \in Recoveries /\ Requests \subseteq Recoveries
  /\ "none" \notin Recoveries /\ Real # "none"
  /\ MaxFaults \in Nat
BY ExecAssumption, RethinkAssumption DEF Recoveries

LEMMA CommandIs ==
  /\ RealCommand \in Commands /\ RealCommand[1] = "database"
  /\ \A k \in Commands : k[1] \in Containers
  /\ \A c \in Containers, i \in Nat : <<c, i>> \in Commands => i <= Count[c]
<1>1. RealCommand \in Commands
  <2>1. "database" \in Containers /\ Count["database"] \in 1 .. Count["database"]
    BY ExecAssumption, RethinkAssumption
  <2> QED BY <2>1 DEF RealCommand, Commands
<1>2. \A k \in Commands : k[1] \in Containers
  BY DEF Commands
<1>3. ASSUME NEW c \in Containers, NEW i \in Nat, <<c, i>> \in Commands PROVE i <= Count[c]
  <2>1. PICK d \in Containers : <<c, i>> \in {d} \X (1 .. Count[d])
    BY <1>3 DEF Commands
  <2>2. c = d /\ i \in 1 .. Count[d]
    BY <2>1
  <2> QED BY <2>2, ExecAssumption
<1> QED BY <1>1, <1>2, <1>3 DEF RealCommand

\* The end of a container takes its commands with it and leaves the others alone.
LEMMA EndIs ==
  ASSUME ExecTypeOK, NEW c \in Containers, NEW how \in {"exited", "panicked"}, End(c, how)
  PROVE  /\ ExecTypeOK'
         /\ c = "sidecar" => (Alive(RealCommand)' <=> Alive(RealCommand))
         /\ c = "database" => ~Alive(RealCommand)'
<1>1. proc' = [proc EXCEPT ![c] = how] /\ UNCHANGED <<stop, turn>>
  BY DEF End
<1>2. cmd' = [k \in Commands |-> IF k[1] = c THEN "absent" ELSE cmd[k]]
  BY DEF End
<1>3. watch' = [k \in Commands |-> IF k[1] = c THEN "none" ELSE watch[k]]
  BY DEF End
<1>4. ExecTypeOK'
  BY <1>1, <1>2, <1>3 DEF ExecTypeOK
<1>5. cmd'[RealCommand] = IF c = "database" THEN "absent" ELSE cmd[RealCommand]
  BY <1>2, CommandIs
<1> QED BY <1>4, <1>5 DEF Alive

\* A step of the commands revives none, except that it may start the next one.
LEMMA StartIs ==
  ASSUME ExecTypeOK, NEW c \in Containers, StartCommand(c)
  PROVE  /\ ExecTypeOK'
         /\ Alive(RealCommand) => Alive(RealCommand)'
         /\ Alive(RealCommand)' => c = "database" \/ Alive(RealCommand)
<1> DEFINE k == <<c, turn[c]>>
<1>1. /\ k \in Commands /\ cmd[k] = "absent"
      /\ cmd' = [cmd EXCEPT ![k] = "running"]
      /\ watch' = [watch EXCEPT ![k] = "waiting"]
      /\ UNCHANGED <<proc, stop, turn>>
  BY DEF StartCommand
<1>2. k = RealCommand => c = "database"
  BY DEF RealCommand
<1> HIDE DEF k
<1>3. ExecTypeOK'
  BY <1>1 DEF ExecTypeOK
<1>4. RealCommand \in Commands
  BY CommandIs
<1> HIDE DEF RealCommand
<1>5. cmd'[RealCommand] = IF RealCommand = k THEN "running" ELSE cmd[RealCommand]
  BY <1>1, <1>4 DEF ExecTypeOK
<1> QED BY <1>1, <1>2, <1>3, <1>5 DEF Alive

LEMMA WaitIs ==
  ASSUME ExecTypeOK, NEW c \in Containers, Wait(c)
  PROVE  ExecTypeOK' /\ (Alive(RealCommand)' <=> Alive(RealCommand))
<1> DEFINE k == <<c, turn[c]>>
<1>1. /\ k \in Commands /\ cmd[k] = "ended"
      /\ cmd' = [cmd EXCEPT ![k] = "waited"]
      /\ turn' = [turn EXCEPT ![c] = @ + 1]
      /\ UNCHANGED <<proc, stop, watch>>
  BY DEF Wait
<1>2. turn[c] \in Nat /\ turn[c] <= Count[c] /\ turn[c] \in 1 .. Count[c] + 1 /\ Count[c] \in Nat
  BY <1>1, CommandIs, ExecAssumption DEF ExecTypeOK
<1> HIDE DEF k
<1>3. turn' \in [Containers -> Nat] /\ \A d \in Containers : turn'[d] \in 1 .. Count[d] + 1
  BY <1>1, <1>2 DEF ExecTypeOK
<1>4. ExecTypeOK'
  BY <1>1, <1>3 DEF ExecTypeOK
<1>5. RealCommand \in Commands
  BY CommandIs
<1> HIDE DEF RealCommand
<1>6. cmd'[RealCommand] = IF RealCommand = k THEN "waited" ELSE cmd[RealCommand]
  BY <1>1, <1>5 DEF ExecTypeOK
<1> QED BY <1>1, <1>4, <1>6 DEF Alive

LEMMA RestartIs ==
  ASSUME ExecTypeOK, NEW c \in Containers, Restart(c) \/ Interrupt(c)
  PROVE  ExecTypeOK' /\ (Alive(RealCommand)' <=> Alive(RealCommand))
<1>1. ExecTypeOK'
  <2>1. Count[c] \in Nat
    BY ExecAssumption
  <2>2. CASE Restart(c)
    BY <2>1, <2>2 DEF Restart, ExecTypeOK
  <2>3. CASE Interrupt(c)
    BY <2>3 DEF Interrupt, ExecTypeOK
  <2> QED BY <2>2, <2>3
<1>2. cmd' = cmd
  BY DEF Restart, Interrupt
<1> QED BY <1>1, <1>2 DEF Alive

LEMMA PassOnIs ==
  ASSUME ExecTypeOK, NEW k \in Commands, PassOn(k)
  PROVE  ExecTypeOK' /\ (Alive(RealCommand)' <=> Alive(RealCommand))
<1>1. cmd' = [cmd EXCEPT ![k] = IF @ = "running" THEN "asked" ELSE @]
  BY DEF PassOn
<1>2. ExecTypeOK'
  BY <1>1 DEF PassOn, ExecTypeOK
<1>3. RealCommand \in Commands
  BY CommandIs
<1> HIDE DEF RealCommand
<1> QED BY <1>1, <1>2, <1>3 DEF ExecTypeOK, Alive

LEMMA EndsIs ==
  ASSUME ExecTypeOK, NEW k \in Commands,
         (\E how \in {"ended", "failed"} : CommandEnds(k, how)) \/ ForceKill(k)
  PROVE  /\ ExecTypeOK'
         /\ Alive(RealCommand)' => Alive(RealCommand) /\ (k # RealCommand \/ ~Alive(k))
         /\ k # RealCommand \/ ~Alive(k) => (Alive(RealCommand)' <=> Alive(RealCommand))
<1>1. RealCommand \in Commands
  BY CommandIs
<1> HIDE DEF RealCommand
<1>2. ASSUME NEW how \in {"ended", "failed"}, CommandEnds(k, how)
      PROVE  /\ ExecTypeOK' /\ Alive(k)
             /\ (Alive(RealCommand)' <=> Alive(RealCommand) /\ k # RealCommand)
  BY <1>1, <1>2 DEF CommandEnds, ExecTypeOK, Alive
<1>3. CASE ForceKill(k)
  <2>1. cmd' = [cmd EXCEPT ![k] = IF Alive(k) THEN "failed" ELSE @]
    BY <1>3 DEF ForceKill
  <2>2. ExecTypeOK'
    BY <1>3, <2>1 DEF ForceKill, ExecTypeOK
  <2>3. (Alive(RealCommand)' <=> Alive(RealCommand) /\ k # RealCommand)
    BY <1>1, <2>1 DEF ExecTypeOK, Alive
  <2> QED BY <2>2, <2>3
<1> QED BY <1>2, <1>3

LEMMA ExecSame ==
  ASSUME ExecTypeOK, UNCHANGED execVars
  PROVE  ExecTypeOK' /\ (Alive(RealCommand)' <=> Alive(RealCommand))
BY DEF execVars, ExecTypeOK, Alive

-----------------------------------------------------------------------------
(* A recovery, statement by statement.                                     *)

LEMMA ProbeInv ==
  ASSUME NEW r \in Recoveries PROVE RethinkInv /\ Probe(r) => RethinkInv'
<1> SUFFICES ASSUME RethinkInv, Probe(r) PROVE RethinkInv'
  OBVIOUS
<1> USE Constants DEF RethinkInv, Probe, Go, PrivateServer
<1>1. ExecTypeOK' /\ (Alive(RealCommand)' <=> Alive(RealCommand))
  BY ExecSame DEF TypeOK
<1>2. TypeOK'
  BY <1>1 DEF TypeOK, Busy, Contents, NoServer, Fault, NoFault
<1>3. Servers'
  BY <1>1 DEF TypeOK, Servers, NoServer
<1>4. ASSUME harm' = {} PROVE Unharmed'
  BY <1>4 DEF TypeOK, Servers, Unharmed, Calm, Alone, Busy, NoServer
<1> QED BY <1>2, <1>3, <1>4

LEMMA ProbeFailsInv ==
  ASSUME NEW r \in Recoveries PROVE RethinkInv /\ ProbeFails(r) => RethinkInv'
<1> SUFFICES ASSUME RethinkInv, ProbeFails(r) PROVE RethinkInv'
  OBVIOUS
<1> USE Constants DEF RethinkInv, ProbeFails, Go, PrivateServer
<1>1. ExecTypeOK' /\ (Alive(RealCommand)' <=> Alive(RealCommand))
  BY ExecSame DEF TypeOK
<1>2. TypeOK'
  BY <1>1 DEF TypeOK, Busy, Contents, NoServer, Fault, NoFault
<1>3. Servers'
  BY <1>1 DEF TypeOK, Servers, NoServer
<1>4. ASSUME harm' = {} PROVE Unharmed'
  BY <1>4 DEF TypeOK, Servers, Unharmed, Calm, Alone, Busy, NoServer
<1> QED BY <1>2, <1>3, <1>4

LEMMA ImportInv ==
  ASSUME NEW r \in Recoveries PROVE RethinkInv /\ Import(r) => RethinkInv'
<1> SUFFICES ASSUME RethinkInv, Import(r) PROVE RethinkInv'
  OBVIOUS
<1> USE Constants DEF RethinkInv, Import, Go, PrivateServer
<1>1. ExecTypeOK' /\ (Alive(RealCommand)' <=> Alive(RealCommand))
  BY ExecSame DEF TypeOK
<1>2. TypeOK'
  BY <1>1 DEF TypeOK, Busy, Contents, NoServer, Fault, NoFault
<1>3. Servers'
  BY <1>1 DEF TypeOK, Servers, NoServer
<1>4. ASSUME harm' = {} PROVE Unharmed'
  BY <1>4 DEF TypeOK, Servers, Unharmed, Calm, Alone, Busy, NoServer
<1> QED BY <1>2, <1>3, <1>4

LEMMA ImportedInv ==
  ASSUME NEW r \in Recoveries PROVE RethinkInv /\ Imported(r) => RethinkInv'
<1> SUFFICES ASSUME RethinkInv, Imported(r) PROVE RethinkInv'
  OBVIOUS
<1> USE Constants DEF RethinkInv, Imported, Go, PrivateServer
<1>1. ExecTypeOK' /\ (Alive(RealCommand)' <=> Alive(RealCommand))
  BY ExecSame DEF TypeOK
<1>2. TypeOK'
  BY <1>1 DEF TypeOK, Busy, Contents, NoServer, Fault, NoFault
<1>3. Servers'
  BY <1>1 DEF TypeOK, Servers, NoServer
<1>4. ASSUME harm' = {} PROVE Unharmed'
  BY <1>4 DEF TypeOK, Servers, Unharmed, Calm, Alone, Busy, NoServer
<1> QED BY <1>2, <1>3, <1>4

LEMMA ImportFailsInv ==
  ASSUME NEW r \in Recoveries PROVE RethinkInv /\ ImportFails(r) => RethinkInv'
<1> SUFFICES ASSUME RethinkInv, ImportFails(r) PROVE RethinkInv'
  OBVIOUS
<1> USE Constants DEF RethinkInv, ImportFails, Go, PrivateServer
<1>1. ExecTypeOK' /\ (Alive(RealCommand)' <=> Alive(RealCommand))
  BY ExecSame DEF TypeOK
<1>2. TypeOK'
  BY <1>1 DEF TypeOK, Busy, Contents, NoServer, Fault, NoFault
<1>3. Servers'
  BY <1>1 DEF TypeOK, Servers, NoServer
<1>4. ASSUME harm' = {} PROVE Unharmed'
  BY <1>4 DEF TypeOK, Servers, Unharmed, Calm, Alone, Busy, NoServer
<1> QED BY <1>2, <1>3, <1>4

LEMMA TerminateInv ==
  ASSUME NEW r \in Recoveries PROVE RethinkInv /\ Terminate(r) => RethinkInv'
<1> SUFFICES ASSUME RethinkInv, Terminate(r) PROVE RethinkInv'
  OBVIOUS
<1> USE Constants DEF RethinkInv, Terminate, Go, PrivateServer
<1>1. ExecTypeOK' /\ (Alive(RealCommand)' <=> Alive(RealCommand))
  BY ExecSame DEF TypeOK
<1>2. TypeOK'
  BY <1>1 DEF TypeOK, Busy, Contents, NoServer, Fault, NoFault
<1>3. Servers'
  BY <1>1 DEF TypeOK, Servers, NoServer
<1>4. ASSUME harm' = {} PROVE Unharmed'
  BY <1>4 DEF TypeOK, Servers, Unharmed, Calm, Alone, Busy, NoServer
<1> QED BY <1>2, <1>3, <1>4

LEMMA ReturnInv ==
  ASSUME NEW r \in Recoveries PROVE RethinkInv /\ Return(r) => RethinkInv'
<1> SUFFICES ASSUME RethinkInv, Return(r) PROVE RethinkInv'
  OBVIOUS
<1> USE Constants DEF RethinkInv, Return, Go, PrivateServer
<1>1. ExecTypeOK' /\ (Alive(RealCommand)' <=> Alive(RealCommand))
  BY ExecSame DEF TypeOK
<1>2. TypeOK'
  BY <1>1 DEF TypeOK, Busy, Contents, NoServer, Fault, NoFault
<1>3. Servers'
  BY <1>1 DEF TypeOK, Servers, NoServer
<1>4. ASSUME harm' = {} PROVE Unharmed'
  BY <1>4 DEF TypeOK, Servers, Unharmed, Calm, Alone, Busy, NoServer
<1> QED BY <1>2, <1>3, <1>4

LEMMA ReapInv ==
  ASSUME NEW r \in Recoveries PROVE RethinkInv /\ Reap(r) => RethinkInv'
<1> SUFFICES ASSUME RethinkInv, Reap(r) PROVE RethinkInv'
  OBVIOUS
<1> USE Constants DEF RethinkInv, Reap, Go, PrivateServer
<1>1. ExecTypeOK' /\ (Alive(RealCommand)' <=> Alive(RealCommand))
  BY ExecSame DEF TypeOK
<1>2. TypeOK'
  BY <1>1 DEF TypeOK, Busy, Contents, NoServer, Fault, NoFault
<1>3. Servers'
  BY <1>1 DEF TypeOK, Servers, NoServer
<1>4. ASSUME harm' = {} PROVE Unharmed'
  BY <1>4 DEF TypeOK, Servers, Unharmed, Calm, Alone, Busy, NoServer
<1> QED BY <1>2, <1>3, <1>4

LEMMA TerminateNobodyInv ==
  ASSUME NEW r \in Recoveries PROVE RethinkInv /\ TerminateNobody(r) => RethinkInv'
<1> SUFFICES ASSUME RethinkInv, TerminateNobody(r) PROVE RethinkInv'
  OBVIOUS
<1> USE Constants DEF RethinkInv, TerminateNobody, Go, PrivateServer
<1>1. ExecTypeOK' /\ (Alive(RealCommand)' <=> Alive(RealCommand))
  BY ExecSame DEF TypeOK
<1>2. TypeOK'
  BY <1>1 DEF TypeOK, Busy, Contents, NoServer, Fault, NoFault
<1>3. Servers'
  BY <1>1 DEF TypeOK, Servers, Busy, NoServer
<1>4. ASSUME harm' = {} PROVE Unharmed'
  BY <1>1, <1>4 DEF TypeOK, Servers, Unharmed, Calm, Alone, Busy, NoServer
<1> QED BY <1>2, <1>3, <1>4

LEMMA RemoveInv ==
  ASSUME NEW r \in Recoveries PROVE RethinkInv /\ Remove(r) => RethinkInv'
<1> SUFFICES ASSUME RethinkInv, Remove(r) PROVE RethinkInv'
  OBVIOUS
<1> USE Constants DEF RethinkInv, Remove, Go, PrivateServer
<1>1. ExecTypeOK' /\ (Alive(RealCommand)' <=> Alive(RealCommand))
  BY ExecSame DEF TypeOK
<1>2. TypeOK'
  <2>1. /\ pc' \in [Recoveries -> Busy \cup {"idle", "ok", "failed"}]
        /\ private' \in [Recoveries -> {"new", "up", "down"}]
        /\ target' \in [Recoveries -> Recoveries]
        /\ harm' \subseteq {"overlap", "cut", "left", "released"}
        /\ faults' \in 0 .. MaxFaults
        /\ phase' \in {"check", "recover", "serve"} /\ done' \in BOOLEAN /\ waited' \in BOOLEAN
    BY DEF TypeOK, Busy, Fault, NoFault
  <2>2. /\ dir' \in Contents /\ (server'.linked => dir' = server'.holds)
        /\ \/ server' = NoServer
           \/ server' \in [by: Recoveries \cup {Real}, holds: Contents \ {"empty"}, linked: BOOLEAN]
    <3>1. CASE UNCHANGED <<dir, server>>
      BY <3>1 DEF TypeOK, NoServer
    <3>2. CASE dir' = "empty" /\ server' = [server EXCEPT !.linked = FALSE]
      <4>1. CASE server = NoServer
        BY <3>2, <4>1 DEF NoServer, Contents
      <4>2. CASE server # NoServer
        BY <3>2, <4>2 DEF TypeOK, Contents
      <4> QED BY <4>1, <4>2
    <3> QED BY <3>1, <3>2
  <2>3. \A q \in Recoveries : private'[q] = "up" <=> server'.by = q
    BY DEF TypeOK, NoServer
  <2> QED BY <1>1, <2>1, <2>2, <2>3 DEF TypeOK
<1>3. Servers'
  BY <1>1 DEF TypeOK, Servers, Busy, NoServer
<1>4. ASSUME harm' = {} PROVE Unharmed'
  BY <1>1, <1>4 DEF TypeOK, Servers, Unharmed, Calm, Alone, Busy, NoServer
<1> QED BY <1>2, <1>3, <1>4

LEMMA ServerStartsInv ==
  ASSUME NEW r \in Recoveries PROVE RethinkInv /\ ServerStarts(r) => RethinkInv'
<1> SUFFICES ASSUME RethinkInv, ServerStarts(r) PROVE RethinkInv'
  OBVIOUS
<1> USE Constants DEF RethinkInv, ServerStarts, Go, PrivateServer, Cancelled, Stopped
<1>1. ExecTypeOK' /\ (Alive(RealCommand)' <=> Alive(RealCommand))
  BY ExecSame DEF TypeOK
<1>2. TypeOK'
  <2>1. /\ pc' \in [Recoveries -> Busy \cup {"idle", "ok", "failed"}]
        /\ private' \in [Recoveries -> {"new", "up", "down"}]
        /\ target' \in [Recoveries -> Recoveries]
        /\ harm' \subseteq {"overlap", "cut", "left", "released"}
        /\ faults' \in 0 .. MaxFaults
        /\ phase' \in {"check", "recover", "serve"} /\ done' \in BOOLEAN /\ waited' \in BOOLEAN
    BY DEF TypeOK, Busy, Fault, NoFault
  <2>2. /\ dir' \in Contents /\ (server'.linked => dir' = server'.holds)
        /\ \/ server' = NoServer
           \/ server' \in [by: Recoveries \cup {Real}, holds: Contents \ {"empty"}, linked: BOOLEAN]
    <3>1. CASE UNCHANGED <<dir, server>>
      BY <3>1 DEF TypeOK, NoServer
    <3>2. CASE /\ dir' = IF dir = "empty" THEN "fresh" ELSE dir
               /\ server' = [by |-> r, holds |-> dir', linked |-> TRUE]
      <4>1. dir' \in Contents \ {"empty"}
        BY <3>2 DEF TypeOK, Contents
      <4> QED BY <3>2, <4>1
    <3> QED BY <3>1, <3>2
  <2>3. \A q \in Recoveries : private'[q] = "up" <=> server'.by = q
    BY DEF TypeOK, NoServer
  <2> QED BY <1>1, <2>1, <2>2, <2>3 DEF TypeOK
<1>3. Servers'
  BY <1>1 DEF TypeOK, Servers, Busy, NoServer
<1>4. ASSUME harm' = {} PROVE Unharmed'
  BY <1>1, <1>4 DEF TypeOK, Servers, Unharmed, Calm, Alone, Busy, NoServer
<1> QED BY <1>2, <1>3, <1>4

LEMMA ServerEndsInv ==
  ASSUME NEW r \in Recoveries PROVE RethinkInv /\ ServerEnds(r) => RethinkInv'
<1> SUFFICES ASSUME RethinkInv, ServerEnds(r) PROVE RethinkInv'
  OBVIOUS
<1> USE Constants DEF RethinkInv, ServerEnds, Go, PrivateServer, Cancelled, Stopped
<1>1. ExecTypeOK' /\ (Alive(RealCommand)' <=> Alive(RealCommand))
  BY ExecSame DEF TypeOK
<1>2. TypeOK'
  BY <1>1 DEF TypeOK, Busy, Contents, NoServer, Fault, NoFault
<1>3. Servers'
  BY <1>1 DEF TypeOK, Servers, Busy, NoServer
<1>4. ASSUME harm' = {} PROVE Unharmed'
  BY <1>1, <1>4 DEF TypeOK, Servers, Unharmed, Calm, Alone, Busy, NoServer
<1> QED BY <1>2, <1>3, <1>4

-----------------------------------------------------------------------------
(* The containers.                                                         *)

\* A recovery begins.
LEMMA EnterIs ==
  ASSUME TypeOK, NEW r \in Recoveries, Enter(r), private[r] # "up"
  PROVE  /\ pc' \in [Recoveries -> Busy \cup {"idle", "ok", "failed"}]
         /\ private' \in [Recoveries -> {"new", "up", "down"}]
         /\ target' \in [Recoveries -> Recoveries]
         /\ harm' \subseteq {"overlap", "cut", "left", "released"}
         /\ \A q \in Recoveries : private'[q] = "up" <=> server'.by = q
<1> DEFINE H == {"overlap", "cut", "left", "released"}
<1>1. harm' \subseteq H
  <2>1. harm' \in {harm \cup {"overlap"}, {}, harm}
    BY DEF Enter
  <2>2. harm \subseteq H
    BY DEF TypeOK
  <2> QED BY <2>1, <2>2
<1>2. pc' \in [Recoveries -> Busy \cup {"idle", "ok", "failed"}]
  BY DEF TypeOK, Enter, Busy
<1>3. private' \in [Recoveries -> {"new", "up", "down"}] /\ target' \in [Recoveries -> Recoveries]
  BY DEF TypeOK, Enter
<1>4. \A q \in Recoveries : private'[q] = "up" <=> server'.by = q
  BY DEF TypeOK, Enter
<1> QED BY <1>1, <1>2, <1>3, <1>4

LEMMA CheckInv ==
  RethinkInv /\ Check => RethinkInv'
<1> SUFFICES ASSUME RethinkInv, Check PROVE RethinkInv'
  OBVIOUS
<1> USE Constants DEF RethinkInv, Check, Go, PrivateServer, Enter, recoverVars
<1>1. ExecTypeOK' /\ (Alive(RealCommand)' <=> Alive(RealCommand))
  BY ExecSame DEF TypeOK
<1>0. Active = {} <=> Calm
  BY DEF Active, Calm
<1>2. TypeOK'
  <2>1. CASE dir = "empty"
    <3>1. Enter(Main) /\ phase' = "recover" /\ UNCHANGED <<server, dir, done, waited, faults>>
      BY <2>1 DEF Enter
    <3>2. private[Main] # "up"
      BY DEF Servers
    <3>3. /\ pc' \in [Recoveries -> Busy \cup {"idle", "ok", "failed"}]
          /\ private' \in [Recoveries -> {"new", "up", "down"}]
          /\ target' \in [Recoveries -> Recoveries]
          /\ harm' \subseteq {"overlap", "cut", "left", "released"}
          /\ \A q \in Recoveries : private'[q] = "up" <=> server'.by = q
      BY <3>1, <3>2, EnterIs
    <3> QED BY <1>1, <3>1, <3>3 DEF TypeOK, NoServer
  <2>2. CASE dir # "empty"
    BY <1>1, <2>2 DEF TypeOK, NoServer, Busy
  <2> QED BY <2>1, <2>2
<1>3. Servers'
  BY <1>1 DEF TypeOK, Servers, Busy, NoServer
<1>4. ASSUME harm' = {} PROVE Unharmed'
  BY <1>0, <1>1, <1>4 DEF TypeOK, Servers, Unharmed, Calm, Alone, Busy, NoServer
<1> QED BY <1>2, <1>3, <1>4

LEMMA RestoredInv ==
  RethinkInv /\ Restored => RethinkInv'
<1> SUFFICES ASSUME RethinkInv, Restored PROVE RethinkInv'
  OBVIOUS
<1> USE Constants DEF RethinkInv, Restored, Go, PrivateServer, recoverVars
<1>1. ExecTypeOK' /\ (Alive(RealCommand)' <=> Alive(RealCommand))
  BY ExecSame DEF TypeOK
<1>2. TypeOK'
  BY <1>1 DEF TypeOK, Busy, Contents, NoServer, Fault, NoFault
<1>3. Servers'
  BY <1>1 DEF TypeOK, Servers, Busy, NoServer
<1>4. ASSUME harm' = {} PROVE Unharmed'
  BY <1>1, <1>4 DEF TypeOK, Servers, Unharmed, Calm, Alone, Busy, NoServer
<1> QED BY <1>2, <1>3, <1>4

LEMMA RequestInv ==
  ASSUME NEW r \in Requests PROVE RethinkInv /\ Request(r) => RethinkInv'
<1> SUFFICES ASSUME RethinkInv, Request(r) PROVE RethinkInv'
  OBVIOUS
<1> USE Constants DEF RethinkInv, Request, Go, PrivateServer, Enter, recoverVars
<1>1. ExecTypeOK' /\ (Alive(RealCommand)' <=> Alive(RealCommand))
  BY ExecSame DEF TypeOK
<1>0. Active = {} <=> Calm
  BY DEF Active, Calm
<1>2. TypeOK'
  <2>1. Enter(r) /\ private[r] # "up" /\ UNCHANGED <<phase, waited, server, dir>> /\ done' = FALSE
    BY DEF Enter
  <2>2. dir' \in Contents /\ waited' \in BOOLEAN /\ phase' \in {"check", "recover", "serve"}
    BY <2>1 DEF TypeOK
  <2>3. /\ server'.linked => dir' = server'.holds
        /\ \/ server' = NoServer
           \/ server' \in [by: Recoveries \cup {Real}, holds: Contents \ {"empty"}, linked: BOOLEAN]
    BY <2>1 DEF TypeOK, NoServer
  <2>4. /\ pc' \in [Recoveries -> Busy \cup {"idle", "ok", "failed"}]
        /\ private' \in [Recoveries -> {"new", "up", "down"}]
        /\ target' \in [Recoveries -> Recoveries]
        /\ harm' \subseteq {"overlap", "cut", "left", "released"}
        /\ \A q \in Recoveries : private'[q] = "up" <=> server'.by = q
    BY <2>1, EnterIs
  <2>5. faults' \in 0 .. MaxFaults
    BY DEF TypeOK, Fault
  <2> QED BY <1>1, <2>1, <2>2, <2>3, <2>4, <2>5 DEF TypeOK
<1>3. Servers'
  BY <1>1 DEF TypeOK, Servers, Busy, NoServer
<1>4. ASSUME harm' = {} PROVE Unharmed'
  BY <1>0, <1>1, <1>4 DEF TypeOK, Servers, Unharmed, Calm, Alone, Busy, NoServer
<1> QED BY <1>2, <1>3, <1>4

LEMMA PollInv ==
  RethinkInv /\ Poll => RethinkInv'
<1> SUFFICES ASSUME RethinkInv, Poll PROVE RethinkInv'
  OBVIOUS
<1> USE Constants DEF RethinkInv, Poll, Go, PrivateServer, OnlyWaited, recoverVars
<1>1. ExecTypeOK' /\ (Alive(RealCommand)' <=> Alive(RealCommand))
  BY ExecSame DEF TypeOK
<1>2. TypeOK'
  BY <1>1 DEF TypeOK, Busy, Contents, NoServer, Fault, NoFault
<1>3. Servers'
  BY <1>1 DEF TypeOK, Servers, Busy, NoServer
<1>4. ASSUME harm' = {} PROVE Unharmed'
  BY <1>1, <1>4 DEF TypeOK, Servers, Unharmed, Calm, Alone, Busy, NoServer
<1> QED BY <1>2, <1>3, <1>4

LEMMA PollStoppedInv ==
  RethinkInv /\ PollStopped => RethinkInv'
<1> SUFFICES ASSUME RethinkInv, PollStopped PROVE RethinkInv'
  OBVIOUS
<1> USE Constants DEF RethinkInv, PollStopped, Go, PrivateServer, OnlyWaited, recoverVars
<1>1. ExecTypeOK' /\ (Alive(RealCommand)' <=> Alive(RealCommand))
  BY ExecSame DEF TypeOK
<1>2. TypeOK'
  BY <1>1 DEF TypeOK, Busy, Contents, NoServer, Fault, NoFault
<1>3. Servers'
  BY <1>1 DEF TypeOK, Servers, Busy, NoServer
<1>4. ASSUME harm' = {} PROVE Unharmed'
  BY <1>1, <1>4 DEF TypeOK, Servers, Unharmed, Calm, Alone, Busy, NoServer
<1> QED BY <1>2, <1>3, <1>4

LEMMA RealOpensInv ==
  RethinkInv /\ RealOpens => RethinkInv'
<1> SUFFICES ASSUME RethinkInv, RealOpens PROVE RethinkInv'
  OBVIOUS
<1> USE Constants DEF RethinkInv, RealOpens, Go, PrivateServer
<1>1. ExecTypeOK' /\ (Alive(RealCommand)' <=> Alive(RealCommand))
  BY ExecSame DEF TypeOK
<1>0. Active = {} <=> Calm
  BY DEF Active, Calm
<1>2. TypeOK'
  BY <1>1 DEF TypeOK, Busy, Contents, NoServer, Fault, NoFault
<1>3. Servers'
  BY <1>1 DEF TypeOK, Servers, Busy, NoServer
<1>4. ASSUME harm' = {} PROVE Unharmed'
  BY <1>0, <1>1, <1>4 DEF TypeOK, Servers, Unharmed, Calm, Alone, Busy, NoServer
<1> QED BY <1>2, <1>3, <1>4

\* Faults are counted up to the bound.
LEMMA FaultIs == TypeOK /\ (Fault \/ NoFault) => faults' \in 0 .. MaxFaults
BY Constants DEF TypeOK, Fault, NoFault

LEMMA SidecarEnds ==
  ASSUME RethinkInv, NEW how \in {"exited", "panicked"}, End("sidecar", how), SidecarGone,
         faults' \in 0 .. MaxFaults
  PROVE  RethinkInv'
<1> USE Constants DEF RethinkInv, SidecarGone, PrivateServer
<1>0. Active = {} <=> Calm
  BY DEF Active, Calm
<1>1. ExecTypeOK' /\ (Alive(RealCommand)' <=> Alive(RealCommand))
  BY EndIs DEF TypeOK
<1>2. TypeOK'
  <2>1. /\ pc' \in [Recoveries -> Busy \cup {"idle", "ok", "failed"}]
        /\ private' \in [Recoveries -> {"new", "up", "down"}]
        /\ target' \in [Recoveries -> Recoveries]
    OBVIOUS
  <2>2. harm' \subseteq {"overlap", "cut", "left", "released"}
    BY DEF TypeOK
  <2>3. /\ server' = NoServer \/ (server' = server /\ ~PrivateServer)
        /\ \A q \in Recoveries : private'[q] = "up" <=> server'.by = q
    BY DEF NoServer
  <2>4. /\ \/ server' = NoServer
           \/ server' \in [by: Recoveries \cup {Real}, holds: Contents \ {"empty"}, linked: BOOLEAN]
        /\ server'.linked => dir' = server'.holds
    BY <2>3 DEF TypeOK, NoServer
  <2>5. /\ phase' \in {"check", "recover", "serve"} /\ done' \in BOOLEAN /\ waited' \in BOOLEAN
        /\ dir' \in Contents
    BY DEF TypeOK
  <2> QED BY <1>1, <2>1, <2>2, <2>3, <2>4, <2>5 DEF TypeOK
<1>3. Servers'
  BY <1>1 DEF TypeOK, Servers, NoServer
<1>4. ASSUME harm' = {} PROVE Unharmed'
  BY <1>0, <1>1, <1>4 DEF TypeOK, Servers, Unharmed, Calm, Alone, Busy, NoServer
<1> QED BY <1>2, <1>3, <1>4

LEMMA DatabaseEnds ==
  ASSUME RethinkInv, NEW how \in {"exited", "panicked"}, End("database", how), DatabaseGone,
         faults' \in 0 .. MaxFaults
  PROVE  RethinkInv'
<1> USE Constants DEF RethinkInv, DatabaseGone
<1>1. ExecTypeOK' /\ ~Alive(RealCommand)'
  BY EndIs DEF TypeOK
<1>2. TypeOK'
  <2>1. CASE server' = server
    BY <1>1, <2>1 DEF TypeOK
  <2>2. CASE server.by = Real /\ server' = NoServer
    <3>1. \A q \in Recoveries : private[q] # "up" /\ server'.by # q
      BY <2>2 DEF TypeOK, NoServer
    <3>2. ~server'.linked
      BY <2>2 DEF NoServer
    <3> QED BY <1>1, <2>2, <3>1, <3>2 DEF TypeOK
  <2> QED BY <2>1, <2>2
<1>3. Servers'
  BY <1>1 DEF TypeOK, Servers, NoServer
<1>4. ASSUME harm' = {} PROVE Unharmed'
  BY <1>1, <1>4 DEF TypeOK, Servers, Unharmed, Calm, Alone, Busy, NoServer
<1> QED BY <1>2, <1>3, <1>4

\* A step that is about the commands only.
LEMMA ElseKeeps ==
  ASSUME RethinkInv, ExecTypeOK', faults' \in 0 .. MaxFaults, Else,
         Alive(RealCommand) => Alive(RealCommand)', Alive(RealCommand)' => waited
  PROVE  RethinkInv'
<1> USE Constants DEF RethinkInv, Else, recoverVars
<1>1. TypeOK'
  BY DEF TypeOK
<1>2. Servers'
  BY DEF Servers
<1>3. ASSUME harm' = {} PROVE Unharmed'
  BY <1>3 DEF Unharmed, Calm, Alone
<1> QED BY <1>1, <1>2, <1>3

\* A command ends, and the server with it if it is the database.
LEMMA ServerWithKeeps ==
  ASSUME RethinkInv, ExecTypeOK', faults' \in 0 .. MaxFaults, NEW k \in Commands, ServerWith(k),
         Alive(RealCommand)' => Alive(RealCommand) /\ k # RealCommand,
         k # RealCommand => (Alive(RealCommand)' <=> Alive(RealCommand))
  PROVE  RethinkInv'
<1> USE Constants DEF RethinkInv, ServerWith
<1>1. TypeOK'
  <2>1. CASE server' = server
    BY <2>1 DEF TypeOK
  <2>2. CASE server.by = Real /\ server' = NoServer
    <3>1. \A q \in Recoveries : private[q] # "up" /\ server'.by # q
      BY <2>2 DEF TypeOK, NoServer
    <3>2. ~server'.linked
      BY <2>2 DEF NoServer
    <3> QED BY <2>2, <3>1, <3>2 DEF TypeOK
  <2> QED BY <2>1, <2>2
<1>2. Servers'
  BY DEF TypeOK, Servers, NoServer
<1>3. ASSUME harm' = {} PROVE Unharmed'
  BY <1>3 DEF TypeOK, Servers, Unharmed, Calm, Alone, Busy, NoServer
<1> QED BY <1>1, <1>2, <1>3

LEMMA GoneKeeps ==
  ASSUME RethinkInv, NEW c \in Containers, NEW how \in {"exited", "panicked"}, End(c, how), Gone(c),
         faults' \in 0 .. MaxFaults
  PROVE  RethinkInv'
<1>1. CASE c = "sidecar"
  BY <1>1, SidecarEnds DEF Gone
<1>2. CASE c = "database"
  BY <1>2, DatabaseEnds DEF Gone
<1> QED BY <1>1, <1>2, Constants

LEMMA EndingsInv ==
  ASSUME RethinkInv,
         \/ StartReturns \/ Crash \/ WaitReturns
         \/ \E c \in Containers : (WaitFails(c) /\ NoFault /\ Gone(c)) \/ Kill(c)
         \/ \E k \in Commands : Panic(k) /\ NoFault /\ Gone(k[1])
  PROVE  RethinkInv'
<1> USE FaultIs DEF RethinkInv
<1>1. CASE StartReturns
  BY <1>1, SidecarEnds DEF StartReturns
<1>2. CASE Crash
  BY <1>2, SidecarEnds DEF Crash
<1>3. CASE WaitReturns
  BY <1>3, DatabaseEnds DEF WaitReturns
<1>4. ASSUME NEW c \in Containers, (WaitFails(c) /\ NoFault /\ Gone(c)) \/ Kill(c)
      PROVE  RethinkInv'
  BY <1>4, GoneKeeps DEF WaitFails, Kill
<1>5. ASSUME NEW k \in Commands, Panic(k), NoFault, Gone(k[1])
      PROVE  RethinkInv'
  <2>1. k[1] \in Containers
    BY CommandIs
  <2> QED BY <1>5, <2>1, GoneKeeps DEF Panic
<1> QED BY <1>1, <1>2, <1>3, <1>4, <1>5

LEMMA ContainerInv ==
  ASSUME RethinkInv, NEW c \in Containers, Container(c) \/ Signal(c)
  PROVE  RethinkInv'
<1> USE FaultIs DEF RethinkInv
<1>1. ExecTypeOK /\ (Alive(RealCommand) => waited)
  BY DEF TypeOK, Servers
<1>2. CASE Start(c)
  <2>1. ExecTypeOK' /\ (Alive(RealCommand) => Alive(RealCommand)')
    BY <1>1, <1>2, StartIs DEF Start
  <2>2. Alive(RealCommand)' => waited
    BY <1>1, <1>2, StartIs DEF Start
  <2> QED BY <1>2, <2>1, <2>2, ElseKeeps DEF Start
<1>3. CASE Wait(c) /\ NoFault /\ Else
  BY <1>1, <1>3, WaitIs, ElseKeeps
<1>4. CASE WaitFails(c) /\ NoFault /\ Gone(c)
  BY <1>4, EndingsInv
<1>5. CASE (Restart(c) /\ NoFault /\ Else) \/ Signal(c)
  BY <1>1, <1>5, RestartIs, ElseKeeps DEF Signal
<1> QED BY <1>2, <1>3, <1>4, <1>5 DEF Container

LEMMA CommandInv ==
  ASSUME RethinkInv, NEW k \in Commands, Command(k) \/ Obey(k)
  PROVE  RethinkInv'
<1> USE FaultIs DEF RethinkInv
<1>1. ExecTypeOK /\ (Alive(RealCommand) => waited)
  BY DEF TypeOK, Servers
<1>2. ASSUME \E how \in {"ended", "failed"} : CommandEnds(k, how), ServerWith(k), Fault \/ NoFault
      PROVE  RethinkInv'
  <2>1. Alive(k)
    BY <1>2 DEF CommandEnds
  <2> QED BY <1>1, <1>2, <2>1, EndsIs, ServerWithKeeps
<1>3. CASE Ending(k) /\ ServerWith(k)
  BY <1>2, <1>3 DEF Ending
<1>4. CASE Obey(k)
  BY <1>2, <1>4 DEF Obey
<1>5. CASE PassOn(k) /\ NoFault /\ Else
  BY <1>1, <1>5, PassOnIs, ElseKeeps
<1>6. CASE ForceKill(k) /\ NoFault /\ (IF Alive(k) THEN ServerWith(k) ELSE Else)
  BY <1>1, <1>6, EndsIs, ServerWithKeeps, ElseKeeps
<1>7. CASE Panic(k) /\ NoFault /\ Gone(k[1])
  BY <1>7, EndingsInv
<1> QED BY <1>3, <1>4, <1>5, <1>6, <1>7 DEF Command

-----------------------------------------------------------------------------

LEMMA InitInv == Init => RethinkInv
<1> SUFFICES ASSUME Init PROVE RethinkInv
  OBVIOUS
<1> USE Constants DEF Init, ExecInit
<1>1. ExecTypeOK
  BY ExecAssumption DEF ExecTypeOK
<1>2. ~Alive(RealCommand)
  BY CommandIs DEF Alive
<1>3. TypeOK
  <2>1. /\ pc \in [Recoveries -> Busy \cup {"idle", "ok", "failed"}]
        /\ private \in [Recoveries -> {"new", "up", "down"}] /\ target \in [Recoveries -> Recoveries]
    OBVIOUS
  <2>2. \A r \in Recoveries : private[r] # "up" /\ server.by # r
    BY DEF NoServer
  <2>3. ~server.linked /\ dir \in Contents /\ faults \in 0 .. MaxFaults
    BY DEF NoServer, Contents
  <2> QED BY <1>1, <2>1, <2>2, <2>3 DEF TypeOK
<1>4. Servers
  BY <1>2 DEF Servers, NoServer
<1>5. Unharmed
  BY DEF Unharmed, Calm, Busy, NoServer
<1> QED BY <1>3, <1>4, <1>5 DEF RethinkInv

LEMMA StutterInv == RethinkInv /\ UNCHANGED vars => RethinkInv'
<1> SUFFICES ASSUME RethinkInv, UNCHANGED vars PROVE RethinkInv'
  OBVIOUS
<1>1. ExecTypeOK' /\ Else /\ NoFault /\ (Alive(RealCommand)' <=> Alive(RealCommand))
  BY ExecSame DEF vars, RethinkInv, TypeOK, Else, NoFault
<1> QED BY <1>1, FaultIs, ElseKeeps DEF RethinkInv, TypeOK, Servers

LEMMA NextInv == RethinkInv /\ [Next]_vars => RethinkInv'
<1> SUFFICES ASSUME RethinkInv, [Next]_vars PROVE RethinkInv'
  OBVIOUS
<1>1. ASSUME NEW r \in Recoveries, ServerStarts(r) \/ ServerEnds(r)
      PROVE  RethinkInv'
  BY <1>1, ServerStartsInv, ServerEndsInv
<1>2. ASSUME NEW r \in Recoveries, Recover(r)
      PROVE  RethinkInv'
  BY <1>2, ProbeInv, ProbeFailsInv, ImportInv, ImportedInv, ImportFailsInv, TerminateInv,
     TerminateNobodyInv, ReturnInv, ReapInv, RemoveInv DEF Recover
<1>3. CASE Check \/ Restored \/ Poll \/ PollStopped \/ RealOpens
  BY <1>3, CheckInv, RestoredInv, PollInv, PollStoppedInv, RealOpensInv
<1>4. CASE StartReturns \/ Crash \/ WaitReturns
  BY <1>4, EndingsInv
<1>5. ASSUME NEW r \in Requests, Request(r)
      PROVE  RethinkInv'
  BY <1>5, RequestInv
<1>6. ASSUME NEW k \in Commands, Command(k) \/ Obey(k)
      PROVE  RethinkInv'
  BY <1>6, CommandInv
<1>7. ASSUME NEW c \in Containers, Container(c) \/ Signal(c)
      PROVE  RethinkInv'
  BY <1>7, ContainerInv
<1>8. ASSUME NEW c \in Containers, Kill(c)
      PROVE  RethinkInv'
  BY <1>8, EndingsInv
<1>9. CASE UNCHANGED vars
  BY <1>9, StutterInv
<1> QED BY <1>1, <1>2, <1>3, <1>4, <1>5, <1>6, <1>7, <1>8, <1>9 DEF Next

LEMMA Invariant == Spec => []RethinkInv
BY InitInv, NextInv, PTL DEF Spec

\* Recover returns by these three statements only.
LEMMA Returning ==
  ASSUME RethinkInv, [Next]_vars, NEW r \in Recoveries,
         pc'[r] # pc[r], pc'[r] \in {"ok", "failed"}
  PROVE  Return(r) \/ TerminateNobody(r) \/ Remove(r)
<1> USE Constants
<1>1. pc \in [Recoveries -> Busy \cup {"idle", "ok", "failed"}]
  BY DEF RethinkInv, TypeOK
<1>2. ASSUME NEW q \in Recoveries, Recover(q)
      PROVE  Return(r) \/ TerminateNobody(r) \/ Remove(r)
  <2>1. q = r
    BY <1>1, <1>2 DEF Recover, Go, Probe, ProbeFails, Import, Imported, ImportFails, Terminate,
       TerminateNobody, Return, Reap, Remove
  <2>2. pc'[r] \in {"restore", "reap", "import", "term", "leave", "remove"}
          \/ Return(r) \/ TerminateNobody(r) \/ Remove(r)
    BY <1>1, <1>2, <2>1 DEF Recover, Go, Probe, ProbeFails, Import, Imported, ImportFails,
       Terminate, Reap
  <2> QED BY <2>2
<1>3. ASSUME \/ UNCHANGED pc
             \/ pc' = [q \in Recoveries |-> "idle"]
             \/ \E q \in Recoveries : pc' = [pc EXCEPT ![q] = "probe"]
      PROVE  FALSE
  BY <1>1, <1>3
<1>4. SidecarGone => pc' = [q \in Recoveries |-> "idle"]
  BY DEF SidecarGone
<1>5. DatabaseGone \/ Else \/ (\E k \in Commands : ServerWith(k)) => UNCHANGED pc
  BY DEF DatabaseGone, Else, ServerWith, recoverVars
<1>6. ASSUME NEW c \in Containers, Gone(c) PROVE FALSE
  BY <1>3, <1>4, <1>5, <1>6 DEF Gone
<1>7. ASSUME NEW q \in Recoveries, ServerStarts(q) \/ ServerEnds(q) PROVE FALSE
  BY <1>3, <1>7 DEF ServerStarts, ServerEnds
<1>8. ASSUME Check \/ (\E q \in Requests : Request(q)) PROVE FALSE
  BY <1>3, <1>8 DEF Check, Request, Enter, recoverVars
<1>9. ASSUME Restored \/ Poll \/ PollStopped \/ RealOpens PROVE FALSE
  BY <1>3, <1>9 DEF Restored, Poll, PollStopped, OnlyWaited, RealOpens, recoverVars
<1>10. ASSUME StartReturns \/ Crash \/ WaitReturns PROVE FALSE
  BY <1>3, <1>4, <1>5, <1>10 DEF StartReturns, Crash, WaitReturns
<1>11. ASSUME NEW k \in Commands, Command(k) \/ Obey(k) PROVE FALSE
  <2>1. ~Gone(k[1])
    BY <1>6, CommandIs
  <2> QED BY <1>3, <1>5, <1>11, <2>1 DEF Command, Obey
<1>12. ASSUME NEW c \in Containers, Container(c) \/ Kill(c) \/ Signal(c) PROVE FALSE
  BY <1>3, <1>5, <1>6, <1>12 DEF Container, Kill, Signal, Start
<1>13. ASSUME UNCHANGED vars PROVE FALSE
  BY <1>3, <1>13 DEF vars, recoverVars
<1> QED BY <1>2, <1>7, <1>8, <1>9, <1>10, <1>11, <1>12, <1>13 DEF Next

-----------------------------------------------------------------------------

\* Every variable of Rethink and of Exec has its type.
THEOREM RethinkTyped == Spec => []TypeOK
<1>1. RethinkInv => TypeOK
  BY DEF RethinkInv
<1> QED BY <1>1, Invariant, PTL

\* Without one of the four harms the database serves the restored backup only.
THEOREM ServesWhole == Spec => []ServedWhole
<1>1. RethinkInv => ServedWhole
  BY DEF RethinkInv, Unharmed, ServedWhole
<1> QED BY <1>1, Invariant, PTL

\* No recovery returns before its private server is gone, harm or not.
THEOREM NoneLeft == Spec => []NoServerLeft
<1>1. RethinkInv => NoServerLeft
  BY DEF RethinkInv, TypeOK, Servers, NoServerLeft
<1> QED BY <1>1, Invariant, PTL

\* Without harm Recover delivers all rows, or an empty directory and no server.
THEOREM Delivers == Spec => RecoverDelivers
<1> DEFINE D == \A r \in Recoveries : pc'[r] # pc[r] /\ harm' = {} =>
                  /\ pc'[r] = "ok" => dir' = "rows"
                  /\ pc'[r] = "failed" => dir' = "empty" /\ server' = NoServer
<1>1. RethinkInv /\ [Next]_vars => D
  <2> SUFFICES ASSUME RethinkInv, [Next]_vars, NEW r \in Recoveries, pc'[r] # pc[r], harm' = {},
                      pc'[r] \in {"ok", "failed"}
               PROVE  /\ pc'[r] = "ok" => dir' = "rows"
                      /\ pc'[r] = "failed" => dir' = "empty" /\ server' = NoServer
    OBVIOUS
  <2> USE Constants DEF RethinkInv
  <2>1. CASE Return(r)
    BY <2>1 DEF Return, Go, TypeOK, Servers, Unharmed, Alone, Busy
  <2>2. CASE TerminateNobody(r)
    BY <2>2 DEF TerminateNobody, Go, TypeOK, Servers, Unharmed, Alone, Busy
  <2>3. CASE Remove(r)
    <3>1. harm = {} /\ dir' = "empty" /\ server' = [server EXCEPT !.linked = FALSE]
      BY <2>3 DEF Remove
    <3>2. pc[r] = "remove" /\ server.by \in {r, "none"} /\ private[r] # "up"
      BY <2>3, <3>1 DEF Remove, Go, Servers, Unharmed, Alone, Busy
    <3>3. server = NoServer
      BY <3>2 DEF TypeOK
    <3>4. pc'[r] = "failed"
      BY <2>3 DEF Remove, Go, TypeOK
    <3> QED BY <3>1, <3>3, <3>4 DEF NoServer
  <2> QED BY <2>1, <2>2, <2>3, Returning
<1> QED BY <1>1, Invariant, PTL DEF Spec, RecoverDelivers
=============================================================================
