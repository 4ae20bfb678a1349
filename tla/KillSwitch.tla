---------------------------- MODULE KillSwitch ----------------------------
(***************************************************************************)
(* warrenvpnd's kill-switch manager as it runs: concurrent callers (the    *)
(* relay of each connection, StartConnection, RecoverNetwork) queue for    *)
(* one asynchronous mutex; the holder changes the map, starts `nft`, and   *)
(* keeps the mutex until nft has exited.  The daemon may die at any point. *)
(***************************************************************************)
EXTENDS KillSwitchTable, Sequences

CONSTANT Task      \* concurrent callers

VARIABLES
  queue,      \* tasks waiting for the mutex, in order
  holder,     \* the task that holds it while nft runs, or Nobody
  calls,      \* task -> its unanswered call, or NoCall
  reply,      \* task -> result of its last arm: "none", "ok" or "failed"
  script,     \* the table the running nft installs
  before,     \* history: the map when the holder took the mutex
  down,       \* the daemon has died and was not yet started again
  synced      \* history: the last operation that had to change the table did

vars == <<active, kernel, queue, holder, calls, reply, script, before, down, synced>>

CONSTANTS Nobody, NoCall

ArmCall(c, a) == [op |-> "arm", conn |-> c, allowance |-> a]
DisarmCall(c) == [op |-> "disarm", conn |-> c]
RecoverCall == [op |-> "recover"]

Call == {ArmCall(c, Connecting(ips)) : c \in ConnId, ips \in RemoteSets}
          \cup {ArmCall(c, Connected(e)) : c \in ConnId, e \in Server}
          \cup {DisarmCall(c) : c \in ConnId} \cup {RecoverCall}

ASSUME TaskAssumption ==
  /\ Nobody \notin Task
  /\ NoCall \notin Call

Target(map) == IF Entries(map) = {} THEN Absent ELSE Ruleset(Entries(map))

TypeOK ==
  /\ TableTypeOK
  /\ queue \in Seq(Task)
  /\ holder \in Task \cup {Nobody}
  /\ calls \in [Task -> Call \cup {NoCall}]
  /\ reply \in [Task -> {"none", "ok", "failed"}]
  /\ script \in Table
  /\ before \in [ConnId -> Allowance \cup {NotArmed}]
  /\ down \in BOOLEAN
  /\ synced \in BOOLEAN

-----------------------------------------------------------------------------
Init ==
  /\ TableInit
  /\ queue = <<>>
  /\ holder = Nobody
  /\ calls = [t \in Task |-> NoCall]
  /\ reply = [t \in Task |-> "none"]
  /\ script = Absent
  /\ before = NoneArmed
  /\ down = FALSE
  /\ synced = TRUE

(* A caller reaches `self.active.lock().await`. *)
Request(t, call) ==
  /\ ~down
  /\ calls[t] = NoCall
  /\ calls' = [calls EXCEPT ![t] = call]
  /\ reply' = [reply EXCEPT ![t] = "none"]
  /\ queue' = Append(queue, t)
  /\ UNCHANGED <<active, kernel, holder, script, before, down, synced>>

ArmConnecting(t, c, ips) == Request(t, ArmCall(c, Connecting(ips)))
ArmConnected(t, c, e) == Request(t, ArmCall(c, Connected(e)))
RequestDisarm(t, c) == Request(t, DisarmCall(c))
RequestRecover(t) == Request(t, RecoverCall)

(* The map each operation makes of `map`. *)
After(map, call) ==
  CASE call.op = "arm"     -> [map EXCEPT ![call.conn] = call.allowance]
    [] call.op = "disarm"  -> [map EXCEPT ![call.conn] = NotArmed]
    [] call.op = "recover" -> NoneArmed

TearDownAlways(call) ==    \* mutant: disarm forgets the other connections
  IF call.op = "disarm" THEN Absent ELSE Target(After(active, call))

(* The script each operation applies: the union, or the teardown when no   *)
(* allowance is left.                                                      *)
ScriptFor(call) == Target(After(active, call))

(* Whether the operation runs nft at all: disarming an unknown connection   *)
(* returns at once, and an unbuildable union is refused before nft.         *)
RunsNft(call) ==
  /\ call.op = "disarm" => active[call.conn].phase # "none"
  /\ Entries(After(active, call)) # {} => Buildable(Entries(After(active, call)))

FirstInLine(t) ==
  /\ ~down
  /\ queue # <<>>
  /\ t = Head(queue)

MutexFree == holder = Nobody

IgnoresMutex(t) == FirstInLine(t)    \* mutant: lock dropped before nft is awaited

SelfDeadlock(t) ==    \* mutant: recover calls disarm with the mutex held
  FirstInLine(t) /\ MutexFree /\ ~(calls[t].op = "recover" /\ Entries(active) # {})

CanEnter(t) == FirstInLine(t) /\ MutexFree

(* The mutex is granted; the map is changed and nft is started. *)
StartNft(t) ==
  /\ CanEnter(t)
  /\ RunsNft(calls[t])
  /\ queue' = Tail(queue)
  /\ holder' = t
  /\ before' = active
  /\ active' = After(active, calls[t])
  /\ script' = ScriptFor(calls[t])
  /\ UNCHANGED <<kernel, calls, reply, down, synced>>

Answer(t, result) ==
  /\ calls' = [calls EXCEPT ![t] = NoCall]
  /\ reply' = [reply EXCEPT ![t] = IF calls[t].op = "arm" THEN result ELSE "none"]

(* The operation ends without nft: nothing to disarm, or a refused union. *)
SkipNft(t) ==
  /\ CanEnter(t)
  /\ ~RunsNft(calls[t])
  /\ queue' = Tail(queue)
  /\ active' = After(active, calls[t])
  /\ synced' = (synced /\ active' = active)
  /\ Answer(t, "failed")
  /\ UNCHANGED <<kernel, holder, script, before, down>>

AssumesSuccess(t, ok) ==    \* mutant: the exit status of nft is not looked at
  /\ holder = t
  /\ holder' = Nobody
  /\ kernel' = IF ok THEN script ELSE kernel
  /\ synced' = ok
  /\ \/ ~down /\ Answer(t, "ok")
     \/ down /\ UNCHANGED <<calls, reply>>
  /\ UNCHANGED <<active, queue, script, before, down>>

(* nft exits.  Its transaction either replaced the table or did nothing;    *)
(* a dead daemon's nft still finishes, with nobody to report to.            *)
NftExits(t, ok) ==
  /\ holder = t
  /\ holder' = Nobody
  /\ kernel' = IF ok THEN script ELSE kernel
  /\ synced' = ok
  /\ \/ ~down /\ Answer(t, IF ok THEN "ok" ELSE "failed")
     \/ down /\ UNCHANGED <<calls, reply>>
  /\ UNCHANGED <<active, queue, script, before, down>>

(* Every waiting caller vanishes with the daemon. *)
Crash ==
  /\ ~down
  /\ down' = TRUE
  /\ queue' = <<>>
  /\ calls' = [t \in Task |-> NoCall]
  /\ reply' = [t \in Task |-> "none"]
  /\ UNCHANGED <<active, kernel, holder, script, before, synced>>

(* systemd starts the daemon again once the old control group is empty.    *)
RestartDaemon ==
  /\ down
  /\ MutexFree
  /\ down' = FALSE
  /\ Restart
  /\ synced' = (kernel = Absent)
  /\ UNCHANGED <<queue, holder, calls, reply, script, before>>

Reboot ==
  /\ down
  /\ MutexFree
  /\ down' = FALSE
  /\ Boot
  /\ synced' = TRUE
  /\ UNCHANGED <<queue, holder, calls, reply, script, before>>

-----------------------------------------------------------------------------
Calls(t) ==
  \/ \E c \in ConnId :
       \/ \E ips \in RemoteSets : ArmConnecting(t, c, ips)
       \/ \E e \in Server : ArmConnected(t, c, e)
       \/ RequestDisarm(t, c)
  \/ RequestRecover(t)

Serve(t) ==
  \/ StartNft(t)
  \/ SkipNft(t)
  \/ \E ok \in BOOLEAN : NftExits(t, ok)

Next ==
  \/ \E t \in Task : Calls(t) \/ Serve(t)
  \/ Crash
  \/ RestartDaemon
  \/ Reboot

Spec == Init /\ [][Next]_vars

(* tokio polls a ready task, and nft terminates: it reads one small script  *)
(* from a pipe and commits it.  Nothing forces a call, a crash or a restart. *)
FairSpec == Spec /\ \A t \in Task : WF_vars(Serve(t))

-----------------------------------------------------------------------------
(* The atomic manager, seen through the mutex: an operation takes effect    *)
(* when its nft has exited.                                                 *)
Published == IF holder = Nobody THEN active ELSE before
Atomic == INSTANCE KillSwitchTable WITH active <- Published

(* Every behaviour of the manager is one of the atomic specification: the    *)
(* mutex of killswitch.rs really makes map and table change together.        *)
ImplementsAtomic == Atomic!TableSpec

(* Between operations, and after a table change that succeeded, a packet is  *)
(* let out exactly when some armed connection's allowance grants it: the     *)
(* "UNION ruleset" of killswitch.rs:5-8, neither older nor wider.            *)
EgressIsUnion ==
  (holder = Nobody /\ ~down /\ synced /\ kernel.up) =>
     \A p \in Packet :
        Accepts(kernel, p) <=> \/ Baseline(p)
                               \/ \E a \in Entries(active) : Grants(a, p)

(* The table disappears only when no connection is armed any more, so one    *)
(* tunnel's end never opens another tunnel's leak protection.                *)
NeverOpensAnother ==
  [][kernel.up /\ ~kernel'.up => Entries(active') = {}]_vars

(* A caller is told "armed" only in the step that installs a table with its   *)
(* own allowance in it (the bool that launch_and_attach and relay act on).    *)
ArmedIsInstalled ==
  [][\A t \in Task : reply[t] # "ok" /\ reply'[t] = "ok" =>
       /\ active'[calls[t].conn] = calls[t].allowance
       /\ kernel' = Ruleset(Entries(active'))]_vars

(* Every caller is answered while the daemon lives: nobody starves at the      *)
(* mutex and no path leaves it locked.                                         *)
CallsAnswered == \A t \in Task : calls[t] # NoCall ~> calls[t] = NoCall
=============================================================================
