------------------------ MODULE KillSwitch_proofs ------------------------
(* Safety of the kill-switch manager for any number of callers, connections, *)
(* servers and devices, and its refinement of the atomic manager.            *)
EXTENDS KillSwitch, KillSwitchRules_proofs, SequenceTheorems

(* Every waiting task has a call, waits once and does not hold the mutex.     *)
QueueInv ==
  /\ \A i \in 1..Len(queue) : calls[queue[i]] # NoCall /\ queue[i] # holder
  /\ \A i, j \in 1..Len(queue) : queue[i] = queue[j] => i = j
  /\ (holder # Nobody /\ ~down) => calls[holder] # NoCall
  /\ down => queue = <<>>

(* The operation nft is running for: what was the map, what it is now.        *)
Running(call) ==
  /\ active = After(before, call)
  /\ call.op = "disarm" => before[call.conn].phase # "none"
  /\ (holder \in Task /\ ~down) => calls[holder] = call

NftInv ==
  holder # Nobody =>
    /\ script = Target(active)
    /\ Entries(active) # {} => Buildable(Entries(active))
    /\ \E call \in Call : Running(call)

(* With the mutex free and the last change of the table in effect, the kernel *)
(* enforces exactly the script of the current map.                            *)
SyncInv == (holder = Nobody /\ synced) =>
    /\ kernel = Target(active)
    /\ Entries(active) # {} => Buildable(Entries(active))

IInv == TypeOK /\ QueueInv /\ NftInv /\ SyncInv

-----------------------------------------------------------------------------
(* Lemmas about maps, calls and scripts. *)

Map == [ConnId -> Allowance \cup {NotArmed}]

LEMMA AllowancePhase == \A a \in Allowance : a.phase \in {"connecting", "connected"}
BY DEF Allowance, Connecting, Connected

LEMMA EntriesType ==
  ASSUME NEW map \in Map
  PROVE  Entries(map) \in SUBSET Allowance
BY DEF Map, Entries, NotArmed

LEMMA CallCases ==
  ASSUME NEW call \in Call
  PROVE  \/ /\ call.op = "arm"
            /\ call.conn \in ConnId /\ call.allowance \in Allowance
            /\ \/ \E ips \in RemoteSets : call.allowance = Connecting(ips)
               \/ \E e \in Server : call.allowance = Connected(e)
         \/ call.op = "disarm" /\ call.conn \in ConnId
         \/ call.op = "recover"
<1>1. CASE \E c \in ConnId, ips \in RemoteSets : call = ArmCall(c, Connecting(ips))
  BY <1>1, TableAssumption DEF ArmCall, Allowance
<1>2. CASE \E c \in ConnId, e \in Server : call = ArmCall(c, Connected(e))
  BY <1>2, TableAssumption DEF ArmCall, Allowance
<1>3. CASE \E c \in ConnId : call = DisarmCall(c)
  BY <1>3 DEF DisarmCall
<1>4. CASE call = RecoverCall
  BY <1>4 DEF RecoverCall
<1> QED
  BY <1>1, <1>2, <1>3, <1>4 DEF Call

LEMMA AfterType ==
  ASSUME NEW map \in Map, NEW call \in Call
  PROVE  After(map, call) \in Map
<1>1. CASE call.op = "arm" /\ call.conn \in ConnId /\ call.allowance \in Allowance
  BY <1>1 DEF After, Map
<1>2. CASE call.op = "disarm" /\ call.conn \in ConnId
  BY <1>2 DEF After, Map
<1>3. CASE call.op = "recover"
  BY <1>3 DEF After, Map, NoneArmed
<1> QED
  BY <1>1, <1>2, <1>3, CallCases

LEMMA TargetType ==
  ASSUME NEW map \in Map, Entries(map) # {} => Buildable(Entries(map))
  PROVE  Target(map) \in Table
<1>1. Absent \in Table
  BY DEF Absent, Table
<1> QED
  BY <1>1, EntriesType, RulesetType DEF Target

LEMMA AfterRunning ==
  ASSUME TypeOK, NEW call \in Call, RunsNft(call)
  PROVE  /\ After(active, call) \in Map
         /\ Target(After(active, call)) \in Table
         /\ Entries(After(active, call)) # {} => Buildable(Entries(After(active, call)))
         /\ call.op = "disarm" => active[call.conn].phase # "none"
<1>1. active \in Map
  BY DEF TypeOK, TableTypeOK, Map
<1>2. After(active, call) \in Map
  BY <1>1, AfterType
<1> QED
  BY <1>2, TargetType DEF RunsNft

(* The head of the queue, and what is left of it. *)
LEMMA HeadFacts ==
  ASSUME TypeOK, QueueInv, queue # <<>>
  PROVE  /\ Head(queue) = queue[1]
         /\ Head(queue) \in Task
         /\ calls[Head(queue)] \in Call
         /\ Len(queue) \in Nat \ {0}
         /\ Tail(queue) \in Seq(Task)
         /\ Len(Tail(queue)) = Len(queue) - 1
         /\ \A i \in 1..Len(Tail(queue)) :
              /\ Tail(queue)[i] = queue[i + 1]
              /\ Tail(queue)[i] \in Task
              /\ Tail(queue)[i] # Head(queue)
              /\ calls[Tail(queue)[i]] # NoCall
              /\ Tail(queue)[i] # holder
         /\ \A i, j \in 1..Len(Tail(queue)) : Tail(queue)[i] = Tail(queue)[j] => i = j
<1>1. queue \in Seq(Task) /\ calls \in [Task -> Call \cup {NoCall}]
  BY DEF TypeOK
<1>2. Len(queue) \in Nat \ {0} /\ Len(queue) >= 1
  BY <1>1, EmptySeq
<1>3. /\ Head(queue) \in Task
      /\ Tail(queue) \in Seq(Task)
      /\ Len(Tail(queue)) = Len(queue) - 1
      /\ \A i \in 1..Len(Tail(queue)) : Tail(queue)[i] = queue[i + 1]
  BY <1>1, HeadTailProperties
<1>4. Head(queue) = queue[1]
  BY <1>1, <1>2
<1>5. \A i \in 1..Len(Tail(queue)) : i + 1 \in 1..Len(queue) /\ i + 1 # 1
  BY <1>2, <1>3
<1>6. \A i \in 1..Len(queue) : queue[i] \in Task
  BY <1>1, ElementOfSeq
<1>7. calls[Head(queue)] \in Call
  BY <1>1, <1>2, <1>3, <1>4 DEF QueueInv
<1>8. \A i \in 1..Len(Tail(queue)) :
         /\ Tail(queue)[i] \in Task /\ Tail(queue)[i] # Head(queue)
         /\ calls[Tail(queue)[i]] # NoCall /\ Tail(queue)[i] # holder
  BY <1>2, <1>3, <1>4, <1>5, <1>6 DEF QueueInv
<1>9. \A i, j \in 1..Len(Tail(queue)) : Tail(queue)[i] = Tail(queue)[j] => i = j
  <2> TAKE i, j \in 1..Len(Tail(queue))
  <2> HAVE Tail(queue)[i] = Tail(queue)[j]
  <2>1. i + 1 = j + 1
    BY <1>3, <1>5 DEF QueueInv
  <2> QED
    BY <2>1, <1>2, <1>3
<1> QED
  BY <1>2, <1>3, <1>4, <1>7, <1>8, <1>9

-----------------------------------------------------------------------------
(* The invariant is inductive. *)

LEMMA InitIInv == Init => IInv
<1> SUFFICES ASSUME Init PROVE IInv
  OBVIOUS
<1> USE DEF Init, TableInit
<1>1. Entries(active) = {}
  BY DEF Entries, NoneArmed, NotArmed
<1>2. active \in Map
  BY DEF NoneArmed, Map
<1>3. Absent \in Table
  BY DEF Absent, Table
<1>4. TypeOK
  BY <1>2, <1>3, EmptySeq DEF TypeOK, TableTypeOK, Map
<1>5. QueueInv
  BY DEF QueueInv
<1>6. NftInv /\ SyncInv
  BY <1>1 DEF NftInv, SyncInv, Target
<1> QED
  BY <1>4, <1>5, <1>6 DEF IInv

LEMMA RequestIInv ==
  ASSUME IInv, NEW t \in Task, NEW call \in Call, Request(t, call)
  PROVE  IInv'
<1> USE DEF IInv, Request
<1>1. queue' \in Seq(Task) /\ Len(queue') = Len(queue) + 1 /\ Len(queue) \in Nat
      /\ queue'[Len(queue) + 1] = t
      /\ \A i \in 1..Len(queue) : queue'[i] = queue[i] /\ queue[i] \in Task
  BY ElementOfSeq, LenProperties, AppendProperties DEF TypeOK
<1>2. \A i \in 1..Len(queue) : queue[i] # t
  BY DEF QueueInv
<1>3. holder # t
  BY TaskAssumption DEF QueueInv
<1>4. TypeOK'
  BY <1>1 DEF TypeOK, TableTypeOK
<1>5. QueueInv'
  <2>1. \A i \in 1..Len(queue') : calls'[queue'[i]] # NoCall /\ queue'[i] # holder'
    BY <1>1, <1>2, <1>3, TaskAssumption DEF QueueInv, TypeOK
  <2>2. \A i, j \in 1..Len(queue') : queue'[i] = queue'[j] => i = j
    BY <1>1, <1>2 DEF QueueInv
  <2>3. (holder' # Nobody /\ ~down') => calls'[holder'] # NoCall
    BY <1>3 DEF QueueInv, TypeOK
  <2> QED
    BY <2>1, <2>2, <2>3 DEF QueueInv
<1>6. NftInv'
  BY <1>3 DEF NftInv, Running, TypeOK, Target
<1>7. SyncInv'
  BY DEF SyncInv
<1> QED
  BY <1>4, <1>5, <1>6, <1>7

LEMMA StartNftIInv ==
  ASSUME IInv, NEW t \in Task, StartNft(t)
  PROVE  IInv'
<1> USE DEF IInv, StartNft, CanEnter, FirstInLine, MutexFree
<1> DEFINE call == calls[t]
<1>1. call \in Call /\ call # NoCall
  BY HeadFacts, TaskAssumption
<1>2. /\ active' \in Map /\ script' \in Table /\ script' = Target(active')
      /\ Entries(active') # {} => Buildable(Entries(active'))
      /\ call.op = "disarm" => active[call.conn].phase # "none"
  BY <1>1, AfterRunning DEF ScriptFor
<1>3. TypeOK'
  BY <1>2, HeadFacts DEF TypeOK, TableTypeOK, Map
<1>4. QueueInv'
  BY <1>1, HeadFacts DEF QueueInv
<1>5. NftInv'
  BY <1>1, <1>2 DEF NftInv, Running
<1>6. SyncInv'
  BY TaskAssumption DEF SyncInv
<1> QED
  BY <1>3, <1>4, <1>5, <1>6

LEMMA SkipNftIInv ==
  ASSUME IInv, NEW t \in Task, SkipNft(t)
  PROVE  IInv'
<1> USE DEF IInv, SkipNft, CanEnter, FirstInLine, MutexFree
<1>1. calls[t] \in Call
  BY HeadFacts
<1>2. active' \in Map
  BY <1>1, AfterType DEF TypeOK, TableTypeOK, Map
<1>3. TypeOK'
  BY <1>2, HeadFacts DEF TypeOK, TableTypeOK, Map, Answer
<1>4. QueueInv'
  BY HeadFacts DEF QueueInv, Answer, TypeOK
<1>5. NftInv'
  BY DEF NftInv
<1>6. SyncInv'
  BY DEF SyncInv
<1> QED
  BY <1>3, <1>4, <1>5, <1>6

LEMMA NftExitsIInv ==
  ASSUME IInv, NEW t \in Task, NEW ok \in BOOLEAN, NftExits(t, ok)
  PROVE  IInv'
<1> USE DEF IInv, NftExits
<1>1. /\ holder # Nobody /\ script = Target(active)
      /\ Entries(active) # {} => Buildable(Entries(active))
  BY TaskAssumption DEF NftInv
<1>2. TypeOK'
  BY DEF TypeOK, TableTypeOK, Answer
<1>3. QueueInv'
  <2>1. \A i \in 1..Len(queue) : queue[i] \in Task /\ queue[i] # t
    BY ElementOfSeq DEF QueueInv, TypeOK
  <2>2. \A i \in 1..Len(queue) : calls'[queue[i]] # NoCall
    BY <2>1 DEF QueueInv, Answer, TypeOK
  <2> QED
    BY <2>1, <2>2, TaskAssumption DEF QueueInv
<1>4. NftInv'
  BY DEF NftInv
<1>5. SyncInv'
  BY <1>1 DEF SyncInv, Target
<1> QED
  BY <1>2, <1>3, <1>4, <1>5

LEMMA CrashIInv == ASSUME IInv, Crash PROVE IInv'
<1> USE DEF IInv, Crash
<1>1. TypeOK'
  BY EmptySeq DEF TypeOK, TableTypeOK
<1>2. QueueInv'
  BY EmptySeq DEF QueueInv
<1>3. NftInv'
  BY DEF NftInv, Running, Target
<1>4. SyncInv'
  BY DEF SyncInv, Target
<1> QED
  BY <1>1, <1>2, <1>3, <1>4

LEMMA FreshMap ==
  /\ NoneArmed \in Map
  /\ Entries(NoneArmed) = {}
  /\ Target(NoneArmed) = Absent
  /\ Absent \in Table
BY DEF NoneArmed, Map, Entries, NotArmed, Target, Absent, Table

LEMMA RestartIInv == ASSUME IInv, RestartDaemon \/ Reboot PROVE IInv'
<1> USE DEF IInv, RestartDaemon, Reboot, Restart, Boot, MutexFree
<1>1. TypeOK'
  BY FreshMap DEF TypeOK, TableTypeOK, Map
<1>2. QueueInv'
  BY EmptySeq DEF QueueInv
<1>3. NftInv'
  BY DEF NftInv
<1>4. SyncInv'
  BY FreshMap DEF SyncInv
<1> QED
  BY <1>1, <1>2, <1>3, <1>4

LEMMA NextIInv == IInv /\ [Next]_vars => IInv'
<1> SUFFICES ASSUME IInv, [Next]_vars PROVE IInv'
  OBVIOUS
<1>1. ASSUME NEW t \in Task, Calls(t) PROVE IInv'
  <2>1. PICK call \in Call : Request(t, call)
    BY <1>1 DEF Calls, ArmConnecting, ArmConnected, RequestDisarm, RequestRecover, Call
  <2> QED
    BY <2>1, RequestIInv
<1>2. ASSUME NEW t \in Task, Serve(t) PROVE IInv'
  BY <1>2, StartNftIInv, SkipNftIInv, NftExitsIInv DEF Serve
<1>3. CASE UNCHANGED vars
  BY <1>3 DEF vars, IInv, TypeOK, TableTypeOK, QueueInv, NftInv, Running, SyncInv, Target
<1> QED
  BY <1>1, <1>2, <1>3, CrashIInv, RestartIInv DEF Next

(* The inductive invariant holds in every behaviour of the manager.           *)
THEOREM Invariance == Spec => []IInv
BY InitIInv, NextIInv, PTL DEF Spec

(* Type correctness: in particular the kernel never holds a rule for a device *)
(* name that was not validated.                                              *)
THEOREM TypeCorrect == Spec => []TypeOK
BY Invariance, PTL DEF IInv

-----------------------------------------------------------------------------
(* The properties the runs check. *)

(* Between operations the kernel lets out exactly what the armed connections  *)
(* grant, for any number of callers racing for the mutex.                    *)
THEOREM EgressUnion == Spec => []EgressIsUnion
<1>1. IInv => EgressIsUnion
  <2> SUFFICES ASSUME IInv, holder = Nobody, synced, kernel.up, NEW p \in Packet
               PROVE  Accepts(kernel, p) <=>
                        Baseline(p) \/ \E a \in Entries(active) : Grants(a, p)
    BY DEF EgressIsUnion
  <2>1. kernel = Target(active) /\ (Entries(active) # {} => Buildable(Entries(active)))
    BY DEF IInv, SyncInv
  <2>2. Entries(active) # {} /\ kernel = Ruleset(Entries(active))
    BY <2>1 DEF Target, Absent
  <2>3. Entries(active) \in SUBSET Allowance
    BY EntriesType DEF IInv, TypeOK, TableTypeOK, Map
  <2> QED
    BY <2>1, <2>2, <2>3, RulesetIsUnion
<1> QED
  BY <1>1, Invariance, PTL

(* The table is torn down only by an operation that leaves no connection       *)
(* armed.                                                                     *)
THEOREM TearDownIsLast == Spec => NeverOpensAnother
<1>1. ASSUME IInv, [Next]_vars, kernel.up, ~kernel'.up
      PROVE  Entries(active') = {}
  <2>1. CASE \E t \in Task, ok \in BOOLEAN : NftExits(t, ok)
    <3>1. PICK t \in Task, ok \in BOOLEAN : NftExits(t, ok)
      BY <2>1
    <3>2. active' = active /\ kernel' = script /\ script = Target(active)
      BY <1>1, <3>1, TaskAssumption DEF NftExits, IInv, NftInv
    <3> QED
      BY <1>1, <3>2 DEF Target, Ruleset
  <2>2. CASE Reboot
    BY <2>2, FreshMap DEF Reboot, Boot
  <2>3. CASE kernel' = kernel
    BY <1>1, <2>3
  <2> QED
    BY <1>1, <2>1, <2>2, <2>3
       DEF Next, vars, Calls, Serve, ArmConnecting, ArmConnected, RequestDisarm,
           RequestRecover, Request, StartNft, SkipNft, Crash, RestartDaemon, Restart
<1>2. IInv /\ [Next]_vars => [kernel.up /\ ~kernel'.up => Entries(active') = {}]_vars
  BY <1>1
<1> QED
  BY <1>2, Invariance, PTL DEF Spec, NeverOpensAnother

(* A caller is told "armed" only by the step that put its own allowance under *)
(* the installed table.                                                       *)
THEOREM ArmReplies == Spec => ArmedIsInstalled
<1> DEFINE Step == \A t \in Task : reply[t] # "ok" /\ reply'[t] = "ok" =>
                     /\ active'[calls[t].conn] = calls[t].allowance
                     /\ kernel' = Ruleset(Entries(active'))
<1>1. ASSUME IInv, [Next]_vars, NEW t \in Task, reply[t] # "ok", reply'[t] = "ok"
      PROVE  /\ active'[calls[t].conn] = calls[t].allowance
             /\ kernel' = Ruleset(Entries(active'))
  <2> USE <1>1 DEF IInv
  <2>1. CASE \E u \in Task, ok \in BOOLEAN : NftExits(u, ok)
    <3>1. PICK u \in Task, ok \in BOOLEAN : NftExits(u, ok)
      BY <2>1
    <3>2. u = t /\ ~down /\ ok /\ calls[t].op = "arm" /\ holder = t
      BY <3>1 DEF NftExits, Answer, TypeOK
    <3>3. /\ kernel' = Target(active) /\ active' = active
          /\ \E call \in Call : Running(call)
      BY <3>1, <3>2, TaskAssumption DEF NftExits, NftInv
    <3>4. PICK call \in Call : Running(call)
      BY <3>3
    <3>5. call = calls[t]
      BY <3>2, <3>4 DEF Running
    <3>6. call.conn \in ConnId /\ call.allowance \in Allowance
      BY <3>2, <3>5, CallCases
    <3>7. active = [before EXCEPT ![call.conn] = call.allowance]
      BY <3>2, <3>4, <3>5 DEF Running, After
    <3>8. active[call.conn] = call.allowance
      BY <3>6, <3>7 DEF TypeOK
    <3>9. active[call.conn] \in Entries(active)
      BY <3>6, <3>8, AllowancePhase DEF Entries
    <3> QED
      BY <3>3, <3>5, <3>8, <3>9 DEF Target
  <2>2. CASE reply' = reply
    BY <2>2
  <2>3. CASE \E u \in Task : SkipNft(u)
    BY <2>3 DEF SkipNft, Answer, TypeOK
  <2>4. CASE \E u \in Task, call \in Call : Request(u, call)
    BY <2>4 DEF Request, TypeOK
  <2>5. CASE Crash
    BY <2>5 DEF Crash
  <2>6. ASSUME NEW u \in Task, Calls(u) PROVE \E call \in Call : Request(u, call)
    BY <2>6 DEF Calls, ArmConnecting, ArmConnected, RequestDisarm, RequestRecover, Call
  <2> QED
    BY <2>1, <2>2, <2>3, <2>4, <2>5, <2>6
       DEF Next, vars, Serve, StartNft, RestartDaemon, Reboot
<1>2. IInv /\ [Next]_vars => [Step]_vars
  BY <1>1
<1> QED
  BY <1>2, Invariance, PTL DEF Spec, ArmedIsInstalled

-----------------------------------------------------------------------------
(* Refinement: the mutex makes every operation atomic. *)

LEMMA AtomicDefs ==
  /\ \A map : Atomic!Entries(map) = Entries(map)
  /\ Atomic!NoneArmed = NoneArmed
  /\ Atomic!NotArmed = NotArmed
  /\ \A A : Atomic!Buildable(A) <=> Buildable(A)
  /\ \A A : Atomic!Ruleset(A) = Ruleset(A)
  /\ \A ips : Atomic!Connecting(ips) = Connecting(ips)
  /\ \A e : Atomic!Connected(e) = Connected(e)
  /\ Atomic!Absent = Absent
BY DEF Atomic!Entries, Entries, Atomic!NoneArmed, NoneArmed, Atomic!NotArmed, NotArmed,
       Atomic!Buildable, Buildable, Atomic!Ruleset, Ruleset, Atomic!Connecting, Connecting,
       Atomic!Connected, Connected, Atomic!Absent, Absent, Atomic!Peer, Peer

(* An operation that changes the published map and table as its call says, or *)
(* leaves the table alone, is an operation of the atomic manager.             *)
LEMMA OperationIsAtomic ==
  ASSUME NEW call \in Call, NEW ok \in BOOLEAN, Published \in Map,
         Published' = After(Published, call),
         ok => (Entries(Published') # {} => Buildable(Entries(Published'))),
         kernel' = IF ok THEN Target(Published') ELSE kernel,
         call.op = "disarm" => Published[call.conn].phase # "none"
  PROVE  Atomic!TableNext
<1> USE AtomicDefs
<1>1. CASE call.op = "arm"
  <2>1. /\ call.conn \in ConnId /\ call.allowance \in Allowance
        /\ \/ \E ips \in RemoteSets : call.allowance = Connecting(ips)
           \/ \E e \in Server : call.allowance = Connected(e)
    BY <1>1, CallCases
  <2>2. Published' = [Published EXCEPT ![call.conn] = call.allowance]
    BY <1>1 DEF After
  <2>3. Published'[call.conn] \in Entries(Published')
    BY <2>1, <2>2, AllowancePhase DEF Entries, Map
  <2>4. Atomic!Arm(call.conn, call.allowance, ok)
    BY <2>2, <2>3 DEF Atomic!Arm, Atomic!Reinstall, Target
  <2> QED
    BY <2>1, <2>4 DEF Atomic!TableNext
<1>2. CASE call.op = "disarm"
  <2>1. call.conn \in ConnId
    BY <1>2, CallCases
  <2>2. Published' = [Published EXCEPT ![call.conn] = NotArmed]
    BY <1>2 DEF After
  <2>3. Atomic!Disarm(call.conn, ok)
    BY <1>2, <2>2 DEF Atomic!Disarm, Atomic!Reinstall, Atomic!TearDown, Target
  <2> QED
    BY <2>1, <2>3 DEF Atomic!TableNext
<1>3. CASE call.op = "recover"
  <2>1. Published' = NoneArmed
    BY <1>3 DEF After
  <2>2. Atomic!Recover(ok)
    BY <2>1, FreshMap DEF Atomic!Recover, Atomic!TearDown
  <2> QED
    BY <2>2 DEF Atomic!TableNext
<1> QED
  BY <1>1, <1>2, <1>3, CallCases

LEMMA InitRefines == Init => Atomic!TableInit
BY AtomicDefs DEF Init, TableInit, Atomic!TableInit, Published

LEMMA NextRefines ==
  ASSUME IInv, [Next]_vars
  PROVE  [Atomic!TableNext]_(Atomic!tableVars)
<1> USE DEF IInv
<1>1. CASE \E t \in Task, ok \in BOOLEAN : NftExits(t, ok)
  <2>1. PICK t \in Task, ok \in BOOLEAN : NftExits(t, ok)
    BY <1>1
  <2>2. /\ Published = before /\ Published' = active
        /\ script = Target(active) /\ (Entries(active) # {} => Buildable(Entries(active)))
        /\ \E call \in Call : Running(call)
    BY <2>1, TaskAssumption DEF NftExits, Published, NftInv
  <2>3. PICK call \in Call : Running(call)
    BY <2>2
  <2>4. Published \in Map
    BY <2>2 DEF TypeOK, Map
  <2>5. kernel' = IF ok THEN Target(Published') ELSE kernel
    BY <2>1, <2>2 DEF NftExits
  <2> QED
    BY <2>2, <2>3, <2>4, <2>5, OperationIsAtomic DEF Running
<1>2. CASE \E t \in Task : SkipNft(t)
  <2>1. PICK t \in Task : SkipNft(t)
    BY <1>2
  <2> DEFINE call == calls[t]
  <2>2. call \in Call /\ ~RunsNft(call)
    BY <2>1, HeadFacts DEF SkipNft, CanEnter, FirstInLine
  <2>3. /\ Published = active /\ Published' = After(active, call)
        /\ kernel' = kernel /\ active' = After(active, call)
    BY <2>1 DEF SkipNft, CanEnter, MutexFree, Published
  <2>4. active \in Map
    BY DEF TypeOK, TableTypeOK, Map
  <2>5. CASE call.op = "disarm" /\ active[call.conn].phase = "none"
    <3>1. active[call.conn] = NotArmed
      BY <2>2, <2>4, <2>5, CallCases, AllowancePhase DEF Map
    <3>2. After(active, call) = active
      BY <2>4, <2>5, <3>1 DEF After, Map
    <3> QED
      BY <2>3, <3>2 DEF Atomic!tableVars
  <2>6. CASE ~(call.op = "disarm" /\ active[call.conn].phase = "none")
    BY <2>2, <2>3, <2>4, <2>6, OperationIsAtomic
  <2> QED
    BY <2>5, <2>6
<1>3. CASE RestartDaemon \/ Reboot
  <2>1. holder = Nobody /\ holder' = Nobody /\ active' = NoneArmed
    BY <1>3 DEF RestartDaemon, Reboot, MutexFree, Restart, Boot
  <2>2. Published' = NoneArmed
    BY <2>1 DEF Published
  <2>3. Atomic!Restart \/ Atomic!Boot
    BY <1>3, <2>2, AtomicDefs
       DEF RestartDaemon, Reboot, Restart, Boot, Atomic!Restart, Atomic!Boot
  <2> QED
    BY <2>3 DEF Atomic!TableNext
<1>4. CASE Published' = Published /\ kernel' = kernel
  BY <1>4 DEF Atomic!tableVars
<1>5. ASSUME NEW t \in Task, StartNft(t) PROVE Published' = Published /\ kernel' = kernel
  BY <1>5, TaskAssumption DEF StartNft, CanEnter, MutexFree, Published
<1>6. ASSUME NEW t \in Task, Calls(t) PROVE Published' = Published /\ kernel' = kernel
  BY <1>6 DEF Calls, ArmConnecting, ArmConnected, RequestDisarm, RequestRecover, Request,
              Published
<1>7. Crash \/ UNCHANGED vars => Published' = Published /\ kernel' = kernel
  BY DEF Crash, vars, Published
<1> QED
  BY <1>1, <1>2, <1>3, <1>4, <1>5, <1>6, <1>7 DEF Next, Serve

(* The manager implements the atomic specification VpnDaemon is built on: no  *)
(* interleaving of callers, nft runs, failures and crashes shows a map and a  *)
(* table that no sequence of atomic operations would.                        *)
THEOREM Refinement == Spec => ImplementsAtomic
<1>1. IInv /\ [Next]_vars => [Atomic!TableNext]_(Atomic!tableVars)
  BY NextRefines
<1> QED
  BY <1>1, InitRefines, Invariance, PTL DEF Spec, ImplementsAtomic, Atomic!TableSpec
=============================================================================
