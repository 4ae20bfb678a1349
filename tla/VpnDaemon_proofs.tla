------------------------- MODULE VpnDaemon_proofs -------------------------
(* Safety of the connections' life cycle for any number of connections,      *)
(* servers, devices and unread management lines.                             *)
EXTENDS VpnDaemon, KillSwitchRules_proofs, SequenceTheorems

(* Which process goes with which stage, and what the stage says of the       *)
(* connection's allowance.                                                   *)
StageInv ==
  \A c \in ConnId :
    /\ stage[c] \in {"idle", "spawning"} => proc[c] = "none" /\ ~armed[c]
    /\ stage[c] \in {"attaching", "attached"} => proc[c] \in {"held", "dead"}
    /\ stage[c] = "locking" => killswitch[c]
    /\ stage[c] \in {"spawning", "attaching"} => active[c].phase # "connected"
    /\ stage[c] = "reaping" /\ active[c].phase # "none" => armed[c] /\ ~snapshot[c]

Said(c) == \E i \in 1..Len(lines[c]) : lines[c][i] = "CONNECTED"

(* Once no CONNECTED is left unread, what the relay has read of the up        *)
(* helper's file, and locked onto, is what the file holds.                   *)
FollowInv ==
  \A c \in ConnId :
    /\ armed[c] => killswitch[c]
    /\ proc[c] = "up" /\ ~Said(c) =>
         /\ stage[c] \in {"confining", "locking"} => seen[c] = env[c]
         /\ stage[c] = "relaying" /\ armed[c] /\ active[c].phase # "none"
              => active[c] = Connected(env[c])

(* What every step preserves, and from which the properties below follow.     *)
IInv == TypeOK /\ StageInv /\ FollowInv /\ ShieldHolds

-----------------------------------------------------------------------------
(* Lemmas about the table. *)

Map == [ConnId -> Allowance \cup {NotArmed}]

(* The table is up and admits what the allowance of c grants. *)
Covers(c) ==
  /\ kernel.up
  /\ \A p \in Packet : Grants(active[c], p) => Accepts(kernel, p)

LEMMA PhaseFacts ==
  /\ \A a \in Allowance : a.phase \in {"connecting", "connected"}
  /\ \A ips : Connecting(ips).phase = "connecting"
  /\ \A e : Connected(e).phase = "connected"
  /\ NotArmed.phase = "none"
  /\ \A ips \in RemoteSets : Connecting(ips) \in Allowance
  /\ \A e \in Endpoint : Connected(e) \in Allowance
<1>1. \A a \in Allowance : a.phase \in {"connecting", "connected"}
  BY DEF Allowance, Connecting, Connected
<1>2. \A ips \in RemoteSets : Connecting(ips) \in Allowance
  BY TableAssumption DEF Allowance
<1>3. \A e \in Endpoint : Connected(e) \in Allowance
  BY DEF Allowance
<1> QED
  BY <1>1, <1>2, <1>3 DEF Connecting, Connected, NotArmed

LEMMA AbsentType == Absent \in Table /\ ~Absent.up
BY DEF Absent, Table

(* After a successful rebuild every entry of the map is covered. *)
LEMMA RebuildCovers ==
  ASSUME NEW map \in Map, Buildable(Entries(map)), NEW d \in ConnId,
         map[d].phase # "none"
  PROVE  /\ Ruleset(Entries(map)) \in Table
         /\ Ruleset(Entries(map)).up
         /\ \A p \in Packet : Grants(map[d], p) => Accepts(Ruleset(Entries(map)), p)
<1>1. Entries(map) \in SUBSET Allowance
  BY DEF Map, Entries, NotArmed
<1>2. map[d] \in Entries(map)
  BY DEF Entries
<1> QED
  BY <1>1, <1>2, RulesetType, RulesetCovers

LEMMA ArmFacts ==
  ASSUME TableTypeOK, NEW c \in ConnId, NEW a \in Allowance, NEW ok \in BOOLEAN,
         Arm(c, a, ok)
  PROVE  /\ TableTypeOK'
         /\ active'[c] = a
         /\ \A d \in ConnId \ {c} : active'[d] = active[d]
         /\ ~ok => kernel' = kernel
         /\ ok => \A d \in ConnId : active'[d].phase # "none" => Covers(d)'
<1>1. active \in Map /\ kernel \in Table
  BY DEF TableTypeOK, Map
<1>2. active' = [active EXCEPT ![c] = a] /\ active' \in Map
  BY <1>1 DEF Arm, Map
<1>3. ~ok => kernel' = kernel
  BY DEF Arm, Reinstall
<1>4. ok => Buildable(Entries(active')) /\ kernel' = Ruleset(Entries(active'))
  BY <1>2 DEF Arm, Reinstall
<1>5. ok => \A d \in ConnId : active'[d].phase # "none" => Covers(d)'
  BY <1>2, <1>4, RebuildCovers DEF Covers
<1>6. ok => kernel' \in Table
  BY <1>2, <1>4, RebuildCovers, PhaseFacts DEF Map
<1> QED
  BY <1>1, <1>2, <1>3, <1>5, <1>6 DEF TableTypeOK, Map

LEMMA DisarmFacts ==
  ASSUME TableTypeOK, NEW c \in ConnId, NEW ok \in BOOLEAN, Disarm(c, ok)
  PROVE  /\ TableTypeOK'
         /\ active'[c] = NotArmed
         /\ \A d \in ConnId \ {c} : active'[d] = active[d]
         /\ \A d \in ConnId \ {c} :
              active[d].phase # "none" /\ Covers(d) => Covers(d)'
<1> DEFINE rest == [active EXCEPT ![c] = NotArmed]
<1>1. active \in Map /\ kernel \in Table /\ rest \in Map
  BY DEF TableTypeOK, Map
<1>2. CASE active[c].phase = "none" /\ UNCHANGED tableVars
  <2>1. active[c] = NotArmed
    BY <1>1, <1>2, PhaseFacts DEF Map
  <2> QED
    BY <1>2, <2>1 DEF TableTypeOK, tableVars, Covers
<1>3. CASE active' = rest /\ Entries(rest) = {} /\ TearDown(ok)
  <2>1. \A d \in ConnId \ {c} : active[d].phase = "none"
    BY <1>1, <1>3 DEF Entries, Map
  <2> QED
    BY <1>1, <1>3, <2>1, AbsentType DEF TearDown, TableTypeOK, Map
<1>4. CASE active' = rest /\ Entries(rest) # {} /\ Reinstall(rest, ok)
  <2>1. kernel' = IF ok THEN Ruleset(Entries(rest)) ELSE kernel
    BY <1>4 DEF Reinstall
  <2>2. ok => Buildable(Entries(rest))
    BY <1>4 DEF Reinstall
  <2>3. PICK e \in ConnId : rest[e].phase # "none"
    BY <1>4 DEF Entries
  <2>4. kernel' \in Table
    BY <1>1, <2>1, <2>2, <2>3, RebuildCovers
  <2>5. \A d \in ConnId \ {c} : active'[d] = active[d] /\ rest[d] = active[d]
    BY <1>1, <1>4 DEF Map
  <2>6. ASSUME NEW d \in ConnId \ {c}, active[d].phase # "none", Covers(d)
        PROVE  Covers(d)'
    <3>1. CASE ok
      BY <1>1, <2>1, <2>2, <2>5, <2>6, <3>1, RebuildCovers DEF Covers
    <3>2. CASE ~ok
      BY <2>1, <2>5, <2>6, <3>2 DEF Covers
    <3> QED
      BY <3>1, <3>2
  <2> QED
    BY <1>1, <1>4, <2>4, <2>5, <2>6 DEF TableTypeOK, Map
<1> QED
  BY <1>2, <1>3, <1>4 DEF Disarm

(* A step that leaves the table alone keeps the shields up when it shields    *)
(* nobody who was not shielded.                                              *)
LEMMA QuietShield ==
  ASSUME ShieldHolds, UNCHANGED tableVars,
         \A d \in ConnId : Shielded(d)' => Shielded(d)
  PROVE  ShieldHolds'
BY DEF ShieldHolds, tableVars


-----------------------------------------------------------------------------
(* The invariant is inductive: the initial state, then action by action.     *)

LEMMA InitIInv == Init => IInv
<1> SUFFICES ASSUME Init PROVE IInv
  OBVIOUS
<1> USE DEF Init, TableInit
<1>1. TypeOK
  BY EmptySeq, AbsentType DEF TypeOK, TableTypeOK, NoneArmed, Stage, Env
<1>2. StageInv
  BY DEF StageInv, NoneArmed, NotArmed
<1>3. FollowInv
  BY DEF FollowInv
<1>4. ShieldHolds
  BY DEF ShieldHolds, Shielded, NoneArmed, NotArmed
<1> QED
  BY <1>1, <1>2, <1>3, <1>4 DEF IInv

(* A connection may vanish when the table stays as it is, provided that an    *)
(* allowance it leaves on the tunnel was in force.                           *)
LEMMA VanishKeeps ==
  ASSUME IInv, NEW c \in ConnId, Vanish(c), UNCHANGED tableVars,
         active[c].phase = "connected" => Shielded(c)
  PROVE  IInv'
<1> USE DEF IInv, Vanish
<1>1. TypeOK'
  BY EmptySeq DEF TypeOK, TableTypeOK, tableVars, Stage, Env
<1>2. StageInv'
  BY DEF StageInv, TypeOK, tableVars
<1>3. FollowInv'
  BY DEF FollowInv, Said, TypeOK, tableVars
<1>4. ShieldHolds'
  BY QuietShield DEF Shielded, TypeOK, tableVars
<1> QED
  BY <1>1, <1>2, <1>3, <1>4

LEMMA LaunchFailsKeeps ==
  ASSUME IInv, NEW c \in ConnId, LaunchFails(c)
  PROVE  IInv'
<1>1. active[c].phase # "connected"
  BY DEF IInv, StageInv, LaunchFails
<1> QED
  BY <1>1, VanishKeeps DEF LaunchFails

LEMMA UnregisterKeeps ==
  ASSUME IInv, NEW c \in ConnId, Unregister(c)
  PROVE  IInv'
<1>1. active[c].phase = "connected" => Shielded(c)
  BY DEF IInv, StageInv, Unregister, Shielded
<1> QED
  BY <1>1, VanishKeeps DEF Unregister

LEMMA SpawnKeeps ==
  ASSUME IInv, NEW c \in ConnId, Spawn(c)
  PROVE  IInv'
<1> USE DEF IInv, Spawn
<1>1. TypeOK'
  BY DEF TypeOK, TableTypeOK, tableVars, Stage, Alive
<1>2. StageInv'
  BY DEF StageInv, TypeOK, tableVars
<1>3. FollowInv'
  BY DEF FollowInv, Said, tableVars
<1>4. ShieldHolds'
  BY QuietShield DEF Shielded, tableVars
<1> QED
  BY <1>1, <1>2, <1>3, <1>4

LEMMA AttachKeeps ==
  ASSUME IInv, NEW c \in ConnId, Attach(c)
  PROVE  IInv'
<1> USE DEF IInv, Attach
<1>1. TypeOK'
  BY DEF TypeOK, TableTypeOK, tableVars, procVars, Stage
<1>2. StageInv'
  BY DEF StageInv, tableVars, procVars
<1>3. FollowInv'
  BY DEF FollowInv, Said, tableVars, procVars
<1>4. ShieldHolds'
  BY QuietShield DEF Shielded, tableVars
<1> QED
  BY <1>1, <1>2, <1>3, <1>4

LEMMA ReleaseHoldKeeps ==
  ASSUME IInv, NEW c \in ConnId, ReleaseHold(c)
  PROVE  IInv'
<1> USE DEF IInv, ReleaseHold
<1>1. TypeOK'
  BY DEF TypeOK, TableTypeOK, tableVars, Stage, Alive
<1>2. StageInv'
  BY DEF StageInv, TypeOK, tableVars
<1>3. FollowInv'
  BY DEF FollowInv, StageInv, Said, tableVars
<1>4. ShieldHolds'
  BY QuietShield DEF Shielded, tableVars
<1> QED
  BY <1>1, <1>2, <1>3, <1>4

LEMMA TunnelDropsKeeps ==
  ASSUME IInv, NEW c \in ConnId, TunnelDrops(c)
  PROVE  IInv'
<1> USE DEF IInv, TunnelDrops, Says
<1>1. TypeOK'
  BY DEF TypeOK, TableTypeOK, tableVars, relayVars, Alive
<1>2. StageInv'
  BY DEF StageInv, tableVars, relayVars
<1>3. FollowInv'
  BY DEF FollowInv, Said, tableVars, relayVars
<1>4. ShieldHolds'
  BY QuietShield DEF Shielded, tableVars, relayVars
<1> QED
  BY <1>1, <1>2, <1>3, <1>4

LEMMA ProcessExitsKeeps ==
  ASSUME IInv, NEW c \in ConnId, ProcessExits(c)
  PROVE  IInv'
<1> USE DEF IInv, ProcessExits
<1>1. TypeOK'
  BY DEF TypeOK, TableTypeOK, tableVars, relayVars
<1>2. StageInv'
  BY DEF StageInv, tableVars, relayVars, Alive
<1>3. FollowInv'
  BY DEF FollowInv, Said, tableVars, relayVars
<1>4. ShieldHolds'
  BY QuietShield DEF Shielded, tableVars, relayVars
<1> QED
  BY <1>1, <1>2, <1>3, <1>4

LEMMA ConfineDnsKeeps ==
  ASSUME IInv, NEW c \in ConnId, ConfineDns(c)
  PROVE  IInv'
<1> USE DEF IInv, ConfineDns, SendSigterm
<1>1. TypeOK'
  BY DEF TypeOK, TableTypeOK, tableVars, Stage, Env
<1>2. StageInv'
  BY DEF StageInv, tableVars
<1>3. FollowInv'
  <2>1. \A d \in ConnId : stage'[d] \in {"confining", "locking"} =>
          seen'[d] = seen[d] /\ stage[d] \in {"confining", "locking"}
    BY DEF TypeOK
  <2>2. \A d \in ConnId : stage'[d] = "relaying" /\ armed[d] => stage[d] = "relaying" \/ d = c
    BY DEF TypeOK
  <2>3. armed[c] => stage'[c] = "locking"
    BY DEF FollowInv, TypeOK
  <2> QED
    BY <2>1, <2>2, <2>3 DEF FollowInv, Said, tableVars
<1>4. ShieldHolds'
  BY QuietShield DEF Shielded, tableVars
<1> QED
  BY <1>1, <1>2, <1>3, <1>4

LEMMA StreamEndsKeeps ==
  ASSUME IInv, NEW c \in ConnId, StreamEnds(c)
  PROVE  IInv'
<1> USE DEF IInv, StreamEnds
<1>1. TypeOK'
  BY DEF TypeOK, TableTypeOK, tableVars, procVars, Stage
<1>2. StageInv'
  BY DEF StageInv, tableVars, procVars
<1>3. FollowInv'
  BY DEF FollowInv, Said, tableVars, procVars
<1>4. ShieldHolds'
  BY QuietShield DEF Shielded, tableVars
<1> QED
  BY <1>1, <1>2, <1>3, <1>4

LEMMA ChannelBreaksKeeps ==
  ASSUME IInv, NEW c \in ConnId, ChannelBreaks(c)
  PROVE  IInv'
<1> USE DEF IInv, ChannelBreaks
<1>1. TypeOK'
  BY EmptySeq DEF TypeOK, TableTypeOK, tableVars, Stage
<1>2. StageInv'
  BY DEF StageInv, tableVars
<1>3. FollowInv'
  <2>1. \A d \in ConnId \ {c} : Said(d)' <=> Said(d)
    BY DEF Said, TypeOK
  <2> QED
    BY <2>1 DEF FollowInv, TypeOK, tableVars
<1>4. ShieldHolds'
  BY QuietShield DEF Shielded, tableVars
<1> QED
  BY <1>1, <1>2, <1>3, <1>4

LEMMA DisconnectKeeps ==
  ASSUME IInv, NEW c \in ConnId, Disconnect(c)
  PROVE  IInv'
<1> USE DEF IInv, Disconnect, Terminate, SendSigterm
<1>1. TypeOK'
  BY DEF TypeOK, TableTypeOK, tableVars
<1>2. StageInv'
  BY DEF StageInv, tableVars
<1>3. FollowInv'
  BY DEF FollowInv, Said, tableVars
<1>4. ShieldHolds'
  BY QuietShield DEF Shielded, tableVars
<1> QED
  BY <1>1, <1>2, <1>3, <1>4

LEMMA ShutdownNextKeeps ==
  ASSUME IInv, NEW c \in ConnId, ShutdownNext(c)
  PROVE  IInv'
<1> USE DEF IInv, ShutdownNext, Terminate, SendSigterm
<1>1. TypeOK'
  BY DEF TypeOK, TableTypeOK, tableVars
<1>2. StageInv'
  BY DEF StageInv, tableVars
<1>3. FollowInv'
  BY DEF FollowInv, Said, tableVars
<1>4. ShieldHolds'
  BY QuietShield DEF Shielded, tableVars
<1> QED
  BY <1>1, <1>2, <1>3, <1>4

LEMMA PrepareForShutdownKeeps ==
  ASSUME IInv, PrepareForShutdown
  PROVE  IInv'
<1> USE DEF IInv, PrepareForShutdown
<1>1. TypeOK'
  BY DEF TypeOK, TableTypeOK, tableVars, relayVars, procVars
<1>2. StageInv'
  BY DEF StageInv, tableVars, relayVars, procVars
<1>3. FollowInv'
  BY DEF FollowInv, Said, tableVars, relayVars, procVars
<1>4. ShieldHolds'
  BY QuietShield DEF Shielded, tableVars, relayVars
<1> QED
  BY <1>1, <1>2, <1>3, <1>4

(* The allowance of a new connection: nothing, one that is in force, or one   *)
(* that is left behind by a failed arm and shields nobody.                   *)
LEMMA StartConnectionKeeps ==
  ASSUME IInv, NEW c \in ConnId, StartConnection(c)
  PROVE  IInv'
<1> USE DEF IInv
<1>1. /\ stage[c] = "idle" /\ active[c].phase = "none"
      /\ UNCHANGED <<armed, expected, snapshot, seen, proc, sigterm, lines, peer, doomed>>
  BY DEF StartConnection
<1> DEFINE Started(k, h) ==
      /\ stage' = [stage EXCEPT ![c] = "spawning"]
      /\ killswitch' = [killswitch EXCEPT ![c] = k]
      /\ env' = [env EXCEPT ![c] = IF h THEN Unwritten ELSE NoEnvFile]
<1>2. CASE \E h \in Helpers : UNCHANGED tableVars /\ Started(FALSE, h)
  <2>1. TypeOK'
    BY <1>1, <1>2 DEF TypeOK, TableTypeOK, tableVars, Stage, Env
  <2>2. StageInv'
    BY <1>1, <1>2 DEF StageInv, tableVars
  <2>3. FollowInv'
    BY <1>1, <1>2 DEF FollowInv, StageInv, Said, tableVars
  <2>4. ShieldHolds'
    BY <1>1, <1>2, QuietShield DEF Shielded, tableVars
  <2> QED
    BY <2>1, <2>2, <2>3, <2>4
<1>3. CASE \E h \in Helpers, ips \in RemoteSets :
             Arm(c, Connecting(ips), TRUE) /\ Started(TRUE, h)
  <2>1. PICK ips \in RemoteSets : Arm(c, Connecting(ips), TRUE)
    BY <1>3
  <2>2. /\ TableTypeOK'
        /\ active'[c].phase = "connecting"
        /\ \A d \in ConnId \ {c} : active'[d] = active[d]
        /\ \A d \in ConnId : active'[d].phase # "none" => Covers(d)'
    BY <2>1, PhaseFacts, ArmFacts DEF TypeOK
  <2>3. TypeOK'
    BY <1>1, <1>3, <2>2 DEF TypeOK, Stage, Env
  <2>4. StageInv'
    BY <1>1, <1>3, <2>2 DEF StageInv, TypeOK
  <2>5. FollowInv'
    <3>1. proc'[c] = "none" /\ ~armed'[c]
      BY <1>1 DEF StageInv
    <3>2. \A d \in ConnId \ {c} :
            stage'[d] = stage[d] /\ killswitch'[d] = killswitch[d] /\ env'[d] = env[d]
      BY <1>3 DEF TypeOK
    <3>3. \A d \in ConnId : Said(d)' <=> Said(d)
      BY <1>1 DEF Said
    <3> QED
      BY <1>1, <2>2, <3>1, <3>2, <3>3 DEF FollowInv
  <2>6. ShieldHolds'
    BY <2>2 DEF ShieldHolds, Shielded, Covers
  <2> QED
    BY <2>3, <2>4, <2>5, <2>6
<1>4. CASE /\ \E ips \in RemoteSets : Arm(c, Connecting(ips), FALSE)
           /\ UNCHANGED <<stage, killswitch, env>>
  <2>1. PICK ips \in RemoteSets : Arm(c, Connecting(ips), FALSE)
    BY <1>4
  <2>2. /\ TableTypeOK'
        /\ active'[c].phase = "connecting"
        /\ \A d \in ConnId \ {c} : active'[d] = active[d]
        /\ kernel' = kernel
    BY <2>1, PhaseFacts, ArmFacts DEF TypeOK
  <2>3. TypeOK'
    BY <1>1, <1>4, <2>2 DEF TypeOK
  <2>4. StageInv'
    BY <1>1, <1>4, <2>2 DEF StageInv
  <2>5. FollowInv'
    BY <1>1, <1>4, <2>2 DEF FollowInv, StageInv, Said
  <2>6. ShieldHolds'
    BY <1>1, <1>4, <2>2 DEF ShieldHolds, Shielded
  <2> QED
    BY <2>3, <2>4, <2>5, <2>6
<1> QED
  BY <1>2, <1>3, <1>4 DEF StartConnection

(* The tunnel comes up: whatever it means for the file, a CONNECTED is now    *)
(* unread.                                                                   *)
LEMMA EstablishKeeps ==
  ASSUME IInv, NEW c \in ConnId, NEW e \in Server, Establish(c, e)
  PROVE  IInv'
<1> USE DEF IInv, Establish
<1>0. /\ lines'[c] \in Seq({"CONNECTED", "RECONNECTING"})
      /\ \A d \in ConnId \ {c} : lines'[d] = lines[d]
      /\ lines' \in [ConnId -> Seq({"CONNECTED", "RECONNECTING"})]
      /\ ~Deaf(c) => /\ lines'[c][Len(lines[c]) + 1] = "CONNECTED"
                     /\ Len(lines[c]) + 1 \in 1..Len(lines'[c])
  BY AppendProperties, LenProperties DEF TypeOK, Says
<1>1. TypeOK'
  BY <1>0, TableAssumption DEF TypeOK, TableTypeOK, tableVars, relayVars, Alive, Env
<1>2. StageInv'
  BY DEF StageInv, tableVars, relayVars
<1>3. FollowInv'
  <2>1. ~Deaf(c) => Said(c)'
    BY <1>0 DEF Said
  <2>2. \A d \in ConnId \ {c} : Said(d)' <=> Said(d)
    BY <1>0 DEF Said
  <2> QED
    BY <2>1, <2>2 DEF FollowInv, TypeOK, tableVars, relayVars, Deaf
<1>4. ShieldHolds'
  BY QuietShield DEF Shielded, tableVars, relayVars
<1> QED
  BY <1>1, <1>2, <1>3, <1>4

LEMMA RelayLineKeeps ==
  ASSUME IInv, NEW c \in ConnId, RelayLine(c)
  PROVE  IInv'
<1> USE DEF IInv, RelayLine
<1>1. /\ Tail(lines[c]) \in Seq({"CONNECTED", "RECONNECTING"})
      /\ Len(Tail(lines[c])) = Len(lines[c]) - 1 /\ Len(lines[c]) \in Nat \ {0}
      /\ \A i \in 1..Len(Tail(lines[c])) : Tail(lines[c])[i] = lines[c][i + 1]
      /\ Head(lines[c]) = lines[c][1]
  BY HeadTailProperties, EmptySeq DEF TypeOK
<1>2. TypeOK'
  BY <1>1 DEF TypeOK, TableTypeOK, tableVars, Stage, Env
<1>3. StageInv'
  BY DEF StageInv, TypeOK, tableVars
<1>4. FollowInv'
  <2>1. Said(c) => Head(lines[c]) = "CONNECTED" \/ Said(c)'
    <3>1. SUFFICES ASSUME NEW i \in 1..Len(lines[c]), lines[c][i] = "CONNECTED", i # 1
                   PROVE  Said(c)'
      BY <1>1 DEF Said
    <3>2. i - 1 \in 1..Len(Tail(lines[c])) /\ Tail(lines[c])[i - 1] = "CONNECTED"
      BY <1>1, <3>1
    <3> QED
      BY <3>2 DEF Said, TypeOK
  <2>2. \A d \in ConnId \ {c} : Said(d)' <=> Said(d)
    BY DEF Said, TypeOK
  <2> QED
    BY <2>1, <2>2 DEF FollowInv, TypeOK, tableVars
<1>5. ShieldHolds'
  BY QuietShield DEF Shielded, TypeOK, tableVars
<1> QED
  BY <1>2, <1>3, <1>4, <1>5

(* The lock onto the tunnel: in force, or refused and then the relay knows.   *)
LEMMA LockTunnelKeeps ==
  ASSUME IInv, NEW c \in ConnId, LockTunnel(c)
  PROVE  IInv'
<1> USE DEF IInv
<1>1. /\ stage[c] = "locking" /\ stage' = [stage EXCEPT ![c] = "relaying"]
      /\ seen' = [seen EXCEPT ![c] = NoEnvFile]
      /\ UNCHANGED <<killswitch, expected, snapshot, proc, lines, env, peer, doomed>>
  BY DEF LockTunnel
<1>2. CASE /\ seen[c] \notin Endpoint
           /\ armed' = [armed EXCEPT ![c] = FALSE]
           /\ sigterm' \in [ConnId -> BOOLEAN]
           /\ UNCHANGED tableVars
  <2>1. TypeOK'
    BY <1>1, <1>2 DEF TypeOK, TableTypeOK, tableVars, Stage, Env
  <2>2. StageInv'
    BY <1>1, <1>2 DEF StageInv, tableVars
  <2>3. FollowInv'
    BY <1>1, <1>2 DEF FollowInv, Said, TypeOK, tableVars
  <2>4. ShieldHolds'
    BY <1>1, <1>2, QuietShield DEF Shielded, tableVars
  <2> QED
    BY <2>1, <2>2, <2>3, <2>4
<1>3. ASSUME seen[c] \in Endpoint, NEW ok \in BOOLEAN, Arm(c, Connected(seen[c]), ok),
             armed' = [armed EXCEPT ![c] = ok],
             sigterm' \in [ConnId -> BOOLEAN]
      PROVE  IInv'
  <2>1. /\ TableTypeOK'
        /\ active'[c] = Connected(seen[c]) /\ active'[c].phase = "connected"
        /\ \A d \in ConnId \ {c} : active'[d] = active[d]
        /\ ~ok => kernel' = kernel
        /\ ok => \A d \in ConnId : active'[d].phase # "none" => Covers(d)'
    BY <1>3, PhaseFacts, ArmFacts DEF TypeOK
  <2>2. TypeOK'
    BY <1>1, <1>3, <2>1 DEF TypeOK, Stage, Env
  <2>3. StageInv'
    BY <1>1, <1>3, <2>1 DEF StageInv, TypeOK
  <2>4. FollowInv'
    <3>1. killswitch[c]
      BY <1>1 DEF StageInv
    <3> QED
      BY <1>1, <1>3, <2>1, <3>1 DEF FollowInv, Said, TypeOK
  <2>5. ShieldHolds'
    <3>1. CASE ok
      BY <2>1, <3>1 DEF ShieldHolds, Shielded, Covers
    <3>2. CASE ~ok
      <4>1. ~Shielded(c)'
        BY <1>1, <1>3, <2>1, <3>2 DEF Shielded, TypeOK
      <4>2. \A d \in ConnId \ {c} : Shielded(d)' => Shielded(d)
        BY <1>1, <1>3, <2>1 DEF Shielded, TypeOK
      <4> QED
        BY <2>1, <3>2, <4>1, <4>2 DEF ShieldHolds
    <3> QED
      BY <3>1, <3>2
  <2> QED
    BY <2>2, <2>3, <2>4, <2>5
<1>4. \A sent \in BOOLEAN : SendSigterm(c, sent) => sigterm' \in [ConnId -> BOOLEAN]
  BY DEF SendSigterm, TypeOK
<1> QED
  BY <1>2, <1>3, <1>4, DaemonAssumption DEF LockTunnel

(* The end of a connection: its allowance is kept, or withdrawn from under    *)
(* nobody else.                                                              *)
LEMMA DecideLockKeeps ==
  ASSUME IInv, NEW c \in ConnId, DecideLock(c)
  PROVE  IInv'
<1> USE DEF IInv
<1>1. /\ stage[c] = "closing" /\ stage' = [stage EXCEPT ![c] = "reaping"]
      /\ UNCHANGED <<killswitch, armed, expected, snapshot, seen, procVars, doomed>>
  BY DEF DecideLock
<1>2. CASE armed[c] /\ ~snapshot[c] /\ UNCHANGED tableVars
  <2>1. TypeOK'
    BY <1>1, <1>2 DEF TypeOK, TableTypeOK, tableVars, procVars, Stage
  <2>2. StageInv'
    BY <1>1, <1>2 DEF StageInv, tableVars, procVars
  <2>3. FollowInv'
    BY <1>1, <1>2 DEF FollowInv, Said, tableVars, procVars
  <2>4. ShieldHolds'
    BY <1>1, <1>2, QuietShield DEF Shielded, tableVars
  <2> QED
    BY <2>1, <2>2, <2>3, <2>4
<1>3. ASSUME NEW ok \in BOOLEAN, Disarm(c, ok) PROVE IInv'
  <2>1. /\ TableTypeOK'
        /\ active'[c].phase = "none"
        /\ \A d \in ConnId \ {c} : active'[d] = active[d]
        /\ \A d \in ConnId \ {c} :
             active[d].phase # "none" /\ Covers(d) => Covers(d)'
    BY <1>3, DisarmFacts, PhaseFacts DEF TypeOK
  <2>2. TypeOK'
    BY <1>1, <2>1 DEF TypeOK, procVars, Stage
  <2>3. StageInv'
    BY <1>1, <2>1 DEF StageInv, procVars
  <2>4. FollowInv'
    BY <1>1, <2>1 DEF FollowInv, Said, procVars
  <2>5. ShieldHolds'
    <3>1. ~Shielded(c)'
      BY <2>1 DEF Shielded
    <3>2. ASSUME NEW d \in ConnId \ {c}, Shielded(d)' PROVE Covers(d)'
      BY <1>1, <2>1, <3>2 DEF Shielded, ShieldHolds, Covers, TypeOK
    <3> QED
      BY <3>1, <3>2 DEF ShieldHolds, Covers
  <2> QED
    BY <2>2, <2>3, <2>4, <2>5
<1> QED
  BY <1>2, <1>3, DaemonAssumption DEF DecideLock

LEMMA RecoverNetworkKeeps ==
  ASSUME IInv, RecoverNetwork
  PROVE  IInv'
<1> USE DEF IInv
<1>1. /\ active' = NoneArmed /\ kernel' \in {Absent, kernel}
      /\ UNCHANGED <<relayVars, procVars, doomed>>
  BY DEF RecoverNetwork, Recover, TearDown
<1>2. \A d \in ConnId : active'[d].phase = "none"
  BY <1>1, PhaseFacts DEF NoneArmed
<1>3. TypeOK'
  BY <1>1, AbsentType DEF TypeOK, TableTypeOK, relayVars, procVars, NoneArmed
<1>4. StageInv'
  BY <1>1, <1>2 DEF StageInv, relayVars, procVars
<1>5. FollowInv'
  BY <1>1, <1>2 DEF FollowInv, Said, relayVars, procVars
<1>6. ShieldHolds'
  BY <1>2 DEF ShieldHolds, Shielded
<1> QED
  BY <1>3, <1>4, <1>5, <1>6

LEMMA RestartKeeps ==
  ASSUME IInv, DaemonRestarts \/ MachineBoots
  PROVE  IInv'
<1> USE DEF IInv
<1>1. active' = NoneArmed /\ kernel' \in {Absent, kernel} /\ AllVanish
  BY DEF DaemonRestarts, MachineBoots, Restart, Boot
<1>2. \A d \in ConnId : active'[d].phase = "none"
  BY <1>1, PhaseFacts DEF NoneArmed
<1>3. TypeOK'
  BY <1>1, AbsentType, EmptySeq DEF TypeOK, TableTypeOK, Stage, Env, NoneArmed, AllVanish
<1>4. StageInv' /\ FollowInv'
  BY <1>1 DEF StageInv, FollowInv, AllVanish
<1>5. ShieldHolds'
  BY <1>2 DEF ShieldHolds, Shielded
<1> QED
  BY <1>3, <1>4, <1>5

LEMMA NextIInv == IInv /\ [Next]_vars => IInv'
<1> SUFFICES ASSUME IInv, [Next]_vars PROVE IInv'
  OBVIOUS
<1>1. CASE UNCHANGED vars
  BY <1>1 DEF vars, IInv, StageInv, FollowInv, Said, ShieldHolds, Shielded, TypeOK,
              TableTypeOK, tableVars, relayVars, procVars
<1>2. ASSUME NEW c \in ConnId, Launch(c) PROVE IInv'
  BY <1>2, SpawnKeeps, AttachKeeps, LaunchFailsKeeps, ReleaseHoldKeeps DEF Launch
<1>3. ASSUME NEW c \in ConnId, Relay(c) PROVE IInv'
  BY <1>3, RelayLineKeeps, ConfineDnsKeeps, LockTunnelKeeps, StreamEndsKeeps,
     DecideLockKeeps, UnregisterKeeps DEF Relay
<1>4. ASSUME NEW c \in ConnId, OpenVpn(c) PROVE IInv'
  BY <1>4, EstablishKeeps, TunnelDropsKeeps, ProcessExitsKeeps DEF OpenVpn
<1> QED
  BY <1>1, <1>2, <1>3, <1>4, StartConnectionKeeps, DisconnectKeeps, ShutdownNextKeeps,
     ChannelBreaksKeeps, RecoverNetworkKeeps, PrepareForShutdownKeeps, RestartKeeps
  DEF Next

(* The inductive invariant holds in every behaviour of the daemon.            *)
THEOREM Invariance == Spec => []IInv
BY InitIInv, NextIInv, PTL DEF Spec

-----------------------------------------------------------------------------
(* The properties the runs check. *)

(* Type correctness of the daemon's state.                                    *)
THEOREM TypeCorrect == Spec => []TypeOK
BY Invariance, PTL DEF IInv

(* However many connections come, reconnect, fail and go, one that was told   *)
(* it is protected stays protected, and what it may reach stays reachable.   *)
THEOREM Shields == Spec => []ShieldHolds
BY Invariance, PTL DEF IInv

(* An orderly disconnect leaves no allowance behind.                          *)
THEOREM OrderlyEnd == Spec => []OrderlyEndLeavesNothing
<1>1. IInv => OrderlyEndLeavesNothing
  BY PhaseFacts DEF IInv, TypeOK, TableTypeOK, StageInv, OrderlyEndLeavesNothing
<1> QED
  BY <1>1, Invariance, PTL

(* No error path leaves an OpenVPN process nobody would reap.                 *)
THEOREM NoOrphan == Spec => []NoOrphanProcess
<1>1. IInv => NoOrphanProcess
  BY DEF IInv, StageInv, NoOrphanProcess, Alive
<1> QED
  BY <1>1, Invariance, PTL

(* A standing lock is on the endpoint the up helper last recorded.            *)
THEOREM LockFollows == Spec => []LockFollowsHelper
<1>1. IInv => LockFollowsHelper
  <2>1. \A c \in ConnId : lines[c] = <<>> => ~Said(c)
    BY DEF Said
  <2> QED
    BY <2>1 DEF IInv, FollowInv, LockFollowsHelper
<1> QED
  BY <1>1, Invariance, PTL

(* Nothing but RecoverNetwork and the end of the daemon takes the lock of a    *)
(* dropped connection away.                                                  *)
THEOREM LockOutlives == Spec => LockOutlivesDrop
<1> DEFINE Justified ==
      \A c \in ConnId :
         (HoldsLock(c) /\ active'[c].phase # "connected") =>
            RecoverNetwork \/ DaemonRestarts \/ MachineBoots
<1>1. ASSUME IInv, Next PROVE Justified
  <2> USE <1>1 DEF IInv
  <2>1. ASSUME NEW c \in ConnId, UNCHANGED tableVars PROVE Justified
    BY <2>1 DEF tableVars, HoldsLock
  <2>2. ASSUME NEW c \in ConnId, NEW a \in Allowance, NEW ok \in BOOLEAN, Arm(c, a, ok),
               HoldsLock(c) => a.phase = "connected"
        PROVE  Justified
    <3>1. TableTypeOK
      BY DEF TypeOK
    <3>2. active'[c] = a /\ \A d \in ConnId \ {c} : active'[d] = active[d]
      BY <2>2, <3>1, ArmFacts
    <3> QED
      BY <2>2, <3>2 DEF HoldsLock
  <2>3. ASSUME NEW c \in ConnId, DecideLock(c) PROVE Justified
    <3>1. HoldsLock(c) => UNCHANGED tableVars
      BY <2>3 DEF DecideLock, HoldsLock
    <3>2. \A d \in ConnId \ {c} : active'[d] = active[d]
      BY <2>3, DisarmFacts, DaemonAssumption DEF DecideLock, TypeOK, tableVars
    <3> QED
      BY <3>1, <3>2 DEF HoldsLock, tableVars
  <2>4. ASSUME NEW c \in ConnId, StartConnection(c) PROVE Justified
    <3>1. ~HoldsLock(c)
      BY <2>4 DEF StartConnection, HoldsLock
    <3> QED
      BY <2>4, <2>1, <2>2, <3>1, PhaseFacts DEF StartConnection
  <2>5. ASSUME NEW c \in ConnId, LockTunnel(c) PROVE Justified
    BY <2>5, <2>1, <2>2, PhaseFacts, DaemonAssumption DEF LockTunnel
  <2>6. ASSUME NEW c \in ConnId, Launch(c) PROVE UNCHANGED tableVars
    BY <2>6 DEF Launch, Spawn, Attach, LaunchFails, ReleaseHold
  <2>7. ASSUME NEW c \in ConnId, OpenVpn(c) PROVE UNCHANGED tableVars
    BY <2>7 DEF OpenVpn, Establish, TunnelDrops, ProcessExits
  <2>8. ASSUME NEW c \in ConnId,
               RelayLine(c) \/ ConfineDns(c) \/ StreamEnds(c) \/ Unregister(c)
               \/ Disconnect(c) \/ ShutdownNext(c) \/ ChannelBreaks(c)
        PROVE  UNCHANGED tableVars
    BY <2>8 DEF RelayLine, ConfineDns, StreamEnds, Unregister, Disconnect, ShutdownNext,
                ChannelBreaks
  <2>9. PrepareForShutdown => UNCHANGED tableVars
    BY DEF PrepareForShutdown
  <2>10. UNCHANGED tableVars => Justified
    BY DEF tableVars, HoldsLock
  <2> QED
    BY <2>3, <2>4, <2>5, <2>6, <2>7, <2>8, <2>9, <2>10 DEF Next, Relay
<1>2. IInv /\ [Next]_vars => [Justified]_vars
  BY <1>1
<1> QED
  BY <1>2, Invariance, PTL DEF Spec, LockOutlivesDrop
=============================================================================
