------------------------- MODULE KillSwitchTable -------------------------
(***************************************************************************)
(* What the kill-switch manager promises its callers: every operation of   *)
(* warrenvpnd's `KillSwitch` takes effect at once on the map of allowances *)
(* and on the kernel table.  KillSwitch.tla, with the mutex and the nft    *)
(* process, implements this specification; VpnDaemon.tla is built on it.   *)
(* `ok` is the outcome of the nft transaction.                             *)
(***************************************************************************)
EXTENDS KillSwitchRules

CONSTANTS
  ConnId,      \* connection ids
  Server,      \* endpoints OpenVPN can reach (the `remote` lines, per device)
  RemoteSets   \* what `resolve_remotes` may return

ASSUME TableAssumption ==
  /\ Server \subseteq Endpoint
  /\ RemoteSets \subseteq SUBSET Address

VARIABLES
  active,      \* conn id -> its allowance, or NotArmed
  kernel       \* the installed table

tableVars == <<active, kernel>>

NotArmed == [phase |-> "none"]
NoneArmed == [c \in ConnId |-> NotArmed]

Entries(map) == {map[c] : c \in {d \in ConnId : map[d].phase # "none"}}

TableTypeOK ==
  /\ active \in [ConnId -> Allowance \cup {NotArmed}]
  /\ kernel \in Table

-----------------------------------------------------------------------------
(* `rebuild`: one nft transaction, refused when no script can be built. *)
Reinstall(map, ok) ==
  /\ ok => Buildable(Entries(map))
  /\ kernel' = IF ok THEN Ruleset(Entries(map)) ELSE kernel

TearDown(ok) == kernel' = IF ok THEN Absent ELSE kernel

(* `arm_connecting` and `arm_connected`: the entry stays when nft fails. *)
Arm(c, a, ok) ==
  /\ active' = [active EXCEPT ![c] = a]
  /\ Reinstall([active EXCEPT ![c] = a], ok)

Disarm(c, ok) ==
  LET rest == [active EXCEPT ![c] = NotArmed]
  IN \/ /\ active[c].phase = "none"
        /\ UNCHANGED tableVars
     \/ /\ active[c].phase # "none"
        /\ active' = rest
        /\ \/ Entries(rest) = {} /\ TearDown(ok)
           \/ Entries(rest) # {} /\ Reinstall(rest, ok)

Recover(ok) ==
  /\ active' = NoneArmed
  /\ TearDown(ok)

(* The daemon dies and is started again: the map is memory, the table is not. *)
Restart ==
  /\ active' = NoneArmed
  /\ UNCHANGED kernel

(* A boot runs recover.nft before the daemon may start. *)
Boot ==
  /\ active' = NoneArmed
  /\ kernel' = Absent

-----------------------------------------------------------------------------
TableInit ==
  /\ active = NoneArmed
  /\ kernel = Absent

TableNext ==
  \/ \E c \in ConnId, ok \in BOOLEAN :
       \/ \E ips \in RemoteSets : Arm(c, Connecting(ips), ok)
       \/ \E e \in Server : Arm(c, Connected(e), ok)
       \/ Disarm(c, ok)
  \/ \E ok \in BOOLEAN : Recover(ok)
  \/ Restart
  \/ Boot

TableSpec == TableInit /\ [][TableNext]_tableVars
=============================================================================
