-------------------------- MODULE MCServiceSwitch --------------------------
(* Hosts a switch may start from, and how much happens to them. *)
EXTENDS ServiceSwitch

Host(user, system, selected) ==
  [startup |-> [m \in Modes |-> IF m = User THEN user ELSE system],
   selection |-> selected]

(* One mode enabled, or none, with a selection that agrees with it. *)
Agreeing ==
  {Host("enabled", "disabled", s) : s \in {None, User}} \cup
  {Host("disabled", "enabled", s) : s \in {None, System}} \cup
  {Host("runtime", "disabled", User), Host("disabled", "runtime", System)} \cup
  {Host("disabled", "disabled", s) : s \in Modes}

UserHosts == {h \in Agreeing : h.startup[System] = "disabled" /\ h.selection # System}

Idlers == {Host("disabled", "disabled", s) : s \in {None, User}}
SelectedSystem == {Host("disabled", u, System) : u \in {"disabled", "enabled", "runtime"}}

(* The other mode is the one enabled. *)
Crossed == {Host("disabled", "enabled", None), Host("enabled", "disabled", None)}

Limits(from, hosts, byHand, hand, failed, sessions, started, times) ==
  [sources |-> from, hosts |-> hosts, byHand |-> byHand, commands |-> hand,
   faults |-> failed, logins |-> sessions, boots |-> started,
   switches |-> times]

Once == Limits(Modes, Agreeing, Modes, 1, 2, 2, 2, 1)
Twice == Limits(Modes, Agreeing, Modes \cup {Manual}, 2, 1, 1, 1, 2)

Safety == [once |-> Once, twice |-> Twice]

Liveness ==
  [unattended |-> Limits({User}, Idlers, {}, 0, 2, 2, 2, 1),
   fromSystem |-> Limits({System}, SelectedSystem, Modes, 1, 1, 1, 2, 1),
   fromUser   |-> Limits({User}, UserHosts, Modes, 1, 1, 2, 1, 1)]

CrossedHost == [crossed |-> Limits({User}, Crossed, Modes, 1, 1, 1, 1, 1)]
RestoredSystem ==
  [restored |-> Limits({System}, SelectedSystem, Modes, 1, 1, 2, 1, 1)]

=============================================================================
