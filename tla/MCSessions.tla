---------------------------- MODULE MCSessions ----------------------------
(* Instances of Sessions for TLC. *)
EXTENDS Sessions, TLC

\* Two devices: one with a User-Agent, one that sends none.
Laptop == [ua |-> "firefox", ip |-> "home"]
Phone == [ua |-> "", ip |-> "mobile"]
BothAgents == {Laptop, Phone}
OneAgent == {Laptop}

RedisUp == {"connected"}
RedisMayBeAbsent == {"connected", "absent"}

FaultOps == AllOps \ {"forceLogout"}
SequentialOps == {"login", "refresh", "logoutAll", "revoke", "forceLogout"}
ReliableOps == {"login", "refresh", "logoutCurrent", "logoutAll"}
RefreshOps == {"login", "refresh"}
LogoutAllOps == {"login", "refresh", "logoutAll"}
ResetOps == {"login", "refresh", "reset"}
RevokeOps == {"login", "logoutAll", "reset"}

SidSymmetry == Permutations(Sids)
ReqSymmetry == Permutations(Sids) \cup Permutations(Reqs)
===========================================================================
