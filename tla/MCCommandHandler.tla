-------------------------- MODULE MCCommandHandler --------------------------
(***************************************************************************)
(* Instances of CommandHandler for TLC: one thermometer (family 28), one   *)
(* battery monitor (family 26), a family without a read handler (01).      *)
(***************************************************************************)
EXTENDS CommandHandler

CONSTANTS therm, battery, fam01

MCDevices     == {therm, battery}
MCFamilyCodes == {Ds18b20, Ds2438, fam01}
MCFamilyOf    == [d \in MCDevices |-> IF d = therm THEN Ds18b20 ELSE Ds2438]
MCSamplingTime == [f \in MCFamilyCodes |-> IF f = Ds18b20 THEN 2 ELSE 1]

Request(action, target, attr, interval) ==
  [action |-> action, target |-> target, attr |-> attr, interval |-> interval]

\* Every action, addresses of devices and of families (one without a read handler);
\* a subscription with a pause, of a device, that can be cancelled, and one without
\* a pause, of a family, that stands.
CommandOrder == << <<therm, "temperature">>, <<Ds2438, "VAD">> >>
ClientRequests ==
  { Request("restart", NoTarget, "none", 0),
    Request("scan", NoTarget, "none", 0),
    Request("scan", Ds2438, "none", 0),
    Request("read", therm, "temperature", 0),
    Request("read", fam01, "temperature", 0),
    Request("read", battery, "presence", 0),
    Request("subscribe", therm, "temperature", 2),
    Request("unsubscribe", therm, "temperature", 0),
    Request("subscribe", Ds2438, "VAD", 0) }

\* Starvation: a thermometer subscribed without pause, another key behind it.
StarvationOrder == << <<therm, "temperature">>, <<battery, "presence">> >>
StarvationCommands ==
  { Request("subscribe", therm, "temperature", 0),
    Request("subscribe", battery, "presence", 1) }
=============================================================================
