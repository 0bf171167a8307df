-------------------------- MODULE MCProcessControl --------------------------
(* Small instances of ProcessControl: configuration files and command lines. *)
EXTENDS ProcessControl

\* conf.info, with an absolute pid file.
Full == [k \in Keys |->
  CASE k = "pidfile" -> "/pid" [] k \in {"admin_ip", "front_ip"} -> "host"
    [] k = "admin_port" -> 8000 [] k = "front_port" -> 8100
    [] k = "admin_allow_ip" -> <<"/", "a", "/", "/", "b">>
    [] k = "nthreads" -> 1 [] k \in {"log", "generic_file"} -> k
    [] OTHER -> 16]

Without(k) == [l \in Keys \ {k} |-> Full[l]]

\* other: another server with a relative pid file; clash: one port for both sides.
ControlFiles ==
  [full |-> Full,
   other |-> [Full EXCEPT !["admin_port"] = 8200, !["front_port"] = 8300, !["pidfile"] = "pid"],
   clash |-> [Full EXCEPT !["front_port"] = 8000],
   nolimits |-> Without("limits"), nogeneric |-> Without("generic_file"),
   nofront |-> Without("front_ip")]

Cmd(op, daemon, file) == [op |-> op, daemon |-> daemon, file |-> file]

ControlCommands ==
  {Cmd("start", TRUE, "full"), Cmd("start", FALSE, "full"), Cmd("stop", FALSE, "full"),
   Cmd("restart", TRUE, "full"), Cmd("start", TRUE, "other"), Cmd("stop", TRUE, "other"),
   Cmd("start", FALSE, "clash"), Cmd("start", TRUE, "nolimits"), Cmd("start", FALSE, "nogeneric"),
   Cmd("start", FALSE, "nofront")}

RestartCommands == {Cmd("start", TRUE, "full"), Cmd("restart", TRUE, "full")}

AllFaults == {"chdir", "fork", "threads", "start", "crash", "hang", "recycle"}
NoFaults  == {}

\* Every text of up to six characters, separators or not.
ControlTexts == UNION {[1..n -> {"/", "a", "b"}] : n \in 0..6}
==============================================================================
