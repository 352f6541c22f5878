----------------------------- MODULE MCSupervisor -----------------------------
(* Instances of Supervisor for TLC: the command lines of its run.          *)
EXTENDS Supervisor

Command(daemon, forever, noDetach) ==
  [daemon |-> daemon, forever |-> forever, noDetach |-> noDetach, worker |-> FALSE]

(* Every mode of README, and the other spelling of its flags.              *)
MCCommands ==
  { Command("no", "--", FALSE), Command("--", "no", FALSE), Command("-", "no", TRUE),
    Command("--", "--", FALSE), Command("--", "--", TRUE),
    Command("-", "-", FALSE) }
=============================================================================
