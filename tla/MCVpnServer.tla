---------------------------- MODULE MCVpnServer ----------------------------
(* Instances of VpnServer for TLC.                                         *)
EXTENDS VpnServer, TLC

CONSTANTS h1, h2, v1, v2, e1, e2

Conf(mode, templates, renders, checkCommand) ==
  [mode |-> mode, templates |-> templates, renders |-> renders,
   checkCommand |-> checkCommand]

(* Every mode; v2 may be a vendor without a template; the status command   *)
(* or the check command may fail to render.                                *)
AllKonfs ==
  {Conf("ssh",   {v1, v2}, {"check", "status"}, FALSE),
   Conf("ssh",   {v1},     {"status"},          FALSE),
   Conf("ssh",   {v1},     {"check"},           FALSE),
   Conf("local", {v1, v2}, {"check", "status"}, TRUE),
   Conf("local", {v1},     {"check", "status"}, FALSE),
   Conf("other", {v1},     {"check", "status"}, FALSE)}

AllFaults == {"tempfile", "execute", "connect", "open", "copy", "rename",
              "dial", "session", "command", "drop", "crash"}

SshKonf   == {Conf("ssh", {v1, v2}, {"check", "status"}, FALSE)}

(* router.check.command and router.check.match, but no                     *)
(* router.check_command.                                                   *)
DocumentedKonf == {Conf("local", {v1}, {"check", "status"}, FALSE)}

BothKonfs ==
  {Conf("ssh",   {v1}, {"check", "status"}, FALSE),
   Conf("local", {v1}, {"check", "status"}, TRUE)}

HandlerSymmetry == Permutations({h1, h2})
Symmetry == Permutations({h1, h2}) \cup Permutations({e1, e2})
=============================================================================
