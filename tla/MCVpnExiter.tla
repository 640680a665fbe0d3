---------------------------- MODULE MCVpnExiter ----------------------------
(* Instances of VpnExiter for TLC.                                         *)
EXTENDS VpnExiter, TLC

CONSTANTS h1, h2, v1, v2, e1, e2

Conf(mode, listed, resolve, templates, renders, checkCommand, refresh) ==
  [mode |-> mode, listed |-> listed, resolve |-> resolve,
   offers |-> [v \in listed |-> Exits], templates |-> templates,
   renders |-> renders, checkCommand |-> checkCommand, refresh |-> refresh]

Both == {"check", "status"}

(* Every mode.  Two vendors whose exits are listed as they are; one vendor *)
(* whose hosts are looked up, again and again; one that is not listed, or  *)
(* has no template; commands that do not render.                           *)
AllKonfs ==
  {Conf("ssh",   {v1, v2}, {},   {v1, v2}, Both, FALSE, FALSE),
   Conf("ssh",   {v1},     {v1}, {v1},     Both, FALSE, TRUE),
   Conf("ssh",   {v1},     {},   {v1},     {"status"}, FALSE, FALSE),
   Conf("local", {v1},     {v1}, {v1},     Both, TRUE,  FALSE),
   Conf("local", {v1},     {},   {v1, v2}, {"check"}, TRUE, FALSE),
   Conf("other", {v1},     {},   {v1},     Both, FALSE, FALSE)}

AllFaults == {"tempfile", "execute", "connect", "open", "copy", "rename",
              "dial", "session", "command", "drop", "crash"}

SshKonf == {Conf("ssh", {v1}, {}, {v1}, Both, FALSE, FALSE)}

LocalKonf == {Conf("local", {v1}, {}, {v1}, Both, TRUE, FALSE)}

Symmetry == Permutations({e1, e2})
HandlerSymmetry == Permutations({h1, h2}) \cup Symmetry
=============================================================================
