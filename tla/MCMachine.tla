------------------------------ MODULE MCMachine -----------------------------
(* Three parts that change what is on the person's machine and share no     *)
(* state: files that are taken back, the servers of local models, and the   *)
(* setting up of their runtime.  Which of them moves is chosen at the start.*)
EXTENDS Undo, LocalHost, LocalInstall, TLC

VARIABLE moves

machineVars == <<moves, vars, hostVars, installVars>>

MachineInit ==
    /\ moves \in {"files", "servers", "setup"}
    /\ Init /\ HostInit /\ InstallInit
    /\ moves # "files" => git /\ \A f \in Files : tree[f] = <<>>
    /\ moves # "servers" => \A s \in Sessions : ~host[s].persistent
    /\ moves # "setup" => ~wanted /\ ~latest.companion

MachineNext ==
    /\ \/ moves = "files" /\ Next /\ UNCHANGED <<hostVars, installVars>>
       \/ moves = "servers" /\ HostNext /\ UNCHANGED <<vars, installVars>>
       \/ moves = "setup" /\ InstallNext /\ UNCHANGED <<vars, hostVars>>
    /\ UNCHANGED moves

MachineSpec == MachineInit /\ [][MachineNext]_machineVars

(* Sessions and setups are the same two values as the files.               *)
Alike == Permutations(Files) \cup Permutations(Ports)
=============================================================================
