---------------------------- MODULE MCRuntimeOwner ----------------------------
(* Small Jobs, and launchers that may write one line of each kind the owner  *)
(* tells apart.                                                              *)
EXTENDS RuntimeOwner

CONSTANTS w, c, o

(* An interpreter and its child, the runtime the launcher announces.         *)
MCMembers == {w, c}

MCPids == {w, c}

MCSockets == {[owner |-> c, address |-> "loopback", number |-> 1]}

MCLines ==
  {[kind |-> k, pid |-> c] : k \in {"starting", "listening", "stopped"}}
    \cup {[kind |-> k, pid |-> NoPid] : k \in {"stopping", "error"}}
    \cup {Malformed}

(***************************************************************************)
(* One process outside the Job competes for the port, on 127.0.0.1 and on   *)
(* an IPv6 address, the launcher may announce it, and the child may listen  *)
(* twice.                                                                    *)
(***************************************************************************)
MCPortPids == {w, c, o}

MCPortSockets ==
  {[owner |-> c, address |-> "loopback", number |-> n] : n \in {1, 2}}
    \cup {[owner |-> o, address |-> a, number |-> 1] : a \in {"loopback", "ipv6"}}

MCPortLines ==
  {[kind |-> k, pid |-> p] : k \in {"starting", "listening"}, p \in {c, o}}
    \cup {[kind |-> "stopped", pid |-> c]}

(* A Job of the interpreter alone, which is also the runtime.                *)
MCAlone == {w}

MCAlonePids == {w}

MCAloneSockets == {[owner |-> w, address |-> "loopback", number |-> 1]}

MCAloneLines ==
  {[kind |-> k, pid |-> w] : k \in {"starting", "listening", "stopped"}}

===============================================================================
