--------------------------- MODULE MCClientNames ---------------------------
(***************************************************************************)
(* A small instance of ClientNames: three clients of one network, none of  *)
(* them named by hosts.yaml or mDNS, and a queue of one.                   *)
(***************************************************************************)
EXTENDS ClientNames

MCVlanOf == [c \in Client |-> "lan"]
MCSettings == {[hosts |-> {}, mdns |-> {}, vlans |-> {"lan"}, ptrUpstream |-> FALSE,
                refresh |-> "all"]}
=============================================================================
