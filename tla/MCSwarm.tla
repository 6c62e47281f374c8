------------------------------ MODULE MCSwarm -------------------------------
(* An instance of Swarm.  Addresses addr1 and addr2 belong to one peer: the  *)
(* one it listens on and the one it connects from.                           *)
EXTENDS Swarm

CONSTANTS t1, t2, addr1, addr2, peer1, peer2

Info(key, tcp, udp) == [key |-> key, tcp |-> tcp, udp |-> udp]
OwnOfPeer == {Info(peer1, addr1, No)}
Mines == {[tcp |-> No, udp |-> No], [tcp |-> "here", udp |-> "here"]}
DialsOf == [t \in {t1, t2} |-> IF t = t1 THEN {addr1} \X BOOLEAN ELSE {addr1, addr2} \X BOOLEAN]
PeerOfPeer == [x \in {addr1, addr2} |-> peer1]
InfosOfPeer == {Info(peer2, addr1, addr1), Info(peer1, No, addr2)}
=============================================================================
