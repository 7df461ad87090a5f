-------------------------- MODULE MCSessionWorker --------------------------
(* Two scenes.  In the first, two clients that talk to the same TCP        *)
(* endpoint compete for the same return tuples.  In the second, echo       *)
(* request and echo reply of one identifier share their return tuple,      *)
(* packets are seen on other queues and interfaces, and one flow is of an  *)
(* address family without SNAT address.                                    *)
EXTENDS SessionWorker

VARIABLE scene

MCReuseQuarantine == [p \in Protocols |-> IF p = "tcp" THEN 2 ELSE 1]

TcpFlow(src) == [proto |-> "tcp", fam |-> 4, src |-> src, raddr |-> "web", rport |-> 443]
EchoFlow(type) == [proto |-> "icmp", fam |-> 4, src |-> "a", raddr |-> "web", rport |-> type]
MCDnsFlows == {[proto |-> "udp", fam |-> 4, src |-> "a", raddr |-> "resolver", rport |-> 53]}

Io(ifindex, queue_id) == [ifindex |-> ifindex, queue_id |-> queue_id]

Scenes ==
  {[flows |-> {TcpFlow("a"), TcpFlow("b")}, ios |-> {Io(1, 0)}],
   [flows |-> {EchoFlow(8), EchoFlow(0), [TcpFlow("a") EXCEPT !.fam = 6]},
    ios |-> {Io(1, 0), Io(1, 1), Io(2, 0)}]}

MCFlows == UNION {s.flows : s \in Scenes}
MCIos == UNION {s.ios : s \in Scenes}

MCInit == Init /\ scene \in Scenes
MCNext == Steps(scene.flows, scene.ios) /\ UNCHANGED scene
MCSpec == MCInit /\ [][MCNext]_<<vars, scene>>
=============================================================================
