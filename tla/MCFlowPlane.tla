---------------------------- MODULE MCFlowPlane ----------------------------
(* Two workers share two ports: flows "a" and "b" of one worker compete    *)
(* for its only port towards the same remote endpoint, flow "c" belongs to *)
(* the other one.                                                          *)
EXTENDS FlowPlane

MCReuseQuarantine == [p \in Protocols |-> 1]
MCNatPorts == [start |-> 1, end |-> 2]

UdpFlow(src) == [proto |-> "udp", fam |-> 4, src |-> src, raddr |-> "web", rport |-> 443]
MCFlows == {UdpFlow("a"), UdpFlow("b"), UdpFlow("c")}
MCFlowOwner == [f \in Flows |-> IF f.src = "c" THEN WorkerCount - 1 ELSE 0]

Query(src, ask, remote) == [src |-> src, ask |-> ask, remote |-> remote]
MCQueries == {Query("a", 1, TRUE), Query("b", 1, TRUE), Query("b", 2, TRUE), Query("b", 3, FALSE)}
MCDnsOwner == [q \in Queries |-> 0]
MCNone == {}
MCClientFlows == {UdpFlow("a")}

MCIo == [ifindex |-> 1, queue_id |-> 0]
MCOneIo == {MCIo}
MCReturnIos == {MCIo, [ifindex |-> 1, queue_id |-> 1]}
=============================================================================
