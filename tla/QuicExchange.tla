---------------------------- MODULE QuicExchange -----------------------------
(***************************************************************************)
(* quic_channel.rs: send_mutation_over_quic and accept_one_mutation, one   *)
(* request and one acknowledgement over a connection of its own. The       *)
(* server takes the connections one by one. A connection may break at any  *)
(* time, and the caller of the server may drop the call.                   *)
(***************************************************************************)
EXTENDS Integers

CONSTANTS
    MaxSends,       \* bound: sends; a request that is sent again is another one
    None

\* What the constants must be.
Parameters == MaxSends \in Nat /\ None \notin {"ok", "error"}

VARIABLES
    link,           \* per send: its connection, what is on it, what the client got
    server,         \* accept_one_mutation: its stage and the send it is about
    handed,         \* sends whose request accept_one_mutation has returned
    broken,         \* history: sends whose connection the network has ended
    dropped         \* history: sends whose request the server's caller has dropped

vars == <<link, server, handed, broken, dropped>>

Send == 1..MaxSends
Waiting == [stage |-> "accept", send |-> 0]

Init ==
    /\ link = [i \in Send |-> [state |-> "none", data |-> None, ack |-> FALSE,
                               got |-> None]]
    /\ server = Waiting /\ handed = {} /\ broken = {} /\ dropped = {}

Fresh(i) == link[i].state = "none" /\ \A j \in 1..(i - 1) : link[j].state # "none"
Ended == [link EXCEPT ![server.send].state = "ended"]
Histories == <<handed, broken, dropped>>

-----------------------------------------------------------------------------
\* The client.
Connect(i) ==
    /\ Fresh(i)
    /\ link' = [link EXCEPT ![i].state = "asked"]
    /\ UNCHANGED <<server>> /\ UNCHANGED Histories

\* open_bi, write_all, finish. The server reads 64 KiB at most, and JSON.
Write(i) ==
    /\ link[i].state = "open" /\ link[i].data = None
    /\ \E d \in {"good", "unfit"} : link' = [link EXCEPT ![i].data = d]
    /\ UNCHANGED <<server>> /\ UNCHANGED Histories

\* The acknowledgement is read to its end; the client closes the connection.
TakeAck(i) ==
    /\ link[i].state = "open" /\ link[i].ack
    /\ link' = [link EXCEPT ![i].got = "ok", ![i].state = "ended"]
    /\ UNCHANGED <<server>> /\ UNCHANGED Histories

Fail(i) ==
    /\ link[i].state = "ended" /\ link[i].got = None
    /\ link' = [link EXCEPT ![i].got = "error"]
    /\ UNCHANGED <<server>> /\ UNCHANGED Histories

\* The network, or the idle time of either side (3 s at the client).
Break(i) ==
    /\ link[i].state \in {"asked", "open"}
    /\ link' = [link EXCEPT ![i].state = "ended"]
    /\ broken' = broken \cup {i}
    /\ UNCHANGED <<server, handed, dropped>>

-----------------------------------------------------------------------------
\* The server.
Accept ==
    /\ server = Waiting
    /\ \E i \in Send :
         /\ link[i].state = "asked"
         /\ link' = [link EXCEPT ![i].state = "open"]
         /\ server' = [stage |-> "read", send |-> i]
    /\ UNCHANGED Histories

\* What cannot be read or decoded ends the call with an error, and with it the
\* connection.
Read ==
    /\ server.stage = "read"
    /\ LET l == link[server.send]
       IN  \/ l.state = "open" /\ l.data = "good"
              /\ server' = [server EXCEPT !.stage = "ack"] /\ UNCHANGED link
           \/ l.state = "open" /\ l.data = "unfit" /\ server' = Waiting /\ link' = Ended
           \/ l.state = "ended" /\ server' = Waiting /\ UNCHANGED link
    /\ UNCHANGED Histories

\* Mutant: the request is returned as soon as the acknowledgement is written.
AckAndReturn ==
    /\ server.stage = "ack" /\ server' = Waiting
    /\ IF link[server.send].state = "open"
       THEN /\ \/ link' = [link EXCEPT ![server.send].ack = TRUE]
               \/ link' = Ended
            /\ handed' = handed \cup {server.send}
       ELSE UNCHANGED <<link, handed>>
    /\ UNCHANGED <<broken, dropped>>

\* write_all and finish: on a connection that ended meanwhile they fail, and the
\* request that was read is not returned.
Ack ==
    /\ server.stage = "ack"
    /\ IF link[server.send].state = "open"
       THEN /\ link' = [link EXCEPT ![server.send].ack = TRUE]
            /\ server' = [server EXCEPT !.stage = "close"]
       ELSE server' = Waiting /\ UNCHANGED link
    /\ UNCHANGED Histories

\* Mutant: what closed() gives back is passed on as an error if the client closed.
ReturnUnlessClosed ==
    /\ server.stage = "close" /\ link[server.send].state = "ended"
    /\ handed' = IF link[server.send].got = "ok" THEN handed ELSE handed \cup {server.send}
    /\ server' = Waiting
    /\ UNCHANGED <<link, broken, dropped>>

\* connection.closed(): by the client, or because it broke; either will do.
Return ==
    /\ server.stage = "close" /\ link[server.send].state = "ended"
    /\ handed' = handed \cup {server.send}
    /\ server' = Waiting
    /\ UNCHANGED <<link, broken, dropped>>

Drop ==
    /\ server # Waiting /\ server' = Waiting
    /\ dropped' = dropped \cup {server.send}
    /\ link' = Ended
    /\ UNCHANGED <<handed, broken>>

Next ==
    \/ Accept \/ Read \/ Ack \/ Return \/ Drop
    \/ \E i \in Send : Connect(i) \/ Write(i) \/ TakeAck(i) \/ Fail(i) \/ Break(i)

Spec == Init /\ [][Next]_vars

-----------------------------------------------------------------------------
TypeOK ==
    /\ link \in [Send -> [state : {"none", "asked", "open", "ended"},
                          data : {None, "good", "unfit"}, ack : BOOLEAN,
                          got : {None, "ok", "error"}]]
    /\ server \in [stage : {"accept", "read", "ack", "close"}, send : Send \cup {0}]
    /\ handed \subseteq Send /\ broken \subseteq Send /\ dropped \subseteq Send

\* A client that has its acknowledgement is right to forget the request: the
\* server has returned it or is about to, unless its caller dropped the call.
AckedIsTaken ==
    \A i \in Send : link[i].got = "ok" =>
      i \in handed \cup dropped \/ server = [stage |-> "close", send |-> i]

\* A client that was told of an error, and so sends again, doubles a request
\* only if the network broke the connection: the server does not close it on
\* its own acknowledgement.
DoubledOnlyIfBroken ==
    \A i \in handed : link[i].got = "error" => i \in broken
=============================================================================
