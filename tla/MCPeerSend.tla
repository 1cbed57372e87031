----------------------------- MODULE MCPeerSend -----------------------------
(* PeerSend with one message id, which is all its calls contend for: two    *)
(* ordinary contents, a privileged call bound to one process and a recovery. *)
EXTENDS PeerSend

MCRequests ==
    {[content |-> c, recovery |-> FALSE, privileged |-> FALSE, expect |-> Any] : c \in Contents}
    \cup [content : {CHOOSE c \in Contents : TRUE}, recovery : {TRUE},
          privileged : {TRUE}, expect : {1}]
=============================================================================
