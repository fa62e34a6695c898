----------------------------- MODULE MCChannel -----------------------------
(***************************************************************************)
(* Small instances of Channel for TLC.                                     *)
(***************************************************************************)
EXTENDS Channel

CONSTANTS a, b, s, w

(***************************************************************************)
(* Two clients, a server thread that receives often enough for all of them *)
(* and one that replies.                                                   *)
(***************************************************************************)
ServeOps ==
  [t \in Threads |->
     CASE t = a -> {"sync_send", "sync_call", "drop_memory"}
       [] t = b -> {"try_send", "sync_send", "sync_call", "drop_channel"}
       [] t = s -> {"sync_recv"}
       [] t = w -> {"reply"}]
ServeLimit == [t \in Threads |-> IF t = s THEN 5 ELSE IF t = w THEN 0 ELSE 2]

(***************************************************************************)
(* Every operation, with timeouts, failing copies and exits.               *)
(***************************************************************************)
AllOps ==
  [t \in Threads |->
     CASE t = a -> {"sync_send", "sync_call", "exit"}
       [] t = b -> {"async_send", "async_call", "async_recv", "reply", "drop_reply", "drop_memory"}
       [] t = s -> {"sync_recv", "try_recv", "async_recv_auto", "reply"}]
AllLimit == [t \in Threads |-> IF t = b THEN 1 ELSE 2]
=============================================================================
