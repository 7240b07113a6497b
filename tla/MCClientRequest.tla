--------------------------- MODULE MCClientRequest ---------------------------
(* Scaled instance of ClientRequest: now = 10 ms, chrono's range +-100 ms, *)
(* 2^64 = 2048.  "-90" puts the expiry before the epoch, "999" beyond the    *)
(* range chrono can represent.                                               *)
EXTENDS ClientRequest, TLC

MCWord == {"a", "px", "host:port", "lazy", "nodes", "info", "forget", "meet", "reshard"}
MCNumVal == ("5" :> 5) @@ ("-90" :> -90) @@ ("999" :> 999)
====
