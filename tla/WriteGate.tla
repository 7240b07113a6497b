------------------------------ MODULE WriteGate ------------------------------
(***************************************************************************)
(* What a ClusterActor's write gate promises (spec 4.F and section 8):    *)
(* while the gate is closed, client writes are held in a queue; when it    *)
(* opens, the held writes are released and come back, one at a time and  *)
(* in the order they were held, to be decided (committed, MOVED, or held  *)
(* again if the gate has closed once more).  Writes that never met a       *)
(* closed gate are not the gate's concern.                                 *)
(***************************************************************************)
EXTENDS Sequences

CONSTANT Write

VARIABLES
    blocked,    \* the gate is closed
    queue,      \* writes held, in arrival order
    released    \* writes let out and not yet decided, in order

gateVars == <<blocked, queue, released>>

Init == blocked = FALSE /\ queue = <<>> /\ released = <<>>

Block ==
    /\ ~blocked
    /\ blocked' = TRUE
    /\ UNCHANGED <<queue, released>>

(* A write arriving at a closed gate joins the back of the queue.           *)
Hold(w) ==
    /\ blocked
    /\ queue' = Append(queue, w)
    /\ UNCHANGED <<blocked, released>>

(* Opening the gate releases the whole queue behind earlier releases.      *)
Open ==
    /\ blocked
    /\ blocked' = FALSE
    /\ released' = released \o queue
    /\ queue' = <<>>

(* The oldest released write is decided, or held again at a closed gate.    *)
Readmit ==
    /\ released # <<>>
    /\ released' = Tail(released)
    /\ queue' = IF blocked THEN Append(queue, Head(released)) ELSE queue
    /\ UNCHANGED blocked

Next == Block \/ Open \/ Readmit \/ \E w \in Write : Hold(w)

Spec == Init /\ [][Next]_gateVars

====
