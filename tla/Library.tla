------------------------------- MODULE Library -------------------------------
(***************************************************************************)
(* The shared data structures of the program, for TLC: the thread pool,    *)
(* the synchronised queue, the time wheel, the hash ring and the object    *)
(* tree.  They share no state, so each behaviour exercises one of them,    *)
(* chosen in the initial state, while the others stay as they were made.   *)
(***************************************************************************)
EXTENDS ThreadPool, SyncQueue, TimeWheel, HashRing, ObjectTree

VARIABLE part   \* the structure that this behaviour exercises

Parts == {"pool", "queue", "wheel", "ring", "tree"}

libVars == <<vars, qvars, wvars, hvars, ovars, part>>

(* Hash values that collide for some points of different nodes. *)
LibHash(h, j, i) ==
    LET n == CASE h = "h1" -> 0 [] h = "h2" -> 3 [] h = "h3" -> 4
    IN  (n + 5 * j + 2 * i * i) % Space

LibInit ==
    /\ part \in Parts
    /\ Init /\ QInit /\ WInit /\ HInit /\ OInit
    /\ part # "ring" => hosts = <<>>

(* A step of one part leaves the others alone. *)
Only(p, A) ==
    /\ part = p /\ A
    /\ p # "pool" => UNCHANGED vars
    /\ p # "queue" => UNCHANGED qvars
    /\ p # "wheel" => UNCHANGED wvars
    /\ p # "ring" => UNCHANGED hvars
    /\ p # "tree" => UNCHANGED ovars
    /\ UNCHANGED part

LibNext ==
    \/ Only("pool", Next) \/ Only("queue", QNext) \/ Only("wheel", WNext)
    \/ Only("ring", HNext) \/ Only("tree", ONext)

LibSafety == LibInit /\ [][LibNext]_libVars

(* Tasks end, and goroutines that can run do. *)
LibSpec ==
    /\ LibSafety
    /\ \A t \in Tasks : WF_libVars(Only("pool", TaskStep(t)))
    /\ \A v \in Waiters : WF_libVars(Only("pool", WaitStep(v)))
    /\ \A g \in Callers : WF_libVars(Only("tree", TreeStep(g)))
=============================================================================
