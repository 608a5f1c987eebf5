------------------------------ MODULE HashRing ------------------------------
(***************************************************************************)
(* hCommon/hashring.go: consistent hashing with weights.  A node has       *)
(* Points points for each of its `factor` replicas, on a circle of Space   *)
(* positions; a key belongs to the node of the first point after it.  The  *)
(* MD5 digests are a constant function, so that two points may collide.    *)
(* Every update builds a new circle (generateCircle) from nodes and        *)
(* weights, so these two are the state.                                    *)
(***************************************************************************)
EXTENDS Integers, Sequences, FiniteSets, SequencesExt

CONSTANTS
    Hosts,      \* node names
    Weights,    \* weights that the callers use
    Replicas,   \* replicas of a node of average weight (40)
    Points,     \* points per replica (3)
    Space,      \* number of hash values (2^32)
    Hash(_, _, _)  \* hashVal of the i-th part of hashDigest("node-j")

VARIABLES
    hosts,      \* HashRing.nodes
    weights     \* HashRing.weights: a function on some of Hosts

hvars == <<hosts, weights>>

Weight(h, ws) == IF h \in DOMAIN ws THEN ws[h] ELSE 1

TotalWeight(hs, ws) == FoldLeft(LAMBDA sum, h : sum + Weight(h, ws), 0, hs)

FactorUnscaled(h, hs, ws) ==
    (Replicas * Weight(h, ws) * Cardinality(Hosts)) \div TotalWeight(hs, ws)

(* Replicas of h: its share of Replicas * len(nodes), rounded down. *)
Factor(h, hs, ws) ==
    (Replicas * Len(hs) * Weight(h, ws)) \div TotalWeight(hs, ws)

(* generateCircle: the points of h, and the node that owns a point, which is
   the last one in `nodes` that has it. *)
PointsOf(h, hs, ws) ==
    {Hash(h, j, i) : j \in 0 .. Factor(h, hs, ws) - 1, i \in 0 .. Points - 1}

Ring(hs, ws) == UNION {PointsOf(hs[n], hs, ws) : n \in 1 .. Len(hs)}

Owner(p, hs, ws) ==
    hs[CHOOSE n \in 1 .. Len(hs) :
         /\ p \in PointsOf(hs[n], hs, ws)
         /\ \A m \in n + 1 .. Len(hs) : p \notin PointsOf(hs[m], hs, ws)]

(* GetNodes: the first `size` distinct owners of the points that follow the key,
   going round (GetNodePos searches for the first point greater than the key
   and wraps); GetNode is the first of them. *)
GetNodes(key, size, hs, ws) ==
    LET round  == [d \in 1 .. Space |-> (key + d) % Space]
        owners == FoldLeft(LAMBDA found, p :
                    IF p \notin Ring(hs, ws) \/ Contains(found, Owner(p, hs, ws))
                      THEN found ELSE Append(found, Owner(p, hs, ws)),
                    <<>>, round)
    IN  [nodes |-> IF size > Len(hs) THEN <<>>
                   ELSE IF size \in 1 .. Len(owners) THEN SubSeq(owners, 1, size)
                   ELSE owners,
         ok |-> size \in 1 .. Len(owners)]
-----------------------------------------------------------------------------
(* NewHashRing: nodes may be given, weights are not. *)
HInit ==
    /\ \E some \in SUBSET Hosts : hosts \in SetToSeqs(some)
    /\ weights = <<>>

(* AddNode is AddWeightedNode with weight 1; a node already there, or a weight
   that is not positive, changes nothing. *)
AddWeightedNode(h, w) ==
    /\ w > 0 /\ ~Contains(hosts, h)
    /\ hosts' = Append(hosts, h)
    /\ weights' = [x \in DOMAIN weights \cup {h} |->
                     IF x = h THEN w ELSE weights[x]]

UpdateWeightedNode(h, w) ==
    /\ w > 0 /\ h \in DOMAIN weights /\ weights[h] # w
    /\ weights' = [weights EXCEPT ![h] = w]
    /\ UNCHANGED hosts

RemoveNode(h) ==
    /\ Contains(hosts, h)
    /\ hosts' = SelectSeq(hosts, LAMBDA x : x # h)
    /\ weights' = [x \in DOMAIN weights \ {h} |-> weights[x]]

(* UpdateWithWeights: a different map replaces everything; Go's order of
   iteration over it becomes the order of the nodes. *)
UpdateWithWeights(ws) ==
    /\ ws # weights
    /\ weights' = ws
    /\ hosts' \in SetToSeqs(DOMAIN ws)

HNext ==
    \/ \E h \in Hosts :
          \/ RemoveNode(h)
          \/ \E w \in Weights : AddWeightedNode(h, w) \/ UpdateWeightedNode(h, w)
    \/ \E some \in SUBSET Hosts : \E ws \in [some -> Weights] : UpdateWithWeights(ws)
-----------------------------------------------------------------------------
EvenWeights == \A h, g \in ToSet(hosts) : Weight(h, weights) = Weight(g, weights)

(* Consistency, the point of the ring: while all weights are equal, adding a
   node takes keys only to that node and removing one takes keys only from it,
   for the first node of a key and for any number of replicas, collisions of
   points included (hashring.go:72-160, 166-195, 224-257). *)
OnlyToNewNode ==
    [][hosts # hosts' /\ EvenWeights /\ EvenWeights' =>
       \A key \in 0 .. Space - 1, size \in 1 .. Cardinality(Hosts), h \in Hosts :
          LET before == ToSet(GetNodes(key, size, hosts, weights).nodes)
              after  == ToSet(GetNodes(key, size, hosts', weights').nodes)
          IN  /\ hosts' = Append(hosts, h) /\ size <= Len(hosts)
                    => after \subseteq before \cup {h}
              /\ hosts' = SelectSeq(hosts, LAMBDA x : x # h) /\ size <= Len(hosts')
                    => before \subseteq after \cup {h}]_hvars
=============================================================================
