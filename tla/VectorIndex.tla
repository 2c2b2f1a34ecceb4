---------------------------- MODULE VectorIndex ----------------------------
(***************************************************************************)
(* The vector index behind the engine's index lock (src/engine.rs,         *)
(* VectorIndex) and the HNSW graph in it (src/hnsw/index.rs): the arena of *)
(* nodes, their neighbour lists per layer, the entry point, and the maps   *)
(* between engine keys and nodes.  The index part of put_indexed and of    *)
(* delete are the actions; nearest and nearest_filtered only read.         *)
(*                                                                         *)
(* A vector is a model of a point: only its distances count, and Dist      *)
(* gives them.  Every vector is inserted at most once, so no two distances *)
(* from one point are equal and the order in which the code's heaps and    *)
(* sorts leave equal distances is never asked for.  Node ids count from 1. *)
(* assign_level is a random choice: any level up to MaxLevel.              *)
(*                                                                         *)
(* A loop that handles each node at most once is a fold over the arena     *)
(* whose steps do nothing once the loop has ended.                         *)
(*                                                                         *)
(* An operator that no action uses, defined just above another one with    *)
(* the same parameters, is a deliberately wrong variant of that one, as in *)
(* module Lsm.                                                             *)
(***************************************************************************)
EXTENDS Integers, Sequences, FiniteSets, FiniteSetsExt, SequencesExt, TLC

CONSTANTS
    Keys, NoKey,
    Vectors,
    Rejected,        \* vectors that preprocess_vector refuses
    Dist,            \* [Vectors \X Vectors -> Nat], distance_for_metric
    MaxLevel,        \* the highest level assign_level draws (30 in the code)
    M, MMax0,        \* params.m, params.m_max_0
    EfConstruction, EfSearch,
    FilterFactor,    \* nearest_filtered's first over-query factor
    Queries, Ks      \* what the properties ask of the searches

NoNode == 0
NodeIds == 1 .. Cardinality(Vectors)
NoEntry == [node |-> NoNode, level |-> 0]
Levels == 0 .. MaxLevel

ASSUME IndexAssumption ==
    /\ NoKey \notin Keys /\ IsFiniteSet(Vectors)
    /\ Dist \in [Vectors \X Vectors -> Nat] /\ Rejected \subseteq Vectors
    /\ \A u, v \in Vectors : Dist[u, v] = Dist[v, u] /\ (Dist[u, v] = 0 <=> u = v)
    /\ \A u, v, w \in Vectors : v # w => Dist[u, v] # Dist[u, w]
    /\ MaxLevel \in Nat /\ M \in Nat \ {0} /\ MMax0 \in Nat
    /\ EfConstruction \in Nat \ {0} /\ EfSearch \in Nat /\ FilterFactor \in Nat \ {0}
    /\ Queries \subseteq Vectors /\ Ks \subseteq Nat

VARIABLES
    nodes,        \* HnswIndex.nodes: [vector, neighbors by layer, deleted]
    entry,        \* HnswIndex.entry
    key_to_node,  \* VectorIndex.key_to_node, NoNode for no mapping
    node_to_key   \* VectorIndex.node_to_key, NoKey for no mapping

vars == <<nodes, entry, key_to_node, node_to_key>>

-----------------------------------------------------------------------------
(* Distances and searches over a graph g (a value of nodes)                *)

distance(g, q, id) == Dist[q, g[id].vector]
Closest(g, q, S) == CHOOSE c \in S : \A d \in S : distance(g, q, c) <= distance(g, q, d)
Farthest(g, q, S) == CHOOSE c \in S : \A d \in S : distance(g, q, c) >= distance(g, q, d)
ByDistance(g, q, S) ==
    [i \in 1 .. Cardinality(S) |->
        CHOOSE c \in S : Cardinality({d \in S : distance(g, q, d) < distance(g, q, c)}) = i - 1]

Level(node) == Cardinality(DOMAIN node.neighbors) - 1
Arena(g) == [i \in DOMAIN g |-> i]

\* What of a list is in S, in the order of the list.
Kept(list, S) ==
    LET keep(kept, x) == IF x \in S THEN Append(kept, x) ELSE kept
    IN  FoldLeft(keep, <<>>, list)

\* greedy_search_layer: move to the closest neighbour while it is closer.
Nearer(g, q, current, layer) == Closest(g, q, {current} \cup ToSet(g[current].neighbors[layer]))
greedy_search_layer(g, q, start, layer) ==
    LET move(current, i) == Nearer(g, q, current, layer)
    IN  FoldLeft(move, start, Arena(g))

\* The way from the entry e down through the layers above lo.
Descend(g, q, e, lo) ==
    LET top == Max({e.level, lo})
        at[layer \in lo .. top] ==
            IF layer = top THEN e.node ELSE greedy_search_layer(g, q, at[layer + 1], layer + 1)
    IN  at[lo]

\* A visited node becomes a candidate and a result if it beats the worst
\* result, or if there is still room.
OnlyCloser(d, worst, size, ef) == d < worst
Admitted(d, worst, size, ef) == d < worst \/ size < ef

\* Of the neighbours of an expanded candidate, one that was not visited yet.
visit(g, q, ef, s, n) ==
    LET worst == distance(g, q, Farthest(g, q, s.results))
        wider == s.results \cup {n}
    IN  CASE n \in s.visited -> s
          [] n \notin s.visited /\ Admitted(distance(g, q, n), worst, Cardinality(s.results), ef) ->
                [visited |-> s.visited \cup {n},
                 candidates |-> s.candidates \cup {n},
                 results |-> IF Cardinality(wider) > ef
                             THEN wider \ {Farthest(g, q, wider)} ELSE wider]
          [] OTHER -> [s EXCEPT !.visited = @ \cup {n}]

visit_each(g, q, ef, s, list) ==
    LET next(t, n) == visit(g, q, ef, t, n)
    IN  FoldLeft(next, s, list)

\* The closest candidate, until it is farther than the worst result.
expand(g, q, layer, ef, s) ==
    LET c == Closest(g, q, s.candidates)
    IN  IF \/ s.candidates = {}
           \/ distance(g, q, c) > distance(g, q, Farthest(g, q, s.results))
        THEN s
        ELSE visit_each(g, q, ef, [s EXCEPT !.candidates = @ \ {c}], g[c].neighbors[layer])

\* search_layer: at most ef results.
Alone(start) == [visited |-> {start}, candidates |-> {start}, results |-> {start}]
beam(g, q, start, layer, ef) ==
    LET step(s, i) == expand(g, q, layer, ef, s)
    IN  FoldLeft(step, Alone(start), Arena(g))
search_layer(g, q, start, layer, ef) == beam(g, q, start, layer, ef).results

\* select_neighbors_heuristic: in order of distance, at most m, none closer to
\* one already chosen than to q.
Diverse(g, q, chosen, c) == \A i \in DOMAIN chosen :
                                distance(g, g[c].vector, chosen[i]) >= distance(g, q, c)
select_neighbors_heuristic(g, q, cands, m) ==
    LET choose(chosen, c) == IF Len(chosen) < m /\ Diverse(g, q, chosen, c)
                             THEN Append(chosen, c) ELSE chosen
    IN  FoldLeft(choose, <<>>, ByDistance(g, q, cands))

-----------------------------------------------------------------------------
(* Changing the graph                                                      *)

Cap(layer) == IF layer = 0 THEN MMax0 ELSE M

trim_neighbors(g, id, layer) ==
    LET list == g[id].neighbors[layer]
    IN  IF Len(list) <= Cap(layer) THEN g
        ELSE [g EXCEPT ![id].neighbors[layer] =
                 select_neighbors_heuristic(g, g[id].vector, ToSet(list), Cap(layer))]

\* The edge from id to n, and the trimming that follows it.
Untrimmed(g, id, n, layer) == [g EXCEPT ![id].neighbors[layer] = Append(@, n)]
LinkBack(g, id, n, layer) ==
    trim_neighbors([g EXCEPT ![id].neighbors[layer] = Append(@, n)], id, layer)

LinkEach(g, chosen, id, layer) ==
    LET link(h, c) == LinkBack(h, c, id, layer)
    IN  FoldLeft(link, g, chosen)

\* insert, phase 2, at one layer: s.g the graph so far, s.ep where to start.
LinkLayer(s, id, layer) ==
    LET v == s.g[id].vector
        found == search_layer(s.g, v, s.ep, layer, EfConstruction)
        chosen == select_neighbors_heuristic(s.g, v, found, M)
    IN  [g |-> LinkEach([s.g EXCEPT ![id].neighbors[layer] = chosen], chosen, id, layer),
         ep |-> Closest(s.g, v, found)]

EntryAfterInsert(e, id, level) == IF level > e.level THEN [node |-> id, level |-> level] ELSE e

insert(g, e, v, level) ==
    LET id == Len(g) + 1
        grown == Append(g, [vector |-> v, neighbors |-> [l \in 0 .. level |-> <<>>],
                            deleted |-> FALSE])
        top == Min({level, e.level}) + 1
        linked[layer \in 0 .. top] ==
            IF layer = top THEN [g |-> grown, ep |-> Descend(grown, v, e, level)]
            ELSE LinkLayer(linked[layer + 1], id, layer)
    IN  IF e = NoEntry THEN [g |-> grown, e |-> [node |-> id, level |-> level]]
        ELSE [g |-> linked[0].g, e |-> EntryAfterInsert(e, id, level)]

\* What repair may link n to: neither n itself nor what it is linked to.
NovelOrSelf(found, n, linked) == found \ linked
Novel(found, n, linked) == found \ ({n} \cup linked)

\* A new neighbour c of n, and n as one of c.
LinkBoth(g, n, c, layer) ==
    LinkBack([g EXCEPT ![n].neighbors[layer] = Append(@, c)], c, n, layer)
LinkBothEach(g, n, chosen, layer) ==
    LET link(h, c) == LinkBoth(h, n, c, layer)
    IN  FoldLeft(link, g, chosen)

\* repair_layer_after_delete, for one live neighbour n of the deleted node.
RepairNode(g, n, id, layer) ==
    LET v == g[n].vector
        cut == [g EXCEPT ![n].neighbors[layer] = Kept(@, DOMAIN g \ {id})]
        found == {c \in search_layer(cut, v, n, layer, EfConstruction) : ~cut[c].deleted}
        novel == Novel(found, n, ToSet(cut[n].neighbors[layer]))
        chosen == select_neighbors_heuristic(cut, v, novel, M)
    IN  trim_neighbors(LinkBothEach(cut, n, chosen, layer), n, layer)

LiveIn(g) == {i \in DOMAIN g : ~g[i].deleted}

repair_layer_after_delete(g, id, layer) ==
    LET affected == Kept(g[id].neighbors[layer], LiveIn(g))
        repair(h, n) == RepairNode(h, n, id, layer)
    IN  FoldLeft(repair, g, affected)

\* pick_new_entry: max_by_key keeps the last of the highest live nodes.
FirstLive(g) == IF LiveIn(g) = {} THEN NoEntry
                ELSE LET n == Min(LiveIn(g)) IN [node |-> n, level |-> Level(g[n])]
pick_new_entry(g) ==
    LET highest == {i \in LiveIn(g) : \A j \in LiveIn(g) : Level(g[j]) <= Level(g[i])}
    IN  IF highest = {} THEN NoEntry
        ELSE [node |-> Max(highest), level |-> Level(g[Max(highest)])]

\* delete: marked, repaired layer by layer, and out of the entry point.
LayersOf(node) == [i \in 1 .. Level(node) + 1 |-> i - 1]
RepairEach(g, id, layers) ==
    LET repair(h, layer) == repair_layer_after_delete(h, id, layer)
    IN  FoldLeft(repair, g, layers)
delete(g, e, id) ==
    LET repaired == RepairEach([g EXCEPT ![id].deleted = TRUE], id, LayersOf(g[id]))
    IN  [g |-> repaired, e |-> IF e.node = id THEN pick_new_entry(repaired) ELSE e]

-----------------------------------------------------------------------------
(* Searching and the engine's answers                                      *)

First(k, s) == SubSeq(s, 1, Min({k, Len(s)}))

NotFiltered(g, S) == S
Filtered(g, S) == {c \in S : ~g[c].deleted}

search(q, k) ==
    LET found == search_layer(nodes, q, Descend(nodes, q, entry, 0), 0, Max({EfSearch, 2 * k}))
    IN  IF nodes = <<>> \/ k = 0 \/ entry = NoEntry THEN <<>>
        ELSE First(k, ByDistance(nodes, q, Filtered(nodes, found)))

\* Results without a key are left out, the others mapped to their keys.
KeysOf(hits) ==
    LET known == Kept(hits, {id \in NodeIds : node_to_key[id] # NoKey})
    IN  [i \in DOMAIN known |-> node_to_key[known[i]]]

nearest(q, k) == KeysOf(search(q, k))

FirstPassOnly(found, k, asked, live) == TRUE
FilterDone(found, k, asked, live) == found = k \/ asked >= live

\* One over-query of nearest_filtered.
Attempt(q, k, pass, factor) ==
    LET live == Cardinality(LiveIn(nodes))
        asked == Min({k * factor, live})
        r == First(k, Kept(KeysOf(search(q, asked)), pass))
    IN  [factor |-> factor, r |-> r, done |-> FilterDone(Len(r), k, asked, live)]

\* nearest_filtered: double the factor until k keys pass or the search asked
\* for every live node.
Widened(q, k, pass, first) ==
    LET widen(a, i) == IF a.done THEN a ELSE Attempt(q, k, pass, 2 * a.factor)
    IN  FoldLeft(widen, first, Arena(nodes))
nearest_filtered(q, k, pass) ==
    IF k = 0 \/ LiveIn(nodes) = {} THEN <<>>
    ELSE Widened(q, k, pass, Attempt(q, k, pass, FilterFactor)).r

-----------------------------------------------------------------------------
(* VectorIndex: the maps, the actions and the snapshot                     *)

Indexed(k) == key_to_node[k] # NoNode

\* The graph and entry once the node of k, if any, is deleted.
NodeKept(k) == [g |-> nodes, e |-> entry]
Without(k) == IF Indexed(k) THEN delete(nodes, entry, key_to_node[k])
              ELSE [g |-> nodes, e |-> entry]

\* unregister removes both directions, register adds both.
KeyUnmapped(k) == node_to_key
unregister(k) == IF Indexed(k) THEN [node_to_key EXCEPT ![key_to_node[k]] = NoKey]
                 ELSE node_to_key
Unregisters(k) == /\ key_to_node' = [key_to_node EXCEPT ![k] = NoNode]
                  /\ node_to_key' = unregister(k)
register(k, id) == /\ key_to_node' = [key_to_node EXCEPT ![k] = id]
                   /\ node_to_key' = [unregister(k) EXCEPT ![id] = k]

\* The index part of put_indexed: the old node of the key goes first.
put_indexed(k, v, level) ==
    /\ v \notin Rejected /\ v \notin {nodes[i].vector : i \in DOMAIN nodes}
    /\ \E old \in {Without(k)} :
          LET new == insert(old.g, old.e, v, level)
          IN  nodes' = new.g /\ entry' = new.e /\ register(k, Len(new.g))

\* put_indexed with a vector the graph refuses: the old node is gone already.
put_rejected(k) ==
    /\ Rejected # {}
    /\ nodes' = Without(k).g /\ entry' = Without(k).e /\ Unregisters(k)

\* The index part of delete: nothing to do for a key that is not indexed.
Delete(k) ==
    /\ Indexed(k)
    /\ nodes' = Without(k).g /\ entry' = Without(k).e /\ Unregisters(k)

\* encode_snapshot writes, for each node, the key the engine maps to it; an
\* empty key for a node that has none.
encode_snapshot ==
    [nodes |-> nodes, entry |-> entry,
     keys |-> [i \in DOMAIN nodes |->
                  LET ks == {k \in Keys : key_to_node[k] = i}
                  IN  IF ks = {} THEN NoKey ELSE CHOOSE k \in ks : TRUE]]

\* decode_snapshot's consistency checks.
decode_snapshot_accepts(s) ==
    /\ \A i \in LiveIn(s.nodes) : s.keys[i] # NoKey
    /\ \A i, j \in LiveIn(s.nodes) : i # j => s.keys[i] # s.keys[j]
    /\ \A i \in DOMAIN s.nodes : \A l \in DOMAIN s.nodes[i].neighbors :
          ToSet(s.nodes[i].neighbors[l]) \subseteq DOMAIN s.nodes
    /\ s.entry # NoEntry => s.entry.node \in DOMAIN s.nodes
                            /\ s.entry.level <= Level(s.nodes[s.entry.node])

\* Live nodes populate the key map, and the reverse map is built from it.
DecodedNode(s, k) == LET ids == {i \in LiveIn(s.nodes) : s.keys[i] = k}
                     IN  IF ids = {} THEN NoNode ELSE Max(ids)

\* A snapshot read back.
Reload ==
    LET s == encode_snapshot
    IN  /\ decode_snapshot_accepts(s)
        /\ nodes' = s.nodes /\ entry' = s.entry
        /\ key_to_node' = [k \in Keys |-> DecodedNode(s, k)]
        /\ node_to_key' = [i \in NodeIds |-> IF i \in LiveIn(s.nodes) THEN s.keys[i] ELSE NoKey]

Init == /\ nodes = <<>> /\ entry = NoEntry
        /\ key_to_node = [k \in Keys |-> NoNode]
        /\ node_to_key = [i \in NodeIds |-> NoKey]

Next == \/ \E k \in Keys, v \in Vectors, level \in Levels : put_indexed(k, v, level)
        \/ \E k \in Keys : Delete(k) \/ put_rejected(k)
        \/ Reload

Spec == Init /\ [][Next]_vars

-----------------------------------------------------------------------------
(* Properties                                                              *)

Live == LiveIn(nodes)

\* A search never indexes a layer a node does not have: an edge at a layer
\* joins two nodes of at least that level, never a node with itself.
EdgesWithinLayers ==
    \A i \in DOMAIN nodes : \A l \in DOMAIN nodes[i].neighbors :
        \A n \in ToSet(nodes[i].neighbors[l]) :
            n \in DOMAIN nodes /\ n # i /\ l <= Level(nodes[n])

\* Between calls no neighbour list is over the cap of its layer, through all
\* pushes of insert and repair.  Nothing makes m_max_0 at least m, and the list
\* that insert gives the new node itself is not trimmed: with a smaller m_max_0
\* it holds up to m nodes at layer 0 until something is pushed onto it.
DegreeLimit(layer) == IF Cap(layer) >= M THEN Cap(layer) ELSE M
DegreeBounded ==
    \A i \in DOMAIN nodes : \A l \in DOMAIN nodes[i].neighbors :
        Len(nodes[i].neighbors[l]) <= DegreeLimit(l)

\* The entry point is a live node at its own top level, no live node is
\* higher, and there is one exactly when a live node exists.
EntryHighest ==
    /\ (entry = NoEntry) <=> (Live = {})
    /\ entry # NoEntry => /\ entry.node \in Live
                          /\ entry.level = Level(nodes[entry.node])
                          /\ \A i \in Live : Level(nodes[i]) <= entry.level

\* The two maps are inverse to each other and cover exactly the live nodes:
\* no vector of a deleted or overwritten key stays behind, none is lost.
KeysMatchLive ==
    /\ \A k \in Keys : Indexed(k) => node_to_key[key_to_node[k]] = k
    /\ \A i \in NodeIds : node_to_key[i] # NoKey => key_to_node[node_to_key[i]] = i
    /\ {i \in NodeIds : node_to_key[i] # NoKey} = Live

\* decode_snapshot never refuses what encode_snapshot wrote, and gives the
\* engine back the maps it had.
SnapshotReadable ==
    /\ decode_snapshot_accepts(encode_snapshot)
    /\ \A k \in Keys : DecodedNode(encode_snapshot, k) = key_to_node[k]

Ascending(q, keys) ==
    \A i, j \in DOMAIN keys : i < j =>
        distance(nodes, q, key_to_node[keys[i]]) < distance(nodes, q, key_to_node[keys[j]])

\* nearest answers with at most k keys of live vectors, closest first, and
\* drops none of the hits of the search for want of a key.
NearestSound ==
    \A q \in Queries, k \in Ks :
        LET r == nearest(q, k)
        IN  /\ Len(r) <= k /\ Len(r) = Len(search(q, k))
            /\ \A i \in DOMAIN r : Indexed(r[i])
            /\ Ascending(q, r)

Successors(S, layer) == UNION {ToSet(nodes[i].neighbors[layer]) : i \in S}
ReachableFrom(i, layer) ==
    LET grow(S, n) == S \cup Successors(S, layer)
    IN  FoldLeft(grow, {i}, Arena(nodes))

\* A beam wide enough for the whole arena finds every node reachable at the
\* layer, so the early exit of search_layer costs nothing then.
BeamExhaustive ==
    \A q \in Queries, i \in DOMAIN nodes : \A l \in DOMAIN nodes[i].neighbors :
        search_layer(nodes, q, i, l, Len(nodes)) = ReachableFrom(i, l)

Passing(pass, keys) == {x \in ToSet(keys) : x \in pass}

\* nearest_filtered returns at most k keys that pass, closest first, and fewer
\* than k only when even the search for every live node finds no other.
FilteredExhaustsSearch ==
    \A q \in Queries, k \in Ks, pass \in SUBSET {x \in Keys : Indexed(x)} :
        LET r == nearest_filtered(q, k, pass)
        IN  /\ Len(r) <= k /\ ToSet(r) \subseteq pass /\ Ascending(q, r)
            /\ Len(r) < k => ToSet(r) = Passing(pass, nearest(q, Cardinality(Live)))

\* nearest_filtered, if fewer than k vectors pass, returns all that pass.
FilteredComplete ==
    \A q \in Queries, k \in Ks, pass \in SUBSET {x \in Keys : Indexed(x)} :
        Cardinality(pass) < k => ToSet(nearest_filtered(q, k, pass)) = pass
=============================================================================
