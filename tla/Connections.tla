----------------------------- MODULE Connections -----------------------------
(***************************************************************************)
(* The connections graph: the seed every boot makes sure of, the nodes and *)
(* edges the model suggests, and the operator who curates them.            *)
(*                                                                         *)
(* An edge is identified by its ends and relation (uq_graph_edge), a node  *)
(* by its label (uq_graph_node_label).  What a session has added is        *)
(* written with its next commit, whatever that commit is for.              *)
(***************************************************************************)
EXTENDS Integers

CONSTANTS
  Relations,   \* the edges that may exist
  EndsOf,      \* EndsOf[e]: the labels edge e joins
  SeedEdges,   \* the edges of seed.json
  MaxAsks      \* bound: suggestions asked of the model

ASSUME GraphAssumption == SeedEdges \subseteq Relations /\ MaxAsks \in Nat

Labels == UNION {EndsOf[e] : e \in Relations}
SeedNodes == UNION {EndsOf[e] : e \in SeedEdges}

VARIABLES
  nodes,      \* the labels that are stored
  edges,      \* the edges that are stored -> "pending" or "approved"
  word,       \* word[e]: the operator's last act on edge e: history
  booted,     \* ensure_seed has run in this process
  asking,     \* a suggest request is under way
  items,      \* the suggestions it has not come to yet
  added,      \* the edges it has added and not committed
  asks        \* completions paid for: the usage rows of connections.suggest

suggestion == <<asking, items, added>>
graphVars == <<nodes, edges, word, booted, suggestion, asks>>

\* The edges with those of E that are missing.
With(E, state) ==
  [e \in DOMAIN edges \cup E |-> IF e \in DOMAIN edges THEN edges[e] ELSE state]

EndSuggest == asking' = FALSE /\ items' = {} /\ added' = {}

GraphInit ==
  /\ nodes = {} /\ edges = [e \in {} |-> "approved"]
  /\ word = [e \in Relations |-> "none"]
  /\ booted = FALSE /\ asking = FALSE /\ items = {} /\ added = {} /\ asks = 0

----------------------------------------------------------------------------
\* ensure_seed, at startup: each missing node in a commit of its own ...
SeedNode(n) ==
  /\ ~booted /\ n \in SeedNodes \ nodes
  /\ nodes' = nodes \cup {n}
  /\ UNCHANGED <<edges, word, booted, suggestion, asks>>

SeedEdgesFirst ==
  /\ ~booted
  /\ edges' = With(SeedEdges, "approved")
  /\ booted' = TRUE
  /\ UNCHANGED <<nodes, word, suggestion, asks>>

\* ... and the missing edges in the last one.  An edge the operator deleted is
\* missing too.
SeedTheEdges ==
  /\ ~booted /\ SeedNodes \subseteq nodes
  /\ edges' = With(SeedEdges, "approved")
  /\ booted' = TRUE
  /\ UNCHANGED <<nodes, word, suggestion, asks>>

\* "Connections seeding skipped": the boot goes on with what was committed.
SeedSkipped ==
  /\ ~booted
  /\ booted' = TRUE
  /\ UNCHANGED <<nodes, edges, word, suggestion, asks>>

\* The process goes down, with what the request has not committed.
GraphRestart ==
  /\ booted' = FALSE /\ EndSuggest
  /\ UNCHANGED <<nodes, edges, word, asks>>

----------------------------------------------------------------------------
\* suggest.

\* The model answers with some edges of node n, and the call is paid for; an answer
\* without an array ends the request with an error.
SuggestAnswered(n, S) ==
  /\ booted /\ ~asking /\ asks < MaxAsks
  /\ n \in nodes /\ \A e \in S : n \in EndsOf[e]
  /\ asking' = (S # {}) /\ items' = S /\ asks' = asks + 1
  /\ UNCHANGED <<nodes, edges, word, booted, added>>

\* _get_or_create_node and the look for the edge: a node that is new is committed,
\* and with it the edges added so far; an edge that is stored is passed over.
TakeItem(e) ==
  LET new == EndsOf[e] \ nodes IN
  /\ asking /\ e \in items
  /\ items' = items \ {e}
  /\ nodes' = nodes \cup new
  /\ edges' = IF new = {} THEN edges ELSE With(added, "pending")
  /\ added' = (IF new = {} THEN added ELSE {}) \cup ({e} \ DOMAIN edges)
  /\ UNCHANGED <<word, booted, asking, asks>>

KeepApproved ==
  /\ asking /\ items = {}
  /\ edges' = With(added, "approved")
  /\ EndSuggest
  /\ UNCHANGED <<nodes, word, booted, asks>>

\* The last commit.
KeepSuggestions ==
  /\ asking /\ items = {}
  /\ edges' = With(added, "pending")
  /\ EndSuggest
  /\ UNCHANGED <<nodes, word, booted, asks>>

\* A label or an edge another request stored meanwhile, an item that is not an
\* object: the request fails, and what it had committed stays.
SuggestFails ==
  /\ asking
  /\ EndSuggest
  /\ UNCHANGED <<nodes, edges, word, booted, asks>>

----------------------------------------------------------------------------
\* The operator.

CreateNode(n) ==
  /\ booted /\ n \notin nodes
  /\ nodes' = nodes \cup {n}
  /\ UNCHANGED <<edges, word, booted, suggestion, asks>>

ApproveEdge(e) ==
  /\ booted /\ e \in DOMAIN edges
  /\ edges' = [edges EXCEPT ![e] = "approved"]
  /\ word' = [word EXCEPT ![e] = "approved"]
  /\ UNCHANGED <<nodes, booted, suggestion, asks>>

DeleteEdge(e) ==
  /\ booted /\ e \in DOMAIN edges
  /\ edges' = [f \in DOMAIN edges \ {e} |-> edges[f]]
  /\ word' = [word EXCEPT ![e] = "deleted"]
  /\ UNCHANGED <<nodes, booted, suggestion, asks>>

GraphNext ==
  \/ \E n \in SeedNodes : SeedNode(n)
  \/ SeedTheEdges \/ SeedSkipped \/ GraphRestart
  \/ \E n \in Labels, S \in SUBSET Relations : SuggestAnswered(n, S)
  \/ \E e \in Relations : TakeItem(e) \/ ApproveEdge(e) \/ DeleteEdge(e)
  \/ KeepSuggestions \/ SuggestFails
  \/ \E n \in Labels : CreateNode(n)

GraphSpec == GraphInit /\ [][GraphNext]_graphVars

----------------------------------------------------------------------------
\* Every variable stays in its domain, and no edge dangles.
GraphTypeOK ==
  /\ nodes \subseteq Labels
  /\ DOMAIN edges \subseteq Relations
  /\ \A e \in DOMAIN edges : edges[e] \in {"pending", "approved"}
  /\ \A e \in DOMAIN edges \cup added : EndsOf[e] \subseteq nodes
  /\ word \in [Relations -> {"none", "approved", "deleted"}]
  /\ booted \in BOOLEAN /\ asking \in BOOLEAN /\ asks \in 0..MaxAsks
  /\ items \subseteq Relations /\ added \subseteq Relations

\* "store them unapproved" (service.py), and of the operator's edits of seeded edges
\* (seed.py): an edge the operator approved stays, approved, until the operator deletes
\* it, through suggestions, crashes and boots; and the graph the prompts read has no
\* edge but the seed's and those the operator approved.  A seed edge the operator
\* deleted is not promised to stay away: the next boot brings it back.
GraphKeepsOperatorsWord ==
  \A e \in Relations :
    /\ word[e] = "approved" => e \in DOMAIN edges /\ edges[e] = "approved"
    /\ e \in DOMAIN edges /\ edges[e] = "approved" =>
         e \in SeedEdges \/ word[e] = "approved"
=============================================================================
